------------------------ MODULE WorkcellKernelProofs ------------------------
(***************************************************************************)
(* The kernel keeps its rows consistent for every number of slots and      *)
(* callers and every policy.  Inv is inductive: RowInv ties the rows to    *)
(* each other, CurrentCallIsValid ties what a caller has read to the rows  *)
(* it will write.  Neither is inductive alone: a transaction keeps RowInv  *)
(* only when its check still holds at commit, and a check still holds only *)
(* because every transaction of another caller moves the version on.       *)
(***************************************************************************)
EXTENDS WorkcellKernel, WorkcellStoreProofs, FiniteSetTheorems

Inv == TypeOK /\ RowInv /\ CurrentCallIsValid

-----------------------------------------------------------------------------
(* What a call has read. *)

(* A call whose version is current may write what it was allowed to write. *)
LEMMA CommittedCall ==
    ASSUME Inv, NEW c \in Client, call[c].op # "idle", run.version = call[c].seen.version
    PROVE  call[c].seen = run /\ StillAllowed(call[c])
BY DEF Inv, CurrentCallIsValid

(* A transaction that moves the version on leaves no call current. *)
LEMMA OtherCallsGoStale ==
    ASSUME Inv, run'.version = run.version + 1,
           Children \subseteq Children', Reviewers \subseteq Reviewers',
           \A c \in Client : call'[c] = call[c] \/ call'[c] = Idle
    PROVE  CurrentCallIsValid'
<1>1. run.version \in Nat /\ run'.version \in Nat /\ run'.version > run.version
  BY DEF Inv, TypeOK, RowsTypeOK, RunRow
<1>2. ASSUME NEW c \in Client, call'[c].op # "idle"
      PROVE  /\ call'[c].seen.version \in Nat /\ call'[c].seen.version < run'.version
             /\ call'[c].op = "start" => call'[c].slots \subseteq Children'
             /\ call'[c].op = "review" => call'[c].slots \subseteq Reviewers'
  <2>1. call'[c] = call[c]
    BY <1>2 DEF Idle
  <2>2. call[c].seen.version \in Nat
    BY DEF Inv, TypeOK, Calls, RunRow
  <2>3. QED BY <1>1, <1>2, <2>1, <2>2 DEF Inv, CurrentCallIsValid
<1>3. QED BY <1>1, <1>2 DEF CurrentCallIsValid

(* Commits put the caller back to idle and touch no other call. *)
LEMMA WrittenCall ==
    ASSUME Inv, NEW c \in Client, NEW op, Write(c, op)
    PROVE  /\ call' \in [Client -> Calls]
           /\ \A d \in Client : call'[d] = call[d] \/ call'[d] = Idle
<1>1. Idle \in Calls
  BY DEF Idle, Calls, Op, RunRow, RunStatus, Error
<1>2. QED BY <1>1 DEF Inv, TypeOK, Write

-----------------------------------------------------------------------------
(* Begin: a caller reads and checks. *)

LEMMA BeginKeeps ==
    ASSUME Inv, NEW c \in Client, NEW op \in Op, NEW slots, NEW verdict,
           Call(op, slots, verdict) \in Calls,
           Begin(c, Call(op, slots, verdict)), StillAllowed(Call(op, slots, verdict)),
           op = "start" => slots \subseteq Children, op = "review" => slots \subseteq Reviewers
    PROVE  Inv'
<1> DEFINE k == Call(op, slots, verdict)
<1>1. k \in Calls
  OBVIOUS
<1>2. RowInv'
  BY UnchangedRows DEF Begin, Inv, RowInv, RowsTypeOK
<1>3. TypeOK'
  BY <1>1, <1>2 DEF Begin, Inv, TypeOK, RowInv
<1>4. /\ k.seen = run /\ k.slots = slots /\ k.op = op /\ run.version \in Nat
  BY DEF Call, Inv, TypeOK, RowsTypeOK, RunRow
<1>5. /\ Children' = Children /\ Reviewers' = Reviewers /\ run' = run
      /\ \A x : StillAllowed(x)' <=> StillAllowed(x)
  BY DEF Begin, rows, Children, Reviewers, StillAllowed, MayPlan, MayVerify, MayReview,
     MaySynthesize, MayComplete, Finished, Writers, CollectingLaunchedBatch
<1>6. ASSUME NEW d \in Client, call'[d].op # "idle"
      PROVE  /\ call'[d].seen.version <= run.version
             /\ call'[d].seen.version = run.version => call'[d].seen = run /\ StillAllowed(call'[d])
             /\ call'[d].op = "start" => call'[d].slots \subseteq Children
             /\ call'[d].op = "review" => call'[d].slots \subseteq Reviewers
  <2>1. CASE d = c
    <3>1. call'[d] = k
      BY <2>1 DEF Begin, Inv, TypeOK
    <3>2. QED BY <1>4, <3>1
  <2>2. CASE d # c
    <3>1. call'[d] = call[d]
      BY <2>2 DEF Begin, Inv, TypeOK
    <3>2. QED BY <1>6, <3>1 DEF Inv, CurrentCallIsValid
  <2>3. QED BY <2>1, <2>2
<1>7. CurrentCallIsValid'
  BY <1>5, <1>6 DEF CurrentCallIsValid
<1>8. QED BY <1>2, <1>3, <1>7 DEF Inv

LEMMA BeginStepKeeps ==
    ASSUME Inv, NEW c \in Client, BeginStep(c)
    PROVE  Inv'
<1> USE DEF StillAllowed, Call, Op
<1>0. run \in RunRow
  BY DEF Inv, TypeOK, RowsTypeOK
<1>1. CASE \E assigned \in SUBSET Slot : BeginPlan(c, assigned)
  BY <1>0, <1>1, BeginKeeps DEF Calls, BeginPlan
<1>2. CASE \E s \in Slot : BeginStart(c, s)
  <2>1. PICK s \in Slot : BeginStart(c, s)
    BY <1>2
  <2>2. s \in Children /\ {s} \in SUBSET Slot
    BY <2>1 DEF BeginStart, MayStart
  <2>3. QED BY <1>0, <2>1, <2>2, BeginKeeps DEF Calls, BeginStart
<1>3. CASE \E s \in Slot, v \in {"passed", "failed"} : BeginVerify(c, s, v)
  BY <1>0, <1>3, BeginKeeps DEF Calls, BeginVerify
<1>4. CASE \E s \in Slot, v \in {"clean", "blocking"} : BeginReview(c, s, v)
  <2>1. PICK s \in Slot, v \in {"clean", "blocking"} : BeginReview(c, s, v)
    BY <1>4
  <2>2. s \in Reviewers /\ {s} \in SUBSET Slot
    BY <2>1 DEF BeginReview, MayReview
  <2>3. QED BY <1>0, <2>1, <2>2, BeginKeeps DEF Calls, BeginReview
<1>5. CASE BeginSynthesize(c)
  BY <1>0, <1>5, BeginKeeps DEF Calls, BeginSynthesize
<1>6. CASE BeginValidate(c)
  BY <1>0, <1>6, BeginKeeps DEF Calls, BeginValidate
<1>7. CASE BeginComplete(c)
  BY <1>0, <1>7, BeginKeeps DEF Calls, BeginComplete
<1>8. CASE BeginCancel(c)
  BY <1>0, <1>8, BeginKeeps DEF Calls, BeginCancel
<1>9. CASE BeginFail(c)
  BY <1>0, <1>9, BeginKeeps DEF Calls, BeginFail
<1>10. CASE EnsureDeadline(c)
  BY <1>0, <1>10, BeginKeeps DEF Calls, EnsureDeadline
<1>11. QED
  BY <1>1, <1>2, <1>3, <1>4, <1>5, <1>6, <1>7, <1>8, <1>9, <1>10 DEF BeginStep

-----------------------------------------------------------------------------
(* Commit: one lemma per transaction that compares versions. *)

LEMMA CommitPlanKeeps ==
    ASSUME Inv, NEW c \in Client, CommitPlan(c)
    PROVE  Inv'
<1>1. /\ call[c].op = "plan" /\ run.version = call[c].seen.version
      /\ call[c].slots \in SUBSET Slot /\ UNCHANGED clock
  BY DEF CommitPlan, Write, PutPlan, CompareAndSet, Inv, TypeOK, Calls
<1>2. call[c].seen = run /\ MayPlan(call[c].slots)
  BY <1>1, CommittedCall DEF StillAllowed
<1>3. PutPlan(run, call[c].slots)
  BY <1>2 DEF CommitPlan
<1>4. RowInv'
  BY <1>1, <1>2, <1>3, PutPlanKeepsRows DEF Inv
<1>5. /\ run'.version = run.version + 1
      /\ Children \subseteq Children' /\ Reviewers \subseteq Reviewers'
  BY <1>3 DEF PutPlan, CompareAndSet, Children, Reviewers
<1>6. QED BY <1>4, <1>5, WrittenCall, OtherCallsGoStale DEF CommitPlan, Inv, TypeOK, RowInv

LEMMA CommitVerifyKeeps ==
    ASSUME Inv, NEW c \in Client, CommitVerify(c)
    PROVE  Inv'
<1>1. /\ call[c].op = "verify" /\ run.version = call[c].seen.version /\ UNCHANGED clock
      /\ call[c].slots # {} /\ call[c].verdict \in {"passed", "failed"}
  BY DEF CommitVerify, Write, PutVerification, CompareAndSet, Inv, TypeOK, Calls
<1>2. call[c].seen = run /\ \A w \in call[c].slots : MayVerify(w)
  BY <1>1, CommittedCall DEF StillAllowed
<1>3. PICK w \in call[c].slots : MayVerify(w) /\ w \in Writers
  BY <1>1, <1>2 DEF MayVerify
<1>4. PutVerification(run, call[c].verdict)
  BY <1>2 DEF CommitVerify
<1>5. RowInv'
  BY <1>1, <1>3, <1>4, PutVerificationKeepsRows DEF Inv
<1>6. run'.version = run.version + 1 /\ Children' = Children /\ Reviewers' = Reviewers
  BY <1>4 DEF PutVerification, CompareAndSet, Children, Reviewers
<1>7. QED BY <1>5, <1>6, WrittenCall, OtherCallsGoStale DEF CommitVerify, Inv, TypeOK, RowInv

LEMMA CommitReviewKeeps ==
    ASSUME Inv, NEW c \in Client, CommitReview(c)
    PROVE  Inv'
<1>1. PICK s \in call[c].slots : PutReview(call[c].seen, s, call[c].verdict)
  BY DEF CommitReview
<1>2. /\ call[c].op = "review" /\ run.version = call[c].seen.version /\ UNCHANGED clock
      /\ call[c].verdict \in {"clean", "blocking"}
  BY <1>1 DEF CommitReview, Write, PutReview, CompareAndSet, Inv, TypeOK, Calls
<1>3. call[c].seen = run /\ MayReview(s) /\ s \in Reviewers
  BY <1>1, <1>2, CommittedCall DEF StillAllowed, MayReview
<1>4. PutReview(run, s, call[c].verdict)
  BY <1>1, <1>3
<1>5. RowInv'
  BY <1>2, <1>3, <1>4, PutReviewKeepsRows DEF Inv
<1>6. run'.version = run.version + 1 /\ Children' = Children /\ Reviewers' = Reviewers
  BY <1>4 DEF PutReview, CompareAndSet, Children, Reviewers
<1>7. QED BY <1>5, <1>6, WrittenCall, OtherCallsGoStale DEF CommitReview, Inv, TypeOK, RowInv

LEMMA CommitSynthesizeKeeps ==
    ASSUME Inv, NEW c \in Client, CommitSynthesize(c)
    PROVE  Inv'
<1>1. call[c].op = "synthesize" /\ run.version = call[c].seen.version /\ UNCHANGED clock
  BY DEF CommitSynthesize, Write, StartSynthesis, CompareAndSet
<1>2. call[c].seen = run /\ MaySynthesize
  BY <1>1, CommittedCall DEF StillAllowed
<1>3. StartSynthesis(run)
  BY <1>2 DEF CommitSynthesize
<1>4. RowInv'
  BY <1>1, <1>2, <1>3, StartSynthesisKeepsRows DEF Inv
<1>5. run'.version = run.version + 1 /\ Children' = Children /\ Reviewers' = Reviewers
  BY <1>3 DEF StartSynthesis, CompareAndSet, Children, Reviewers
<1>6. QED BY <1>4, <1>5, WrittenCall, OtherCallsGoStale DEF CommitSynthesize, Inv, TypeOK, RowInv

LEMMA CommitCompleteKeeps ==
    ASSUME Inv, NEW c \in Client, CommitComplete(c)
    PROVE  Inv'
<1>1. call[c].op = "complete" /\ run.version = call[c].seen.version /\ UNCHANGED clock
  BY DEF CommitComplete, Write, PutResult, CompareAndSet
<1>2. call[c].seen = run /\ MayComplete
  BY <1>1, CommittedCall DEF StillAllowed
<1>3. PutResult(run)
  BY <1>2 DEF CommitComplete
<1>4. RowInv'
  BY <1>1, <1>2, <1>3, PutResultKeepsRows DEF Inv
<1>5. run'.version = run.version + 1 /\ Children' = Children /\ Reviewers' = Reviewers
  BY <1>3 DEF PutResult, CompareAndSet, Children, Reviewers
<1>6. QED BY <1>4, <1>5, WrittenCall, OtherCallsGoStale DEF CommitComplete, Inv, TypeOK, RowInv

(* cancel, fail and timeout. *)
LEMMA CommitTerminateKeeps ==
    ASSUME Inv, NEW c \in Client, NEW op \in {"cancel", "fail", "timeout"}, Write(c, op),
           NEW status \in Terminal \ {"succeeded"}, NEW error \in Error,
           Terminate(call[c].seen, status, error)
    PROVE  Inv'
<1>1. call[c].op = op /\ run.version = call[c].seen.version /\ UNCHANGED clock
  BY DEF Write, Terminate, CompareAndSet
<1>2. call[c].seen = run /\ ~Finished
  BY <1>1, CommittedCall DEF StillAllowed
<1>3. Terminate(run, status, error)
  BY <1>2
<1>4. RowInv'
  BY <1>1, <1>2, <1>3, TerminateKeepsRows DEF Inv
<1>5. run'.version = run.version + 1 /\ Children' = Children /\ Reviewers' = Reviewers
  BY <1>3 DEF Terminate, CompareAndSet, Children, Reviewers
<1>6. QED BY <1>4, <1>5, WrittenCall, OtherCallsGoStale DEF Inv, TypeOK, RowInv

-----------------------------------------------------------------------------
(* Commits that compare no version: the transaction checks its own rows. *)

LEMMA CommitStartKeeps ==
    ASSUME Inv, NEW c \in Client, CommitStart(c)
    PROVE  Inv'
<1>1. PICK s \in call[c].slots : StartChild(s)
  BY DEF CommitStart
<1>2. s \in Children /\ UNCHANGED clock
  BY DEF CommitStart, Write, Inv, CurrentCallIsValid
<1>3. RowInv'
  BY <1>1, <1>2, StartChildKeepsRows DEF Inv
<1>4. run'.version = run.version + 1 /\ Children' = Children /\ Reviewers' = Reviewers
  BY <1>1 DEF StartChild, Bump, Children, Reviewers, Inv, TypeOK, RowsTypeOK, RunRow
<1>5. QED BY <1>3, <1>4, WrittenCall, OtherCallsGoStale DEF CommitStart, Inv, TypeOK, RowInv

LEMMA CommitValidateKeeps ==
    ASSUME Inv, NEW c \in Client, CommitValidate(c)
    PROVE  Inv'
<1>1. PutResultValidation /\ Write(c, "validate") /\ UNCHANGED clock
  BY DEF CommitValidate, Write
<1>2. RowInv'
  BY <1>1, PutResultValidationKeepsRows DEF Inv
<1>3. /\ run' = run /\ Children' = Children /\ Reviewers' = Reviewers
      /\ \A x : StillAllowed(x) => StillAllowed(x)'
  BY <1>1 DEF PutResultValidation, Children, Reviewers, Writers, StillAllowed, MayPlan, MayVerify,
     MayReview, MaySynthesize, MayComplete, Finished, CollectingLaunchedBatch
<1>4. \A d \in Client : call'[d] = call[d] \/ call'[d] = Idle
  BY <1>1, WrittenCall
<1>5. Idle.op = "idle"
  BY DEF Idle
<1>6. CurrentCallIsValid'
  BY <1>3, <1>4, <1>5 DEF Inv, CurrentCallIsValid
<1>7. QED BY <1>1, <1>2, <1>6, WrittenCall DEF Inv, TypeOK, RowInv

(* The steps that change neither the rows nor what a live call has read. *)
LEMMA QuietStepKeeps ==
    ASSUME Inv, UNCHANGED rows, clock' \in {"ample", "short", "expired"},
           call' \in [Client -> Calls], \A d \in Client : call'[d] = call[d] \/ call'[d] = Idle
    PROVE  Inv'
<1>1. RowInv'
  BY UnchangedRows DEF Inv
<1>2. /\ run' = run /\ Children' = Children /\ Reviewers' = Reviewers
      /\ \A x : StillAllowed(x) => StillAllowed(x)'
  BY DEF rows, Children, Reviewers, Writers, StillAllowed, MayPlan, MayVerify,
     MayReview, MaySynthesize, MayComplete, Finished, CollectingLaunchedBatch
<1>3. Idle.op = "idle"
  BY DEF Idle
<1>4. CurrentCallIsValid'
  BY <1>2, <1>3 DEF Inv, CurrentCallIsValid
<1>5. QED BY <1>1, <1>4 DEF Inv, TypeOK, RowInv

LEMMA CommitStepKeeps ==
    ASSUME Inv, NEW c \in Client, CommitStep(c)
    PROVE  Inv'
<1>1. CASE CommitPlan(c) BY <1>1, CommitPlanKeeps
<1>2. CASE CommitStart(c) BY <1>2, CommitStartKeeps
<1>3. CASE CommitVerify(c) BY <1>3, CommitVerifyKeeps
<1>4. CASE CommitReview(c) BY <1>4, CommitReviewKeeps
<1>5. CASE CommitSynthesize(c) BY <1>5, CommitSynthesizeKeeps
<1>6. CASE CommitValidate(c) BY <1>6, CommitValidateKeeps
<1>7. CASE CommitComplete(c) BY <1>7, CommitCompleteKeeps
<1>8. CASE CommitCancel(c)
  BY <1>8, CommitTerminateKeeps DEF CommitCancel, Terminal, Error
<1>9. CASE CommitFail(c)
  BY <1>9, CommitTerminateKeeps DEF CommitFail, Terminal, Error
<1>10. CASE CommitTimeout(c)
  BY <1>10, CommitTerminateKeeps DEF CommitTimeout, Terminal, Error
<1>11. CASE Abort(c)
  <2>1. Idle \in Calls
    BY DEF Idle, Calls, Op, RunRow, RunStatus, Error
  <2>2. QED BY <1>11, <2>1, QuietStepKeeps DEF Abort, Inv, TypeOK, RowsTypeOK
<1>12. QED
  BY <1>1, <1>2, <1>3, <1>4, <1>5, <1>6, <1>7, <1>8, <1>9, <1>10, <1>11 DEF CommitStep

-----------------------------------------------------------------------------
(* The steps of the lanes, the process and the clock. *)

LEMMA ChildStepKeeps ==
    ASSUME Inv, NEW s \in Slot, ChildStep(s)
    PROVE  Inv'
<1>1. s \in Children /\ UNCHANGED <<clock, call>>
  BY DEF ChildStep
<1>2. RowInv' /\ run'.version = run.version + 1 /\ UNCHANGED plan
  <2>1. CASE FinishChild(s)
    BY <1>1, <2>1, FinishChildKeepsRows
    DEF FinishChild, Bump, Inv, TypeOK, RowsTypeOK, RunRow
  <2>2. CASE FailChild(s, "CHILD_AGENT_FAILED") \/ FailChild(s, InvalidReview)
    <3>1. "CHILD_AGENT_FAILED" \in Error /\ InvalidReview \in Error
      BY DEF Error
    <3>2. RowInv'
      BY <1>1, <2>2, <3>1, FailChildKeepsRows DEF Inv
    <3>3. QED BY <2>2, <3>2 DEF FailChild
  <2>3. CASE RetryChildAttempt(s)
    <3>1. /\ s \in Agent /\ s # Main /\ "delegate" \in Phase
          /\ Open(attempts[s]) # {} /\ AppendRetry(s, "delegate")
      BY <2>3, KernelAssumption DEF RetryChildAttempt, Agent, Phase
    <3>2. RowInv'
      BY <1>1, <3>1, AppendRetryKeepsRows DEF Inv
    <3>3. Bump /\ UNCHANGED plan
      BY <3>1 DEF AppendRetry
    <3>4. QED BY <3>2, <3>3 DEF Bump, Inv, TypeOK, RowsTypeOK, RunRow
  <2>4. QED BY <2>1, <2>2, <2>3 DEF ChildStep, Inv
<1>3. Children' = Children /\ Reviewers' = Reviewers
  BY <1>2 DEF Children, Reviewers
<1>4. CurrentCallIsValid'
  BY <1>1, <1>2, <1>3, OtherCallsGoStale
<1>5. QED BY <1>1, <1>2, <1>4 DEF Inv, TypeOK, RowInv

LEMMA RetryStepKeeps ==
    ASSUME Inv, RetryStep
    PROVE  Inv'
<1>1. PICK a \in Agent, phase \in Phase :
          /\ AppendRetry(a, phase)
          /\ \E i \in Open(attempts[a]) : attempts[a][i].phase = phase
  <2>1. CASE \E a \in Children \cup {Main}, phase \in Phase : RetryTransient(a, phase)
    <3>1. Children \cup {Main} \subseteq Agent
      BY DEF Agent, Children, Inv, TypeOK, RowsTypeOK
    <3>2. QED BY <2>1, <3>1 DEF RetryTransient, RetryAttemptPhase
  <2>2. CASE RetrySynthesis
    BY <2>2 DEF RetrySynthesis, RetryAttemptPhase, Agent, Phase
  <2>3. QED BY <2>1, <2>2 DEF RetryStep
<1>2. UNCHANGED <<clock, call>>
  BY DEF RetryStep
<1>3. RowInv'
  BY <1>1, <1>2, AppendRetryKeepsRows DEF Inv
<1>4. Bump /\ UNCHANGED plan
  BY <1>1 DEF AppendRetry
<1>5. run'.version = run.version + 1 /\ Children' = Children /\ Reviewers' = Reviewers
  BY <1>4 DEF Bump, Children, Reviewers, Inv, TypeOK, RowsTypeOK, RunRow
<1>6. CurrentCallIsValid'
  BY <1>2, <1>5, OtherCallsGoStale
<1>7. QED BY <1>2, <1>3, <1>6 DEF Inv, TypeOK, RowInv

LEMMA RestartKeeps ==
    ASSUME Inv, Restart
    PROVE  Inv'
<1>1. /\ call' \in [Client -> Calls] /\ UNCHANGED clock
      /\ \A d \in Client : call'[d] = call[d] \/ call'[d] = Idle
  BY DEF Restart, Idle, Calls, Op, RunRow, RunStatus, Error
<1>2. CASE InterruptRunning
  <2>1. RowInv'
    BY <1>1, <1>2, InterruptRunningKeepsRows DEF Inv
  <2>2. run'.version = run.version + 1 /\ Children' = Children /\ Reviewers' = Reviewers
    BY <1>2 DEF InterruptRunning, Children, Reviewers
  <2>3. QED BY <1>1, <2>1, <2>2, OtherCallsGoStale DEF Inv, TypeOK, RowInv
<1>3. CASE UNCHANGED rows
  BY <1>1, <1>3, QuietStepKeeps DEF Inv, TypeOK, RowsTypeOK
<1>4. QED BY <1>2, <1>3 DEF Restart

LEMMA DeadlineKeeps ==
    ASSUME Inv, Deadline
    PROVE  Inv'
BY QuietStepKeeps DEF Deadline, Tick, Inv, TypeOK

LEMMA InvIsInductive ==
    ASSUME Inv, [Next]_vars
    PROVE  Inv'
<1>1. CASE \E c \in Client : BeginStep(c) \/ CommitStep(c)
  BY <1>1, BeginStepKeeps, CommitStepKeeps
<1>2. CASE \E s \in Slot : ChildStep(s)
  BY <1>2, ChildStepKeeps
<1>3. CASE RetryStep BY <1>3, RetryStepKeeps
<1>4. CASE Restart BY <1>4, RestartKeeps
<1>5. CASE Deadline BY <1>5, DeadlineKeeps
<1>6. CASE UNCHANGED vars
  BY <1>6, QuietStepKeeps DEF vars, rows, Inv, TypeOK, RowsTypeOK
<1>7. QED BY <1>1, <1>2, <1>3, <1>4, <1>5, <1>6 DEF Next

LEMMA InitEstablishesInv ==
    ASSUME Init PROVE Inv
<1>1. RowInv
  BY CreateEstablishesRows DEF Init
<1>2. Idle \in Calls /\ Idle.op = "idle"
  BY DEF Idle, Calls, Op, RunRow, RunStatus, Error
<1>3. QED BY <1>1, <1>2 DEF Init, Inv, TypeOK, RowInv, CurrentCallIsValid

-----------------------------------------------------------------------------
(* The theorems *)

THEOREM Invariance == Spec => []Inv
<1>1. Init => Inv BY InitEstablishesInv
<1>2. Inv /\ [Next]_vars => Inv' BY InvIsInductive
<1>3. QED BY <1>1, <1>2, PTL DEF Spec

(* The rows and the pending calls stay in their domains. *)
THEOREM TypeCorrect == Spec => []TypeOK
<1>1. Inv => TypeOK BY DEF Inv
<1>2. QED BY <1>1, Invariance, PTL

(* Every combination of retries, failures, cancellations and restarts leaves
   each AgentRun with a running Attempt exactly when it is running. *)
THEOREM AttemptsMatchAgents == Spec => []AttemptMatchesAgent
<1>1. Inv => AttemptMatchesAgent BY DEF Inv, RowInv
<1>2. QED BY <1>1, Invariance, PTL

(* No interleaving of callers lets a run succeed on incomplete evidence. *)
THEOREM SuccessNeedsEvidence == Spec => []SucceededOnEvidence
<1>1. Inv => SucceededOnEvidence BY DEF Inv, RowInv
<1>2. QED BY <1>1, Invariance, PTL

(* No interleaving of callers revives a run that has evidence against it. *)
THEOREM AdverseEvidenceDecides == Spec => []AdverseEvidenceIsFatal
<1>1. Inv => AdverseEvidenceIsFatal BY DEF Inv, RowInv
<1>2. QED BY <1>1, Invariance, PTL

(* No Reviewer is started, and no review recorded, before the verification. *)
THEOREM ReviewsFollowVerification == Spec => []ReviewAfterVerification
<1>1. Inv => ReviewAfterVerification BY DEF Inv, RowInv
<1>2. QED BY <1>1, Invariance, PTL

(* A stopped run has no AgentRun left that runs or could be started. *)
THEOREM StoppedRunsAreQuiet == Spec => []StoppedRunIsQuiet
<1>1. Inv => StoppedRunIsQuiet BY DEF Inv, RowInv
<1>2. QED BY <1>1, Invariance, PTL

(* The version check protects everything a caller has read. *)
THEOREM CurrentCallsAreValid == Spec => []CurrentCallIsValid
<1>1. Inv => CurrentCallIsValid BY DEF Inv
<1>2. QED BY <1>1, Invariance, PTL

-----------------------------------------------------------------------------
(* A verdict is final *)

(* In a succeeded run nothing is open: no Child or Attempt is left to act on,
   and no call that compares versions was allowed on what it shows. *)
LEMMA SucceededStep ==
    ASSUME Inv, run.status = "succeeded", [Next]_vars
    PROVE  UNCHANGED <<run, agent, attempts, plan, verification, reviews, result>>
<1>1. \A a \in Agent : agent[a] \notin {"planned", "running"} /\ Open(attempts[a]) = {}
  BY DEF Inv, RowInv, SucceededOnEvidence, UnplannedIsAbsent, AttemptMatchesAgent, Agent
<1>2. Children \subseteq Agent /\ Main \in Agent /\ Finished /\ ~CollectingLaunchedBatch
  BY DEF Inv, TypeOK, RowsTypeOK, Children, Agent, Finished, Terminal, CollectingLaunchedBatch
<1>3. ASSUME NEW c \in Client, BeginStep(c) \/ CommitStep(c)
      PROVE  UNCHANGED <<run, agent, attempts, plan, verification, reviews, result>>
  <2>1. CASE BeginStep(c)
    BY <2>1 DEF BeginStep, BeginPlan, BeginStart, BeginVerify, BeginReview, BeginSynthesize,
       BeginValidate, BeginComplete, BeginCancel, BeginFail, EnsureDeadline, Begin, rows
  <2>2. CASE CommitStart(c)
    BY <1>1, <1>2, <2>2 DEF CommitStart, StartChild, Write, Inv, CurrentCallIsValid
  <2>3. CASE CommitValidate(c) \/ Abort(c)
    BY <2>3 DEF CommitValidate, PutResultValidation, Abort, rows
  <2>4. CASE call[c].op \in Op \ {"idle", "start", "validate"} /\ run.version = call[c].seen.version
    <3>1. call[c].seen = run /\ StillAllowed(call[c])
      BY <2>4, CommittedCall
    <3>2. call[c] \in Calls
      BY DEF Inv, TypeOK
    <3>3. call[c].op \in {"verify", "review"}
      BY <1>2, <2>4, <3>1 DEF Op, StillAllowed, MayPlan, MaySynthesize, MayComplete, Finished,
         Terminal
    <3>4. call[c].op = "review" /\ \A s \in call[c].slots : FALSE
      BY <1>2, <3>1, <3>2, <3>3 DEF StillAllowed, MayVerify, MayReview, Calls
    <3>5. CommitReview(c) \/ Abort(c)
      BY <1>3, <3>4 DEF BeginStep, BeginPlan, BeginStart, BeginVerify, BeginReview,
         BeginSynthesize, BeginValidate, BeginComplete, BeginCancel, BeginFail, EnsureDeadline,
         Begin, CommitStep, CommitPlan, CommitStart, CommitVerify, CommitSynthesize,
         CommitValidate, CommitComplete, CommitCancel, CommitFail, CommitTimeout, Write
    <3>6. QED BY <2>3, <3>4, <3>5 DEF CommitReview
  <2>5. QED
    BY <1>3, <2>1, <2>2, <2>3, <2>4 DEF CommitStep, CommitPlan, CommitVerify, CommitReview,
       CommitSynthesize, CommitComplete, CommitCancel, CommitFail, CommitTimeout, Write, Op,
       PutPlan, PutVerification, PutReview, StartSynthesis, PutResult, Terminate, CompareAndSet
<1>4. ASSUME NEW s \in Slot, ChildStep(s) PROVE FALSE
  BY <1>1, <1>2, <1>4 DEF ChildStep, FinishChild, FailChild, RetryChildAttempt
<1>5. ASSUME RetryStep PROVE FALSE
  BY <1>2, <1>5 DEF RetryStep, RetryTransient, RetrySynthesis, RetryAttemptPhase
<1>6. CASE Restart
  BY <1>1, <1>6 DEF Restart, InterruptRunning, rows
<1>7. CASE Deadline \/ UNCHANGED vars
  BY <1>7 DEF Deadline, rows, vars
<1>8. QED BY <1>3, <1>4, <1>5, <1>6, <1>7 DEF Next

(* Once a run has succeeded no call, retry, failure or restart changes it. *)
THEOREM SuccessIsFinal == Spec => SucceededIsFinal
<1>1. Inv /\ [Next]_vars =>
        [run.status = "succeeded"
           => UNCHANGED <<run, agent, attempts, plan, verification, reviews, result>>]_vars
  BY SucceededStep
<1>2. QED BY <1>1, Invariance, PTL DEF Spec, SucceededIsFinal

-----------------------------------------------------------------------------
(* The load of the provider.  It follows from no row alone: Main runs only while
   the run plans or synthesizes, when no Child does, and only the count inside
   the transaction keeps the Children at max_concurrency. *)

RunningSlots == {s \in Slot : agent[s] = "running"}

LoadInv ==
    /\ agent[Main] = "running" => run.status \in {"planning", "synthesizing"}
    /\ Cardinality(RunningSlots) <= MaxConcurrency

(* Nobody but a started Child adds to the load. *)
LEMMA LoadStays ==
    ASSUME Inv, LoadInv, RunningSlots' \subseteq RunningSlots,
           agent'[Main] = "running" => run'.status \in {"planning", "synthesizing"}
    PROVE  LoadInv'
<1>1. IsFiniteSet(RunningSlots)
  BY KernelAssumption, FS_Subset DEF RunningSlots
<1>2. /\ Cardinality(RunningSlots') <= Cardinality(RunningSlots)
      /\ Cardinality(RunningSlots) \in Nat /\ Cardinality(RunningSlots') \in Nat
  BY <1>1, FS_Subset, FS_CardinalityType
<1>3. MaxConcurrency \in Nat
  BY KernelAssumption
<1>4. Cardinality(RunningSlots') <= MaxConcurrency
  BY <1>2, <1>3 DEF LoadInv
<1>5. Cardinality(RunningSlots)' = Cardinality(RunningSlots')
  OBVIOUS
<1>6. QED BY <1>4, <1>5 DEF LoadInv

(* Main does not run in a run that delegates, verifies, reviews or is over. *)
LEMMA CommitKeepsLoad ==
    ASSUME Inv, LoadInv, NEW c \in Client, CommitStep(c)
    PROVE  LoadInv'
<1>1. agent \in [Agent -> AgentStatus] /\ Slot \subseteq Agent /\ Main \in Agent /\ Main \notin Slot
  BY KernelAssumption DEF Inv, TypeOK, RowsTypeOK, Agent
<1>2. call[c].op # "idle" /\ run.version = call[c].seen.version => StillAllowed(call[c])
  BY CommittedCall
<1>3. CASE CommitPlan(c)
  <2>1. agent' = [a \in Agent |-> IF a \in call[c].slots THEN "planned"
                                  ELSE IF a = Main /\ agent[a] = "running" THEN "waiting"
                                  ELSE agent[a]]
    BY <1>3 DEF CommitPlan, PutPlan
  <2>2. RunningSlots' \subseteq RunningSlots /\ agent'[Main] # "running"
    BY <1>1, <2>1 DEF RunningSlots
  <2>3. QED BY <2>2, LoadStays
<1>4. CASE CommitStart(c)
  <2>1. PICK s \in call[c].slots : StartChild(s)
    BY <1>4 DEF CommitStart
  <2>2. s \in Children /\ agent[s] = "planned"
    BY <1>4, <2>1 DEF CommitStart, Write, Inv, CurrentCallIsValid, StartChild
  <2>3. s \in Slot /\ run.status \notin {"planning", "synthesizing"}
    BY <2>2, UnfinishedChild DEF Inv
  <2>4. /\ agent' = [agent EXCEPT ![s] = "running"]
        /\ Cardinality(RunningChildren) < MaxConcurrency
    BY <2>1 DEF StartChild
  <2>5. RunningChildren = RunningSlots
    BY <1>1 DEF RunningChildren, RunningSlots, Inv, RowInv, RowsTypeOK, UnplannedIsAbsent, Children
  <2>6. RunningSlots' = RunningSlots \cup {s} /\ agent'[Main] # "running"
    BY <1>1, <2>3, <2>4 DEF RunningSlots, LoadInv
  <2>7. IsFiniteSet(RunningSlots) /\ s \notin RunningSlots
    BY KernelAssumption, FS_Subset, <2>2 DEF RunningSlots
  <2>8. Cardinality(RunningSlots) \in Nat
        /\ Cardinality(RunningSlots \cup {s}) = Cardinality(RunningSlots) + 1
    BY <2>7, FS_AddElement, FS_CardinalityType
  <2>9. Cardinality(RunningSlots') <= MaxConcurrency
    BY <2>4, <2>5, <2>6, <2>8, KernelAssumption
  <2>10. Cardinality(RunningSlots)' = Cardinality(RunningSlots')
    OBVIOUS
  <2>11. QED BY <2>6, <2>9, <2>10 DEF LoadInv
<1>5. CASE CommitVerify(c)
  <2>1. /\ call[c].op = "verify" /\ run.version = call[c].seen.version /\ agent' = agent
    BY <1>5 DEF CommitVerify, Write, PutVerification, CompareAndSet
  <2>2. call[c].slots # {}
    BY <2>1 DEF Inv, TypeOK, Calls
  <2>3. run.status \in {"delegating", "verifying"}
    BY <1>2, <2>1, <2>2 DEF StillAllowed, MayVerify
  <2>4. QED BY <2>1, <2>3, LoadStays DEF LoadInv, RunningSlots
<1>6. CASE CommitReview(c)
  <2>1. /\ call[c].op = "review" /\ call[c].slots # {} /\ run.version = call[c].seen.version
        /\ agent' = agent
    BY <1>6 DEF CommitReview, Write, PutReview, CompareAndSet
  <2>2. run.status \in {"reviewing", "failed"}
    BY <1>2, <2>1 DEF StillAllowed, MayReview, CollectingLaunchedBatch
  <2>3. QED BY <2>1, <2>2, LoadStays DEF LoadInv, RunningSlots
<1>7. CASE CommitSynthesize(c)
  <2>1. agent' = [agent EXCEPT ![Main] = "running"] /\ run'.status = "synthesizing"
    BY <1>7 DEF CommitSynthesize, StartSynthesis, CompareAndSet
  <2>2. RunningSlots' \subseteq RunningSlots
    BY <1>1, <2>1 DEF RunningSlots
  <2>3. QED BY <2>1, <2>2, LoadStays
<1>8. CASE CommitValidate(c) \/ Abort(c)
  <2>1. agent' = agent /\ run' = run
    BY <1>8 DEF CommitValidate, PutResultValidation, Abort, rows
  <2>2. QED BY <2>1, LoadStays DEF LoadInv, RunningSlots
<1>9. CASE CommitComplete(c)
  <2>1. agent' = [agent EXCEPT ![Main] = IF @ = "running" THEN "succeeded" ELSE @]
    BY <1>9 DEF CommitComplete, PutResult
  <2>2. RunningSlots' \subseteq RunningSlots /\ agent'[Main] # "running"
    BY <1>1, <2>1 DEF RunningSlots
  <2>3. QED BY <2>2, LoadStays
<1>10. CASE CommitCancel(c) \/ CommitFail(c) \/ CommitTimeout(c)
  <2>1. PICK status \in {"cancelled", "failed", "timed_out"} :
          agent' = [a \in Agent |-> IF agent[a] \in Unfinished THEN status ELSE agent[a]]
    BY <1>10 DEF CommitCancel, CommitFail, CommitTimeout, Terminate
  <2>2. \A a \in Agent : agent'[a] # "running"
    BY <2>1 DEF Unfinished
  <2>3. RunningSlots' \subseteq RunningSlots /\ agent'[Main] # "running"
    BY <1>1, <2>2 DEF RunningSlots
  <2>4. QED BY <2>3, LoadStays
<1>11. QED BY <1>3, <1>4, <1>5, <1>6, <1>7, <1>8, <1>9, <1>10 DEF CommitStep

LEMMA StepKeepsLoad ==
    ASSUME Inv, LoadInv, [Next]_vars
    PROVE  LoadInv'
<1>1. agent \in [Agent -> AgentStatus] /\ Slot \subseteq Agent /\ Main \in Agent /\ Main \notin Slot
  BY KernelAssumption DEF Inv, TypeOK, RowsTypeOK, Agent
<1>2. ASSUME agent' = agent, run'.status = run.status PROVE LoadInv'
  BY <1>2, LoadStays DEF LoadInv, RunningSlots
<1>3. ASSUME NEW c \in Client, BeginStep(c) PROVE LoadInv'
  <2>1. agent' = agent /\ run' = run
    BY <1>3 DEF BeginStep, BeginPlan, BeginStart, BeginVerify, BeginReview, BeginSynthesize,
       BeginValidate, BeginComplete, BeginCancel, BeginFail, EnsureDeadline, Begin, rows
  <2>2. QED BY <1>2, <2>1
<1>4. ASSUME NEW s \in Slot, ChildStep(s) PROVE LoadInv'
  <2>1. s \in Children
    BY <1>4 DEF ChildStep
  <2>2. CASE FinishChild(s)
    <3>1. agent' = [agent EXCEPT ![s] = "succeeded"] /\ run' = [run EXCEPT !.version = @ + 1]
      BY <2>2 DEF FinishChild, Bump
    <3>2. run'.status = run.status
      BY <3>1 DEF Inv, TypeOK, RowsTypeOK, RunRow
    <3>3. RunningSlots' \subseteq RunningSlots /\ agent'[Main] = agent[Main]
      BY <1>1, <3>1 DEF RunningSlots
    <3>4. QED BY <3>2, <3>3, LoadStays DEF LoadInv
  <2>3. CASE \E error \in Error : FailChild(s, error)
    <3>1. /\ agent[s] = "running"
          /\ agent' = [a \in Agent |-> IF a = s THEN "failed"
                                       ELSE IF agent[a] \in {"planned", "waiting"} THEN "cancelled"
                                       ELSE agent[a]]
      BY <2>3 DEF FailChild
    <3>2. run.status \notin {"planning", "synthesizing"}
      BY <2>1, <3>1, UnfinishedChild DEF Inv
    <3>3. RunningSlots' \subseteq RunningSlots /\ agent'[Main] # "running"
      BY <1>1, <3>1, <3>2 DEF RunningSlots, LoadInv
    <3>4. QED BY <3>3, LoadStays
  <2>4. CASE RetryChildAttempt(s)
    <3>1. agent' = agent /\ run' = [run EXCEPT !.version = @ + 1]
      BY <2>4 DEF RetryChildAttempt, AppendRetry, Bump
    <3>2. run'.status = run.status
      BY <3>1 DEF Inv, TypeOK, RowsTypeOK, RunRow
    <3>3. QED BY <1>2, <3>1, <3>2
  <2>5. QED BY <1>4, <2>2, <2>3, <2>4 DEF ChildStep, Error
<1>5. CASE RetryStep
  <2>1. agent' = agent /\ run' = [run EXCEPT !.version = @ + 1]
    BY <1>5 DEF RetryStep, RetryTransient, RetrySynthesis, RetryAttemptPhase, AppendRetry, Bump
  <2>2. run'.status = run.status
    BY <2>1 DEF Inv, TypeOK, RowsTypeOK, RunRow
  <2>3. QED BY <1>2, <2>1, <2>2
<1>6. CASE Restart
  <2>1. CASE InterruptRunning
    <3>1. \A a \in Agent : agent'[a] # "running"
      BY <2>1 DEF InterruptRunning
    <3>2. RunningSlots' \subseteq RunningSlots /\ agent'[Main] # "running"
      BY <1>1, <3>1 DEF RunningSlots
    <3>3. QED BY <3>2, LoadStays
  <2>2. CASE UNCHANGED rows
    BY <1>2, <2>2 DEF rows
  <2>3. QED BY <1>6, <2>1, <2>2 DEF Restart
<1>7. CASE Deadline \/ UNCHANGED vars
  BY <1>2, <1>7 DEF Deadline, rows, vars
<1>8. QED BY <1>3, <1>4, <1>5, <1>6, <1>7, CommitKeepsLoad DEF Next

(* Main and its Children together never have more Attempts at the provider than
   max_concurrency allows, however many callers start Children at once. *)
THEOREM ProviderLoadIsBounded == Spec => []ProviderLoadBounded
<1>1. Init => LoadInv
  <2>1. SUFFICES ASSUME Init PROVE LoadInv
    OBVIOUS
  <2>2. run.status = "planning" /\ \A s \in Slot : agent[s] = "absent"
    BY <2>1, KernelAssumption DEF Init, Create, Agent
  <2>3. RunningSlots = {}
    BY <2>2 DEF RunningSlots
  <2>4. QED BY <2>2, <2>3, FS_EmptySet, KernelAssumption DEF LoadInv
<1>2. ASSUME Inv, LoadInv PROVE ProviderLoadBounded
  <2> DEFINE running == {a \in Agent : agent[a] = "running"}
  <2>1. CASE agent[Main] = "running"
    <3>1. run.status \in {"planning", "synthesizing"}
      BY <1>2, <2>1 DEF LoadInv
    <3>2. \A s \in Children : agent[s] # "running"
      BY <1>2, <3>1 DEF Inv, RowInv, SynthesisOnEvidence, UnplannedIsAbsent, Children
    <3>3. \A s \in Slot : agent[s] # "running"
      BY <1>2, <3>2 DEF Inv, RowInv, UnplannedIsAbsent
    <3>4. running = {Main}
      BY <2>1, <3>3 DEF Agent
    <3>5. Cardinality(running) <= MaxConcurrency
      BY <3>4, FS_Singleton, KernelAssumption
    <3>6. QED BY <3>2, <3>5 DEF ProviderLoadBounded, RunningChildren
  <2>2. CASE agent[Main] # "running"
    <3>1. running = RunningSlots
      BY <2>2 DEF Agent, RunningSlots
    <3>2. QED BY <1>2, <2>2, <3>1 DEF ProviderLoadBounded, LoadInv
  <2>3. QED BY <2>1, <2>2
<1>3. Inv /\ LoadInv /\ [Next]_vars => LoadInv'
  BY StepKeepsLoad
<1>4. QED BY <1>1, <1>2, <1>3, Invariance, PTL DEF Spec

-----------------------------------------------------------------------------
(* Refinement: a commit that goes through is what WorkcellStoreProofs says its
   transaction is to the pipeline. *)

LEMMA CommitRefines ==
    ASSUME Inv, NEW c \in Client, CommitStep(c)
    PROVE  [Contract!Next]_(Contract!contract)
<1>0. call[c] \in Calls
  BY DEF Inv, TypeOK
<1> DEFINE current == call[c].op # "idle" /\ run.version = call[c].seen.version
<1>1. ASSUME current PROVE call[c].seen = run /\ StillAllowed(call[c])
  BY <1>1, CommittedCall
<1>2. CASE CommitPlan(c)
  <2>1. current /\ call[c].slots \in SUBSET Slot
    BY <1>0, <1>2 DEF CommitPlan, Write, PutPlan, CompareAndSet, Calls
  <2>2. PutPlan(run, call[c].slots)
    BY <1>1, <1>2, <2>1 DEF CommitPlan
  <2>3. QED BY <2>1, <2>2, PutPlanDelegates DEF Inv
<1>3. CASE CommitVerify(c)
  <2>1. /\ current /\ call[c].op = "verify" /\ call[c].slots # {}
        /\ call[c].verdict \in {"passed", "failed"}
    BY <1>0, <1>3 DEF CommitVerify, Write, PutVerification, CompareAndSet, Calls
  <2>2. PutVerification(run, call[c].verdict)
    BY <1>1, <1>3, <2>1 DEF CommitVerify
  <2>3. PICK w \in call[c].slots : MayVerify(w)
    BY <1>1, <2>1 DEF StillAllowed
  <2>4. QED BY <2>1, <2>2, <2>3, PutVerificationVerifies DEF Inv
<1>4. CASE CommitReview(c)
  <2>1. PICK s \in call[c].slots : PutReview(call[c].seen, s, call[c].verdict)
    BY <1>4 DEF CommitReview
  <2>2. current /\ call[c].op = "review" /\ call[c].verdict \in {"clean", "blocking"}
    BY <1>0, <1>4, <2>1 DEF CommitReview, Write, PutReview, CompareAndSet, Calls
  <2>3. PutReview(run, s, call[c].verdict) /\ MayReview(s) /\ s \in Reviewers
    BY <1>1, <2>1, <2>2 DEF StillAllowed, MayReview
  <2>4. QED BY <2>2, <2>3, PutReviewReviews DEF Inv
<1>5. CASE CommitComplete(c)
  <2>1. current /\ call[c].op = "complete"
    BY <1>5 DEF CommitComplete, Write, PutResult, CompareAndSet
  <2>2. PutResult(run) /\ MayComplete
    BY <1>1, <1>5, <2>1 DEF CommitComplete, StillAllowed
  <2>3. QED BY <2>2, PutResultAccepts DEF Inv
<1>6. CASE CommitSynthesize(c)
  <2>1. current /\ call[c].op = "synthesize"
    BY <1>6 DEF CommitSynthesize, Write, StartSynthesis, CompareAndSet
  <2>2. StartSynthesis(run) /\ run.status \notin Terminal
    BY <1>1, <1>6, <2>1 DEF CommitSynthesize, StillAllowed, MaySynthesize, Finished
  <2>3. QED BY <2>2, RefuseOrStutter DEF StartSynthesis, CompareAndSet, Terminal
<1>7. CASE CommitCancel(c) \/ CommitFail(c) \/ CommitTimeout(c)
  <2>1. current /\ call[c].op \in {"cancel", "fail", "timeout"}
    BY <1>7 DEF CommitCancel, CommitFail, CommitTimeout, Write, Terminate, CompareAndSet
  <2>2. run.status \notin Terminal
    BY <1>1, <2>1 DEF StillAllowed, Finished
  <2>3. QED
    BY <1>7, <2>2, RefuseOrStutter DEF CommitCancel, CommitFail, CommitTimeout, Terminate,
       CompareAndSet, Terminal
<1>8. CASE CommitStart(c) \/ CommitValidate(c) \/ Abort(c)
  BY <1>8, RefuseOrStutter DEF CommitStart, CommitValidate, Abort, StartChild, Bump,
     PutResultValidation, rows, Inv, TypeOK, RowsTypeOK, RunRow
<1>9. QED BY <1>2, <1>3, <1>4, <1>5, <1>6, <1>7, <1>8 DEF CommitStep

LEMMA StepRefines ==
    ASSUME Inv, [Next]_vars
    PROVE  [Contract!Next]_(Contract!contract)
<1>1. CASE \E c \in Client : BeginStep(c)
  BY <1>1, RefuseOrStutter DEF BeginStep, BeginPlan, BeginStart, BeginVerify, BeginReview,
     BeginSynthesize, BeginValidate, BeginComplete, BeginCancel, BeginFail, EnsureDeadline,
     Begin, rows
<1>2. CASE \E c \in Client : CommitStep(c)
  BY <1>2, CommitRefines
<1>3. CASE \E s \in Slot : ChildStep(s)
  <2>1. PICK s \in Slot : ChildStep(s)
    BY <1>3
  <2>2. CASE FinishChild(s) \/ RetryChildAttempt(s)
    BY <2>2, RefuseOrStutter DEF FinishChild, RetryChildAttempt, AppendRetry, Bump,
       Inv, TypeOK, RowsTypeOK, RunRow
  <2>3. CASE \E error : FailChild(s, error)
    <3>1. run.status # "succeeded"
      BY <2>1, <2>3, UnfinishedChild DEF ChildStep, FailChild, Inv
    <3>2. QED BY <2>3, <3>1, RefuseOrStutter DEF FailChild, Terminal
  <2>4. QED BY <2>1, <2>2, <2>3 DEF ChildStep
<1>4. CASE RetryStep
  BY <1>4, RefuseOrStutter DEF RetryStep, RetryTransient, RetrySynthesis, RetryAttemptPhase,
     AppendRetry, Bump, Inv, TypeOK, RowsTypeOK, RunRow
<1>5. CASE Restart
  <2>1. CASE InterruptRunning
    <3>1. run.status # "succeeded"
      BY <2>1, SucceededStep, <1>5 DEF InterruptRunning, Next
    <3>2. QED BY <2>1, <3>1, RefuseOrStutter DEF InterruptRunning, Terminal
  <2>2. CASE UNCHANGED rows
    BY <2>2, RefuseOrStutter DEF rows
  <2>3. QED BY <1>5, <2>1, <2>2 DEF Restart
<1>6. CASE Deadline \/ UNCHANGED vars
  BY <1>6, RefuseOrStutter DEF Deadline, rows, vars
<1>7. QED BY <1>1, <1>2, <1>3, <1>4, <1>5, <1>6 DEF Next

(* The kernel keeps the promise of WorkcellContract: one verdict, on complete
   evidence, never revised. *)
THEOREM KernelImplementsContract == Spec => ImplementsContract
<1>1. Init => Contract!Init
  BY DEF Init, Create, Contract!Init, Finished, Terminal, Children
<1>2. Inv /\ [Next]_vars => [Contract!Next]_(Contract!contract)
  BY StepRefines
<1>3. QED BY <1>1, <1>2, Invariance, PTL DEF Spec, ImplementsContract, Contract!Spec
=============================================================================
