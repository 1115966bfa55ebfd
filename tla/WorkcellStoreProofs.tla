------------------------ MODULE WorkcellStoreProofs ------------------------
(***************************************************************************)
(* Every transaction of WorkcellStore keeps RowInv when the check its      *)
(* caller made on the tree still holds.  The lemmas say nothing of who     *)
(* calls: WorkcellKernelProofs combines them for concurrent callers.       *)
(***************************************************************************)
EXTENDS WorkcellStore, SequenceTheorems, TLAPS

-----------------------------------------------------------------------------
(* Closing and appending Attempts. *)

LEMMA CloseAttempts ==
    ASSUME NEW s \in Seq(AttemptRow), NEW status \in Terminal
    PROVE  /\ Close(s, status) \in Seq(AttemptRow)
           /\ Len(Close(s, status)) = Len(s)
           /\ Open(Close(s, status)) = {}
           /\ s # <<>> <=> Close(s, status) # <<>>
<1> DEFINE t == Close(s, status)
<1>1. /\ Len(s) \in Nat /\ DOMAIN s = 1 .. Len(s)
      /\ \A i \in 1 .. Len(s) : s[i] \in AttemptRow
  BY LenProperties, ElementOfSeq
<1>2. DOMAIN t = 1 .. Len(s) /\ t = [i \in 1 .. Len(s) |-> t[i]]
  BY <1>1 DEF Close
<1>3. ASSUME NEW i \in 1 .. Len(s)
      PROVE  t[i] \in AttemptRow /\ t[i].status # "running"
  <2>1. CASE s[i].status = "running"
    BY <1>1, <2>1 DEF Close, AttemptRow, Terminal
  <2>2. CASE s[i].status # "running"
    BY <1>1, <2>2 DEF Close, AttemptRow
  <2>3. QED BY <2>1, <2>2
<1>4. t \in [1 .. Len(s) -> AttemptRow]
  BY <1>2, <1>3
<1>5. t \in Seq(AttemptRow) /\ Len(t) = Len(s)
  BY <1>1, <1>4, SeqDef, LenProperties
<1>6. Open(t) = {}
  BY <1>2, <1>3 DEF Open
<1>7. s # <<>> <=> t # <<>>
  BY <1>5, EmptySeq
<1>8. QED BY <1>5, <1>6, <1>7

LEMMA ClosePhaseAttempts ==
    ASSUME NEW s \in Seq(AttemptRow), NEW phase \in Phase, NEW status \in Terminal
    PROVE  /\ ClosePhase(s, phase, status) \in Seq(AttemptRow)
           /\ Len(ClosePhase(s, phase, status)) = Len(s)
           /\ Open(ClosePhase(s, phase, status)) = {i \in Open(s) : s[i].phase # phase}
<1> DEFINE t == ClosePhase(s, phase, status)
<1>1. /\ Len(s) \in Nat /\ DOMAIN s = 1 .. Len(s)
      /\ \A i \in 1 .. Len(s) : s[i] \in AttemptRow
  BY LenProperties, ElementOfSeq
<1>2. DOMAIN t = 1 .. Len(s) /\ t = [i \in 1 .. Len(s) |-> t[i]]
  BY <1>1 DEF ClosePhase
<1>3. ASSUME NEW i \in 1 .. Len(s)
      PROVE  /\ t[i] \in AttemptRow
             /\ t[i].status = "running" <=> s[i].status = "running" /\ s[i].phase # phase
  <2>1. CASE s[i].status = "running" /\ s[i].phase = phase
    BY <1>1, <2>1 DEF ClosePhase, AttemptRow, Terminal
  <2>2. CASE ~(s[i].status = "running" /\ s[i].phase = phase)
    BY <1>1, <2>2 DEF ClosePhase, AttemptRow
  <2>3. QED BY <2>1, <2>2
<1>4. t \in [1 .. Len(s) -> AttemptRow]
  BY <1>2, <1>3
<1>5. t \in Seq(AttemptRow) /\ Len(t) = Len(s)
  BY <1>1, <1>4, SeqDef, LenProperties
<1>6. Open(t) = {i \in Open(s) : s[i].phase # phase}
  BY <1>1, <1>2, <1>3 DEF Open
<1>7. QED BY <1>5, <1>6

LEMMA AppendAttempt ==
    ASSUME NEW s \in Seq(AttemptRow), NEW phase \in Phase, Open(s) = {}
    PROVE  /\ Append(s, Row(phase)) \in Seq(AttemptRow)
           /\ Append(s, Row(phase)) # <<>>
           /\ Len(Append(s, Row(phase))) = Len(s) + 1
           /\ Append(s, Row(phase))[Len(s) + 1] = Row(phase)
           /\ Open(Append(s, Row(phase))) = {Len(s) + 1}
<1> DEFINE t == Append(s, Row(phase))
<1>1. Row(phase) \in AttemptRow /\ Row(phase).status = "running"
  BY DEF Row, AttemptRow
<1>2. /\ t \in Seq(AttemptRow) /\ t # <<>> /\ Len(t) = Len(s) + 1
      /\ \A i \in 1 .. Len(s) : t[i] = s[i]
      /\ t[Len(s) + 1] = Row(phase)
  BY <1>1, AppendProperties
<1>3. Len(s) \in Nat /\ DOMAIN s = 1 .. Len(s) /\ DOMAIN t = 1 .. Len(t)
  BY <1>2, LenProperties
<1>4. Open(t) = {Len(s) + 1}
  BY <1>1, <1>2, <1>3 DEF Open
<1>5. QED BY <1>2, <1>4

-----------------------------------------------------------------------------
(* One lemma per transaction. *)

LEMMA PutPlanKeepsRows ==
    ASSUME RowInv, NEW assigned \in SUBSET Slot, MayPlan(assigned),
           PutPlan(run, assigned), UNCHANGED clock
    PROVE  RowInv'
<1> USE KernelAssumption
<1>1. /\ run \in RunRow /\ attempts[Main] \in Seq(AttemptRow)
      /\ run' = [status |-> "delegating", version |-> run.version + 1, error |-> run.error]
      /\ run.status = "planning" /\ plan = {} /\ Children = {} /\ Children' = assigned
      /\ agent[Main] = "running"
  BY DEF RowInv, RowsTypeOK, PutPlan, CompareAndSet, MainInPhase, Children, Agent
<1>2. /\ attempts'[Main] \in Seq(AttemptRow) /\ Len(attempts'[Main]) = Len(attempts[Main])
      /\ Open(attempts'[Main]) = {}
  <2>1. attempts'[Main] = ClosePhase(attempts[Main], "planning", "succeeded")
    BY DEF PutPlan, RowInv, RowsTypeOK, Agent
  <2>2. \A i \in Open(attempts[Main]) : attempts[Main][i].phase = "planning"
    BY <1>1 DEF RowInv, MainInPhase
  <2>3. "planning" \in Phase /\ "succeeded" \in Terminal
    BY DEF Phase, Terminal
  <2>4. /\ attempts'[Main] \in Seq(AttemptRow) /\ Len(attempts'[Main]) = Len(attempts[Main])
        /\ Open(attempts'[Main]) = {i \in Open(attempts[Main]) : attempts[Main][i].phase # "planning"}
    BY <1>1, <2>1, <2>3, ClosePhaseAttempts
  <2>5. QED BY <2>2, <2>4
<1>3. \A s \in Slot : attempts'[s] = attempts[s] /\ agent[s] = "absent"
                      /\ agent'[s] = IF s \in assigned THEN "planned" ELSE "absent"
  BY <1>1 DEF PutPlan, RowInv, RowsTypeOK, Agent, UnplannedIsAbsent
<1>4. agent'[Main] = "waiting"
  BY <1>1 DEF PutPlan, Agent
<1>5. RowsTypeOK'
  BY <1>1, <1>2 DEF RowInv, RowsTypeOK, PutPlan, RunRow, RunStatus, AgentStatus, Unfinished, Agent, Terminal
<1>6. AttemptMatchesAgent'
  BY <1>2, <1>3, <1>4 DEF RowInv, AttemptMatchesAgent, Agent
<1>7. UnplannedIsAbsent' /\ MainInPhase'
  BY <1>1, <1>2, <1>3 DEF UnplannedIsAbsent, MainInPhase
<1>8. SynthesisOnEvidence' /\ SucceededOnEvidence' /\ StoppedRunIsQuiet'
  BY <1>1 DEF PutPlan, RowInv, SynthesisOnEvidence, SucceededOnEvidence, StoppedRunIsQuiet
<1>9. AdverseEvidenceIsFatal' /\ ReviewsOfReviewers' /\ ReviewAfterVerification'
  BY <1>1, <1>3 DEF PutPlan, RowInv, AdverseEvidenceIsFatal, ReviewsOfReviewers, Reviewers,
     ReviewAfterVerification, Terminal
<1>10. QED BY <1>5, <1>6, <1>7, <1>8, <1>9 DEF RowInv

(* Nothing but the status of one running or planned Child, and its Attempts,
   decides whether a Child may still change: a run that synthesizes or has
   succeeded has no such Child, and neither has a stopped one. *)
LEMMA UnfinishedChild ==
    ASSUME RowInv, NEW s \in Children, agent[s] \in {"planned", "running"}
    PROVE  /\ s \in Slot /\ s \in Agent /\ s # Main
           /\ run.status \notin {"planning", "synthesizing", "succeeded", "cancelled",
                                 "timed_out", "interrupted"}
           /\ ~result
<1>1. s \in Slot /\ s # Main /\ plan # {}
  BY KernelAssumption DEF RowInv, RowsTypeOK, Children
<1>2. run.status \notin {"cancelled", "timed_out", "interrupted"}
  BY <1>1 DEF RowInv, StoppedRunIsQuiet, Agent, Unfinished
<1>3. run.status \notin {"planning", "synthesizing", "succeeded"}
  BY <1>1 DEF RowInv, UnplannedIsAbsent, SynthesisOnEvidence
<1>4. ~result
  BY <1>3 DEF RowInv, SucceededOnEvidence
<1>5. QED BY <1>1, <1>2, <1>3, <1>4 DEF Agent

LEMMA StartChildKeepsRows ==
    ASSUME RowInv, NEW s \in Children, StartChild(s), UNCHANGED clock
    PROVE  RowInv'
<1>1. /\ s \in Slot /\ s \in Agent /\ s # Main /\ ~result
      /\ run.status \notin {"planning", "synthesizing", "succeeded", "cancelled",
                            "timed_out", "interrupted"}
  BY UnfinishedChild DEF StartChild
<1>2. run' = [run EXCEPT !.version = @ + 1] /\ run \in RunRow /\ run' \in RunRow
      /\ run'.status = run.status
  BY DEF RowInv, RowsTypeOK, StartChild, Bump, RunRow
<1>3. attempts[s] \in Seq(AttemptRow) /\ Open(attempts[s]) = {} /\ "delegate" \in Phase
  BY <1>1 DEF RowInv, RowsTypeOK, AttemptMatchesAgent, StartChild, Phase
<1>4. /\ attempts'[s] = Append(attempts[s], Row("delegate"))
      /\ agent'[s] = "running"
      /\ \A a \in Agent \ {s} : attempts'[a] = attempts[a] /\ agent'[a] = agent[a]
  BY <1>1 DEF StartChild, RowInv, RowsTypeOK
<1>5. /\ attempts'[s] \in Seq(AttemptRow) /\ Len(attempts'[s]) = Len(attempts[s]) + 1
      /\ Open(attempts'[s]) = {Len(attempts[s]) + 1}
  BY <1>3, <1>4, AppendAttempt
<1>6. RowsTypeOK'
  BY <1>1, <1>2, <1>5 DEF RowInv, RowsTypeOK, StartChild, AgentStatus, Unfinished
<1>7. AttemptMatchesAgent'
  BY <1>1, <1>4, <1>5 DEF RowInv, AttemptMatchesAgent
<1>8. Children' = Children /\ Writers' = Writers /\ Reviewers' = Reviewers
  BY DEF StartChild, Children, Writers, Reviewers
<1>9. UnplannedIsAbsent' /\ MainInPhase'
  BY <1>1, <1>2, <1>4, <1>8 DEF StartChild, RowInv, UnplannedIsAbsent, MainInPhase, Agent
<1>10. SynthesisOnEvidence' /\ SucceededOnEvidence' /\ StoppedRunIsQuiet'
  BY <1>1, <1>2 DEF StartChild, SynthesisOnEvidence, SucceededOnEvidence, StoppedRunIsQuiet
<1>11. AdverseEvidenceIsFatal' /\ ReviewsOfReviewers'
  BY <1>2, <1>8 DEF StartChild, RowInv, AdverseEvidenceIsFatal, ReviewsOfReviewers
<1>12. ReviewAfterVerification'
  BY <1>1, <1>4 DEF StartChild, RowInv, ReviewAfterVerification, Agent
<1>13. QED BY <1>6, <1>7, <1>9, <1>10, <1>11, <1>12 DEF RowInv

(* The two ends of a running Child: what its own rows become. *)
LEMMA EndedChild ==
    ASSUME RowInv, NEW s \in Children, NEW status \in Terminal, agent[s] = "running",
           attempts' = [attempts EXCEPT ![s] = Close(@, status)]
    PROVE  /\ attempts' \in [Agent -> Seq(AttemptRow)]
           /\ Open(attempts'[s]) = {} /\ attempts[s] # <<>>
           /\ \A a \in Agent \ {s} : attempts'[a] = attempts[a]
<1>1. s \in Agent
  BY UnfinishedChild
<1>2. attempts[s] \in Seq(AttemptRow) /\ attempts'[s] = Close(attempts[s], status)
      /\ Open(attempts[s]) = {Len(attempts[s])}
  BY <1>1 DEF RowInv, RowsTypeOK, AttemptMatchesAgent
<1>3. attempts'[s] \in Seq(AttemptRow) /\ Open(attempts'[s]) = {}
  BY <1>2, CloseAttempts
<1>4. attempts[s] # <<>>
  BY <1>2 DEF Open
<1>5. QED BY <1>1, <1>3, <1>4 DEF RowInv, RowsTypeOK

LEMMA FinishChildKeepsRows ==
    ASSUME RowInv, NEW s \in Children, FinishChild(s), UNCHANGED clock
    PROVE  RowInv'
<1>1. /\ s \in Slot /\ s \in Agent /\ s # Main /\ ~result /\ agent[s] = "running"
      /\ run.status \notin {"planning", "synthesizing", "succeeded", "cancelled",
                            "timed_out", "interrupted"}
  BY UnfinishedChild DEF FinishChild
<1>2. run' = [run EXCEPT !.version = @ + 1] /\ run \in RunRow /\ run' \in RunRow
      /\ run'.status = run.status
  BY DEF RowInv, RowsTypeOK, FinishChild, Bump, RunRow
<1>3. "succeeded" \in Terminal
  BY DEF Terminal
<1>4. /\ attempts' \in [Agent -> Seq(AttemptRow)]
      /\ Open(attempts'[s]) = {} /\ attempts[s] # <<>>
      /\ \A a \in Agent \ {s} : attempts'[a] = attempts[a]
  BY <1>1, <1>3, EndedChild DEF FinishChild
<1>5. agent'[s] = "succeeded" /\ \A a \in Agent \ {s} : agent'[a] = agent[a]
  BY <1>1 DEF FinishChild, RowInv, RowsTypeOK
<1>6. RowsTypeOK'
  BY <1>1, <1>2, <1>4 DEF RowInv, RowsTypeOK, FinishChild, AgentStatus, Terminal
<1>7. AttemptMatchesAgent'
  BY <1>1, <1>4, <1>5 DEF RowInv, AttemptMatchesAgent
<1>8. Children' = Children /\ Writers' = Writers /\ Reviewers' = Reviewers
  BY DEF FinishChild, Children, Writers, Reviewers
<1>9. UnplannedIsAbsent' /\ MainInPhase'
  BY <1>1, <1>2, <1>4, <1>5, <1>8 DEF FinishChild, RowInv, UnplannedIsAbsent, MainInPhase, Agent
<1>10. SynthesisOnEvidence' /\ SucceededOnEvidence' /\ StoppedRunIsQuiet'
  BY <1>1, <1>2 DEF FinishChild, SynthesisOnEvidence, SucceededOnEvidence, StoppedRunIsQuiet
<1>11. AdverseEvidenceIsFatal' /\ ReviewsOfReviewers'
  BY <1>2, <1>8 DEF FinishChild, RowInv, AdverseEvidenceIsFatal, ReviewsOfReviewers
<1>12. ReviewAfterVerification'
  BY <1>1, <1>4 DEF FinishChild, RowInv, ReviewAfterVerification, Agent
<1>13. QED BY <1>6, <1>7, <1>9, <1>10, <1>11, <1>12 DEF RowInv

LEMMA FailChildKeepsRows ==
    ASSUME RowInv, NEW s \in Children, NEW error \in Error, FailChild(s, error), UNCHANGED clock
    PROVE  RowInv'
<1>1. s \in Slot /\ s \in Agent /\ s # Main /\ ~result /\ agent[s] = "running"
  BY UnfinishedChild DEF FailChild
<1>2. run \in RunRow /\ run' \in RunRow /\ run'.status = "failed"
  BY DEF RowInv, RowsTypeOK, FailChild, RunRow, RunStatus, Terminal
<1>3. "failed" \in Terminal
  BY DEF Terminal
<1>4. /\ attempts' \in [Agent -> Seq(AttemptRow)]
      /\ Open(attempts'[s]) = {} /\ attempts[s] # <<>>
      /\ \A a \in Agent \ {s} : attempts'[a] = attempts[a]
  BY <1>1, <1>3, EndedChild DEF FailChild
<1>5. /\ agent'[s] = "failed"
      /\ \A a \in Agent \ {s} :
            agent'[a] = IF agent[a] \in {"planned", "waiting"} THEN "cancelled" ELSE agent[a]
  BY <1>1 DEF FailChild
<1>6. RowsTypeOK'
  BY <1>1, <1>2, <1>4 DEF RowInv, RowsTypeOK, FailChild, AgentStatus, Terminal
<1>7. AttemptMatchesAgent'
  BY <1>1, <1>4, <1>5 DEF RowInv, AttemptMatchesAgent
<1>8. Children' = Children /\ Writers' = Writers /\ Reviewers' = Reviewers
  BY DEF FailChild, Children, Writers, Reviewers
<1>9. UnplannedIsAbsent' /\ MainInPhase'
  BY <1>1, <1>2, <1>5, <1>8 DEF RowInv, UnplannedIsAbsent, MainInPhase, Agent
<1>10. SynthesisOnEvidence' /\ SucceededOnEvidence' /\ StoppedRunIsQuiet'
  BY <1>1, <1>2 DEF FailChild, SynthesisOnEvidence, SucceededOnEvidence, StoppedRunIsQuiet
<1>11. AdverseEvidenceIsFatal' /\ ReviewsOfReviewers'
  BY <1>2, <1>8 DEF FailChild, RowInv, AdverseEvidenceIsFatal, ReviewsOfReviewers, Terminal
<1>12. ReviewAfterVerification'
  BY <1>1, <1>4 DEF FailChild, RowInv, ReviewAfterVerification, Agent
<1>13. QED BY <1>6, <1>7, <1>9, <1>10, <1>11, <1>12 DEF RowInv

(* A retry closes the one running Attempt of an AgentRun and opens the next. *)
LEMMA AppendRetryKeepsRows ==
    ASSUME RowInv, NEW a \in Agent, NEW phase \in Phase, Open(attempts[a]) # {},
           a = Main => \E i \in Open(attempts[a]) : attempts[a][i].phase = phase,
           AppendRetry(a, phase), UNCHANGED clock
    PROVE  RowInv'
<1> DEFINE closed == Close(attempts[a], "failed")
<1>1. attempts[a] \in Seq(AttemptRow) /\ "failed" \in Terminal
  BY DEF RowInv, RowsTypeOK, Terminal
<1>2. agent[a] = "running" /\ Open(attempts[a]) = {Len(attempts[a])} /\ attempts[a] # <<>>
  BY DEF RowInv, AttemptMatchesAgent, Open
<1>3. closed \in Seq(AttemptRow) /\ Len(closed) = Len(attempts[a]) /\ Open(closed) = {}
  BY <1>1, CloseAttempts
<1>4. /\ attempts'[a] = Append(closed, Row(phase))
      /\ \A b \in Agent \ {a} : attempts'[b] = attempts[b]
  BY DEF AppendRetry, RowInv, RowsTypeOK
<1>5. /\ attempts'[a] \in Seq(AttemptRow) /\ Len(attempts'[a]) = Len(closed) + 1
      /\ Open(attempts'[a]) = {Len(closed) + 1}
      /\ attempts'[a][Len(closed) + 1].phase = phase
  BY <1>3, <1>4, AppendAttempt DEF Row
<1>6. run \in RunRow /\ run' \in RunRow /\ run'.status = run.status /\ agent' = agent
  <2>1. Bump /\ agent' = agent
    BY DEF AppendRetry
  <2>2. run \in RunRow
    BY DEF RowInv, RowsTypeOK
  <2>3. QED BY <2>1, <2>2 DEF Bump, RunRow
<1>7. RowsTypeOK'
  BY <1>5, <1>6 DEF RowInv, RowsTypeOK, AppendRetry
<1>8. AttemptMatchesAgent'
  BY <1>2, <1>4, <1>5, <1>6 DEF RowInv, AttemptMatchesAgent
<1>9. Children' = Children /\ Writers' = Writers /\ Reviewers' = Reviewers
  BY DEF AppendRetry, Children, Writers, Reviewers
<1>10. UnplannedIsAbsent'
  BY <1>6, <1>9 DEF AppendRetry, RowInv, UnplannedIsAbsent
<1>11. MainInPhase'
  <2>1. CASE a = Main
    BY <1>2, <1>4, <1>5, <1>6, <2>1 DEF RowInv, MainInPhase
  <2>2. CASE a # Main
    BY <1>4, <1>6, <2>2 DEF RowInv, MainInPhase, Agent
  <2>3. QED BY <2>1, <2>2
<1>12. SynthesisOnEvidence' /\ SucceededOnEvidence' /\ StoppedRunIsQuiet'
  BY <1>6, <1>9 DEF AppendRetry, RowInv, SynthesisOnEvidence, SucceededOnEvidence, StoppedRunIsQuiet
<1>13. AdverseEvidenceIsFatal' /\ ReviewsOfReviewers'
  BY <1>6, <1>9 DEF AppendRetry, RowInv, AdverseEvidenceIsFatal, ReviewsOfReviewers
<1>14. ReviewAfterVerification'
  BY <1>2, <1>4 DEF AppendRetry, RowInv, ReviewAfterVerification, Agent
<1>15. QED BY <1>7, <1>8, <1>10, <1>11, <1>12, <1>13, <1>14 DEF RowInv

LEMMA PutVerificationKeepsRows ==
    ASSUME RowInv, NEW w \in Writers, MayVerify(w), NEW verdict \in {"passed", "failed"},
           PutVerification(run, verdict), UNCHANGED clock
    PROVE  RowInv'
<1>1. /\ run \in RunRow /\ run' \in RunRow
      /\ run'.status = IF verdict = "passed" THEN "reviewing" ELSE "failed"
      /\ run.status \in {"delegating", "verifying"} /\ verification = "none"
      /\ verification' = verdict
  BY DEF RowInv, RowsTypeOK, PutVerification, CompareAndSet, MayVerify, RunRow, RunStatus,
     Terminal, Error
<1>2. Children' = Children /\ Writers' = Writers /\ Reviewers' = Reviewers
  BY DEF PutVerification, Children, Writers, Reviewers
<1>3. RowsTypeOK'
  BY <1>1 DEF RowInv, RowsTypeOK, PutVerification
<1>4. AttemptMatchesAgent' /\ UnplannedIsAbsent' /\ MainInPhase'
  BY <1>1, <1>2 DEF RowInv, PutVerification, AttemptMatchesAgent, UnplannedIsAbsent, MainInPhase
<1>5. SynthesisOnEvidence' /\ SucceededOnEvidence' /\ StoppedRunIsQuiet'
  BY <1>1 DEF RowInv, PutVerification, SynthesisOnEvidence, SucceededOnEvidence, StoppedRunIsQuiet
<1>6. ReviewsOfReviewers' /\ ReviewAfterVerification'
  BY <1>1, <1>2 DEF RowInv, PutVerification, ReviewsOfReviewers, ReviewAfterVerification, Reviewers
<1>7. AdverseEvidenceIsFatal'
  BY <1>1 DEF RowInv, PutVerification, AdverseEvidenceIsFatal, ReviewsOfReviewers,
     ReviewAfterVerification, Reviewers, Terminal
<1>8. QED BY <1>3, <1>4, <1>5, <1>6, <1>7 DEF RowInv

LEMMA PutReviewKeepsRows ==
    ASSUME RowInv, NEW s \in Reviewers, MayReview(s), NEW verdict \in {"clean", "blocking"},
           PutReview(run, s, verdict), UNCHANGED clock
    PROVE  RowInv'
<1>1. s \in Slot
  BY DEF RowInv, RowsTypeOK, Reviewers, Children
<1>2. /\ run \in RunRow /\ run' \in RunRow /\ run.status \in {"reviewing", "failed"}
      /\ verification = "passed" /\ reviews[s] = "none"
      /\ run'.status = IF run.status = "failed" \/ verdict = "blocking"
                         THEN "failed" ELSE "reviewing"
      /\ reviews' = [reviews EXCEPT ![s] = verdict]
  BY DEF RowInv, RowsTypeOK, PutReview, CompareAndSet, MayReview, CollectingLaunchedBatch,
     RunRow, RunStatus, Terminal, Error
<1>3. Children' = Children /\ Writers' = Writers /\ Reviewers' = Reviewers
  BY DEF PutReview, Children, Writers, Reviewers
<1>4. RowsTypeOK'
  BY <1>1, <1>2 DEF RowInv, RowsTypeOK, PutReview
<1>5. AttemptMatchesAgent' /\ UnplannedIsAbsent' /\ MainInPhase'
  BY <1>2, <1>3 DEF RowInv, PutReview, AttemptMatchesAgent, UnplannedIsAbsent, MainInPhase
<1>6. SynthesisOnEvidence' /\ SucceededOnEvidence' /\ StoppedRunIsQuiet'
  BY <1>2 DEF RowInv, PutReview, SynthesisOnEvidence, SucceededOnEvidence, StoppedRunIsQuiet
<1>7. ReviewsOfReviewers' /\ ReviewAfterVerification'
  BY <1>1, <1>2, <1>3 DEF RowInv, RowsTypeOK, PutReview, ReviewsOfReviewers, ReviewAfterVerification
<1>8. AdverseEvidenceIsFatal'
  BY <1>1, <1>2 DEF RowInv, RowsTypeOK, PutReview, AdverseEvidenceIsFatal, Terminal
<1>9. QED BY <1>4, <1>5, <1>6, <1>7, <1>8 DEF RowInv

LEMMA StartSynthesisKeepsRows ==
    ASSUME RowInv, MaySynthesize, StartSynthesis(run), UNCHANGED clock
    PROVE  RowInv'
<1>1. /\ run \in RunRow /\ run' \in RunRow /\ run'.status = "synthesizing"
      /\ agent[Main] = "waiting" /\ Main \in Agent
      /\ run.status \notin Terminal /\ run.status # "planning" /\ ~result
  BY DEF RowInv, RowsTypeOK, StartSynthesis, CompareAndSet, MaySynthesize, Finished, RunRow,
     RunStatus, Terminal, Agent, MainInPhase, SucceededOnEvidence
<1>2. attempts[Main] \in Seq(AttemptRow) /\ Open(attempts[Main]) = {} /\ "synthesis" \in Phase
  BY <1>1 DEF RowInv, RowsTypeOK, AttemptMatchesAgent, Phase
<1>3. /\ attempts'[Main] = Append(attempts[Main], Row("synthesis")) /\ agent'[Main] = "running"
      /\ \A a \in Agent \ {Main} : attempts'[a] = attempts[a] /\ agent'[a] = agent[a]
  BY <1>1 DEF StartSynthesis, RowInv, RowsTypeOK
<1>4. /\ attempts'[Main] \in Seq(AttemptRow) /\ Len(attempts'[Main]) = Len(attempts[Main]) + 1
      /\ Open(attempts'[Main]) = {Len(attempts[Main]) + 1}
      /\ attempts'[Main][Len(attempts[Main]) + 1].phase = "synthesis"
  BY <1>2, <1>3, AppendAttempt DEF Row
<1>5. \A s \in Slot : s \in Agent \ {Main}
  BY KernelAssumption DEF Agent
<1>6. Children' = Children /\ Writers' = Writers /\ Reviewers' = Reviewers
      /\ Children \subseteq Slot /\ Reviewers \subseteq Slot
  BY DEF StartSynthesis, Children, Writers, Reviewers, RowInv, RowsTypeOK
<1>7. RowsTypeOK'
  BY <1>1, <1>4 DEF RowInv, RowsTypeOK, StartSynthesis, AgentStatus, Unfinished
<1>8. AttemptMatchesAgent'
  BY <1>1, <1>3, <1>4 DEF RowInv, AttemptMatchesAgent
<1>9. UnplannedIsAbsent' /\ MainInPhase'
  BY <1>1, <1>3, <1>4, <1>5, <1>6 DEF RowInv, UnplannedIsAbsent, MainInPhase
<1>10. SynthesisOnEvidence'
  <2>1. \A s \in Children' : agent'[s] = "succeeded"
    BY <1>3, <1>5, <1>6 DEF MaySynthesize
  <2>2. Writers' # {} => verification' = "passed"
    BY <1>6 DEF MaySynthesize, StartSynthesis
  <2>3. \A s \in Reviewers' : reviews'[s] = "clean"
    BY <1>6 DEF MaySynthesize, StartSynthesis, RowInv, RowsTypeOK
  <2>4. QED BY <2>1, <2>2, <2>3 DEF SynthesisOnEvidence
<1>11. SucceededOnEvidence' /\ StoppedRunIsQuiet' /\ AdverseEvidenceIsFatal'
  BY <1>1 DEF StartSynthesis, SucceededOnEvidence, StoppedRunIsQuiet, RowInv,
     AdverseEvidenceIsFatal
<1>12. ReviewsOfReviewers' /\ ReviewAfterVerification'
  BY <1>3, <1>5, <1>6 DEF StartSynthesis, RowInv, ReviewsOfReviewers, ReviewAfterVerification
<1>13. QED BY <1>7, <1>8, <1>9, <1>10, <1>11, <1>12 DEF RowInv

(* record_result_validation does not compare versions: it may come late, and
   changes nothing a result rests on once there is one. *)
LEMMA PutResultValidationKeepsRows ==
    ASSUME RowInv, PutResultValidation, UNCHANGED clock
    PROVE  RowInv'
<1>1. Children' = Children /\ Writers' = Writers /\ Reviewers' = Reviewers
  BY DEF PutResultValidation, Children, Writers, Reviewers
<1>2. RowsTypeOK' /\ AttemptMatchesAgent' /\ UnplannedIsAbsent' /\ MainInPhase'
  BY <1>1 DEF RowInv, PutResultValidation, RowsTypeOK, AttemptMatchesAgent, UnplannedIsAbsent,
     MainInPhase
<1>3. SynthesisOnEvidence' /\ SucceededOnEvidence' /\ StoppedRunIsQuiet'
  BY <1>1 DEF RowInv, PutResultValidation, SynthesisOnEvidence, SucceededOnEvidence,
     StoppedRunIsQuiet
<1>4. AdverseEvidenceIsFatal' /\ ReviewsOfReviewers' /\ ReviewAfterVerification'
  BY <1>1 DEF RowInv, PutResultValidation, AdverseEvidenceIsFatal, ReviewsOfReviewers,
     ReviewAfterVerification
<1>5. QED BY <1>2, <1>3, <1>4 DEF RowInv

LEMMA PutResultKeepsRows ==
    ASSUME RowInv, MayComplete, PutResult(run), UNCHANGED clock
    PROVE  RowInv'
<1>1. /\ run \in RunRow /\ run' \in RunRow /\ run'.status = "succeeded"
      /\ run.status = "synthesizing" /\ result' = TRUE
      /\ agent[Main] = "running" /\ Main \in Agent
  BY DEF RowInv, RowsTypeOK, PutResult, CompareAndSet, MayComplete, RunRow, RunStatus,
     Terminal, Agent, MainInPhase
<1>2. /\ attempts[Main] \in Seq(AttemptRow) /\ "synthesis" \in Phase /\ "succeeded" \in Terminal
      /\ \A i \in Open(attempts[Main]) : attempts[Main][i].phase = "synthesis"
  BY <1>1 DEF RowInv, RowsTypeOK, MainInPhase, Phase, Terminal
<1>3. /\ attempts'[Main] = ClosePhase(attempts[Main], "synthesis", "succeeded")
      /\ agent'[Main] = "succeeded"
      /\ \A a \in Agent \ {Main} : attempts'[a] = attempts[a] /\ agent'[a] = agent[a]
  BY <1>1 DEF PutResult, RowInv, RowsTypeOK
<1>4. /\ attempts'[Main] \in Seq(AttemptRow)
      /\ Open(attempts'[Main]) = {i \in Open(attempts[Main]) : attempts[Main][i].phase # "synthesis"}
  BY <1>2, <1>3, ClosePhaseAttempts
<1>5. Open(attempts'[Main]) = {}
  BY <1>2, <1>4
<1>6. \A s \in Slot : s \in Agent \ {Main}
  BY KernelAssumption DEF Agent
<1>7. Children' = Children /\ Writers' = Writers /\ Reviewers' = Reviewers
      /\ Children \subseteq Slot /\ Reviewers \subseteq Slot
  BY DEF PutResult, Children, Writers, Reviewers, RowInv, RowsTypeOK
<1>8. RowsTypeOK'
  BY <1>1, <1>4 DEF RowInv, RowsTypeOK, PutResult, AgentStatus, Terminal
<1>9. AttemptMatchesAgent'
  BY <1>1, <1>3, <1>5 DEF RowInv, AttemptMatchesAgent
<1>10. UnplannedIsAbsent' /\ MainInPhase'
  BY <1>1, <1>3, <1>5, <1>6, <1>7 DEF RowInv, UnplannedIsAbsent, MainInPhase
<1>11. SynthesisOnEvidence'
  BY <1>1, <1>3, <1>6, <1>7 DEF PutResult, RowInv, SynthesisOnEvidence
<1>12. SucceededOnEvidence'
  BY <1>1, <1>3, <1>6, <1>7 DEF PutResult, RowInv, SucceededOnEvidence, SynthesisOnEvidence,
     MayComplete
<1>13. StoppedRunIsQuiet'
  BY <1>1 DEF StoppedRunIsQuiet
<1>14. AdverseEvidenceIsFatal'
  BY <1>1 DEF PutResult, RowInv, AdverseEvidenceIsFatal, Terminal
<1>15. ReviewsOfReviewers' /\ ReviewAfterVerification'
  BY <1>3, <1>6, <1>7 DEF PutResult, RowInv, ReviewsOfReviewers, ReviewAfterVerification
<1>16. QED BY <1>8, <1>9, <1>10, <1>11, <1>12, <1>13, <1>14, <1>15 DEF RowInv

(* Closing the Attempts of every AgentRun at once. *)
LEMMA AllClosed ==
    ASSUME RowInv, NEW status \in Terminal,
           attempts' = [a \in Agent |-> Close(attempts[a], status)]
    PROVE  /\ attempts' \in [Agent -> Seq(AttemptRow)]
           /\ \A a \in Agent : Open(attempts'[a]) = {}
           /\ \A a \in Agent : attempts'[a] # <<>> <=> attempts[a] # <<>>
<1>1. \A a \in Agent : attempts[a] \in Seq(AttemptRow) /\ attempts'[a] = Close(attempts[a], status)
  BY DEF RowInv, RowsTypeOK
<1>2. \A a \in Agent : /\ attempts'[a] \in Seq(AttemptRow) /\ Open(attempts'[a]) = {}
                       /\ attempts'[a] # <<>> <=> attempts[a] # <<>>
  BY <1>1, CloseAttempts
<1>3. QED BY <1>2

LEMMA TerminateKeepsRows ==
    ASSUME RowInv, ~Finished, NEW status \in Terminal \ {"succeeded"}, NEW error \in Error,
           Terminate(run, status, error), UNCHANGED clock
    PROVE  RowInv'
<1>1. /\ run \in RunRow /\ run' \in RunRow /\ run'.status = status /\ status # "running"
      /\ run.status \notin Terminal /\ ~result
  BY DEF RowInv, RowsTypeOK, Terminate, CompareAndSet, Finished, RunRow, RunStatus, Terminal,
     SucceededOnEvidence
<1>2. /\ attempts' \in [Agent -> Seq(AttemptRow)]
      /\ \A a \in Agent : Open(attempts'[a]) = {}
      /\ \A a \in Agent : attempts'[a] # <<>> <=> attempts[a] # <<>>
  BY AllClosed DEF Terminate
<1>3. \A a \in Agent : agent'[a] = IF agent[a] \in Unfinished THEN status ELSE agent[a]
  BY DEF Terminate
<1>4. Children' = Children /\ Writers' = Writers /\ Reviewers' = Reviewers
  BY DEF Terminate, Children, Writers, Reviewers
<1>5. RowsTypeOK'
  BY <1>1, <1>2 DEF RowInv, RowsTypeOK, Terminate, AgentStatus
<1>6. AttemptMatchesAgent'
  BY <1>1, <1>2, <1>3 DEF AttemptMatchesAgent, Unfinished
<1>7. UnplannedIsAbsent' /\ MainInPhase'
  BY <1>1, <1>2, <1>3, <1>4 DEF RowInv, UnplannedIsAbsent, MainInPhase, Agent, Terminal, Unfinished
<1>8. SynthesisOnEvidence' /\ SucceededOnEvidence'
  BY <1>1 DEF Terminate, SynthesisOnEvidence, SucceededOnEvidence, Terminal
<1>9. StoppedRunIsQuiet'
  BY <1>3 DEF StoppedRunIsQuiet, Unfinished, Terminal
<1>10. AdverseEvidenceIsFatal' /\ ReviewsOfReviewers' /\ ReviewAfterVerification'
  BY <1>1, <1>2, <1>4 DEF Terminate, RowInv, AdverseEvidenceIsFatal, ReviewsOfReviewers,
     ReviewAfterVerification, Agent
<1>11. QED BY <1>5, <1>6, <1>7, <1>8, <1>9, <1>10 DEF RowInv

LEMMA InterruptRunningKeepsRows ==
    ASSUME RowInv, InterruptRunning, UNCHANGED clock
    PROVE  RowInv'
<1>1. /\ run \in RunRow /\ run' \in RunRow /\ run'.status = "interrupted"
      /\ "interrupted" \in Terminal
  BY DEF RowInv, RowsTypeOK, InterruptRunning, RunRow, RunStatus, Terminal, Error
<1>2. /\ attempts' \in [Agent -> Seq(AttemptRow)]
      /\ \A a \in Agent : Open(attempts'[a]) = {}
      /\ \A a \in Agent : attempts'[a] # <<>> <=> attempts[a] # <<>>
  BY <1>1, AllClosed DEF InterruptRunning
<1>3. \A a \in Agent : agent'[a] = IF agent[a] = "running" THEN "interrupted"
                                   ELSE IF agent[a] \in {"planned", "waiting"} THEN "cancelled"
                                   ELSE agent[a]
  BY DEF InterruptRunning
<1>4. Children' = Children /\ Writers' = Writers /\ Reviewers' = Reviewers
  BY DEF InterruptRunning, Children, Writers, Reviewers
<1>5. ~result
  (* A result would mean that every AgentRun is over, yet an Attempt is open. *)
  <2>1. PICK a \in Agent : Open(attempts[a]) # {}
    BY DEF InterruptRunning
  <2>2. agent[a] = "running"
    BY <2>1 DEF RowInv, AttemptMatchesAgent
  <2>3. ASSUME result PROVE FALSE
    BY <2>2, <2>3 DEF RowInv, SucceededOnEvidence, UnplannedIsAbsent, Agent
  <2>4. QED BY <2>3
<1>6. RowsTypeOK'
  BY <1>1, <1>2 DEF RowInv, RowsTypeOK, InterruptRunning, AgentStatus, Terminal
<1>7. AttemptMatchesAgent'
  BY <1>2, <1>3 DEF AttemptMatchesAgent
<1>8. UnplannedIsAbsent' /\ MainInPhase'
  BY <1>1, <1>2, <1>3, <1>4 DEF RowInv, UnplannedIsAbsent, MainInPhase, Agent
<1>9. SynthesisOnEvidence' /\ SucceededOnEvidence'
  BY <1>1, <1>5 DEF InterruptRunning, SynthesisOnEvidence, SucceededOnEvidence
<1>10. StoppedRunIsQuiet'
  BY <1>3 DEF StoppedRunIsQuiet, Unfinished
<1>11. AdverseEvidenceIsFatal' /\ ReviewsOfReviewers' /\ ReviewAfterVerification'
  BY <1>1, <1>2, <1>4 DEF InterruptRunning, RowInv, AdverseEvidenceIsFatal, ReviewsOfReviewers,
     ReviewAfterVerification, Agent
<1>12. QED BY <1>6, <1>7, <1>8, <1>9, <1>10, <1>11 DEF RowInv

-----------------------------------------------------------------------------
(* The first state, and the steps that leave the rows alone. *)

LEMMA CreateEstablishesRows ==
    ASSUME Create PROVE RowInv
<1>1. Main \in Agent /\ (\A s \in Slot : s \in Agent /\ s # Main) /\ Children = {}
  BY KernelAssumption DEF Agent, Create, Children
<1>2. /\ attempts[Main] = <<Row("planning")>> /\ agent[Main] = "running"
      /\ \A s \in Slot : attempts[s] = <<>> /\ agent[s] = "absent"
      /\ run.status = "planning" /\ ~result /\ verification = "none"
      /\ \A s \in Slot : reviews[s] = "none"
  BY <1>1 DEF Create
<1>3. /\ Row("planning") \in AttemptRow /\ Row("planning").status = "running"
      /\ Row("planning").phase = "planning"
  BY DEF Row, AttemptRow, Phase
<1>4. /\ <<Row("planning")>> \in Seq(AttemptRow) /\ Len(<<Row("planning")>>) = 1
      /\ Open(<<Row("planning")>>) = {1} /\ Open(<<>>) = {}
  BY <1>3 DEF Open
<1>5. RowsTypeOK
  <2>1. attempts \in [Agent -> Seq(AttemptRow)]
    BY <1>4, EmptySeq DEF Create
  <2>2. QED BY <1>1, <2>1 DEF Create, RowsTypeOK, RunRow, RunStatus, Error, Agent, AgentStatus, Unfinished
<1>6. AttemptMatchesAgent
  BY <1>2, <1>4 DEF AttemptMatchesAgent, Agent
<1>7. UnplannedIsAbsent
  BY <1>1, <1>2 DEF UnplannedIsAbsent, Create
<1>8. MainInPhase
  BY <1>2, <1>3, <1>4 DEF MainInPhase
<1>9. /\ SynthesisOnEvidence /\ SucceededOnEvidence /\ AdverseEvidenceIsFatal
      /\ ReviewsOfReviewers /\ ReviewAfterVerification /\ StoppedRunIsQuiet
  BY <1>2 DEF SynthesisOnEvidence, SucceededOnEvidence, AdverseEvidenceIsFatal,
     ReviewsOfReviewers, ReviewAfterVerification, StoppedRunIsQuiet
<1>10. QED BY <1>5, <1>6, <1>7, <1>8, <1>9 DEF RowInv

LEMMA UnchangedRows ==
    ASSUME RowInv, UNCHANGED rows, clock' \in {"ample", "short", "expired"}
    PROVE  RowInv'
<1>1. Children' = Children /\ Writers' = Writers /\ Reviewers' = Reviewers
  BY DEF rows, Children, Writers, Reviewers
<1>2. RowsTypeOK' /\ AttemptMatchesAgent' /\ UnplannedIsAbsent' /\ MainInPhase'
  BY <1>1 DEF RowInv, rows, RowsTypeOK, AttemptMatchesAgent, UnplannedIsAbsent, MainInPhase
<1>3. SynthesisOnEvidence' /\ SucceededOnEvidence' /\ StoppedRunIsQuiet'
  BY <1>1 DEF RowInv, rows, SynthesisOnEvidence, SucceededOnEvidence, StoppedRunIsQuiet
<1>4. AdverseEvidenceIsFatal' /\ ReviewsOfReviewers' /\ ReviewAfterVerification'
  BY <1>1 DEF RowInv, rows, AdverseEvidenceIsFatal, ReviewsOfReviewers, ReviewAfterVerification
<1>5. QED BY <1>2, <1>3, <1>4 DEF RowInv

-----------------------------------------------------------------------------
(* What each transaction is to the pipeline.  The abstract state is
   abbreviated so that a transaction is described once, by what it does to it. *)

Outcome == IF run.status = "succeeded" THEN "accepted"
           ELSE IF Finished THEN "refused" ELSE "open"
Clean == {s \in Slot : reviews[s] = "clean"}
Blocking == {s \in Slot : reviews[s] = "blocking"}

LEMMA ContractNext ==
    ASSUME \/ /\ Outcome = "open" /\ Children = {} /\ Children' \in SUBSET Slot
              /\ UNCHANGED <<Outcome, verification, Clean, Blocking>>
           \/ /\ Outcome = "open" /\ verification = "none" /\ Writers # {}
              /\ \/ verification' = "passed" /\ Outcome' = "open"
                 \/ verification' = "failed" /\ Outcome' = "refused"
              /\ UNCHANGED <<Children, Clean, Blocking>>
           \/ \E s \in Slot :
              /\ Outcome \in {"open", "refused"} /\ verification = "passed"
              /\ s \in Reviewers \ (Clean \cup Blocking)
              /\ \/ Clean' = Clean \cup {s} /\ UNCHANGED <<Outcome, Blocking>>
                 \/ Blocking' = Blocking \cup {s} /\ Outcome' = "refused" /\ UNCHANGED Clean
              /\ UNCHANGED <<Children, verification>>
           \/ /\ Outcome = "open" /\ Blocking = {} /\ verification # "failed"
              /\ Writers # {} => verification = "passed"
              /\ Clean = Reviewers
              /\ Outcome' = "accepted"
              /\ UNCHANGED <<Children, verification, Clean, Blocking>>
           \/ /\ Outcome = "open" /\ Outcome' = "refused"
              /\ UNCHANGED <<Children, verification, Clean, Blocking>>
           \/ UNCHANGED <<Outcome, Children, verification, Clean, Blocking>>
    PROVE  [Contract!Next]_(Contract!contract)
BY DEF Contract!Next, Contract!Delegate, Contract!Verify, Contract!Review, Contract!Accept,
   Contract!Refuse, Contract!contract, Outcome, Clean, Blocking, Writers, Reviewers

(* Starting, finishing and retrying do not show; failing and stopping a run that
   has not succeeded is a refusal, or nothing new. *)
LEMMA RefuseOrStutter ==
    ASSUME UNCHANGED <<plan, verification, reviews>>,
           \/ run'.status = run.status
           \/ run.status # "succeeded" /\ run'.status \in Terminal \ {"succeeded"}
           \/ run.status \notin Terminal /\ run'.status \notin Terminal
    PROVE  [Contract!Next]_(Contract!contract)
<1>1. UNCHANGED <<Children, verification, Clean, Blocking>>
  BY DEF Children, Clean, Blocking
<1>2. Outcome' = Outcome \/ (Outcome = "open" /\ Outcome' = "refused")
  BY DEF Outcome, Finished, Terminal
<1>3. QED BY <1>1, <1>2, ContractNext

LEMMA PutPlanDelegates ==
    ASSUME RowInv, NEW assigned \in SUBSET Slot, PutPlan(run, assigned)
    PROVE  [Contract!Next]_(Contract!contract)
<1>1. /\ Outcome = "open" /\ Outcome' = "open" /\ Children = {} /\ Children' = assigned
      /\ UNCHANGED <<verification, Clean, Blocking>>
  BY DEF PutPlan, CompareAndSet, Outcome, Finished, Terminal, Children, Clean, Blocking
<1>2. QED BY <1>1, ContractNext

LEMMA PutVerificationVerifies ==
    ASSUME RowInv, NEW w, MayVerify(w), NEW verdict \in {"passed", "failed"},
           PutVerification(run, verdict)
    PROVE  [Contract!Next]_(Contract!contract)
<1>1. /\ Outcome = "open" /\ verification = "none" /\ Writers # {}
      /\ verification' = verdict
      /\ Outcome' = IF verdict = "passed" THEN "open" ELSE "refused"
      /\ UNCHANGED <<Children, Clean, Blocking>>
  BY DEF PutVerification, CompareAndSet, MayVerify, Outcome, Finished, Terminal, Children,
     Clean, Blocking
<1>2. QED BY <1>1, ContractNext

LEMMA PutReviewReviews ==
    ASSUME RowInv, NEW s \in Reviewers, MayReview(s), NEW verdict \in {"clean", "blocking"},
           PutReview(run, s, verdict)
    PROVE  [Contract!Next]_(Contract!contract)
<1>1. s \in Slot /\ reviews \in [Slot -> {"none", "clean", "blocking"}]
  BY DEF RowInv, RowsTypeOK, Reviewers, Children
<1>2. /\ Outcome \in {"open", "refused"} /\ verification = "passed"
      /\ s \in Reviewers \ (Clean \cup Blocking)
      /\ UNCHANGED <<Children, verification>>
      /\ Outcome' = IF verdict = "blocking" THEN "refused" ELSE Outcome
  BY <1>1 DEF PutReview, CompareAndSet, MayReview, CollectingLaunchedBatch, Outcome, Finished,
     Terminal, Children, Clean, Blocking
<1>3. IF verdict = "clean" THEN Clean' = Clean \cup {s} /\ Blocking' = Blocking
                           ELSE Blocking' = Blocking \cup {s} /\ Clean' = Clean
  BY <1>1 DEF PutReview, Clean, Blocking
<1>4. QED BY <1>1, <1>2, <1>3, ContractNext

LEMMA PutResultAccepts ==
    ASSUME RowInv, MayComplete, PutResult(run)
    PROVE  [Contract!Next]_(Contract!contract)
<1>1. run.status = "synthesizing" /\ run'.status = "succeeded"
      /\ UNCHANGED <<Children, verification, Clean, Blocking>>
  BY DEF PutResult, CompareAndSet, MayComplete, Children, Clean, Blocking
<1>2. Outcome = "open" /\ Outcome' = "accepted"
  BY <1>1 DEF Outcome, Finished, Terminal
<1>3. verification # "failed" /\ Blocking = {} /\ (Writers # {} => verification = "passed")
  BY <1>1 DEF RowInv, AdverseEvidenceIsFatal, SynthesisOnEvidence, Blocking, Terminal
<1>4. Clean = Reviewers
  BY <1>1 DEF RowInv, SynthesisOnEvidence, ReviewsOfReviewers, Clean, RowsTypeOK,
     Reviewers, Children
<1>5. QED BY <1>1, <1>2, <1>3, <1>4, ContractNext
=============================================================================
