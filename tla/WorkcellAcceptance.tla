------------------------ MODULE WorkcellAcceptance ------------------------
(***************************************************************************)
(* What ReleaseAcceptanceVerifierV2 asks of the final WorkcellRun of a     *)
(* stage before it accepts the release of a completed delivery.  It reads  *)
(* the rows of WorkcellStore and never writes: the rows that StageDriver   *)
(* leaves behind have to satisfy rules written in another module, about    *)
(* which Attempts of which AgentRuns may have failed.                      *)
(***************************************************************************)
EXTENDS WorkcellStore

(* Attempts first .. last of a sequence of rows belong to the phase. *)
InPhase(s, phase, first, last) == \A i \in first .. last : s[i].phase = phase

(* Main: one or two planning Attempts, then one or two synthesis Attempts. *)
MainSequence(s) ==
    \E p, q \in 1 .. 2 :
        /\ Len(s) = p + q
        /\ InPhase(s, "planning", 1, p) /\ InPhase(s, "synthesis", p + 1, p + q)

(* Mutant: two Attempts are too many for every child. *)
ChildSequenceOfOne(a, s) == Len(s) = 1 /\ InPhase(s, "delegate", 1, Len(s))

(* A child: one delegate Attempt; a Reviewer may have two. *)
ChildSequence(a, s) ==
    /\ Len(s) = 1 \/ (Purpose[a] = "review" /\ Len(s) = 2)
    /\ InPhase(s, "delegate", 1, Len(s))

(* A failed Attempt is excused when it is followed by one more of its phase.
   What makes an Attempt of a Main or a Reviewer fail and be followed by
   another, an invalid answer or a transient error, is excused by its code. *)
Excused(s, i) ==
    /\ s[i].status = "failed"
    /\ Cardinality(PhaseAttempts(s, s[i].phase)) = 2
    /\ \E j \in i + 1 .. Len(s) : s[j].phase = s[i].phase

AttemptsAccepted(s) ==
    \A i \in DOMAIN s : s[i].status = "succeeded" \/ Excused(s, i)

(* _verify_workcell_runtime. *)
RuntimeAccepted ==
    /\ Cardinality(plan) = 1
    /\ Cardinality(Children) <= MaxChildren /\ Cardinality(Writers) <= MaxWriters
    /\ {s \in Slot : agent[s] # "absent"} = Children
    /\ \A a \in Children \cup {Main} : agent[a] = "succeeded" /\ AttemptsAccepted(attempts[a])
    /\ MainSequence(attempts[Main])
    /\ \A s \in Children : ChildSequence(s, attempts[s])

(* _verify_workcell_results: a verified candidate, or a validated result
   without one; never both. *)
ResultAccepted ==
    /\ result
    /\ \/ verification = "passed" /\ validation = "none"
       \/ verification = "none" /\ validation = "passed"

(* _verify_candidates: no Reviewer of the candidate blocks it. *)
CandidateAccepted ==
    Writers # {} =>
        /\ verification = "passed" /\ validation = "none"
        /\ \A s \in Reviewers : reviews[s] = "clean"

Accepted ==
    run.status = "succeeded" /\ RuntimeAccepted /\ ResultAccepted /\ CandidateAccepted

ProducerRetried ==
    \E s \in Children : Purpose[s] # "review" /\ Len(attempts[s]) > 1

-----------------------------------------------------------------------------
(* Properties *)

(* What the driver calls a success the acceptance calls one too, with whatever
   retries of Main and of Reviewers the run got there, unless a producer needed
   a second Attempt. *)
SuccessIsAccepted == run.status = "succeeded" => Accepted \/ ProducerRetried
=============================================================================
