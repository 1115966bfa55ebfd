----------------------------- MODULE Evaluation -----------------------------
(***************************************************************************)
(* Evaluation runs of one pipeline revision: each executes in a background *)
(* thread, saves a report, and may be cancelled by a request meanwhile.    *)
(* Three reports of the revision compared with itself make the calibration *)
(* that later reports are gated by.                                        *)
(*                                                                         *)
(* Every call of SQLiteEvaluationRepository is a transaction and a step.   *)
(* Scores, which may fail a gate that would pass, are left out.            *)
(***************************************************************************)
EXTENDS Naturals, FiniteSets, Sequences, Functions

CONSTANTS
    Kinds,         \* bound: what the runs that are created compare, in their order
    Parallel,      \* bound: executions under way at once
    MaxTroubles    \* bound: cancel requests, steps that raise, restarts

Run == UNION {DOMAIN kinds : kinds \in Kinds}

(* As many runs in every scenario. *)
ASSUME EvaluationAssumption ==
    /\ IsFiniteSet(Run) /\ Kinds \subseteq [Run -> {"self", "paired", "live"}]
    /\ Parallel \in Nat /\ MaxTroubles \in Nat

VARIABLES
    run,           \* evaluation_runs: kind, status, version
    report,        \* evaluation_reports: gate_status of the run's report
    stamped,       \* runs whose report was built, in order of its created_at
    calibration,   \* evaluation_calibrations: the runs it was computed from
    execution,     \* per run: where execute() is, the version it holds
    cancelling,    \* per run: the version a cancel request has read, or 0
    troubles

evaluationRows == <<run, report, stamped, calibration>>
evaluationVars == <<evaluationRows, execution, cancelling, troubles>>

Terminal == {"completed", "blocked", "failed", "cancelled"}
Gate == {"calibrating", "passed", "blocked", "not_run"}
NoExecution == [pc |-> "idle", version |-> 0, gate |-> "none", sample |-> {}]

EvaluationInit ==
    /\ \E kinds \in Kinds :
         run = [r \in Run |-> [kind |-> kinds[r], status |-> "absent", version |-> 0]]
    /\ report = [r \in Run |-> "none"] /\ stamped = <<>>
    /\ calibration = {}
    /\ execution = [r \in Run |-> NoExecution] /\ cancelling = [r \in Run |-> 0]
    /\ troubles = 0

At(r, pc) == execution[r].pc = pc
ExecutionAt(r, pc) == execution' = [execution EXCEPT ![r].pc = pc]
Trouble == troubles < MaxTroubles /\ troubles' = troubles + 1
Leaves(r) == execution' = [execution EXCEPT ![r] = NoExecution]
Others == <<cancelling, troubles>>

(* Mutant: the row is written whatever its version. *)
SwapsAlways(r, version) == TRUE

(* compare_and_swap_run. *)
Swaps(r, version) == run[r].version = version

RunWritten(r, version, status) ==
    run' = [run EXCEPT ![r].status = status, ![r].version = version + 1]

(* POST /v1/evaluation-runs: the run is created, execute() scheduled.  A run
   compares the revision with itself or with another one, or is live. *)
CreateRun(r) ==
    /\ Cardinality({q \in Run : execution[q].pc # "idle"}) < Parallel
    /\ run[r].status = "absent" /\ \A q \in 1..(r - 1) : run[q].status # "absent"
    /\ run' = [run EXCEPT ![r].status = "queued", ![r].version = 1]
    /\ execution' = [execution EXCEPT ![r].pc = "read"]
    /\ UNCHANGED <<report, stamped, calibration, Others>>

Read(r) ==
    /\ At(r, "read")
    /\ IF run[r].status \in {"completed", "blocked", "cancelled"} THEN Leaves(r)
       ELSE execution' = [execution EXCEPT ![r].pc = "begin", ![r].version = run[r].version]
    /\ UNCHANGED <<evaluationRows, Others>>

(* queued -> running; a conflict is raised outside the try block. *)
Begin(r) ==
    /\ At(r, "begin")
    /\ IF Swaps(r, execution[r].version)
       THEN /\ RunWritten(r, execution[r].version, "running")
            /\ execution' = [execution EXCEPT ![r].pc = "cases", ![r].version = @ + 1]
       ELSE Leaves(r) /\ UNCHANGED run
    /\ UNCHANGED <<report, stamped, calibration, Others>>

(* The cases have run; a cancellation that has come meanwhile is obeyed. *)
RunCases(r) ==
    /\ At(r, "cases")
    /\ IF run[r].status = "cancelled" THEN Leaves(r) ELSE ExecutionAt(r, "build")
    /\ UNCHANGED <<evaluationRows, Others>>

Calibrated == calibration # {}

(* Mutant: a revision and itself pass at once. *)
GateUncalibrated(kind) == IF kind = "self" THEN "passed" ELSE "blocked"

(* The gate by what a run compares: a live run has no runtime, two revisions
   differ in cases that need a judge; a revision and itself pass, once there is
   a calibration. *)
GateOf(kind) ==
    CASE kind = "live" -> "not_run"
      [] kind = "paired" -> "blocked"
      [] kind = "self" -> IF Calibrated THEN "passed" ELSE "calibrating"

(* _build_report reads the calibration, then sets created_at. *)
BuildReport(r) ==
    /\ At(r, "build")
    /\ execution' = [execution EXCEPT ![r].pc = "save", ![r].gate = GateOf(run[r].kind)]
    /\ stamped' = Append(stamped, r)
    /\ UNCHANGED <<run, report, calibration, Others>>

SaveReport(r) ==
    /\ At(r, "save")
    /\ report' = [report EXCEPT ![r] = execution[r].gate]
    /\ ExecutionAt(r, "calibrate")
    /\ UNCHANGED <<run, stamped, calibration, Others>>

(* A self-comparison that is over. *)
CompletedSelf(r) == run[r].kind = "self" /\ run[r].status = "completed"

(* calibration_reports: reports of self-comparisons that run or are completed. *)
Counts(r) == run[r].kind = "self" /\ run[r].status \in {"running", "completed"}

Reported == {r \in Range(stamped) : report[r] # "none" /\ Counts(r)}

(* ORDER BY created_at. *)
Earliest(runs) ==
    CHOOSE r \in runs : \E i \in DOMAIN stamped :
        stamped[i] = r /\ \A j \in DOMAIN stamped : stamped[j] \in runs => i <= j

(* _maybe_calibrate: the first three reports there are. *)
Sample ==
    LET one == Earliest(Reported)
        two == Earliest(Reported \ {one})
        three == Earliest(Reported \ {one, two}) IN
    IF Cardinality(Reported) < 3 THEN {} ELSE {one, two, three}

ReadSample(r) ==
    /\ At(r, "calibrate")
    /\ IF run[r].kind # "self" \/ Calibrated \/ Sample = {} THEN ExecutionAt(r, "end")
       ELSE execution' = [execution EXCEPT ![r].pc = "insert", ![r].sample = Sample]
    /\ UNCHANGED <<evaluationRows, Others>>

(* INSERT OR IGNORE. *)
SaveCalibration(r) ==
    /\ At(r, "insert")
    /\ calibration' = IF Calibrated THEN calibration ELSE execution[r].sample
    /\ ExecutionAt(r, "end")
    /\ UNCHANGED <<run, report, stamped, Others>>

(* The files and the evidence are written, the run ends; a run that somebody
   has changed since it began is a conflict. *)
EndRun(r) ==
    /\ At(r, "end")
    /\ IF Swaps(r, execution[r].version)
       THEN /\ RunWritten(r, execution[r].version,
                          IF execution[r].gate = "not_run" THEN "blocked" ELSE "completed")
            /\ Leaves(r)
       ELSE ExecutionAt(r, "error") /\ UNCHANGED run
    /\ UNCHANGED <<report, stamped, calibration, Others>>

Fault(r) ==
    /\ Trouble
    /\ execution[r].pc \in {"cases", "build", "save", "calibrate", "insert", "end"}
    /\ ExecutionAt(r, "error")
    /\ UNCHANGED <<evaluationRows, cancelling>>

(* except: what is still running is failed, by the version it has now. *)
ReadError(r) ==
    /\ At(r, "error")
    /\ IF run[r].status = "running"
       THEN execution' = [execution EXCEPT ![r].pc = "fail", ![r].version = run[r].version]
       ELSE Leaves(r)
    /\ UNCHANGED <<evaluationRows, Others>>

Fail(r) ==
    /\ At(r, "fail")
    /\ IF Swaps(r, execution[r].version) THEN RunWritten(r, execution[r].version, "failed")
       ELSE UNCHANGED run
    /\ Leaves(r)
    /\ UNCHANGED <<report, stamped, calibration, Others>>

(* POST .../cancel: read, then write by the version that was read. *)
BeginCancel(r) ==
    /\ run[r].status \in {"queued", "running"} /\ cancelling[r] = 0
    /\ Trouble
    /\ cancelling' = [cancelling EXCEPT ![r] = run[r].version]
    /\ UNCHANGED <<evaluationRows, execution>>

Cancel(r) ==
    /\ cancelling[r] # 0
    /\ IF Swaps(r, cancelling[r]) THEN RunWritten(r, cancelling[r], "cancelled")
       ELSE UNCHANGED run
    /\ cancelling' = [cancelling EXCEPT ![r] = 0]
    /\ UNCHANGED <<report, stamped, calibration, execution, troubles>>

(* Nothing takes up a run after a restart. *)
RestartEvaluation ==
    /\ Trouble
    /\ execution' = [r \in Run |-> NoExecution] /\ cancelling' = [r \in Run |-> 0]
    /\ UNCHANGED evaluationRows

EvaluationNext ==
    \/ \E r \in Run :
         \/ CreateRun(r) \/ Read(r) \/ Begin(r) \/ RunCases(r) \/ BuildReport(r) \/ SaveReport(r)
         \/ ReadSample(r) \/ SaveCalibration(r) \/ EndRun(r)
         \/ Fault(r) \/ ReadError(r) \/ Fail(r) \/ BeginCancel(r) \/ Cancel(r)
    \/ RestartEvaluation

EvaluationSpec == EvaluationInit /\ [][EvaluationNext]_evaluationVars

-----------------------------------------------------------------------------
(* The rows hold values the code can write; a report is saved once. *)
EvaluationTypeOK ==
    /\ run \in [Run -> [kind : {"self", "paired", "live"}, version : 0..3,
                        status : {"absent", "queued", "running"} \cup Terminal]]
    /\ report \in [Run -> Gate \cup {"none"}]
    /\ IsInjective(stamped) /\ {r \in Run : report[r] # "none"} \subseteq Range(stamped)

(* The calibration is made of three self-comparisons, none of which was gated by
   it; once three such runs are completed it is there, whichever of them came
   last; and nothing passes before. *)
CalibrationIsFair ==
    /\ Calibrated =>
        /\ Cardinality(calibration) = 3
        /\ \A r \in calibration : run[r].kind = "self" /\ report[r] # "passed"
    /\ Cardinality({r \in Run : CompletedSelf(r)}) >= 3 => Calibrated
    /\ \A r \in Run : report[r] = "passed" => Calibrated

(* A run that is over stays as it ended, a cancelled one too; a calibration stays
   as it was made. *)
EndedStays ==
    /\ \A r \in Run : run[r].status \in Terminal => run'[r] = run[r]
    /\ Calibrated => calibration' = calibration

(* Runs and calibrations keep their word while runs execute side by side and are
   cancelled (nothing is calibrated in an initial state). *)
EvaluationInOrder == [][CalibrationIsFair' /\ EndedStays]_evaluationRows
=============================================================================
