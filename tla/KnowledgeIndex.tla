--------------------------- MODULE KnowledgeIndex ---------------------------
(***************************************************************************)
(* Index revisions of one binding and index profile: built from a manifest *)
(* of snapshots, evaluated under published evaluation policies, activated  *)
(* by moving the active pointer.  Administrators work at the same time:    *)
(* each evaluation runs long between what it read and what it records,     *)
(* and each activation carries the pointer version its author saw.         *)
(***************************************************************************)
EXTENDS Naturals

CONSTANTS
    Manifest,      \* input manifests: what the active snapshots may amount to
    Policy,        \* evaluation policies of the profile
    Admin,         \* administrators, one call at a time each
    MaxPointer     \* bound: version of the pointer

ASSUME IndexAssumption == MaxPointer \in Nat /\ "none" \notin Manifest \cup Policy

VARIABLES
    index,       \* knowledge_index_revisions, one per manifest
    report,      \* retrieval_evaluation_runs: verdict per policy and manifest
    pointer,     \* knowledge_index_active_pointers: manifest and version
    call         \* per administrator: the call under way

indexVars == <<index, report, pointer, call>>

Nothing == "none"
NoCall == [op |-> "none", on |-> Nothing, policy |-> Nothing, seen |-> 0]
IndexStatus == {"absent", "building", "built", "qualified", "active", "superseded", "failed"}

IndexInit ==
    /\ index = [m \in Manifest |-> "absent"]
    /\ report = [p \in Policy |-> [m \in Manifest |-> Nothing]]
    /\ pointer = [on |-> Nothing, version |-> 0]
    /\ call = [a \in Admin |-> NoCall]

Idle(a) == call[a] = NoCall
Doing(a, op) == call[a].op = op
Starts(a, op, m, p) ==
    call' = [call EXCEPT ![a] = [op |-> op, on |-> m, policy |-> p, seen |-> pointer.version]]
Returns(a) == call' = [call EXCEPT ![a] = NoCall]

(* build: a manifest that has a revision, of whatever status, is not built
   again.  Only its builder completes or fails a building revision: after a
   crash it stays "building". *)
BeginBuild(a, m) ==
    /\ Idle(a) /\ index[m] = "absent"
    /\ index' = [index EXCEPT ![m] = "building"]
    /\ Starts(a, "build", m, Nothing)
    /\ UNCHANGED <<report, pointer>>

EndBuild(a) ==
    /\ Doing(a, "build")
    /\ \E status \in {"built", "failed"} : index' = [index EXCEPT ![call[a].on] = status]
    /\ Returns(a)
    /\ UNCHANGED <<report, pointer>>

(* evaluate: the status is read, then the cases are run. *)
BeginEvaluation(a, p, m) ==
    /\ Idle(a) /\ index[m] \in {"built", "qualified"}
    /\ Starts(a, "evaluate", m, p)
    /\ UNCHANGED <<index, report, pointer>>

(* Mutant: the verdict is recorded whatever the revision has become. *)
RecordAnyway(a, verdict) ==
    /\ Doing(a, "evaluate")
    /\ LET m == call[a].on p == call[a].policy IN
         IF report[p][m] = Nothing
         THEN /\ report' = [report EXCEPT ![p][m] = verdict]
              /\ index' = [index EXCEPT ![m] = IF verdict = "passed" THEN "qualified" ELSE "failed"]
         ELSE UNCHANGED <<report, index>>
    /\ Returns(a)
    /\ UNCHANGED pointer

(* record_evaluation: one verdict per policy and revision; and it decides only
   a revision that is still built, or is not recorded either. *)
Record(a, verdict) ==
    /\ Doing(a, "evaluate")
    /\ LET m == call[a].on p == call[a].policy IN
         IF report[p][m] = Nothing /\ index[m] = "built"
         THEN /\ report' = [report EXCEPT ![p][m] = verdict]
              /\ index' = [index EXCEPT ![m] = IF verdict = "passed" THEN "qualified" ELSE "failed"]
         ELSE UNCHANGED <<report, index>>
    /\ Returns(a)
    /\ UNCHANGED pointer

(* The administrator looks at the pointer, then asks for the activation. *)
BeginActivation(a, m) ==
    /\ Idle(a) /\ index[m] # "absent" /\ pointer.version < MaxPointer
    /\ Starts(a, "activate", m, Nothing)
    /\ UNCHANGED <<index, report, pointer>>

(* activate_index: one transaction, refused on another status or pointer. *)
Activate(a) ==
    /\ Doing(a, "activate")
    /\ LET m == call[a].on IN
         IF /\ index[m] \in {"qualified", "active"}
            /\ call[a].seen = pointer.version /\ pointer.on # m
         THEN /\ index' = [i \in Manifest |-> IF i = m THEN "active"
                             ELSE IF i = pointer.on /\ index[i] = "active" THEN "superseded"
                             ELSE index[i]]
              /\ pointer' = [on |-> m, version |-> pointer.version + 1]
         ELSE UNCHANGED <<index, pointer>>
    /\ Returns(a)
    /\ UNCHANGED report

(* The process dies with its calls and starts again. *)
RestartAdministration ==
    /\ \E a \in Admin : ~Idle(a)
    /\ call' = [a \in Admin |-> NoCall]
    /\ UNCHANGED <<index, report, pointer>>

IndexNext ==
    \/ \E a \in Admin, m \in Manifest :
         \/ BeginBuild(a, m) \/ BeginActivation(a, m)
         \/ \E p \in Policy : BeginEvaluation(a, p, m)
    \/ \E a \in Admin : EndBuild(a) \/ Activate(a)
                        \/ \E verdict \in {"passed", "failed"} : Record(a, verdict)
    \/ RestartAdministration

IndexSpec == IndexInit /\ [][IndexNext]_indexVars

-----------------------------------------------------------------------------
(* Revisions, reports and the pointer hold values the code can write. *)
IndexTypeOK ==
    /\ index \in [Manifest -> IndexStatus]
    /\ report \in [Policy -> [Manifest -> {Nothing, "passed", "failed"}]]
    /\ pointer \in [on : Manifest \cup {Nothing}, version : 0..MaxPointer]
    /\ call \in [Admin -> [op : {"none", "build", "evaluate", "activate"},
                           on : Manifest \cup {Nothing}, policy : Policy \cup {Nothing},
                           seen : 0..MaxPointer]]

(* What retrieval is given: the pointer names the one active revision, which
   some evaluation passed and none failed, however evaluations of several
   policies and activations of several administrators overlap. *)
IndexServes ==
    /\ \A m \in Manifest : index[m] = "active" <=> pointer.on = m
    /\ pointer.on # Nothing =>
         /\ \E p \in Policy : report[p][pointer.on] = "passed"
         /\ \A p \in Policy : report[p][pointer.on] # "failed"
=============================================================================
