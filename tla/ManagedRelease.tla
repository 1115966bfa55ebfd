--------------------------- MODULE ManagedRelease ---------------------------
(***************************************************************************)
(* Release of one delivery of a managed project (ADR-0012):                *)
(* ReleaseCoordinator moves the main of each bare repository from the      *)
(* reviewed base to the candidate, in the order of the bundle, and records *)
(* a receipt after each; if a step fails it moves back, in reverse, what   *)
(* has a receipt.  The active manifest, not the mains, says what is        *)
(* released.                                                               *)
(*                                                                         *)
(* Each git command and each transaction is a step: either may fail, other *)
(* people push in between, and the process may die and start over.         *)
(***************************************************************************)
EXTENDS Naturals

CONSTANTS
    BundleSize,          \* repositories of the bundle
    MaxCommits,          \* bound: commits by somebody else
    MaxFaults,           \* bound: git commands and transactions that fail
    MaxManagedRestarts   \* bound: restarts of the process

ASSUME BundleAssumption ==
    BundleSize \in Nat \ {0} /\ {MaxCommits, MaxFaults, MaxManagedRestarts} \subseteq Nat

VARIABLES
    heads,         \* per repository: what is at the head of main
    application,   \* release_apply_attempts: status and receipts
    active,        \* project_release_manifests names this delivery
    applied,       \* deliveries: status
    coordinator,   \* apply(): where it is, at which repository, receipts in memory
    commits, faults, managedRestarts

bare == <<heads, commits>>
managedRows == <<application, active, applied>>
managedVars == <<bare, managedRows, coordinator, faults, managedRestarts>>

Bundle == 1..BundleSize
CoordinatorStep == {"idle", "step", "readBack", "record", "activate", "finish", "return", "over",
                    "compensate", "undo", "restored", "undone", "attention"}
NoCoordinator == [pc |-> "idle", at |-> 1, had |-> {}]

(* A head: the reviewed base or the candidate, with somebody's commits on it or not. *)
HeadState == {"base", "candidate", "beside", "atop"}
Holds(r) == heads[r] \in {"candidate", "atop"}

(* The gate is accepted: the row says applying, apply() is called. *)
ManagedInit ==
    /\ heads = [r \in Bundle |-> "base"]
    /\ application = [status |-> "none", receipts |-> {}]
    /\ active = FALSE /\ applied = "applying"
    /\ coordinator = NoCoordinator
    /\ commits = 0 /\ faults = 0 /\ managedRestarts = 0

CoordinatorAt(pc) == coordinator.pc = pc
CoordinatorGoes(pc) == coordinator' = [coordinator EXCEPT !.pc = pc]
TurnTo(pc, r) == coordinator' = [coordinator EXCEPT !.pc = pc, !.at = r]
GitFault == faults < MaxFaults /\ faults' = faults + 1
NoGitFault == UNCHANGED faults

(* apply() raises: the error is saved, the delivery is still applying, and only
   the next startup calls apply() again. *)
Raise == CoordinatorGoes("over")

(* _update_attempt, or the transaction fails and what follows is another step. *)
PutStatus(status, then, otherwise) ==
    \/ /\ application' = [status |-> status, receipts |-> coordinator.had] /\ NoGitFault /\ then
    \/ /\ GitFault /\ UNCHANGED application /\ otherwise

-----------------------------------------------------------------------------
(* apply(), also as recover_applying calls it again after a restart. *)
Preflight == \A r \in Bundle : heads[r] = "base"

CallApply ==
    /\ CoordinatorAt("idle") /\ applied = "applying"
    /\ \/ active /\ CoordinatorGoes("return") /\ NoGitFault /\ UNCHANGED application
       \/ /\ ~active /\ application.status = "none"
          /\ \/ /\ Preflight
                /\ application' = [status |-> "applying", receipts |-> {}]
                /\ TurnTo("step", 1) /\ NoGitFault
             \/ ~Preflight /\ Raise /\ NoGitFault /\ UNCHANGED application
             \/ GitFault /\ Raise /\ UNCHANGED application
       \/ /\ ~active /\ application.status \in {"compensated", "needs_attention"}
          /\ Raise /\ NoGitFault /\ UNCHANGED application
       \/ /\ ~active /\ application.status \in {"applying", "compensating"}
          /\ coordinator' = [pc |-> "step", at |-> 1, had |-> application.receipts]
          /\ NoGitFault /\ UNCHANGED application
    /\ UNCHANGED <<bare, active, applied, managedRestarts>>

NextRepository == IF coordinator.at = BundleSize THEN CoordinatorGoes("activate") ELSE TurnTo("step", coordinator.at + 1)

(* _continue, one repository: a recorded candidate is still there; one that is
   there without a receipt is recovered; or main moves by compare-and-swap. *)
ApplyNext ==
    /\ CoordinatorAt("step")
    /\ LET r == coordinator.at IN
       \/ /\ heads[r] = "candidate" /\ r \in coordinator.had
          /\ NextRepository /\ NoGitFault /\ UNCHANGED heads
       \/ /\ heads[r] = "candidate" /\ r \notin coordinator.had
          /\ CoordinatorGoes("record") /\ NoGitFault /\ UNCHANGED heads
       \/ /\ heads[r] = "base" /\ r \notin coordinator.had
          /\ \/ heads' = [heads EXCEPT ![r] = "candidate"] /\ CoordinatorGoes("readBack") /\ NoGitFault
             \/ GitFault /\ CoordinatorGoes("compensate") /\ UNCHANGED heads
       \/ /\ heads[r] \in {"beside", "atop"} \/ (heads[r] = "base" /\ r \in coordinator.had)
          /\ CoordinatorGoes("compensate") /\ NoGitFault /\ UNCHANGED heads
    /\ UNCHANGED <<commits, managedRows, managedRestarts>>

(* apply_candidate reads main once more before it answers. *)
ReadHeadBack ==
    /\ CoordinatorAt("readBack")
    /\ \/ heads[coordinator.at] = "candidate" /\ CoordinatorGoes("record") /\ NoGitFault
       \/ heads[coordinator.at] # "candidate" /\ CoordinatorGoes("compensate") /\ NoGitFault
       \/ GitFault /\ CoordinatorGoes("compensate")
    /\ UNCHANGED <<bare, managedRows, managedRestarts>>

(* The receipt is in memory before it is in the row. *)
Record ==
    /\ CoordinatorAt("record")
    /\ LET had == coordinator.had \cup {coordinator.at}
           next == IF coordinator.at = BundleSize THEN [pc |-> "activate", at |-> BundleSize, had |-> had]
                   ELSE [pc |-> "step", at |-> coordinator.at + 1, had |-> had] IN
       \/ /\ application' = [status |-> "applying", receipts |-> had]
          /\ coordinator' = next /\ NoGitFault
       \/ GitFault /\ coordinator' = [coordinator EXCEPT !.pc = "compensate", !.had = had] /\ UNCHANGED application
    /\ UNCHANGED <<bare, active, applied, managedRestarts>>

ActivateManifest ==
    /\ CoordinatorAt("activate")
    /\ \/ active' = TRUE /\ CoordinatorGoes("finish") /\ NoGitFault
       \/ GitFault /\ Raise /\ UNCHANGED active
    /\ UNCHANGED <<bare, application, applied, managedRestarts>>

Finish ==
    /\ CoordinatorAt("finish")
    /\ PutStatus("completed", CoordinatorGoes("return"), Raise)
    /\ UNCHANGED <<bare, active, applied, managedRestarts>>

-----------------------------------------------------------------------------
(* _compensate. *)
Compensate ==
    /\ CoordinatorAt("compensate")
    /\ PutStatus("compensating", TurnTo("undo", BundleSize), Raise)
    /\ UNCHANGED <<bare, active, applied, managedRestarts>>

PreviousRepository == IF coordinator.at = 1 THEN CoordinatorGoes("undone") ELSE TurnTo("undo", coordinator.at - 1)

(* Mutant: main moves back whatever is on it. *)
IsReleasedAnyway(r) == Holds(r)

(* rollback_candidate moves main back only while it is where apply left it. *)
IsReleased(r) == heads[r] = "candidate"

Undo ==
    /\ CoordinatorAt("undo")
    /\ LET r == coordinator.at IN
       \/ /\ r \notin coordinator.had \/ heads[r] = "base"
          /\ PreviousRepository /\ NoGitFault /\ UNCHANGED heads
       \/ /\ r \in coordinator.had /\ IsReleased(r)
          /\ \/ heads' = [heads EXCEPT ![r] = "base"] /\ CoordinatorGoes("restored") /\ NoGitFault
             \/ GitFault /\ CoordinatorGoes("attention") /\ UNCHANGED heads
       \/ /\ r \in coordinator.had /\ ~IsReleased(r) /\ heads[r] # "base"
          /\ CoordinatorGoes("attention") /\ NoGitFault /\ UNCHANGED heads
    /\ UNCHANGED <<commits, managedRows, managedRestarts>>

Restored ==
    /\ CoordinatorAt("restored")
    /\ \/ heads[coordinator.at] = "base" /\ PreviousRepository /\ NoGitFault
       \/ heads[coordinator.at] # "base" /\ CoordinatorGoes("attention") /\ NoGitFault
       \/ GitFault /\ CoordinatorGoes("attention")
    /\ UNCHANGED <<bare, managedRows, managedRestarts>>

CloseApplication ==
    /\ \/ CoordinatorAt("undone") /\ PutStatus("compensated", Raise, Raise)
       \/ CoordinatorAt("attention") /\ PutStatus("needs_attention", Raise, Raise)
    /\ UNCHANGED <<bare, active, applied, managedRestarts>>

-----------------------------------------------------------------------------
(* The manifest makes the graph go on, and the delivery complete. *)
Return ==
    /\ CoordinatorAt("return")
    /\ applied' = "completed"
    /\ CoordinatorGoes("over")
    /\ UNCHANGED <<bare, application, active, faults, managedRestarts>>

(* Somebody pushes to a main. *)
Somebody(r) ==
    /\ commits < MaxCommits /\ commits' = commits + 1
    /\ \/ heads[r] = "base" /\ heads' = [heads EXCEPT ![r] = "beside"]
       \/ heads[r] = "candidate" /\ heads' = [heads EXCEPT ![r] = "atop"]
    /\ UNCHANGED <<managedRows, coordinator, faults, managedRestarts>>

RestartCoordinator ==
    /\ managedRestarts < MaxManagedRestarts /\ managedRestarts' = managedRestarts + 1
    /\ coordinator' = NoCoordinator
    /\ UNCHANGED <<bare, managedRows, faults>>

ManagedNext ==
    \/ CallApply \/ ApplyNext \/ ReadHeadBack \/ Record \/ ActivateManifest \/ Finish
    \/ Compensate \/ Undo \/ Restored \/ CloseApplication \/ Return
    \/ \E r \in Bundle : Somebody(r)
    \/ RestartCoordinator

ManagedSpec == ManagedInit /\ [][ManagedNext]_managedVars

-----------------------------------------------------------------------------
(* The rows and the call hold values the code can write. *)
ManagedTypeOK ==
    /\ heads \in [Bundle -> HeadState]
    /\ application \in [status : {"none", "applying", "completed", "compensating", "compensated",
                              "needs_attention"}, receipts : SUBSET Bundle]
    /\ active \in BOOLEAN /\ applied \in {"applying", "completed"}
    /\ coordinator \in [pc : CoordinatorStep, at : Bundle, had : SUBSET Bundle]

(* What the manifest says is released is released, in every repository. *)
ManifestIsWhole == active => \A r \in Bundle : Holds(r)

(* A release that is given up as compensated is active nowhere it is known to
   have been. *)
RecordedIsUndone ==
    application.status = "compensated" => ~active /\ \A r \in application.receipts : ~Holds(r)

(* A delivery is completed by its manifest. *)
CompletedIsReleased == applied = "completed" => active

(* Commits of others stay: the coordinator moves no main that somebody else has
   moved since. *)
OthersCommitsStay ==
    [][\A r \in Bundle : heads[r] \in {"beside", "atop"} => heads'[r] = heads[r]]_heads

(* A managed release is whole or undone, through faults, restarts and others'
   pushes, as far as its receipts go. *)
ReleaseCompensates ==
    /\ [](ManifestIsWhole /\ RecordedIsUndone /\ CompletedIsReleased)
    /\ OthersCommitsStay

(* As ReleaseCoordinator and ADR-0012 have it: partial updates are compensated,
   what cannot be is for people to settle.  No repository holds a release that
   was given up as compensated. *)
CompensatedIsUndone == application.status = "compensated" => \A r \in Bundle : ~Holds(r)
=============================================================================
