--------------------------- MODULE WriterWorkspace ---------------------------
(***************************************************************************)
(* The workspaces of a code workcell: ExternalGitWorkspaceManager (the     *)
(* Writer's worktree, the frozen candidate, the Reviewers' view of it) and *)
(* CodexWorkcellAgent (the processes at work in them, and the method       *)
(* overlay they share while they run).                                     *)
(*                                                                         *)
(* Revisions are numbers, 1 is the frozen base; a revision knows its       *)
(* ancestors and the kinds of files it changes.  Everything between two    *)
(* awaits of the event loop is one step; a git command is part of it, and  *)
(* fails, or loses its answer, as the remote pleases.                      *)
(***************************************************************************)
EXTENDS Integers, Sequences, FiniteSets

CONSTANTS
    Reviewer,       \* review attempts of an iteration
    Capacity,       \* max_concurrency of the agent
    Iterations,     \* iterations of the workcell's loop
    MaxRevision,    \* bound: revisions made
    MaxFaults       \* bound: faults of the remote, of agents and of other people

(* The Writer is no Reviewer; the agent has places, and the loop a first turn. *)
ASSUME WorkspaceAssumption ==
    /\ IsFiniteSet(Reviewer) /\ "writer" \notin Reviewer
    /\ Capacity \in Nat /\ Iterations \in Nat \ {0} /\ MaxRevision \in Nat \ {0}

VARIABLES
    history,   \* revisions: [parent, line: all ancestors, files]
    remote,    \* branches of the remote: [main, candidate]; 0: no such branch
    tree,      \* the Writer's worktree: [head, dirty]; head 0: there is none
    evidence,  \* the frozen candidate; 0: none in this iteration
    views,     \* revisions with a Reviewers' view
    overlay,   \* per workspace: what is at its _bmad
    leases,    \* per workspace: attempts that hold the overlay
    writable,  \* per workspace: its mode lets its owner write
    used,      \* places taken of the agent's capacity
    attempt,   \* Writer and Reviewers: [pc, at]
    stage,     \* what the driver awaits: [pc, iteration]
    faults

workspaceVars == <<history, remote, tree, evidence, views, overlay, leases, writable, used, attempt,
          stage, faults>>

Writer == "writer"
Attempt == {Writer} \cup Reviewer
Base == 1
Tree == 0                                \* the worktree; a view is named by its revision
Workspace == {Tree} \cup 2..MaxRevision
Forbidden == {"outside", "generated", "overlay", "secret"}
Away == [pc |-> "idle", at |-> Tree]

WorkspaceInit ==
    /\ history = <<[parent |-> 0, line |-> {}, files |-> {}]>>
    /\ remote = [main |-> Base, candidate |-> 0]
    /\ tree = [head |-> 0, dirty |-> {}]
    /\ evidence = 0 /\ views = {} /\ used = 0 /\ faults = 0
    /\ overlay = [w \in Workspace |-> "none"]
    /\ leases = [w \in Workspace |-> 0]
    /\ writable = [w \in Workspace |-> TRUE]
    /\ attempt = [a \in Attempt |-> Away]
    /\ stage = [pc |-> "prepare", iteration |-> 1]

(* merge-base --is-ancestor *)
Descends(r, base) == r # 0 /\ (r = base \/ base \in history[r].line)

Commit(parent, files) ==
    history' = Append(history, [parent |-> parent, line |-> {parent} \cup history[parent].line,
                                files |-> files])

Fault == faults < MaxFaults /\ faults' = faults + 1

Moves(to) == stage' = [stage EXCEPT !.pc = to]

(* An error the loop repairs costs an iteration, any other one the stage. *)
Repairs ==
    /\ stage' = IF stage.iteration < Iterations
                THEN [pc |-> "prepare", iteration |-> stage.iteration + 1]
                ELSE [stage EXCEPT !.pc = "failed"]
    /\ evidence' = 0

-----------------------------------------------------------------------------
(* prepare_writer: the frozen base is still main; the worktree is kept between
   iterations, and made from the candidate branch when there is one. *)
PrepareWriter ==
    /\ stage.pc = "prepare"
    /\ UNCHANGED <<history, remote, views, overlay, leases, writable, used>>
    /\ \/ /\ remote.main = Base
          /\ tree' = IF tree.head # 0 THEN tree
                     ELSE [head |-> IF remote.candidate # 0 THEN remote.candidate ELSE Base,
                           dirty |-> {}]
          /\ attempt' = [attempt EXCEPT ![Writer] = [pc |-> "queued", at |-> Tree]]
          /\ Moves("write") /\ UNCHANGED <<evidence, faults>>
       \/ /\ remote.main # Base
          /\ Moves("failed") /\ UNCHANGED <<tree, attempt, evidence, faults>>
       \/ Fault /\ Repairs /\ UNCHANGED <<tree, attempt>>

-----------------------------------------------------------------------------
(* CodexWorkcellAgent.run: a place, the overlay, the process. *)

Becomes(a, how) == attempt' = [attempt EXCEPT ![a].pc = how]

(* The first attempt of a workspace installs the overlay, over one a dead process
   has left; the others share it.  What the product did not put there stays. *)
Enter(a) ==
    LET here == attempt[a].at IN
    /\ attempt[a].pc = "queued" /\ used < Capacity
    /\ IF leases[here] = 0 /\ overlay[here] = "foreign"
       THEN Becomes(a, "failed") /\ UNCHANGED <<overlay, leases, used>>
       ELSE /\ used' = used + 1
            /\ leases' = [leases EXCEPT ![here] = @ + 1]
            /\ overlay' = IF leases[here] = 0 THEN [overlay EXCEPT ![here] = "installed"] ELSE overlay
            /\ \E pc \in {"running", "leaving"} : Becomes(a, pc)
    /\ UNCHANGED <<history, remote, tree, evidence, views, writable, stage, faults>>

(* The Writer changes files, commits them, or rewrites its last commit. *)
Write ==
    /\ attempt[Writer].pc = "running"
    /\ \/ /\ \E kind \in {"allowed", "outside"} : tree' = [tree EXCEPT !.dirty = @ \cup {kind}]
          /\ UNCHANGED <<history, faults>>
       \/ /\ tree.dirty # {} /\ Len(history) < MaxRevision /\ Fault
          /\ \E parent \in {tree.head, history[tree.head].parent} \ {0} :
                Commit(parent, tree.dirty \cup history[tree.head].files)
          /\ tree' = [head |-> Len(history'), dirty |-> {}]
       \/ /\ "outside" \in tree.dirty /\ tree' = [tree EXCEPT !.dirty = @ \ {"outside"}]
          /\ UNCHANGED <<history, faults>>
    /\ UNCHANGED <<remote, evidence, views, overlay, leases, writable, used, attempt, stage>>

(* An agent damages the marker of the overlay. *)
Damage(a) ==
    /\ attempt[a].pc = "running" /\ Fault
    /\ overlay' = [overlay EXCEPT ![attempt[a].at] = "foreign"]
    /\ UNCHANGED <<history, remote, tree, evidence, views, leases, writable, used, attempt, stage>>

(* The process ends, runs out of time, or is terminated; its exit is awaited. *)
Exit(a) ==
    /\ attempt[a].pc = "running"
    /\ \E pc \in {"answered", "leaving"} : Becomes(a, pc)
    /\ UNCHANGED <<history, remote, tree, evidence, views, overlay, leases, writable, used, stage,
                   faults>>

(* Mutant: who leaves takes the overlay away. *)
LastAlways(w) == TRUE

(* The last attempt of a workspace removes the overlay and its own failure to do
   so fails the attempt. *)
LastOf(w) == leases[w] = 1

Leave(a) ==
    LET here == attempt[a].at IN
    /\ attempt[a].pc \in {"answered", "leaving", "stopping"}
    /\ used' = used - 1
    /\ leases' = [leases EXCEPT ![here] = @ - 1]
    /\ overlay' = IF LastOf(here) /\ overlay[here] = "installed" THEN [overlay EXCEPT ![here] = "none"]
                  ELSE overlay
    /\ Becomes(a, IF attempt[a].pc = "stopping" THEN "stopped"
               ELSE IF attempt[a].pc = "leaving" \/ (LastOf(here) /\ overlay[here] = "foreign")
               THEN "failed" ELSE "done")
    /\ UNCHANGED <<history, remote, tree, evidence, views, writable, stage, faults>>

(* An answer that cites what it may not, or a review without its contract, is
   asked for once more in the same workspace. *)
Retry(a) ==
    /\ attempt[a].pc = "done" /\ stage.pc \in {"write", "review"} /\ Fault
    /\ Becomes(a, "queued")
    /\ UNCHANGED <<history, remote, tree, evidence, views, overlay, leases, writable, used, stage>>

-----------------------------------------------------------------------------
(* freeze_candidate *)

(* Mutant: only what the worktree holds is compared with the policy. *)
AllowedUncommitted(files, head) == (files \cap Forbidden) = {}

(* _validate_changed_files, _validate_diff_content: of the worktree before the
   commit, and of the whole diff after it. *)
Allowed(files, head) == ((files \cup head) \cap Forbidden) = {}

(* The Writer succeeded: what it left is committed, compared with the policy and
   pushed, without force, and read back. *)
Freeze ==
    LET dirty == tree.dirty \cup (IF overlay[Tree] # "none" THEN {"overlay"} ELSE {})
        commits == dirty # {} /\ (dirty \cap Forbidden) = {}
        head == IF commits THEN Len(history) + 1 ELSE tree.head
        files == history[tree.head].files IN
    /\ stage.pc = "write" /\ attempt[Writer].pc = "done"
    /\ commits => Len(history) < MaxRevision
    /\ IF commits THEN Commit(tree.head, files \cup dirty) ELSE UNCHANGED history
    /\ tree' = IF commits THEN [head |-> head, dirty |-> {}] ELSE tree
    /\ attempt' = [attempt EXCEPT ![Writer] = Away]
    /\ UNCHANGED <<views, overlay, leases, writable, used>>
    /\ \/ /\ "overlay" \in dirty                       \* not repaired
          /\ Moves("failed") /\ UNCHANGED <<remote, evidence, faults>>
       \/ /\ \/ ~Allowed(dirty, files) \/ head = Base
             \/ ~Descends(tree.head, Base)
             \/ remote.candidate # 0 /\ ~Descends(tree.head, remote.candidate)
          /\ "overlay" \notin dirty
          /\ Repairs /\ UNCHANGED <<remote, faults>>
       \/ /\ Allowed(dirty, files) /\ head # Base /\ Descends(tree.head, Base)
          /\ remote.candidate = 0 \/ Descends(tree.head, remote.candidate)
          /\ \/ /\ remote' = [remote EXCEPT !.candidate = head]
                /\ evidence' = head /\ Moves("verify") /\ UNCHANGED faults
             \/ /\ Fault /\ Repairs                    \* the push, or its answer, is lost
                /\ remote' \in {remote, [remote EXCEPT !.candidate = head]}

(* The Writer failed: only a citation the stage may not use is repaired, and the
   worktree stays as it is. *)
WriterFailed ==
    /\ stage.pc = "write" /\ attempt[Writer].pc = "failed"
    /\ attempt' = [attempt EXCEPT ![Writer] = Away]
    /\ \/ Repairs
       \/ Moves("failed") /\ UNCHANGED evidence
    /\ UNCHANGED <<history, remote, tree, views, overlay, leases, writable, used, faults>>

(* Machine verification; the commands of a V1 profile run in the worktree and may
   leave files there. *)
Verified ==
    /\ stage.pc = "verify"
    /\ \/ Moves("view") /\ UNCHANGED evidence
       \/ Repairs
    /\ \/ UNCHANGED <<tree, faults>>
       \/ Fault /\ tree' = [tree EXCEPT !.dirty = {"generated"}]
    /\ UNCHANGED <<history, remote, views, overlay, leases, writable, used, attempt>>

-----------------------------------------------------------------------------
(* Mutant: the view that is there, or the branch, is what is reviewed. *)
ViewOfBranch == remote.candidate

(* The candidate asked for, provided that the remote branch is at it. *)
ViewOf == evidence

(* prepare_review_view and the Reviewers in it. *)
PrepareView ==
    /\ stage.pc = "view"
    /\ IF remote.candidate = ViewOf
       THEN /\ views' = views \cup {ViewOf}
            /\ writable' = [writable EXCEPT ![ViewOf] = FALSE]
            /\ attempt' = [a \in Attempt |-> IF a \in Reviewer
                                             THEN [pc |-> "queued", at |-> ViewOf] ELSE Away]
            /\ Moves("review")
       ELSE Moves("failed") /\ UNCHANGED <<views, writable, attempt>>
    /\ UNCHANGED <<history, remote, tree, evidence, overlay, leases, used, faults>>

(* All Reviewers returned: a failed one fails the stage, a blocking finding costs
   an iteration. *)
ReviewsEnd ==
    /\ stage.pc = "review" /\ \A a \in Reviewer : attempt[a].pc \in {"done", "failed"}
    /\ attempt' = [a \in Attempt |-> Away]
    /\ IF \E a \in Reviewer : attempt[a].pc = "failed" THEN Moves("failed") /\ UNCHANGED evidence
       ELSE \/ Moves("succeeded") /\ UNCHANGED evidence
            \/ Repairs
    /\ UNCHANGED <<history, remote, tree, views, overlay, leases, writable, used, faults>>

(* The stage is cancelled, runs out of time or loses its knowledge: the attempts
   it awaits are stopped. *)
Stop ==
    /\ stage.pc \in {"write", "review"} /\ Fault
    /\ \E a \in Attempt : attempt[a].pc \notin {"idle", "done", "failed"}
    /\ attempt' = [a \in Attempt |->
          [attempt[a] EXCEPT !.pc = CASE @ = "queued" -> "stopped"
                                      [] @ \in {"running", "answered", "leaving"} -> "stopping"
                                      [] OTHER -> @]]
    /\ Moves("stopped")
    /\ UNCHANGED <<history, remote, tree, evidence, views, overlay, leases, writable, used>>

(* Somebody pushes to main, or to the candidate branch. *)
Somebody ==
    /\ Fault /\ Len(history) < MaxRevision
    /\ \E b \in {"main", "candidate"} :
          /\ remote[b] # 0
          /\ Commit(remote[b], history[remote[b]].files)
          /\ remote' = [remote EXCEPT ![b] = Len(history')]
    /\ UNCHANGED <<tree, evidence, views, overlay, leases, writable, used, attempt, stage>>

(* A run of another workcell takes a place, or gives it back. *)
Others ==
    /\ LET held == Cardinality({a \in Attempt : attempt[a].pc \in
                                   {"running", "answered", "leaving", "stopping"}}) IN
       \/ used < Capacity /\ used = held /\ used' = used + 1
       \/ used > held /\ used' = used - 1
    /\ UNCHANGED <<history, remote, tree, evidence, views, overlay, leases, writable, attempt, stage,
                   faults>>

WorkspaceNext ==
    \/ PrepareWriter \/ Write \/ Freeze \/ WriterFailed \/ Verified
    \/ PrepareView \/ ReviewsEnd \/ Stop
    \/ \E a \in Attempt : Enter(a) \/ Damage(a) \/ Exit(a) \/ Leave(a) \/ Retry(a)
    \/ Somebody \/ Others

WorkspaceSpec == WorkspaceInit /\ [][WorkspaceNext]_workspaceVars

-----------------------------------------------------------------------------
Inside(w) == {a \in Attempt : attempt[a].at = w /\
                attempt[a].pc \in {"running", "answered", "leaving", "stopping"}}

WorkspaceTypeOK ==
    /\ evidence \in 0..Len(history) /\ tree.head \in 0..Len(history)
    /\ used \in 0..Capacity /\ stage.iteration \in 1..Iterations
    /\ \A w \in Workspace : overlay[w] \in {"none", "installed", "foreign"}

(* The overlay is in a workspace exactly as long as an attempt is inside: nobody
   loses it under his feet, and unless an agent has damaged it nothing of it is
   left for the candidate, or in the view, when the last one has gone. *)
OverlayReturned ==
    \A w \in Workspace :
        /\ leases[w] = Cardinality(Inside(w))
        /\ Inside(w) # {} => overlay[w] # "none"
        /\ Inside(w) = {} => overlay[w] # "installed"

(* What is verified and reviewed is the frozen candidate, which descends from the
   base and changes only what the policy allows: the worktree still stands at it,
   and every Reviewer is in a read-only view of it. *)
CandidateAsJudged ==
    stage.pc \in {"verify", "view", "review", "succeeded"} =>
        /\ evidence # 0 /\ Descends(evidence, Base) /\ (history[evidence].files \cap Forbidden) = {}
        /\ tree.head = evidence /\ Inside(Tree) = {} /\ (stage.pc = "verify" => tree.dirty = {})
        /\ \A a \in Reviewer : attempt[a].pc # "idle" =>
              attempt[a].at = evidence /\ evidence \in views /\ ~writable[evidence]

(* ExternalGitWorkspaceManager, CodexWorkcellAgent: the overlay is there as long as
   somebody works with it, and what is judged is the frozen candidate and within
   the policy. *)
WorkspacesInOrder == OverlayReturned /\ CandidateAsJudged
=============================================================================
