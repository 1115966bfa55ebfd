------------------------- MODULE MachineVerification -------------------------
(***************************************************************************)
(* Machine verification of the candidates of one delivery:                 *)
(* CommandWorkcellMachineVerifier.verify, verify_fullstack, the product    *)
(* command it runs in a process group of its own, and the packages that    *)
(* one workcell's verification publishes for the next one.                 *)
(*                                                                         *)
(* A call is a coroutine; what happens between two of its awaits is one    *)
(* step.  The reaper is the task that ends a process group; the group's    *)
(* processes run beside both.  One call runs at a time here: calls share   *)
(* only the store, in which nothing is overwritten, and the tools.         *)
(***************************************************************************)
EXTENDS Integers, Sequences, SequencesExt

CONSTANTS
    Workcell,       \* workcells with a candidate
    Sources,        \* Sources[w]: the workcells whose packages w verifies against
    Steps,          \* Steps[w]: number of commands of w's profile
    Fullstack,      \* workcells with a V2 profile; the others verify in the worktree
    MaxIterations,  \* iterations of a workcell's loop
    MaxCancels,     \* bound: times the task is cancelled
    MaxChanges      \* bound: changes of the installed tools

VARIABLES
    runs,     \* per workcell: its WorkcellRuns, oldest first
    call,     \* the verification in progress: [of, pc, step, why]
    group,    \* its process group: [main, child]
    reaper,   \* the task that ends the group
    root,     \* the temporary directory exists
    tools,    \* what is installed: [same: as qualified, changes]
    asked     \* cancellations of the task that runs the stage

vars == <<runs, call, group, reaper, root, tools, asked>>

NoCall == [of |-> "none", pc |-> "idle", step |-> 0, why |-> "none"]
NoGroup == [main |-> "none", child |-> "none"]
NewRun == [status |-> "running", verification |-> "none", inputs |-> {}]

Init ==
    /\ runs = [w \in Workcell |-> <<>>]
    /\ call = NoCall /\ group = NoGroup /\ reaper = "none"
    /\ root = FALSE /\ tools = [same |-> TRUE, changes |-> 0] /\ asked = 0

W == call.of
Current == Last(runs[W])
Sets(run) == runs' = [runs EXCEPT ![W] = ReplaceAt(@, Len(@), run)]

Succeeded(w) == runs[w] # <<>> /\ Last(runs[w]).status = "succeeded"

-----------------------------------------------------------------------------
(* A package is named by the run whose verification made it. *)

(* Mutant: the first run that made the package owns it. *)
FirstPackages(w) ==
    {p \in UNION {{s} \X DOMAIN runs[s] : s \in Sources[w]} :
        /\ runs[p[1]][p[2]].verification = "passed"
        /\ \A j \in 1..(p[2] - 1) : runs[p[1]][j].verification # "passed"}

(* upstream_artifacts: the runs of this delivery whose outputs are inputs of a
   later stage. *)
Published(s) == {i \in DOMAIN runs[s] : runs[s][i].status = "succeeded"}

(* _verification_sources, resolve_publication: a package is of the candidate that
   its run verified. *)
Packages(w) ==
    {p \in UNION {{s} \X Published(s) : s \in Sources[w]} :
        runs[p[1]][p[2]].verification = "passed"}

(* The contracts of the profile: one package of each source. *)
Admitted(w, packages) ==
    \A s \in Sources[w] : \E p \in packages : packages \cap ({s} \X Nat) = {p}

-----------------------------------------------------------------------------
(* The call. *)

(* VerificationProfileCatalog.validate: the tools are the qualified ones. *)
Qualified == tools.same

Calls(pc) == call' = [call EXCEPT !.pc = pc]

(* The call ends: the temporary directory goes, the run takes the verdict. *)
Ends(status, verification) ==
    /\ call' = NoCall /\ root' = FALSE /\ reaper' = "none"
    /\ Sets([Current EXCEPT !.status = status, !.verification = verification])

(* A workcell whose sources have succeeded has frozen a candidate, for the first
   time or in another iteration of its loop. *)
Begin(w) ==
    /\ call = NoCall /\ asked = 0
    /\ Len(runs[w]) < MaxIterations
    /\ runs[w] # <<>> => Last(runs[w]).status = "failed"
    /\ \A s \in Sources[w] : Succeeded(s)
    /\ call' = [NoCall EXCEPT !.of = w, !.pc = "prepare"]
    /\ runs' = [runs EXCEPT ![w] = Append(@, NewRun)]
    /\ UNCHANGED <<group, reaper, root, tools, asked>>

StartsCommand(step) ==
    /\ call' = [call EXCEPT !.pc = "spawn", !.step = step]
    /\ group' = [main |-> "starting", child |-> "none"]

(* The tools are as qualified, the candidate is copied out of Git, the packages
   are laid out, the first command is started; or the call raises. *)
Prepare ==
    /\ call.pc = "prepare"
    /\ \/ /\ Qualified
          /\ W \in Fullstack => Admitted(W, Packages(W))
          /\ StartsCommand(1)
          /\ root' = (W \in Fullstack)
          /\ Sets([Current EXCEPT !.inputs = IF W \in Fullstack THEN Packages(W) ELSE {}])
          /\ UNCHANGED reaper
       \/ Ends("raised", "none") /\ UNCHANGED group
    /\ UNCHANGED <<tools, asked>>

(* create_subprocess_exec returned, or raised. *)
Spawned ==
    /\ call.pc = "spawn"
    /\ \/ /\ group.main \in {"running", "passed", "failed"}
          /\ Calls("communicate") /\ UNCHANGED <<runs, reaper, root>>
       \/ group.main = "unspawned" /\ Ends("raised", "none")
    /\ UNCHANGED <<group, tools, asked>>

(* The output is read to its end: the main process has exited and no child keeps
   the pipes open. What is left of the group is ended. *)
Communicated ==
    /\ call.pc = "communicate"
    /\ group.main \in {"passed", "failed"} /\ group.child # "holds"
    /\ call' = [call EXCEPT !.pc = "finish", !.why = group.main]
    /\ reaper' = "term"
    /\ UNCHANGED <<runs, group, root, tools, asked>>

TimesOut ==
    /\ call.pc = "communicate"
    /\ call' = [call EXCEPT !.pc = "cleaning", !.why = "timeout"]
    /\ reaper' = "term"
    /\ UNCHANGED <<runs, group, root, tools, asked>>

(* Mutant: one more cancellation ends a call that waits for its reaper. *)
InterruptedAtOnce == call.pc = "cleaning"

(* _await_verification_cleanup goes on waiting. *)
Interrupted == FALSE

(* The task is cancelled while it awaits the command. *)
Cancel ==
    /\ call.pc \in {"spawn", "communicate", "finish", "cleaning"} /\ asked < MaxCancels
    /\ asked' = asked + 1
    /\ IF Interrupted THEN Ends("cancelled", "none")
       ELSE /\ call' = IF call.pc = "cleaning" THEN call
                       ELSE [call EXCEPT !.pc = "cleaning", !.why = "cancelled"]
            /\ reaper' = CASE call.pc = "spawn" -> "spawning"
                           [] call.pc = "communicate" -> "term"
                           [] OTHER -> reaper
            /\ UNCHANGED <<runs, root>>
    /\ UNCHANGED <<group, tools>>

(* The group is ended: the call goes on with the next command, or with its
   verdict. A cancellation is raised again, but one that met a timeout is lost. *)
Cleaned ==
    /\ call.pc = "cleaning" /\ reaper = "done"
    /\ IF call.why = "cancelled" THEN Ends("cancelled", "none") ELSE Ends("failed", "failed")
    /\ UNCHANGED <<group, tools, asked>>

(* The reaper found that nothing had been spawned: its error leaves the call. *)
CleaningFails ==
    /\ call.pc = "cleaning" /\ reaper = "failed"
    /\ Ends("raised", "none")
    /\ UNCHANGED <<group, tools, asked>>

(* Exit code and result file, with all tests found, run and passed, decide about a
   command. *)
CommandPassed == call.why = "passed"

(* After the last command the tools are looked at again and the package is made;
   the commands in a worktree leave none. *)
Publishes ==
    /\ call.step = Steps[W] /\ (W \in Fullstack => Qualified)
    /\ Ends("verified", "passed")

Finished ==
    /\ call.pc = "finish" /\ reaper = "done"
    /\ \/ /\ CommandPassed /\ call.step < Steps[W]
          /\ StartsCommand(call.step + 1)
          /\ reaper' = "none" /\ UNCHANGED <<runs, root>>
       \/ CommandPassed /\ Publishes /\ UNCHANGED group
       \/ CommandPassed /\ W \in Fullstack /\ Ends("raised", "none") /\ UNCHANGED group
       \/ Ends("failed", "failed") /\ UNCHANGED group
    /\ UNCHANGED <<tools, asked>>

(* The reviews and the synthesis of a verified candidate. *)
Reviewed(w) ==
    /\ call = NoCall /\ runs[w] # <<>> /\ Last(runs[w]).status = "verified"
    /\ \E status \in {"succeeded", "failed", "raised"} :
          runs' = [runs EXCEPT ![w] = ReplaceAt(@, Len(@), [Last(@) EXCEPT !.status = status])]
    /\ UNCHANGED <<call, group, reaper, root, tools, asked>>

-----------------------------------------------------------------------------
(* The task that ends the group. *)

Reaps(next) == reaper' = next /\ UNCHANGED <<runs, call, root, tools, asked>>

Reap ==
    \/ /\ reaper = "spawning" /\ group.main # "starting"
       /\ Reaps(IF group.main = "unspawned" THEN "failed" ELSE "term") /\ UNCHANGED group
    \/ reaper = "term" /\ Reaps("wait") /\ UNCHANGED group        \* SIGTERM, one second
    \/ reaper = "wait" /\ Reaps("done") /\ group' = NoGroup       \* SIGKILL, wait, drain

(* The processes of the group: the runner, and what it or the candidate's tests
   start; a child may keep the pipes of the runner. *)
Processes ==
    /\ \/ group.main = "starting" /\ group' \in {[group EXCEPT !.main = "running"],
                                                 [group EXCEPT !.main = "unspawned"]}
       \/ /\ group.main = "running" /\ group.child = "none"
          /\ group' \in [main : {"running"}, child : {"quiet", "holds"}]
       \/ group.child # "none" /\ group' = [group EXCEPT !.child = "none"]
       \/ group.main = "running" /\ group' \in [main : {"passed", "failed"}, child : {group.child}]
    /\ UNCHANGED <<runs, call, reaper, root, tools, asked>>

(* Somebody upgrades a tool, or puts the qualified one back. *)
ChangeTools ==
    /\ tools.changes < MaxChanges
    /\ tools' = [same |-> ~tools.same, changes |-> tools.changes + 1]
    /\ UNCHANGED <<runs, call, group, reaper, root, asked>>

(* What the event loop and the operating system run. *)
CallStep ==
    \/ Prepare \/ Spawned \/ Communicated \/ TimesOut \/ Cleaned \/ CleaningFails \/ Finished
    \/ Reap
    \/ group.main = "starting" /\ Processes

Next ==
    \/ \E w \in Workcell : Begin(w) \/ Reviewed(w)
    \/ CallStep \/ Processes \/ Cancel \/ ChangeTools

Spec == Init /\ [][Next]_vars

-----------------------------------------------------------------------------
Alive == group.main \in {"starting", "running"} \/ group.child # "none"

VerificationTypeOK ==
    /\ \A w \in Workcell : Len(runs[w]) <= MaxIterations
    /\ call.of \in Workcell \cup {"none"} /\ call.step \in 0..3
    /\ reaper \in {"none", "spawning", "term", "wait", "done", "failed"}
    /\ root => call # NoCall

(* However a call ends, nothing of its process group lives on, and as long as it
   lives the call has not returned and its directory is there.  What a passed
   candidate was verified against is one package of each source, made from the
   candidate that was reviewed. *)
VerificationInOrder ==
    /\ Alive => call # NoCall /\ (root <=> W \in Fullstack)
    /\ \A w \in Fullstack : \A k \in DOMAIN runs[w] :
         runs[w][k].verification = "passed" =>
             \A s \in Sources[w] : \E i \in DOMAIN runs[s] :
                 /\ runs[w][k].inputs \cap ({s} \X Nat) = {<<s, i>>}
                 /\ runs[s][i].status = "succeeded"

(* A stage that was asked to stop starts no further command, although the request
   may be lost in a timeout. *)
StartsNothing == asked > 0 => (group'.main = "starting" => group.main = "starting")

Idle == call = NoCall
=============================================================================
