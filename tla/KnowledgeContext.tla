-------------------------- MODULE KnowledgeContext --------------------------
(***************************************************************************)
(* The knowledge context of one delivery: the task of the delivery calls   *)
(* prepare(), which runs _prepare_sync in threads until one succeeds or    *)
(* fails for good.  Each thread acquires the preparation run under a       *)
(* lease, resolves the authorization stamp, retrieves the context of every *)
(* stage (or takes the one an earlier attempt left), and freezes them if   *)
(* the stamp is still the same.                                            *)
(*                                                                         *)
(* Cancelling the delivery cancels the task, not the thread it waits for.  *)
(* Users, approvals, bindings and connections change beside all this: each *)
(* change makes a new epoch (the hash of the stamp), in which the delivery *)
(* is authorized or not.                                                   *)
(***************************************************************************)
EXTENDS Naturals

CONSTANTS
    Required,      \* stages whose context must be there
    Optional,      \* stages that can do without
    MaxAttempts,   \* max_attempts of the preparer
    MaxEpoch,      \* bound: changes of the authorization
    MaxRestarts    \* bound: restarts of the process

(* A stage is bound to its sources either as required or as optional. *)
ASSUME ContextAssumption ==
    /\ {MaxAttempts, MaxRestarts} \subseteq Nat /\ MaxEpoch \in Nat \ {0}
    /\ Required \cap Optional = {}

VARIABLES
    run,         \* knowledge_context_preparation_runs
    result,      \* knowledge_context_stage_results: the epoch stamped on each
    fetchedIn,   \* history: the epoch in force when it was retrieved
    thread,      \* the _prepare_sync call, if one is alive
    task,        \* the delivery's task: what prepare() waits for
    delivery,    \* status of the delivery
    epoch, authorized,
    restarts

db == <<run, result, fetchedIn>>
authority == <<epoch, authorized>>
vars == <<db, thread, task, delivery, authority, restarts>>

Stage == Required \cup Optional
RunTerminal == {"succeeded", "failed", "cancelled"}
Epoch == 1..MaxEpoch

(* late: the lease of the run is over, or its retry time has come. *)
NoThread == [pc |-> "none", stamp |-> 0, contexts |-> {}, done |-> {}, transient |-> FALSE]

Init ==
    /\ run = [status |-> "absent", attempt |-> 0, late |-> FALSE, stamp |-> 0, contexts |-> {}]
    /\ result = [s \in Stage |-> 0] /\ fetchedIn = [s \in Stage |-> 0]
    /\ thread = NoThread
    /\ task = "ready" /\ delivery = "preparing_context"
    /\ epoch = 1 /\ authorized = TRUE
    /\ restarts = 0

Thread(pc) == thread.pc = pc
To(pc) == thread' = [thread EXCEPT !.pc = pc]
Fails(transient) == thread' = [thread EXCEPT !.pc = "fail", !.transient = transient]
EpochIs(stamp) == authorized /\ epoch = stamp

(* The thread is over; the task, if it still waits, learns how. *)
Ends(outcome) ==
    /\ thread' = NoThread
    /\ task' = IF task = "waits" THEN outcome ELSE task

-----------------------------------------------------------------------------
(* prepare() starts a thread, again after each scheduled retry. *)
StartThread ==
    /\ task = "ready" /\ Thread("none")
    /\ task' = "waits" /\ To("enter")
    /\ UNCHANGED <<db, delivery, authority, restarts>>

(* Mutant: a run that is being prepared is left to whoever prepares it. *)
EnterUnlessRunning ==
    /\ Thread("enter")
    /\ run' = IF run.status = "absent" THEN [run EXCEPT !.status = "queued"] ELSE run
    /\ \/ run'.status \in {"queued"} /\ To("acquire") /\ UNCHANGED task
       \/ run'.status = "retry_wait" /\ run.late /\ To("acquire") /\ UNCHANGED task
       \/ run'.status \in {"running", "retry_wait"} /\ ~run.late /\ Ends("sleeps")
       \/ run'.status = "running" /\ run.late /\ Ends("sleeps")
       \/ run'.status = "succeeded" /\ Ends("prepared")
       \/ run'.status \in {"failed", "cancelled"} /\ Ends("error")
    /\ UNCHANGED <<result, fetchedIn, delivery, authority, restarts>>

(* create_or_get, then by the status of the run: take it, wait for its lease or
   its retry time, return what it froze, or give up. *)
Enter ==
    /\ Thread("enter")
    /\ run' = IF run.status = "absent" THEN [run EXCEPT !.status = "queued"] ELSE run
    /\ \/ run'.status = "queued" /\ To("acquire") /\ UNCHANGED task
       \/ run'.status \in {"running", "retry_wait"} /\ run.late /\ To("acquire") /\ UNCHANGED task
       \/ run'.status \in {"running", "retry_wait"} /\ ~run.late /\ Ends("sleeps")
       \/ run'.status = "succeeded" /\ Ends("prepared")
       \/ run'.status \in {"failed", "cancelled"} /\ Ends("error")
    /\ UNCHANGED <<result, fetchedIn, delivery, authority, restarts>>

(* acquire: refused if the run ended meanwhile. *)
Acquire ==
    /\ Thread("acquire")
    /\ IF run.status \in RunTerminal
       THEN UNCHANGED run /\ Fails(FALSE)
       ELSE /\ run' = [run EXCEPT !.status = "running", !.attempt = @ + 1, !.late = FALSE]
            /\ To("resolve")
    /\ UNCHANGED <<result, fetchedIn, task, delivery, authority, restarts>>

Resolve ==
    /\ Thread("resolve")
    /\ IF authorized
       THEN thread' = [thread EXCEPT !.pc = "stages", !.stamp = epoch]
       ELSE Fails(FALSE)
    /\ UNCHANGED <<db, task, delivery, authority, restarts>>

(* A stage an earlier attempt finished is taken if it bears the same stamp. *)
ReuseStage(s) ==
    /\ Thread("stages") /\ s \in Stage \ thread.done /\ result[s] # 0
    /\ IF result[s] = thread.stamp
       THEN thread' = [thread EXCEPT !.done = @ \cup {s}, !.contexts = @ \cup {s}]
       ELSE Fails(FALSE)
    /\ UNCHANGED <<db, task, delivery, authority, restarts>>

(* The stage is retrieved, now, and stored under the stamp resolved before. *)
RetrieveStage(s) ==
    /\ Thread("stages") /\ s \in Stage \ thread.done /\ result[s] = 0
    /\ result' = [result EXCEPT ![s] = thread.stamp]
    /\ fetchedIn' = [fetchedIn EXCEPT ![s] = epoch]
    /\ thread' = [thread EXCEPT !.done = @ \cup {s}, !.contexts = @ \cup {s}]
    /\ UNCHANGED <<run, task, delivery, authority, restarts>>

(* The retrieval fails: an optional stage goes without. *)
MissStage(s) ==
    /\ Thread("stages") /\ s \in Stage \ thread.done /\ result[s] = 0
    /\ IF s \in Optional
       THEN thread' = [thread EXCEPT !.done = @ \cup {s}]
       ELSE \E transient \in BOOLEAN : Fails(transient)
    /\ UNCHANGED <<db, task, delivery, authority, restarts>>

(* Mutant: the stamp is not resolved a second time. *)
ConfirmNothing ==
    /\ Thread("stages") /\ thread.done = Stage
    /\ To("succeed")
    /\ UNCHANGED <<db, task, delivery, authority, restarts>>

(* The stamp is resolved again, and must be what it was. *)
Confirm ==
    /\ Thread("stages") /\ thread.done = Stage
    /\ IF EpochIs(thread.stamp) THEN To("succeed") ELSE Fails(FALSE)
    /\ UNCHANGED <<db, task, delivery, authority, restarts>>

(* Mutant: the run succeeds whatever became of it. *)
SucceedAnyway ==
    /\ Thread("succeed")
    /\ run' = [run EXCEPT !.status = "succeeded", !.stamp = thread.stamp,
                          !.contexts = thread.contexts]
    /\ Ends("prepared")
    /\ UNCHANGED <<result, fetchedIn, delivery, authority, restarts>>

(* succeed: only a run that is still running. *)
Succeed ==
    /\ Thread("succeed")
    /\ IF run.status = "running"
       THEN /\ run' = [run EXCEPT !.status = "succeeded", !.stamp = thread.stamp,
                                  !.contexts = thread.contexts, !.late = FALSE]
            /\ Ends("prepared")
       ELSE UNCHANGED <<run, task>> /\ Fails(FALSE)
    /\ UNCHANGED <<result, fetchedIn, delivery, authority, restarts>>

(* The handler around an attempt: a retry while attempts are left, or the end
   of a run that has not ended. *)
FailAttempt ==
    /\ Thread("fail")
    /\ IF thread.transient /\ run.attempt < MaxAttempts
       THEN IF run.status = "running"
            THEN run' = [run EXCEPT !.status = "retry_wait", !.late = FALSE] /\ Ends("sleeps")
            ELSE UNCHANGED run /\ Ends("error")
       ELSE /\ run' = [run EXCEPT !.status = IF @ \in RunTerminal THEN @ ELSE "failed",
                                  !.late = FALSE]
            /\ Ends("error")
    /\ UNCHANGED <<result, fetchedIn, delivery, authority, restarts>>

-----------------------------------------------------------------------------
(* The lease of the run runs out, or its retry time comes; the sleeping task
   wakes up then. *)
TimePasses ==
    /\ run.status \in {"running", "retry_wait"} /\ ~run.late
    /\ run' = [run EXCEPT !.late = TRUE]
    /\ UNCHANGED <<result, fetchedIn, thread, task, delivery, authority, restarts>>

Wake ==
    /\ task = "sleeps" /\ run.late
    /\ task' = "ready"
    /\ UNCHANGED <<db, thread, delivery, authority, restarts>>

(* _prepare_knowledge_context takes the result, unless the delivery moved on. *)
Deliver ==
    /\ task \in {"prepared", "error"}
    /\ delivery' = IF delivery # "preparing_context" THEN delivery
                   ELSE IF task = "prepared" THEN "queued" ELSE "failed"
    /\ task' = "none"
    /\ UNCHANGED <<db, thread, authority, restarts>>

(* DeliveryCoordinator.cancel: task and run are cancelled; a thread goes on. *)
Cancel ==
    /\ delivery = "preparing_context"
    /\ delivery' = "cancelled" /\ task' = "none"
    /\ run' = IF run.status \in RunTerminal \cup {"absent"} THEN run
              ELSE [run EXCEPT !.status = "cancelled", !.late = FALSE]
    /\ UNCHANGED <<result, fetchedIn, thread, authority, restarts>>

(* External: somebody is disabled, moved, approved, revoked, re-scoped. *)
Change ==
    /\ epoch < MaxEpoch
    /\ epoch' = epoch + 1 /\ authorized' \in BOOLEAN
    /\ UNCHANGED <<db, thread, task, delivery, restarts>>

(* The process dies; recover() starts the preparation of the delivery again. *)
Restart ==
    /\ restarts < MaxRestarts /\ restarts' = restarts + 1
    /\ thread' = NoThread
    /\ task' = IF delivery = "preparing_context" THEN "ready" ELSE "none"
    /\ UNCHANGED <<db, delivery, authority>>

Attempt ==
    \/ Enter \/ Acquire \/ Resolve \/ Confirm \/ Succeed \/ FailAttempt
    \/ \E s \in Stage : ReuseStage(s) \/ RetrieveStage(s) \/ MissStage(s)

Next ==
    \/ StartThread \/ Attempt \/ TimePasses \/ Wake \/ Deliver
    \/ Cancel \/ Change \/ Restart

(* Threads and tasks go on (retrievals time out) and time passes: as long as one
   of them can move, one does.  Their steps are bounded, so this is enough. *)
Prepares == StartThread \/ Attempt \/ TimePasses \/ Wake \/ Deliver

Fairness == WF_vars(Prepares)

Spec == Init /\ [][Next]_vars /\ Fairness

-----------------------------------------------------------------------------
(* The run, its results and the thread hold values the code can write. *)
ContextTypeOK ==
    /\ run \in [status : {"absent", "queued", "running", "retry_wait"} \cup RunTerminal,
                attempt : Nat, late : BOOLEAN, stamp : 0..MaxEpoch, contexts : SUBSET Stage]
    /\ result \in [Stage -> 0..MaxEpoch] /\ fetchedIn \in [Stage -> 0..MaxEpoch]
    /\ thread \in [pc : {"none", "enter", "acquire", "resolve", "stages", "succeed", "fail"},
                   stamp : 0..MaxEpoch, contexts : SUBSET Stage, done : SUBSET Stage,
                   transient : BOOLEAN]
    /\ task \in {"none", "ready", "waits", "sleeps", "prepared", "error"}
    /\ delivery \in {"preparing_context", "queued", "failed", "cancelled"}
    /\ epoch \in Epoch /\ authorized \in BOOLEAN

(* A frozen context is complete, and everything in it was retrieved under the
   authorization it is stamped with: also what an earlier attempt retrieved,
   and whatever changed between two stages. *)
ContextsShareStamp ==
    run.status = "succeeded" =>
        /\ Required \subseteq run.contexts
        /\ \A s \in run.contexts : result[s] = run.stamp /\ fetchedIn[s] = run.stamp

(* A run that has ended stays as it ended: a thread that outlives the
   cancellation of its delivery neither completes nor fails it. *)
PreparationIsFinal ==
    [][run.status \in RunTerminal => run' = run]_vars

(* A delivery does not prepare for ever: through transient failures, waits for
   a dead process's lease and revocations it is queued, failed or cancelled. *)
PreparationReturns ==
    <>(delivery # "preparing_context")
=============================================================================
