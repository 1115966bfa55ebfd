--------------------------- MODULE KnowledgeSync ---------------------------
(***************************************************************************)
(* Synchronisation of the sources of one provider binding: persistent jobs *)
(* with leases, the supervisor that lists and runs them in threads, manual *)
(* requests that run one inline, directory refreshes that move the scope,  *)
(* and the source heads from which search and the index builder read.      *)
(*                                                                         *)
(* Time is abstract: a job's lease runs out, or its retry falls due, by an *)
(* action.  The provider answers anything at any time.  A row saved under  *)
(* compare-and-set commits only if nothing moved since it was read, so     *)
(* diagnoses, degradations and refreshes are single steps.                 *)
(***************************************************************************)
EXTENDS Naturals

CONSTANTS
    Source,        \* the sources of the provider's space
    MaxJobs,       \* bound: jobs requested (each with its idempotency key)
    MaxThreads,    \* bound: run_sync_job calls alive at once
    MaxSyncAttempts,   \* max_attempts of a job, at least one
    MaxRevision,   \* bound: revisions of a source
    MaxSyncEvents      \* bound: directory refreshes, diagnoses and restarts

ASSUME SyncAssumption ==
    /\ {MaxJobs, MaxThreads, MaxRevision, MaxSyncEvents} \subseteq Nat
    /\ MaxSyncAttempts \in Nat \ {0} /\ "none" \notin Source

VARIABLES
    job,         \* knowledge_sync_jobs
    head,        \* knowledge_provider_source_heads_v2, of the binding
    scope,       \* knowledge_provider_binding_nodes_v2: sources in scope
    connection,  \* status of the tenant connection
    queue,       \* jobs listed by the worker and not started yet
    awaited,     \* jobs the worker's gather() waits for
    worker,      \* per thread: the run_sync_job call it is in
    syncEvents

syncRows == <<job, head, scope, connection>>
supervisor == <<queue, awaited>>
syncVars == <<syncRows, supervisor, worker, syncEvents>>

Job == 1..MaxJobs
Worker == 1..MaxThreads
Revision == 1..MaxRevision
Settled == {"succeeded", "failed"}
Waiting == {"queued", "retry_wait"}
(* Tombstoned and quarantined heads differ in name only: withdrawn. *)
HeadStatus == {"absent", "active", "withdrawn"}

NoSource == "none"
NoJob == [status |-> "absent", source |-> NoSource, attempt |-> 0, version |-> 0,
          late |-> FALSE, revision |-> 0]
NoSyncCall == [pc |-> "idle", job |-> 0, version |-> 0, inline |-> FALSE]

SyncInit ==
    /\ job = [j \in Job |-> NoJob]
    /\ head = [s \in Source |-> [status |-> "absent", revision |-> 0]]
    /\ scope = Source /\ connection = "ready"
    /\ queue = {} /\ awaited = {}
    /\ worker = [t \in Worker |-> NoSyncCall]
    /\ syncEvents = 0

-----------------------------------------------------------------------------
(* What the repository does to a job row. *)

IsDue(row) == row.status = "queued" \/ (row.status = "retry_wait" /\ row.late)

Acquired(row) == [row EXCEPT !.status = "running", !.attempt = @ + 1,
                             !.version = @ + 1, !.late = FALSE]

(* Mutant: a job that has no attempt left is not recovered at all. *)
RecoveredIfAttemptsLeft(row) ==
    IF row.status = "running" /\ row.late /\ row.attempt < MaxSyncAttempts
    THEN [row EXCEPT !.status = "queued", !.version = @ + 1, !.late = FALSE]
    ELSE row

(* recover_expired_sync_jobs *)
Recovered(row) ==
    IF row.status = "running" /\ row.late
    THEN [row EXCEPT !.status = IF row.attempt < MaxSyncAttempts THEN "queued" ELSE "failed",
                     !.version = @ + 1, !.late = FALSE]
    ELSE row

RecoveredAll == [j \in Job |-> Recovered(job[j])]

(* The call still owns its job: nobody recovered it since it was acquired. *)
Owns(t) == /\ job[worker[t].job].status = "running"
           /\ job[worker[t].job].version = worker[t].version

(* complete, fail and defer: by compare-and-set, the lease is given back. *)
Ended(row, status, revision) ==
    [row EXCEPT !.status = status, !.version = @ + 1, !.late = FALSE, !.revision = revision]

Saved(t, status, revision) == [job EXCEPT ![worker[t].job] = Ended(@, status, revision)]

-----------------------------------------------------------------------------
(* Mutant: the thread of the pool keeps the call that returned. *)
ReturnKeepingCall(t) ==
    /\ worker' = [worker EXCEPT ![t].pc = "idle"]
    /\ awaited' = IF worker[t].inline THEN awaited ELSE awaited \ {worker[t].job}

(* The call of thread t returns, or raises: then gather() gives up on the
   whole batch, whose other calls go on in their threads. *)
Return(t) ==
    /\ worker' = [worker EXCEPT ![t] = NoSyncCall]
    /\ awaited' = IF worker[t].inline THEN awaited ELSE awaited \ {worker[t].job}

Raise(t) ==
    /\ worker' = [worker EXCEPT ![t] = NoSyncCall]
    /\ awaited' = IF worker[t].inline THEN awaited ELSE {}

Running(t, place) == worker[t].pc = place
GoesTo(t, place) == worker' = [worker EXCEPT ![t].pc = place]
SourceOf(t) == job[worker[t].job].source

(* An idle thread of the pool, for a new call. *)
IdleWorker(t) == worker[t] = NoSyncCall /\ \A u \in Worker : worker[u] = NoSyncCall => t <= u

(* Scheduler and manual request alike: a job for a source in scope. *)
EnqueueSyncJob(j, s) ==
    /\ s \in scope
    /\ job[j].status = "absent" /\ \A k \in Job : job[k].status = "absent" => j <= k
    /\ job' = [job EXCEPT ![j] = [@ EXCEPT !.status = "queued", !.source = s, !.version = 1]]
    /\ UNCHANGED <<head, scope, connection, supervisor, worker, syncEvents>>

(* KnowledgeSyncWorker.run_once, when the last batch is over: recover, list. *)
RunOnce ==
    /\ awaited = {}
    /\ job' = RecoveredAll
    /\ LET due == {j \in Job : job'[j].attempt < MaxSyncAttempts /\ IsDue(job'[j])} IN
         queue' = queue \cup due /\ awaited' = due
    /\ UNCHANGED <<head, scope, connection, worker, syncEvents>>

(* run_sync_job reads the job and acquires it: of the calls that read the same
   version one wins, the others return the job as it is. *)
Calls(t, j, inline, row) ==
    worker' = [worker EXCEPT ![t] = [NoSyncCall EXCEPT !.pc = "admit", !.job = j,
                                      !.version = row.version, !.inline = inline]]

WorkerCalls(t, j) ==
    /\ IdleWorker(t) /\ j \in queue
    /\ queue' = queue \ {j}
    /\ IF IsDue(job[j])
       THEN /\ job' = [job EXCEPT ![j] = Acquired(@)]
            /\ Calls(t, j, FALSE, job'[j])
            /\ UNCHANGED awaited
       ELSE awaited' = awaited \ {j} /\ UNCHANGED <<job, worker>>
    /\ UNCHANGED <<head, scope, connection, syncEvents>>

(* request_sync for a job that exists: recover expired leases, run it if due. *)
RequestSync(t, j) ==
    /\ IdleWorker(t) /\ job[j].status \in Waiting \cup {"running"}
    /\ LET recovered == RecoveredAll IN
         IF IsDue(recovered[j])
         THEN /\ job' = [recovered EXCEPT ![j] = Acquired(@)]
              /\ Calls(t, j, TRUE, job'[j])
         ELSE job' = recovered /\ UNCHANGED worker
    /\ UNCHANGED <<head, scope, connection, supervisor, syncEvents>>

(* The connection must be ready and the source in scope: both are read here
   and not again. *)
Admit(t) ==
    /\ Running(t, "admit")
    /\ GoesTo(t, IF connection = "ready" /\ SourceOf(t) \in scope THEN "fetch" ELSE "fail")
    /\ UNCHANGED <<syncRows, supervisor, syncEvents>>

(* The provider answers, and the first commit after the answer.  (The fetch
   itself touches nothing that anybody reads.) *)

(* Mutant: the head is written before the job, not together with it. *)
CompleteApart(t) ==
    /\ Running(t, "fetch")
    /\ \E r \in Revision :
         /\ head' = [head EXCEPT ![SourceOf(t)] = [status |-> "active", revision |-> r]]
         /\ IF Owns(t) THEN job' = Saved(t, "succeeded", r) /\ Return(t)
                       ELSE UNCHANGED job /\ Raise(t)
    /\ UNCHANGED <<scope, connection, queue, syncEvents>>

(* complete_sync_job: snapshot, head and job in one transaction, or nothing. *)
Complete(t) ==
    /\ Running(t, "fetch")
    /\ IF Owns(t)
       THEN \E r \in Revision :
              /\ job' = Saved(t, "succeeded", r)
              /\ head' = [head EXCEPT ![SourceOf(t)] = [status |-> "active", revision |-> r]]
              /\ Return(t)
       ELSE UNCHANGED <<job, head>> /\ Raise(t)
    /\ UNCHANGED <<scope, connection, queue, syncEvents>>

(* 403 or 404: the head is marked first, whoever owns the job by now. *)
MarkSourceHead(t) ==
    /\ Running(t, "fetch")
    /\ head' = [head EXCEPT ![SourceOf(t)].status = "withdrawn"]
    /\ GoesTo(t, "fail")
    /\ UNCHANGED <<job, scope, connection, supervisor, syncEvents>>

(* The tenant is refused: the connection degrades first. *)
DegradeConnection(t) ==
    /\ Running(t, "fetch")
    /\ connection' = "degraded"
    /\ GoesTo(t, "fail")
    /\ UNCHANGED <<job, head, scope, supervisor, syncEvents>>

(* defer_sync_job: a transient failure, and attempts are left. *)
Defer(t) ==
    /\ Running(t, "fetch") /\ job[worker[t].job].attempt < MaxSyncAttempts
    /\ IF Owns(t) THEN job' = Saved(t, "retry_wait", 0) /\ Return(t)
                  ELSE UNCHANGED job /\ Raise(t)
    /\ UNCHANGED <<head, scope, connection, queue, syncEvents>>

(* fail_sync_job, after a mark, a refusal or any other failure. *)
Fail(t) ==
    /\ Running(t, "fail") \/ Running(t, "fetch")
    /\ IF Owns(t) THEN job' = Saved(t, "failed", 0) /\ Return(t)
                  ELSE UNCHANGED job /\ Raise(t)
    /\ UNCHANGED <<head, scope, connection, queue, syncEvents>>

-----------------------------------------------------------------------------
Happens == syncEvents < MaxSyncEvents /\ syncEvents' = syncEvents + 1

(* refresh_binding: the directory's nodes replace the scope; the heads of the
   sources that left are withdrawn. *)
RefreshBinding ==
    /\ connection = "ready" /\ Happens
    /\ \E nodes \in SUBSET Source \ {scope} :
         /\ scope' = nodes
         /\ head' = [s \in Source |->
                       IF s \in scope \ nodes /\ head[s].status # "absent"
                       THEN [head[s] EXCEPT !.status = "withdrawn"] ELSE head[s]]
    /\ UNCHANGED <<job, connection, supervisor, worker>>

(* diagnose_connection finds it ready or degraded; new credential references
   leave it unverified, which nobody tells from degraded. *)
DiagnoseConnection ==
    /\ Happens
    /\ connection' \in {"ready", "degraded"} \ {connection}
    /\ UNCHANGED <<job, head, scope, supervisor, worker>>

(* Five minutes pass, or the retry delay. *)
DeadlinePasses(j) ==
    /\ job[j].status \in {"running", "retry_wait"} /\ ~job[j].late
    /\ job' = [job EXCEPT ![j].late = TRUE]
    /\ UNCHANGED <<head, scope, connection, supervisor, worker, syncEvents>>

(* The process dies with its threads and starts again. *)
RestartSupervisor ==
    /\ Happens
    /\ queue' = {} /\ awaited' = {}
    /\ worker' = [t \in Worker |-> NoSyncCall]
    /\ UNCHANGED syncRows

WorkerStep(t) == Admit(t) \/ Complete(t) \/ MarkSourceHead(t) \/ DegradeConnection(t)
           \/ Defer(t) \/ Fail(t)

SyncNext ==
    \/ \E j \in Job, s \in Source : EnqueueSyncJob(j, s)
    \/ RunOnce
    \/ \E t \in Worker, j \in Job : WorkerCalls(t, j) \/ RequestSync(t, j)
    \/ \E t \in Worker : WorkerStep(t)
    \/ RefreshBinding \/ DiagnoseConnection
    \/ \E j \in Job : DeadlinePasses(j)
    \/ RestartSupervisor

-----------------------------------------------------------------------------
(* Jobs, heads and calls hold values the code can write; a job that was never
   requested has no other field set, and none has more attempts than it may. *)
SyncTypeOK ==
    /\ job \in [Job -> [status : {"absent", "running"} \cup Waiting \cup Settled,
                        source : Source \cup {NoSource}, attempt : 0..MaxSyncAttempts,
                        version : Nat, late : BOOLEAN, revision : 0..MaxRevision]]
    /\ head \in [Source -> [status : HeadStatus, revision : 0..MaxRevision]]
    /\ scope \subseteq Source
    /\ connection \in {"ready", "degraded"}
    /\ queue \subseteq Job /\ awaited \subseteq Job
    /\ worker \in [Worker -> [pc : {"idle", "admit", "fetch", "fail"},
                              job : Job \cup {0}, version : Nat, inline : BOOLEAN]]
    /\ \A j \in Job : job[j].status = "absent" <=> job[j].source = NoSource
    /\ \A t \in Worker : worker[t].pc = "idle" <=> worker[t].job = 0

(* Of the calls that run a job, through expired leases, take-overs and restarts,
   one may save it: the one that acquired it last. *)
OneOwner ==
    \A t, u \in Worker :
        /\ worker[t].job = worker[u].job /\ worker[t].job # 0
        /\ Owns(t) /\ Owns(u)
        => t = u

(* Search is given a (new) revision of a source only together with the success
   of the job that fetched it: a call whose lease was taken over leaves the
   head alone.  And what a job ended in stands. *)
HeadMovesWithJob ==
    [][/\ \A s \in Source :
            head'[s] # head[s] /\ head'[s].status = "active" =>
              \E j \in Job : /\ job[j].source = s /\ job[j].status = "running"
                             /\ job'[j].status = "succeeded"
                             /\ job'[j].revision = head'[s].revision
       /\ \A j \in Job : job[j].status \in Settled => job'[j] = job[j]]_syncVars

(* Every requested job is over in the end, through provider failures, lost
   leases, abandoned batches and restarts (requests are bounded here, so "in the
   end" can be said of all of them at once). *)
JobsSettle ==
    <>[](\A j \in Job : job[j].status \in Settled \cup {"absent"})

(* ADR-0017: a source that left the scope does not enter search. *)
ScopeLeavesSearch ==
    \A s \in Source : head[s].status = "active" => s \in scope

(* The supervisor's loop goes on, threads end (provider calls time out) and time
   passes: as long as one of them can move, one of them does.  Their steps are
   bounded, so this weak form is enough.  Nobody has to call request_sync. *)
Supervised ==
    \/ RunOnce
    \/ \E t \in Worker : WorkerStep(t) \/ \E j \in Job : WorkerCalls(t, j)
    \/ \E j \in Job : DeadlinePasses(j)

SyncFairness == WF_syncVars(Supervised)

SyncSpec == SyncInit /\ [][SyncNext]_syncVars /\ SyncFairness
=============================================================================
