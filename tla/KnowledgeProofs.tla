-------------------------- MODULE KnowledgeProofs --------------------------
(***************************************************************************)
(* Proofs about the synchronisation of the sources (KnowledgeSync), the    *)
(* index revisions (KnowledgeIndex) and the context of a delivery          *)
(* (KnowledgeContext), which share no variable.                            *)
(***************************************************************************)
EXTENDS KnowledgeSync, KnowledgeIndex, KnowledgeContext, TLAPS

-----------------------------------------------------------------------------
(* The synchronisation of the sources.                                     *)

SyncRow == [status : {"absent", "running"} \cup Waiting \cup Settled,
            source : Source \cup {NoSource}, attempt : 0..MaxSyncAttempts,
            version : Nat, late : BOOLEAN, revision : 0..MaxRevision]

SyncCall == [pc : {"idle", "admit", "fetch", "fail"},
             job : Job \cup {0}, version : Nat, inline : BOOLEAN]

(* A job that waits has an attempt left; one that was never requested had none. *)
RowInOrder(row) ==
    /\ row.status = "absent" <=> row.source = NoSource
    /\ row.status = "absent" => row.version = 0 /\ row.attempt = 0
    /\ row.status \in Waiting => row.attempt < MaxSyncAttempts

JobsInOrder == \A j \in Job : RowInOrder(job[j])

(* A call is about a job that was requested, and has a version of it that no
   other call has. *)
WorkersInOrder ==
    /\ \A t \in Worker : worker[t].job # 0 =>
         /\ job[worker[t].job].status # "absent"
         /\ worker[t].version <= job[worker[t].job].version
    /\ \A t, u \in Worker :
         /\ worker[t].job # 0 /\ worker[t].job = worker[u].job
         /\ worker[t].version = worker[u].version
         => t = u

(* The inductive invariant of the synchronisation. *)
SyncInv == SyncTypeOK /\ JobsInOrder /\ WorkersInOrder

(* What may become of a row. *)
RowFollows(row, next) ==
    /\ next \in SyncRow /\ RowInOrder(next)
    /\ row.version <= next.version
    /\ row.status # "absent" => next.status # "absent" /\ next.source = row.source
    /\ row.status \in Settled => next = row

JobsFollow == job' \in [Job -> SyncRow] /\ \A j \in Job : RowFollows(job[j], job'[j])

LEMMA SyncConstants ==
    /\ MaxSyncAttempts \in Nat \ {0} /\ MaxRevision \in Nat
    /\ NoSource \notin Source /\ 0 \notin Job
    /\ NoSyncCall \in SyncCall /\ NoSyncCall.job = 0 /\ NoSyncCall.pc = "idle"
BY SyncAssumption DEF NoSource, NoSyncCall, SyncCall, Job

LEMMA JobRows ==
    ASSUME SyncInv, NEW j \in Job
    PROVE  job[j] \in SyncRow /\ RowInOrder(job[j])
BY DEF SyncInv, SyncTypeOK, JobsInOrder, SyncRow

LEMMA RowStays ==
    ASSUME NEW row \in SyncRow, RowInOrder(row)
    PROVE  RowFollows(row, row)
BY DEF RowFollows, SyncRow

LEMMA RecoveryOfRow ==
    ASSUME NEW row \in SyncRow, RowInOrder(row)
    PROVE  RowFollows(row, Recovered(row))
<1>1. CASE row.status = "running" /\ row.late
  <2> DEFINE y == [status |-> IF row.attempt < MaxSyncAttempts THEN "queued" ELSE "failed",
                   source |-> row.source, attempt |-> row.attempt,
                   version |-> row.version + 1, late |-> FALSE, revision |-> row.revision]
  <2>1. Recovered(row) = y
    BY <1>1 DEF Recovered, SyncRow
  <2>2. RowFollows(row, y)
    BY <1>1, SyncConstants DEF RowFollows, RowInOrder, SyncRow, Waiting, Settled
  <2>3. QED BY <2>1, <2>2
<1>2. CASE ~(row.status = "running" /\ row.late)
  BY <1>2, RowStays DEF Recovered
<1>3. QED BY <1>1, <1>2

LEMMA AcquisitionOfRow ==
    ASSUME NEW row \in SyncRow, RowInOrder(row), IsDue(row)
    PROVE  /\ RowFollows(row, Acquired(row))
           /\ Acquired(row).status = "running" /\ Acquired(row).version = row.version + 1
<1> DEFINE v == [row EXCEPT !.status = "running", !.attempt = row.attempt + 1]
           y == [v EXCEPT !.version = row.version + 1, !.late = FALSE]
<1>1. row.attempt + 1 \in 0..MaxSyncAttempts /\ row.version + 1 \in Nat
  BY SyncConstants DEF RowInOrder, SyncRow, Waiting, IsDue
<1>2. v \in SyncRow /\ v.status = "running" /\ v.source = row.source
  BY <1>1 DEF SyncRow
<1>3. Acquired(row) = y
  BY DEF Acquired, SyncRow
<1> HIDE DEF v
<1>4. /\ y \in SyncRow /\ y.status = "running" /\ y.source = row.source
      /\ y.version = row.version + 1
  BY <1>1, <1>2 DEF SyncRow
<1> HIDE DEF y
<1>5. RowFollows(row, y)
  BY <1>1, <1>4 DEF RowFollows, RowInOrder, SyncRow, Waiting, Settled, IsDue
<1>6. QED BY <1>3, <1>4, <1>5

LEMMA RecoveryOfAll ==
    ASSUME SyncInv
    PROVE  /\ RecoveredAll \in [Job -> SyncRow]
           /\ \A j \in Job : RowFollows(job[j], RecoveredAll[j])
<1>1. ASSUME NEW j \in Job
      PROVE  RowFollows(job[j], Recovered(job[j])) /\ Recovered(job[j]) \in SyncRow
  BY JobRows, RecoveryOfRow DEF RowFollows
<1>2. QED BY <1>1 DEF RecoveredAll

LEMMA FollowsTwice ==
    ASSUME NEW a \in SyncRow, NEW b \in SyncRow, NEW c \in SyncRow,
           RowFollows(a, b), RowFollows(b, c)
    PROVE  RowFollows(a, c)
BY DEF RowFollows, SyncRow

(* One job changes. *)
LEMMA OneJobMoves ==
    ASSUME SyncInv, NEW j \in Job, NEW row, RowFollows(job[j], row),
           job' = [job EXCEPT ![j] = row]
    PROVE  JobsFollow /\ job'[j] = row
<1>1. job' \in [Job -> SyncRow] /\ job'[j] = row /\ \A k \in Job \ {j} : job'[k] = job[k]
  BY DEF SyncInv, SyncTypeOK, RowFollows, SyncRow
<1>2. QED BY <1>1, JobRows, RowStays DEF JobsFollow

LEMMA NoJobMoves ==
    ASSUME SyncInv, UNCHANGED job
    PROVE  JobsFollow
BY JobRows, RowStays DEF JobsFollow, SyncInv, SyncTypeOK, SyncRow

(* What a call may become: it stays with its job, or is over. *)
WorkersStay ==
    /\ worker' \in [Worker -> SyncCall]
    /\ \A t \in Worker : worker'[t].pc = "idle" <=> worker'[t].job = 0
    /\ \A t \in Worker : worker'[t].job # 0 =>
         worker'[t].job = worker[t].job /\ worker'[t].version = worker[t].version

LEMMA JobsThenWorkers ==
    ASSUME SyncInv, JobsFollow, WorkersStay
    PROVE  JobsInOrder' /\ WorkersInOrder'
<1>1. JobsInOrder'
  BY DEF JobsFollow, RowFollows, JobsInOrder
<1>2. ASSUME NEW t \in Worker, worker'[t].job # 0
      PROVE  /\ job'[worker'[t].job].status # "absent"
             /\ worker'[t].version <= job'[worker'[t].job].version
  <2> DEFINE j == worker[t].job
  <2>1. j \in Job /\ worker'[t].job = j /\ worker'[t].version = worker[t].version
        /\ worker[t].version \in Nat
    BY <1>2 DEF SyncInv, SyncTypeOK, WorkersStay, SyncCall
  <2>2. job[j].status # "absent" /\ worker[t].version <= job[j].version
    BY <1>2, <2>1, SyncConstants DEF SyncInv, WorkersInOrder
  <2>3. /\ job[j].version <= job'[j].version /\ job'[j].status # "absent"
        /\ job[j].version \in Nat /\ job'[j].version \in Nat
    BY <2>1, <2>2, JobRows DEF JobsFollow, RowFollows, SyncRow
  <2>4. QED BY <2>1, <2>2, <2>3
<1>3. \A t, u \in Worker :
        /\ worker'[t].job # 0 /\ worker'[t].job = worker'[u].job
        /\ worker'[t].version = worker'[u].version
        => t = u
  BY DEF WorkersStay, SyncInv, WorkersInOrder
<1>4. QED BY <1>1, <1>2, <1>3 DEF WorkersInOrder

(* A call that starts has acquired its job, at a version of its own. *)
LEMMA NewCall ==
    ASSUME SyncInv, JobsFollow, NEW t \in Worker, NEW j \in Job, NEW inline \in BOOLEAN,
           Calls(t, j, inline, job'[j]), job[j].version < job'[j].version,
           job'[j].status = "running"
    PROVE  /\ worker' \in [Worker -> SyncCall]
           /\ \A u \in Worker : worker'[u].pc = "idle" <=> worker'[u].job = 0
           /\ JobsInOrder' /\ WorkersInOrder'
<1>1. /\ worker' = [worker EXCEPT ![t] = worker'[t]]
      /\ worker'[t] = [pc |-> "admit", job |-> j, version |-> job'[j].version, inline |-> inline]
      /\ \A u \in Worker \ {t} : worker'[u] = worker[u]
  BY DEF Calls, NoSyncCall, SyncInv, SyncTypeOK
<1>2. worker'[t] \in SyncCall /\ worker'[t].job = j /\ worker'[t].version = job'[j].version
      /\ worker'[t].pc = "admit" /\ job'[j].version \in Nat /\ job[j].version \in Nat
  BY <1>1, JobRows DEF SyncCall, JobsFollow, SyncRow
<1>3. worker' \in [Worker -> SyncCall]
  BY <1>1, <1>2 DEF SyncInv, SyncTypeOK, SyncCall
<1>4. \A u \in Worker : worker'[u].pc = "idle" <=> worker'[u].job = 0
  BY <1>1, <1>2, SyncConstants DEF SyncInv, SyncTypeOK
<1>5. JobsInOrder'
  BY DEF JobsFollow, RowFollows, JobsInOrder
<1>6. ASSUME NEW u \in Worker \ {t}, worker'[u].job # 0
      PROVE  /\ worker'[u].job = worker[u].job /\ worker'[u].version = worker[u].version
             /\ job'[worker'[u].job].status # "absent"
             /\ worker'[u].version <= job'[worker'[u].job].version
             /\ worker'[u].job = j => worker'[u].version < job'[j].version
  <2> DEFINE k == worker[u].job
  <2>1. k \in Job /\ worker'[u] = worker[u] /\ worker[u].version \in Nat
    BY <1>1, <1>6 DEF SyncInv, SyncTypeOK
  <2>2. job[k].status # "absent" /\ worker[u].version <= job[k].version
    BY <1>6, <2>1, SyncConstants DEF SyncInv, WorkersInOrder
  <2>3. /\ job[k].version <= job'[k].version /\ job'[k].status # "absent"
        /\ job[k].version \in Nat /\ job'[k].version \in Nat
    BY <2>1, <2>2, JobRows DEF JobsFollow, RowFollows, SyncRow
  <2>4. k = j => worker[u].version < job'[j].version
    BY <1>2, <2>1, <2>2
  <2>5. QED BY <2>1, <2>2, <2>3, <2>4
<1>7. ASSUME NEW u \in Worker, worker'[u].job # 0
      PROVE  /\ job'[worker'[u].job].status # "absent"
             /\ worker'[u].version <= job'[worker'[u].job].version
  <2>1. CASE u = t
    BY <1>2, <2>1
  <2>2. CASE u # t
    BY <1>6, <1>7, <2>2
  <2>3. QED BY <2>1, <2>2
<1>8. ASSUME NEW u \in Worker, NEW v \in Worker, worker'[u].job # 0,
             worker'[u].job = worker'[v].job, worker'[u].version = worker'[v].version
      PROVE  u = v
  <2>1. CASE u # t /\ v # t
    BY <1>6, <1>8, <2>1 DEF SyncInv, WorkersInOrder
  <2>2. CASE u = t /\ v # t
    <3>1. worker'[v].version < job'[j].version
      BY <1>2, <1>6, <1>8, <2>2
    <3>2. QED BY <1>2, <1>8, <2>2, <3>1
  <2>3. CASE u # t /\ v = t
    <3>1. worker'[u].version < job'[j].version
      BY <1>2, <1>6, <1>8, <2>3
    <3>2. QED BY <1>2, <1>8, <2>3, <3>1
  <2>4. QED BY <2>1, <2>2, <2>3
<1>9. WorkersInOrder'
  BY <1>7, <1>8 DEF WorkersInOrder
<1>10. QED BY <1>3, <1>4, <1>5, <1>9

(* The rest of the type invariant. *)
RestTyped ==
    /\ head' \in [Source -> [status : HeadStatus, revision : 0..MaxRevision]]
    /\ scope' \subseteq Source /\ connection' \in {"ready", "degraded"}
    /\ queue' \subseteq Job /\ awaited' \subseteq Job

LEMMA StepOfJobs ==
    ASSUME SyncInv, JobsFollow, WorkersStay, RestTyped
    PROVE  SyncInv' /\ JobsFollow
<1>1. JobsInOrder' /\ WorkersInOrder'
  BY JobsThenWorkers
<1>2. SyncTypeOK'
  BY DEF SyncTypeOK, JobsFollow, WorkersStay, RestTyped, RowFollows, RowInOrder, SyncRow, SyncCall
<1>3. QED BY <1>1, <1>2 DEF SyncInv

LEMMA StepOfCall ==
    ASSUME SyncInv, JobsFollow, RestTyped,
           NEW t \in Worker, NEW j \in Job, NEW inline \in BOOLEAN,
           Calls(t, j, inline, job'[j]), job[j].version < job'[j].version,
           job'[j].status = "running"
    PROVE  SyncInv' /\ JobsFollow
<1>1. /\ worker' \in [Worker -> SyncCall]
      /\ \A u \in Worker : worker'[u].pc = "idle" <=> worker'[u].job = 0
      /\ JobsInOrder' /\ WorkersInOrder'
  BY NewCall
<1>2. SyncTypeOK'
  BY <1>1 DEF SyncTypeOK, JobsFollow, RestTyped, RowFollows, RowInOrder, SyncRow, SyncCall
<1>3. QED BY <1>1, <1>2 DEF SyncInv

LEMMA WorkersAlone ==
    ASSUME SyncInv, UNCHANGED worker
    PROVE  WorkersStay
BY DEF SyncInv, SyncTypeOK, WorkersStay, SyncCall

LEMMA WorkerGoes ==
    ASSUME SyncInv, NEW t \in Worker, NEW place \in {"admit", "fetch", "fail"},
           worker[t].pc # "idle", GoesTo(t, place)
    PROVE  WorkersStay
<1>1. /\ worker'[t] = [worker[t] EXCEPT !.pc = place]
      /\ \A u \in Worker \ {t} : worker'[u] = worker[u]
      /\ worker' \in [Worker -> SyncCall]
  BY DEF GoesTo, SyncInv, SyncTypeOK, SyncCall
<1>2. /\ worker'[t].pc = place /\ worker'[t].job = worker[t].job
      /\ worker'[t].version = worker[t].version /\ worker[t].job # 0
  BY <1>1 DEF SyncInv, SyncTypeOK
<1>3. QED BY <1>1, <1>2 DEF WorkersStay, SyncInv, SyncTypeOK

LEMMA WorkerEnds ==
    ASSUME SyncInv, NEW t \in Worker, worker' = [worker EXCEPT ![t] = NoSyncCall]
    PROVE  WorkersStay
<1>1. /\ worker'[t] = NoSyncCall /\ \A u \in Worker \ {t} : worker'[u] = worker[u]
      /\ worker' \in [Worker -> SyncCall]
  BY SyncConstants DEF SyncInv, SyncTypeOK, SyncCall
<1>2. QED BY <1>1, SyncConstants DEF WorkersStay, SyncInv, SyncTypeOK

(* A worker that saves its job owns it. *)
LEMMA JobSaved ==
    ASSUME SyncInv, NEW t \in Worker, worker[t].job # 0, Owns(t),
           NEW status \in Settled \cup {"retry_wait"}, NEW r \in 0..MaxRevision,
           status = "retry_wait" => job[worker[t].job].attempt < MaxSyncAttempts,
           job' = Saved(t, status, r)
    PROVE  /\ JobsFollow
           /\ worker[t].job \in Job
           /\ job'[worker[t].job].status = status /\ job'[worker[t].job].revision = r
           /\ job[worker[t].job].status = "running"
<1> DEFINE j == worker[t].job
<1> DEFINE row == job[j]
<1> DEFINE v == [row EXCEPT !.status = status, !.version = row.version + 1]
           y == [v EXCEPT !.late = FALSE, !.revision = r]
<1>1. j \in Job /\ row \in SyncRow /\ RowInOrder(row) /\ row.status = "running"
  BY JobRows DEF SyncInv, SyncTypeOK, Owns
<1>2. job' = [job EXCEPT ![j] = y]
  <2>1. Ended(row, status, r) = y
    BY <1>1 DEF Ended, SyncRow
  <2>2. job' = [job EXCEPT ![j] = Ended(job[j], status, r)]
    BY DEF Saved
  <2>3. QED BY <2>1, <2>2
<1>3. RowFollows(row, y) /\ y.status = status /\ y.revision = r
  <2> HIDE DEF row
  <2>1. row.version + 1 \in Nat /\ row.version <= row.version + 1
    BY <1>1 DEF SyncRow
  <2>2. /\ v \in SyncRow /\ v.status = status /\ v.source = row.source
        /\ v.attempt = row.attempt /\ v.version = row.version + 1
    BY <1>1, <2>1 DEF SyncRow, Waiting, Settled
  <2> HIDE DEF v
  <2>3. /\ y \in SyncRow /\ y.status = status /\ y.source = row.source
        /\ y.attempt = row.attempt /\ y.version = row.version + 1 /\ y.revision = r
    BY <2>2 DEF SyncRow
  <2> HIDE DEF y
  <2>4. QED BY <1>1, <2>1, <2>3 DEF RowFollows, RowInOrder, SyncRow, Waiting, Settled, row
<1>4. JobsFollow /\ job'[j] = y
  <2> HIDE DEF y
  <2>1. QED BY <1>1, <1>2, <1>3, OneJobMoves
<1>5. QED BY <1>1, <1>4

LEMMA SyncInitially == SyncInit => SyncInv
<1> SUFFICES ASSUME SyncInit PROVE SyncInv
  OBVIOUS
<1>1. NoJob \in SyncRow /\ RowInOrder(NoJob)
  BY SyncConstants DEF NoJob, SyncRow, RowInOrder, Waiting
<1>2. /\ \A j \in Job : job[j] = NoJob
      /\ job \in [Job -> SyncRow]
      /\ \A t \in Worker : worker[t] = NoSyncCall
      /\ worker \in [Worker -> SyncCall]
  BY <1>1, SyncConstants DEF SyncInit
<1>3. head \in [Source -> [status : HeadStatus, revision : 0..MaxRevision]]
  BY SyncConstants DEF SyncInit, HeadStatus
<1>4. SyncTypeOK
  BY <1>2, <1>3, SyncConstants DEF SyncInit, SyncTypeOK, SyncRow, SyncCall, NoJob
<1>5. JobsInOrder /\ WorkersInOrder
  BY <1>1, <1>2, SyncConstants DEF JobsInOrder, WorkersInOrder
<1>6. QED BY <1>4, <1>5 DEF SyncInv

(* What a step does: the invariant is kept, jobs only go on, and a head that
   becomes active does so with its job. *)
HeadsFollow ==
    \A s \in Source :
        head'[s] # head[s] /\ head'[s].status = "active" =>
          \E j \in Job : /\ job[j].source = s /\ job[j].status = "running"
                         /\ job'[j].status = "succeeded"
                         /\ job'[j].revision = head'[s].revision

SyncGoesOn == SyncInv' /\ JobsFollow /\ HeadsFollow

LEMMA JobsAlone ==
    ASSUME SyncInv, JobsFollow, WorkersStay, UNCHANGED <<head, scope, connection>>,
           queue' \subseteq Job, awaited' \subseteq Job
    PROVE  SyncGoesOn
<1>1. RestTyped
  BY DEF SyncInv, SyncTypeOK, RestTyped
<1>2. QED BY <1>1, StepOfJobs DEF SyncGoesOn, HeadsFollow

(* A call that returns, or raises, leaves the worker's batch smaller. *)
LEMMA CallOver ==
    ASSUME SyncInv, NEW t \in Worker, Return(t) \/ Raise(t)
    PROVE  WorkersStay /\ awaited' \subseteq Job
BY WorkerEnds DEF Return, Raise, SyncInv, SyncTypeOK

LEMMA EnqueueStep ==
    ASSUME SyncInv, NEW j \in Job, NEW s \in Source, EnqueueSyncJob(j, s)
    PROVE  SyncGoesOn
<1> DEFINE row == job[j]
           v == [row EXCEPT !.status = "queued", !.source = s]
           y == [v EXCEPT !.version = 1]
<1>1. /\ row \in SyncRow /\ row.status = "absent" /\ row.version = 0 /\ row.attempt = 0
      /\ s # NoSource
  BY JobRows, SyncConstants DEF EnqueueSyncJob, RowInOrder
<1>2. job' = [job EXCEPT ![j] = y]
  BY <1>1 DEF EnqueueSyncJob, SyncRow
<1> HIDE DEF row
<1>3. v \in SyncRow /\ v.status = "queued" /\ v.source = s /\ v.attempt = 0
  BY <1>1 DEF SyncRow, Waiting
<1> HIDE DEF v
<1>4. y \in SyncRow /\ y.status = "queued" /\ y.source = s /\ y.attempt = 0 /\ y.version = 1
  BY <1>3 DEF SyncRow
<1> HIDE DEF y
<1>5. RowFollows(row, y)
  BY <1>1, <1>4, SyncConstants DEF RowFollows, RowInOrder, Settled
<1>6. JobsFollow
  BY <1>2, <1>5, OneJobMoves DEF row
<1>7. QED BY <1>6, WorkersAlone, JobsAlone
           DEF EnqueueSyncJob, supervisor, SyncInv, SyncTypeOK

LEMMA RunOnceStep == ASSUME SyncInv, RunOnce PROVE SyncGoesOn
<1>1. JobsFollow
  BY RecoveryOfAll DEF RunOnce, JobsFollow
<1>2. queue' \subseteq Job /\ awaited' \subseteq Job
  BY DEF RunOnce, SyncInv, SyncTypeOK
<1>3. QED BY <1>1, <1>2, WorkersAlone, JobsAlone DEF RunOnce

(* A call that starts acquires its job. *)
LEMMA CallAcquires ==
    ASSUME SyncInv, NEW t \in Worker, NEW j \in Job, NEW inline \in BOOLEAN,
           NEW before \in [Job -> SyncRow], \A k \in Job : RowFollows(job[k], before[k]),
           IsDue(before[j]), job' = [before EXCEPT ![j] = Acquired(before[j])],
           Calls(t, j, inline, job'[j]),
           UNCHANGED <<head, scope, connection>>, queue' \subseteq Job, awaited' \subseteq Job
    PROVE  SyncGoesOn
<1>1. /\ RowFollows(before[j], Acquired(before[j]))
      /\ Acquired(before[j]).status = "running"
      /\ Acquired(before[j]).version = before[j].version + 1
  BY AcquisitionOfRow DEF RowFollows
<1>2. job' \in [Job -> SyncRow] /\ job'[j] = Acquired(before[j])
      /\ \A k \in Job \ {j} : job'[k] = before[k]
  BY <1>1 DEF RowFollows
<1>3. RowFollows(job[j], job'[j])
  BY <1>1, <1>2, JobRows, FollowsTwice
<1>4. JobsFollow
  BY <1>2, <1>3 DEF JobsFollow
<1>5. job[j].version < job'[j].version /\ job'[j].status = "running"
  <2>1. job[j].version \in Nat /\ before[j].version \in Nat /\ job[j].version <= before[j].version
    BY JobRows DEF RowFollows, SyncRow
  <2>2. QED BY <1>1, <1>2, <2>1
<1>6. RestTyped
  BY DEF SyncInv, SyncTypeOK, RestTyped
<1>7. QED BY <1>4, <1>5, <1>6, StepOfCall DEF SyncGoesOn, HeadsFollow

LEMMA WorkerCallsStep ==
    ASSUME SyncInv, NEW t \in Worker, NEW j \in Job, WorkerCalls(t, j)
    PROVE  SyncGoesOn
<1>1. /\ UNCHANGED <<head, scope, connection>>
      /\ queue' \subseteq Job /\ awaited' \subseteq Job
  BY DEF WorkerCalls, SyncInv, SyncTypeOK
<1>2. CASE IsDue(job[j])
  <2>1. /\ job' = [job EXCEPT ![j] = Acquired(job[j])] /\ Calls(t, j, FALSE, job'[j])
        /\ job \in [Job -> SyncRow] /\ \A k \in Job : RowFollows(job[k], job[k])
    BY <1>2, JobRows, RowStays DEF WorkerCalls, SyncInv, SyncTypeOK, SyncRow
  <2>2. QED BY <1>1, <1>2, <2>1, CallAcquires
<1>3. CASE ~IsDue(job[j])
  BY <1>1, <1>3, NoJobMoves, WorkersAlone, JobsAlone DEF WorkerCalls
<1>4. QED BY <1>2, <1>3

LEMMA RequestSyncStep ==
    ASSUME SyncInv, NEW t \in Worker, NEW j \in Job, RequestSync(t, j)
    PROVE  SyncGoesOn
<1>1. /\ UNCHANGED <<head, scope, connection>>
      /\ queue' \subseteq Job /\ awaited' \subseteq Job
  BY DEF RequestSync, supervisor, SyncInv, SyncTypeOK
<1>2. CASE IsDue(RecoveredAll[j])
  <2>1. /\ job' = [RecoveredAll EXCEPT ![j] = Acquired(RecoveredAll[j])]
        /\ Calls(t, j, TRUE, job'[j])
    BY <1>2 DEF RequestSync
  <2>2. QED BY <1>1, <1>2, <2>1, RecoveryOfAll, CallAcquires
<1>3. CASE ~IsDue(RecoveredAll[j])
  <2>1. job' = RecoveredAll /\ UNCHANGED worker
    BY <1>3 DEF RequestSync
  <2>2. QED BY <1>1, <2>1, RecoveryOfAll, WorkersAlone, JobsAlone DEF JobsFollow
<1>4. QED BY <1>2, <1>3

LEMMA AdmitStep == ASSUME SyncInv, NEW t \in Worker, Admit(t) PROVE SyncGoesOn
<1>1. WorkersStay
  BY WorkerGoes DEF Admit, Running
<1>2. QED BY <1>1, NoJobMoves, JobsAlone DEF Admit, syncRows, supervisor, SyncInv, SyncTypeOK

LEMMA BusyWorker ==
    ASSUME SyncInv, NEW t \in Worker, worker[t].pc # "idle"
    PROVE  worker[t].job \in Job /\ worker[t].job # 0
BY DEF SyncInv, SyncTypeOK

(* Head and job are written together. *)
LEMMA CompleteStep == ASSUME SyncInv, NEW t \in Worker, Complete(t) PROVE SyncGoesOn
<1>1. /\ worker[t].job \in Job /\ worker[t].job # 0 /\ queue' \subseteq Job
      /\ UNCHANGED <<scope, connection>>
  BY BusyWorker DEF Complete, Running, SyncInv, SyncTypeOK
<1>2. CASE ~Owns(t)
  <2>1. WorkersStay /\ awaited' \subseteq Job /\ UNCHANGED <<job, head>>
    BY <1>2, CallOver DEF Complete
  <2>2. QED BY <1>1, <2>1, NoJobMoves, JobsAlone
<1>3. CASE Owns(t)
  <2>1. PICK r \in Revision :
          /\ job' = Saved(t, "succeeded", r)
          /\ head' = [head EXCEPT ![SourceOf(t)] = [status |-> "active", revision |-> r]]
          /\ Return(t)
    BY <1>3 DEF Complete
  <2>2. r \in 0..MaxRevision
    BY SyncConstants DEF Revision
  <2>3. /\ JobsFollow /\ job[worker[t].job].status = "running"
        /\ job'[worker[t].job].status = "succeeded" /\ job'[worker[t].job].revision = r
    BY <1>1, <1>3, <2>1, <2>2, JobSaved DEF Settled
  <2>4. WorkersStay /\ awaited' \subseteq Job
    BY <2>1, CallOver
  <2>5. SourceOf(t) \in Source /\ job[worker[t].job].source = SourceOf(t)
    BY <1>1, <2>3, JobRows DEF SourceOf, SyncRow, RowInOrder
  <2>6. /\ head' \in [Source -> [status : HeadStatus, revision : 0..MaxRevision]]
        /\ head'[SourceOf(t)] = [status |-> "active", revision |-> r]
        /\ \A s \in Source \ {SourceOf(t)} : head'[s] = head[s]
    BY <2>1, <2>2, <2>5 DEF SyncInv, SyncTypeOK, HeadStatus
  <2>7. RestTyped
    BY <1>1, <2>4, <2>6 DEF RestTyped, SyncInv, SyncTypeOK
  <2>8. HeadsFollow
    BY <1>1, <2>3, <2>5, <2>6 DEF HeadsFollow
  <2>9. QED BY <2>3, <2>4, <2>7, <2>8, StepOfJobs DEF SyncGoesOn
<1>4. QED BY <1>2, <1>3

LEMMA MarkStep == ASSUME SyncInv, NEW t \in Worker, MarkSourceHead(t) PROVE SyncGoesOn
<1>1. worker[t].job \in Job /\ UNCHANGED job /\ WorkersStay
  BY BusyWorker, WorkerGoes DEF MarkSourceHead, Running
<1>2. SourceOf(t) \in Source
  BY <1>1, BusyWorker, JobRows
     DEF MarkSourceHead, Running, SourceOf, SyncRow, RowInOrder, SyncInv, WorkersInOrder
<1>3. /\ head' \in [Source -> [status : HeadStatus, revision : 0..MaxRevision]]
      /\ \A s \in Source : head'[s] # head[s] => head'[s].status = "withdrawn"
  BY <1>2 DEF MarkSourceHead, SyncInv, SyncTypeOK, HeadStatus
<1>4. RestTyped
  BY <1>3 DEF RestTyped, MarkSourceHead, supervisor, SyncInv, SyncTypeOK
<1>5. QED BY <1>1, <1>3, <1>4, NoJobMoves, StepOfJobs DEF SyncGoesOn, HeadsFollow

LEMMA DegradeStep == ASSUME SyncInv, NEW t \in Worker, DegradeConnection(t) PROVE SyncGoesOn
<1>1. WorkersStay /\ UNCHANGED <<job, head>>
  BY WorkerGoes DEF DegradeConnection, Running
<1>2. RestTyped
  BY <1>1 DEF RestTyped, DegradeConnection, supervisor, SyncInv, SyncTypeOK
<1>3. QED BY <1>1, <1>2, NoJobMoves, StepOfJobs DEF SyncGoesOn, HeadsFollow

LEMMA DeferOrFailStep == ASSUME SyncInv, NEW t \in Worker, Defer(t) \/ Fail(t) PROVE SyncGoesOn
<1>1. /\ worker[t].job # 0 /\ queue' \subseteq Job /\ awaited' \subseteq Job /\ WorkersStay
      /\ UNCHANGED <<head, scope, connection>>
  BY BusyWorker, CallOver DEF Defer, Fail, Running, SyncInv, SyncTypeOK
<1>2. 0 \in 0..MaxRevision
  BY SyncConstants
<1>3. JobsFollow
  <2>1. CASE ~Owns(t)
    BY <2>1, NoJobMoves DEF Defer, Fail
  <2>2. CASE Owns(t) /\ Defer(t)
    BY <1>1, <1>2, <2>2, JobSaved DEF Defer
  <2>3. CASE Owns(t) /\ Fail(t)
    BY <1>1, <1>2, <2>3, JobSaved DEF Fail, Settled
  <2>4. QED BY <2>1, <2>2, <2>3
<1>4. QED BY <1>1, <1>3, JobsAlone

LEMMA RefreshStep == ASSUME SyncInv, RefreshBinding PROVE SyncGoesOn
<1>1. PICK nodes \in SUBSET Source \ {scope} :
        /\ scope' = nodes
        /\ head' = [s \in Source |->
                      IF s \in scope \ nodes /\ head[s].status # "absent"
                      THEN [head[s] EXCEPT !.status = "withdrawn"] ELSE head[s]]
  BY DEF RefreshBinding
<1>2. /\ head' \in [Source -> [status : HeadStatus, revision : 0..MaxRevision]]
      /\ \A s \in Source : head'[s] # head[s] => head'[s].status = "withdrawn"
  BY <1>1 DEF SyncInv, SyncTypeOK, HeadStatus
<1>3. RestTyped
  BY <1>1, <1>2 DEF RestTyped, RefreshBinding, supervisor, SyncInv, SyncTypeOK
<1>4. QED BY <1>2, <1>3, NoJobMoves, WorkersAlone, StepOfJobs
           DEF SyncGoesOn, HeadsFollow, RefreshBinding

LEMMA DiagnoseStep == ASSUME SyncInv, DiagnoseConnection PROVE SyncGoesOn
<1>1. RestTyped
  BY DEF RestTyped, DiagnoseConnection, supervisor, SyncInv, SyncTypeOK
<1>2. QED BY <1>1, NoJobMoves, WorkersAlone, StepOfJobs
           DEF SyncGoesOn, HeadsFollow, DiagnoseConnection

LEMMA DeadlineStep == ASSUME SyncInv, NEW j \in Job, DeadlinePasses(j) PROVE SyncGoesOn
<1> DEFINE row == job[j]
           y == [row EXCEPT !.late = TRUE]
<1>1. /\ row \in SyncRow /\ RowInOrder(row) /\ row.status \in {"running", "retry_wait"}
      /\ job' = [job EXCEPT ![j] = y]
  BY JobRows DEF DeadlinePasses
<1> HIDE DEF row
<1>2. /\ y \in SyncRow /\ y.status = row.status /\ y.source = row.source
      /\ y.version = row.version /\ y.attempt = row.attempt /\ row.version \in Nat
  BY <1>1 DEF SyncRow
<1> HIDE DEF y
<1>3. RowFollows(row, y)
  BY <1>1, <1>2 DEF RowFollows, RowInOrder, Settled
<1>4. JobsFollow
  BY <1>1, <1>3, OneJobMoves DEF row
<1>5. QED BY <1>4, WorkersAlone, JobsAlone DEF DeadlinePasses, supervisor, SyncInv, SyncTypeOK

LEMMA RestartSupervisorStep == ASSUME SyncInv, RestartSupervisor PROVE SyncGoesOn
<1>1. WorkersStay
  BY SyncConstants DEF RestartSupervisor, WorkersStay
<1>2. QED BY <1>1, NoJobMoves, JobsAlone DEF RestartSupervisor, syncRows

LEMMA SyncStep == SyncInv /\ [SyncNext]_syncVars => SyncGoesOn
<1> SUFFICES ASSUME SyncInv, [SyncNext]_syncVars PROVE SyncGoesOn
  OBVIOUS
<1>1. CASE \E j \in Job, s \in Source : EnqueueSyncJob(j, s)
  BY <1>1, EnqueueStep
<1>2. CASE RunOnce
  BY <1>2, RunOnceStep
<1>3. CASE \E t \in Worker, j \in Job : WorkerCalls(t, j) \/ RequestSync(t, j)
  BY <1>3, WorkerCallsStep, RequestSyncStep
<1>4. CASE \E t \in Worker : WorkerStep(t)
  BY <1>4, AdmitStep, CompleteStep, MarkStep, DegradeStep, DeferOrFailStep DEF WorkerStep
<1>5. CASE RefreshBinding \/ DiagnoseConnection \/ RestartSupervisor
  BY <1>5, RefreshStep, DiagnoseStep, RestartSupervisorStep
<1>6. CASE \E j \in Job : DeadlinePasses(j)
  BY <1>6, DeadlineStep
<1>7. CASE UNCHANGED syncVars
  <2>1. UNCHANGED <<job, head, scope, connection, queue, awaited, worker>>
    BY <1>7 DEF syncVars, syncRows, supervisor
  <2>2. QED BY <2>1, NoJobMoves, WorkersAlone, JobsAlone DEF SyncInv, SyncTypeOK
<1>8. QED BY <1>1, <1>2, <1>3, <1>4, <1>5, <1>6, <1>7 DEF SyncNext

LEMMA SyncInductive == SyncSpec => []SyncInv
<1>1. SyncInv /\ [SyncNext]_syncVars => SyncInv'
  BY SyncStep DEF SyncGoesOn
<1>2. QED BY SyncInitially, <1>1, PTL DEF SyncSpec

(* Jobs, heads, the scope and the calls hold values the code can write; in
   particular no job is attempted more often than max_attempts, whoever takes it
   over. *)
THEOREM SyncTypeCorrect == SyncSpec => []SyncTypeOK
<1>1. SyncInv => SyncTypeOK
  BY DEF SyncInv
<1>2. QED BY <1>1, SyncInductive, PTL

(* A job has one owner: for any number of jobs, sources, threads, attempts, expired
   leases and restarts. *)
THEOREM JobsHaveOneOwner == SyncSpec => []OneOwner
<1>1. SyncInv => OneOwner
  BY DEF SyncInv, WorkersInOrder, OneOwner, Owns
<1>2. QED BY <1>1, SyncInductive, PTL

(* A head becomes active only with the success of the job that fetched it, and the
   outcome of a job stands. *)
THEOREM HeadsMoveWithJobs == SyncSpec => HeadMovesWithJob
<1> DEFINE Outcome == \A j \in Job : job[j].status \in Settled => job'[j] = job[j]
<1>1. SyncInv /\ [SyncNext]_syncVars => HeadsFollow /\ Outcome
  BY SyncStep DEF SyncGoesOn, JobsFollow, RowFollows
<1>2. SyncInv /\ [SyncNext]_syncVars => [HeadsFollow /\ Outcome]_syncVars
  BY <1>1
<1>3. QED BY <1>2, SyncInductive, PTL DEF SyncSpec, HeadMovesWithJob, HeadsFollow

-----------------------------------------------------------------------------
(* The index revisions.                                                    *)

(* A call under way names the manifest it is about; a builder alone builds a
   revision that is being built; who activates saw a pointer that may move. *)
CallsInOrder ==
    /\ \A a \in Admin :
         /\ ~Idle(a) => call[a].op # "none" /\ call[a].on \in Manifest
         /\ Doing(a, "evaluate") => call[a].policy \in Policy
         /\ Doing(a, "build") => index[call[a].on] = "building"
         /\ Doing(a, "activate") => call[a].seen < MaxPointer
    /\ \A a, b \in Admin :
         Doing(a, "build") /\ Doing(b, "build") /\ call[a].on = call[b].on => a = b

(* What the reports say of a revision: nothing before it was evaluated, and of
   one that was found fit, that it passed and did not fail. *)
Evaluated(m) ==
    /\ index[m] \in {"absent", "building", "built"} => \A p \in Policy : report[p][m] = Nothing
    /\ index[m] \in {"qualified", "active", "superseded"} =>
         /\ \E p \in Policy : report[p][m] = "passed"
         /\ \A p \in Policy : report[p][m] # "failed"

PointerNamesActive == \A m \in Manifest : index[m] = "active" <=> pointer.on = m

(* The inductive invariant of the index revisions. *)
IndexInv ==
    /\ IndexTypeOK
    /\ CallsInOrder
    /\ \A m \in Manifest : Evaluated(m)
    /\ PointerNamesActive

Call == [op : {"none", "build", "evaluate", "activate"}, on : Manifest \cup {Nothing},
         policy : Policy \cup {Nothing}, seen : 0..MaxPointer]

LEMMA IndexConstants ==
    /\ MaxPointer \in Nat /\ Nothing \notin Manifest /\ Nothing \notin Policy
    /\ NoCall \in Call /\ NoCall.op = "none"
BY IndexAssumption DEF Nothing, NoCall, Call

(* A call that starts, or returns, leaves the other calls alone. *)
LEMMA CallStarts ==
    ASSUME IndexTypeOK, NEW a \in Admin, NEW op \in {"build", "evaluate", "activate"},
           NEW m \in Manifest, NEW p \in Policy \cup {Nothing}, Starts(a, op, m, p)
    PROVE  /\ call' \in [Admin -> Call]
           /\ call'[a].op = op /\ call'[a].on = m /\ call'[a].policy = p
           /\ call'[a].seen = pointer.version
           /\ \A b \in Admin \ {a} : call'[b] = call[b]
BY DEF IndexTypeOK, Starts, Call

LEMMA CallReturns ==
    ASSUME IndexTypeOK, NEW a \in Admin, Returns(a)
    PROVE  /\ call' \in [Admin -> Call]
           /\ call'[a] = NoCall
           /\ \A b \in Admin \ {a} : call'[b] = call[b]
BY IndexConstants DEF IndexTypeOK, Returns, Call

(* Calls stay in order when one returns and the building revisions of others
   go on being built. *)
LEMMA ReturnKeepsOrder ==
    ASSUME IndexTypeOK, CallsInOrder, NEW a \in Admin, Returns(a),
           \A b \in Admin \ {a} : Doing(b, "build") => index'[call[b].on] = "building"
    PROVE  CallsInOrder'
<1>1. call'[a] = NoCall /\ \A b \in Admin \ {a} : call'[b] = call[b]
  BY CallReturns
<1>2. ASSUME NEW b \in Admin
      PROVE  /\ ~Idle(b)' => call'[b].op # "none" /\ call'[b].on \in Manifest
             /\ Doing(b, "evaluate")' => call'[b].policy \in Policy
             /\ Doing(b, "build")' => index'[call'[b].on] = "building"
             /\ Doing(b, "activate")' => call'[b].seen < MaxPointer
  <2>1. CASE b = a
    BY <1>1, <2>1, IndexConstants DEF Idle, Doing
  <2>2. CASE b # a
    BY <1>1, <2>2 DEF CallsInOrder, Idle, Doing
  <2>3. QED BY <2>1, <2>2
<1>3. \A b, c \in Admin :
        Doing(b, "build")' /\ Doing(c, "build")' /\ call'[b].on = call'[c].on => b = c
  BY <1>1, IndexConstants DEF CallsInOrder, Doing
<1>4. QED BY <1>2, <1>3 DEF CallsInOrder

(* Calls stay in order when one starts and no revision changes that is built. *)
LEMMA StartKeepsOrder ==
    ASSUME IndexTypeOK, CallsInOrder, NEW a \in Admin, Idle(a),
           NEW op \in {"build", "evaluate", "activate"},
           NEW m \in Manifest, NEW p \in Policy \cup {Nothing}, Starts(a, op, m, p),
           op = "evaluate" => p \in Policy,
           op = "activate" => pointer.version < MaxPointer,
           op = "build" => index[m] # "building" /\ index'[m] = "building",
           \A b \in Admin : Doing(b, "build") => index'[call[b].on] = "building"
    PROVE  CallsInOrder'
<1>1. /\ call'[a].op = op /\ call'[a].on = m /\ call'[a].policy = p
      /\ call'[a].seen = pointer.version
      /\ \A b \in Admin \ {a} : call'[b] = call[b]
  BY CallStarts
<1>2. ASSUME NEW b \in Admin
      PROVE  /\ ~Idle(b)' => call'[b].op # "none" /\ call'[b].on \in Manifest
             /\ Doing(b, "evaluate")' => call'[b].policy \in Policy
             /\ Doing(b, "build")' => index'[call'[b].on] = "building"
             /\ Doing(b, "activate")' => call'[b].seen < MaxPointer
  <2>1. CASE b = a
    BY <1>1, <2>1 DEF Idle, Doing
  <2>2. CASE b # a
    BY <1>1, <2>2 DEF CallsInOrder, Idle, Doing
  <2>3. QED BY <2>1, <2>2
<1>3. \A b, c \in Admin :
        Doing(b, "build")' /\ Doing(c, "build")' /\ call'[b].on = call'[c].on => b = c
  BY <1>1 DEF CallsInOrder, Doing
<1>4. QED BY <1>2, <1>3 DEF CallsInOrder

LEMMA IndexInitially == IndexInit => IndexInv
<1> SUFFICES ASSUME IndexInit PROVE IndexInv
  OBVIOUS
<1>1. IndexTypeOK
  BY IndexConstants DEF IndexInit, IndexTypeOK, IndexStatus, Call
<1>2. CallsInOrder
  BY IndexConstants DEF IndexInit, CallsInOrder, Idle, Doing
<1>3. ASSUME NEW m \in Manifest PROVE Evaluated(m)
  BY <1>3 DEF IndexInit, Evaluated
<1>4. PointerNamesActive
  BY IndexConstants DEF IndexInit, PointerNamesActive
<1>5. QED BY <1>1, <1>2, <1>3, <1>4 DEF IndexInv

LEMMA BuildBegins ==
    ASSUME IndexInv, NEW a \in Admin, NEW m \in Manifest, BeginBuild(a, m)
    PROVE  IndexInv'
<1> USE DEF IndexInv
<1>1. /\ Idle(a) /\ index[m] = "absent" /\ Starts(a, "build", m, Nothing)
      /\ index' = [index EXCEPT ![m] = "building"]
      /\ report' = report /\ pointer' = pointer
  BY DEF BeginBuild
<1>2. index \in [Manifest -> IndexStatus] /\ index' \in [Manifest -> IndexStatus]
  BY <1>1 DEF IndexTypeOK, IndexStatus
<1>3. IndexTypeOK'
  BY <1>1, <1>2, CallStarts DEF IndexTypeOK, Call
<1>4. CallsInOrder'
  <2>1. ASSUME NEW b \in Admin, Doing(b, "build") PROVE index'[call[b].on] = "building"
    <3>1. ~Idle(b) /\ call[b].on \in Manifest /\ index[call[b].on] = "building"
      BY <2>1, IndexConstants DEF CallsInOrder, Idle, Doing
    <3>2. QED BY <3>1, <1>1, <1>2
  <2>2. index'[m] = "building" /\ index[m] # "building"
    BY <1>1, <1>2
  <2>3. QED BY <1>1, <2>1, <2>2, StartKeepsOrder
<1>5. ASSUME NEW i \in Manifest PROVE Evaluated(i)'
  BY <1>1, <1>2 DEF Evaluated
<1>6. PointerNamesActive'
  BY <1>1, <1>2 DEF PointerNamesActive
<1>7. QED BY <1>3, <1>4, <1>5, <1>6

LEMMA BuildEnds ==
    ASSUME IndexInv, NEW a \in Admin, EndBuild(a)
    PROVE  IndexInv'
<1> USE DEF IndexInv
<1>1. /\ Doing(a, "build") /\ Returns(a) /\ report' = report /\ pointer' = pointer
      /\ call[a].on \in Manifest /\ index[call[a].on] = "building"
  BY IndexConstants DEF EndBuild, CallsInOrder, Idle, Doing
<1>2. PICK status \in {"built", "failed"} : index' = [index EXCEPT ![call[a].on] = status]
  BY DEF EndBuild
<1>3. index \in [Manifest -> IndexStatus] /\ index' \in [Manifest -> IndexStatus]
  BY <1>1, <1>2 DEF IndexTypeOK, IndexStatus
<1>4. IndexTypeOK'
  BY <1>1, <1>3, CallReturns DEF IndexTypeOK, Call
<1>5. CallsInOrder'
  <2>1. ASSUME NEW b \in Admin \ {a}, Doing(b, "build") PROVE index'[call[b].on] = "building"
    <3>1. call[b].on \in Manifest /\ index[call[b].on] = "building" /\ call[b].on # call[a].on
      BY <1>1, <2>1, IndexConstants DEF CallsInOrder, Idle, Doing
    <3>2. QED BY <3>1, <1>2, <1>3
  <2>2. QED BY <1>1, <2>1, ReturnKeepsOrder
<1>6. ASSUME NEW i \in Manifest PROVE Evaluated(i)'
  BY <1>1, <1>2, <1>3 DEF Evaluated
<1>7. PointerNamesActive'
  BY <1>1, <1>2, <1>3 DEF PointerNamesActive
<1>8. QED BY <1>4, <1>5, <1>6, <1>7

(* The one verdict of a revision that is still built. *)
LEMMA VerdictRecorded ==
    ASSUME IndexInv, NEW a \in Admin, NEW verdict \in {"passed", "failed"}, Record(a, verdict)
    PROVE  IndexInv'
<1> USE DEF IndexInv
<1> DEFINE m == call[a].on
           p == call[a].policy
<1>1. /\ Doing(a, "evaluate") /\ Returns(a) /\ pointer' = pointer
      /\ m \in Manifest /\ p \in Policy
  BY IndexConstants DEF Record, CallsInOrder, Idle, Doing
<1>2. CASE report[p][m] = Nothing /\ index[m] = "built"
  <2>1. /\ report' = [report EXCEPT ![p][m] = verdict]
        /\ index' = [index EXCEPT ![m] = IF verdict = "passed" THEN "qualified" ELSE "failed"]
    BY <1>2 DEF Record
  <2>2. /\ report \in [Policy -> [Manifest -> {Nothing, "passed", "failed"}]]
        /\ index \in [Manifest -> IndexStatus]
    BY DEF IndexTypeOK
  <2>3. /\ index' \in [Manifest -> IndexStatus]
        /\ report' \in [Policy -> [Manifest -> {Nothing, "passed", "failed"}]]
    BY <1>1, <2>1, <2>2 DEF IndexStatus
  <2>4. /\ report'[p][m] = verdict
        /\ index'[m] = IF verdict = "passed" THEN "qualified" ELSE "failed"
        /\ \A i \in Manifest \ {m} : index'[i] = index[i]
        /\ \A q \in Policy, i \in Manifest : q # p \/ i # m => report'[q][i] = report[q][i]
    BY <1>1, <2>1, <2>2
  <2> HIDE DEF m, p
  <2>5. IndexTypeOK'
    BY <1>1, <2>3, CallReturns DEF IndexTypeOK, Call
  <2>6. CallsInOrder'
    <3>1. ASSUME NEW b \in Admin \ {a}, Doing(b, "build") PROVE index'[call[b].on] = "building"
      <4>1. call[b].on \in Manifest /\ index[call[b].on] = "building"
        BY <3>1, IndexConstants DEF CallsInOrder, Idle, Doing
      <4>2. QED BY <4>1, <1>2, <2>4
    <3>2. QED BY <1>1, <3>1, ReturnKeepsOrder
  <2>7. ASSUME NEW i \in Manifest PROVE Evaluated(i)'
    <3>1. CASE i = m
      <4>1. \A q \in Policy : report[q][m] = Nothing
        BY <1>1, <1>2 DEF Evaluated
      <4>2. \A q \in Policy \ {p} : report'[q][m] = Nothing
        BY <1>1, <2>4, <4>1
      <4>3. CASE verdict = "passed"
        <5>1. \A q \in Policy : report'[q][m] # "failed"
          BY <1>1, <2>4, <4>2, <4>3 DEF Nothing
        <5>2. QED BY <1>1, <2>4, <3>1, <4>3, <5>1 DEF Evaluated
      <4>4. CASE verdict = "failed"
        BY <2>4, <3>1, <4>4 DEF Evaluated
      <4>5. QED BY <4>3, <4>4
    <3>2. CASE i # m
      <4>1. index'[i] = index[i] /\ \A q \in Policy : report'[q][i] = report[q][i]
        BY <2>4, <3>2
      <4>2. QED BY <4>1 DEF Evaluated
    <3>3. QED BY <3>1, <3>2
  <2>8. PointerNamesActive'
    BY <1>1, <1>2, <2>4 DEF PointerNamesActive
  <2>9. QED BY <2>5, <2>6, <2>7, <2>8
<1>3. CASE ~(report[p][m] = Nothing /\ index[m] = "built")
  <2>1. report' = report /\ index' = index
    BY <1>3 DEF Record
  <2>2. IndexTypeOK'
    BY <1>1, <2>1, CallReturns DEF IndexTypeOK, Call
  <2>3. ASSUME NEW b \in Admin \ {a}, Doing(b, "build") PROVE index'[call[b].on] = "building"
    BY <2>1, <2>3 DEF CallsInOrder
  <2>4. CallsInOrder'
    BY <1>1, <2>3, ReturnKeepsOrder
  <2>5. QED BY <1>1, <2>1, <2>2, <2>4 DEF Evaluated, PointerNamesActive
<1>4. QED BY <1>2, <1>3

(* The calls that only read begin. *)
LEMMA ReadBegins ==
    ASSUME IndexInv, NEW a \in Admin, NEW m \in Manifest,
           \/ BeginActivation(a, m)
           \/ \E p \in Policy : BeginEvaluation(a, p, m)
    PROVE  IndexInv'
<1> USE DEF IndexInv
<1>1. Idle(a) /\ index' = index /\ report' = report /\ pointer' = pointer
  BY DEF BeginActivation, BeginEvaluation
<1>2. PICK op \in {"evaluate", "activate"}, p \in Policy \cup {Nothing} :
        /\ Starts(a, op, m, p)
        /\ op = "evaluate" => p \in Policy
        /\ op = "activate" => pointer.version < MaxPointer
  BY DEF BeginActivation, BeginEvaluation
<1>3. IndexTypeOK'
  BY <1>1, <1>2, CallStarts DEF IndexTypeOK, Call
<1>4. ASSUME NEW b \in Admin, Doing(b, "build") PROVE index'[call[b].on] = "building"
  BY <1>1, <1>4 DEF CallsInOrder
<1>5. CallsInOrder'
  BY <1>1, <1>2, <1>4, StartKeepsOrder
<1>6. QED BY <1>1, <1>3, <1>5 DEF Evaluated, PointerNamesActive

(* The pointer moves to a revision found fit; the one it named is superseded. *)
LEMMA PointerMoves ==
    ASSUME IndexInv, NEW a \in Admin, Activate(a)
    PROVE  IndexInv'
<1> USE DEF IndexInv
<1> DEFINE m == call[a].on
           moves == /\ index[m] \in {"qualified", "active"}
                    /\ call[a].seen = pointer.version /\ pointer.on # m
<1>1. /\ Doing(a, "activate") /\ Returns(a) /\ report' = report
      /\ m \in Manifest /\ call[a].seen < MaxPointer
  BY IndexConstants DEF Activate, CallsInOrder, Idle, Doing
<1>2. CASE moves
  <2>1. /\ index' = [i \in Manifest |-> IF i = m THEN "active"
                       ELSE IF i = pointer.on /\ index[i] = "active" THEN "superseded"
                       ELSE index[i]]
        /\ pointer' = [on |-> m, version |-> pointer.version + 1]
    BY <1>2 DEF Activate
  <2>2. index[m] \in {"qualified", "active"} /\ index \in [Manifest -> IndexStatus]
    BY <1>2 DEF IndexTypeOK
  <2>3. pointer.version \in 0..MaxPointer /\ pointer.version < MaxPointer
    BY <1>1, <1>2 DEF IndexTypeOK
  <2>4. index' \in [Manifest -> IndexStatus]
    BY <2>1, <2>2 DEF IndexStatus
  <2>5. pointer' \in [on : Manifest \cup {Nothing}, version : 0..MaxPointer]
    BY <1>1, <2>1, <2>3, IndexConstants
  <2>6. /\ index'[m] = "active" /\ pointer'.on = m
        /\ \A i \in Manifest \ {m} :
             index'[i] = IF i = pointer.on /\ index[i] = "active" THEN "superseded" ELSE index[i]
    BY <1>1, <2>1
  <2> HIDE DEF m, moves
  <2>7. IndexTypeOK'
    BY <1>1, <2>4, <2>5, CallReturns DEF IndexTypeOK, Call
  <2>8. CallsInOrder'
    <3>1. ASSUME NEW b \in Admin \ {a}, Doing(b, "build") PROVE index'[call[b].on] = "building"
      <4>1. call[b].on \in Manifest /\ index[call[b].on] = "building"
        BY <3>1, IndexConstants DEF CallsInOrder, Idle, Doing
      <4>2. QED BY <4>1, <2>2, <2>6
    <3>2. QED BY <1>1, <3>1, ReturnKeepsOrder
  <2>9. ASSUME NEW i \in Manifest PROVE Evaluated(i)'
    <3>1. CASE i = m
      BY <1>1, <2>2, <2>6, <3>1 DEF Evaluated
    <3>2. CASE i # m
      BY <1>1, <2>6, <3>2 DEF Evaluated
    <3>3. QED BY <3>1, <3>2
  <2>10. PointerNamesActive'
    BY <2>6 DEF PointerNamesActive
  <2>11. QED BY <2>7, <2>8, <2>9, <2>10
<1>3. CASE ~moves
  <2>1. index' = index /\ pointer' = pointer
    BY <1>3 DEF Activate
  <2>2. IndexTypeOK'
    BY <1>1, <2>1, CallReturns DEF IndexTypeOK, Call
  <2>3. ASSUME NEW b \in Admin \ {a}, Doing(b, "build") PROVE index'[call[b].on] = "building"
    BY <2>1, <2>3 DEF CallsInOrder
  <2>4. CallsInOrder'
    BY <1>1, <2>3, ReturnKeepsOrder
  <2>5. QED BY <1>1, <2>1, <2>2, <2>4 DEF Evaluated, PointerNamesActive
<1>4. QED BY <1>2, <1>3

LEMMA CallsLost ==
    ASSUME IndexInv, RestartAdministration
    PROVE  IndexInv'
<1> USE DEF IndexInv
<1>1. /\ call' = [a \in Admin |-> NoCall]
      /\ index' = index /\ report' = report /\ pointer' = pointer
  BY DEF RestartAdministration
<1>2. IndexTypeOK'
  BY <1>1, IndexConstants DEF IndexTypeOK, Call
<1>3. CallsInOrder'
  BY <1>1, IndexConstants DEF CallsInOrder, Idle, Doing
<1>4. QED BY <1>1, <1>2, <1>3 DEF Evaluated, PointerNamesActive

LEMMA IndexStep == IndexInv /\ [IndexNext]_indexVars => IndexInv'
<1> SUFFICES ASSUME IndexInv, [IndexNext]_indexVars PROVE IndexInv'
  OBVIOUS
<1>1. ASSUME NEW a \in Admin, NEW m \in Manifest, BeginBuild(a, m) PROVE IndexInv'
  BY <1>1, BuildBegins
<1>2. ASSUME NEW a \in Admin, NEW m \in Manifest,
             BeginActivation(a, m) \/ \E p \in Policy : BeginEvaluation(a, p, m)
      PROVE  IndexInv'
  BY <1>2, ReadBegins
<1>3. ASSUME NEW a \in Admin, EndBuild(a) PROVE IndexInv'
  BY <1>3, BuildEnds
<1>4. ASSUME NEW a \in Admin, Activate(a) PROVE IndexInv'
  BY <1>4, PointerMoves
<1>5. ASSUME NEW a \in Admin, NEW verdict \in {"passed", "failed"}, Record(a, verdict)
      PROVE  IndexInv'
  BY <1>5, VerdictRecorded
<1>6. CASE RestartAdministration
  BY <1>6, CallsLost
<1>7. CASE UNCHANGED indexVars
  BY <1>7 DEF indexVars, IndexInv, IndexTypeOK, CallsInOrder, Evaluated, PointerNamesActive,
              Idle, Doing
<1>8. QED BY <1>1, <1>2, <1>3, <1>4, <1>5, <1>6, <1>7 DEF IndexNext

(* The rows and calls of the index revisions hold values the code can write. *)
THEOREM IndexTypeCorrect == IndexSpec => []IndexTypeOK
<1>1. IndexInv => IndexTypeOK
  BY DEF IndexInv
<1>2. QED BY <1>1, IndexInitially, IndexStep, PTL DEF IndexSpec

(* Retrieval is given the one active revision, which was found fit: whatever
   number of administrators build, evaluate under several policies and activate
   at once, and whenever the process dies. *)
THEOREM IndexServesFit == IndexSpec => []IndexServes
<1>1. IndexInv => IndexServes
  <2> SUFFICES ASSUME IndexInv PROVE IndexServes
    OBVIOUS
  <2>1. pointer.on # Nothing => pointer.on \in Manifest /\ index[pointer.on] = "active"
    BY DEF IndexInv, IndexTypeOK, PointerNamesActive
  <2>2. QED BY <2>1 DEF IndexInv, IndexServes, Evaluated, PointerNamesActive
<1>2. QED BY <1>1, IndexInitially, IndexStep, PTL DEF IndexSpec

-----------------------------------------------------------------------------
(* The context of a delivery.                                              *)

(* A stage was retrieved no earlier than in the epoch it is stamped with, and
   every epoch somebody saw has come. *)
StampsArePast ==
    /\ \A s \in Stage : result[s] <= fetchedIn[s] /\ fetchedIn[s] <= epoch
    /\ thread.stamp <= epoch

(* What the thread has gathered bears its stamp; once confirmed, it was also
   retrieved under it. *)
ThreadInOrder ==
    /\ thread.pc \in {"none", "enter", "acquire", "resolve"} =>
         thread.contexts = {} /\ thread.done = {}
    /\ thread.pc \in {"stages", "succeed"} =>
         /\ thread.stamp # 0
         /\ thread.done \cap Required \subseteq thread.contexts
         /\ \A s \in thread.contexts : result[s] = thread.stamp
    /\ thread.pc = "succeed" =>
         /\ Required \subseteq thread.contexts
         /\ \A s \in thread.contexts : fetchedIn[s] = thread.stamp

(* A run that has ended waits for nothing, and one that succeeded has frozen
   contexts that nobody retrieves again. *)
RunInOrder ==
    /\ run.status \in RunTerminal => run.late = FALSE
    /\ run.status = "succeeded" => run.stamp # 0
    /\ ContextsShareStamp

(* The inductive invariant of the preparation. *)
ContextInv == ContextTypeOK /\ StampsArePast /\ ThreadInOrder /\ RunInOrder

RunRecord == [status : {"absent", "queued", "running", "retry_wait"} \cup RunTerminal,
              attempt : Nat, late : BOOLEAN, stamp : 0..MaxEpoch, contexts : SUBSET Stage]
ThreadRecord ==
    [pc : {"none", "enter", "acquire", "resolve", "stages", "succeed", "fail"},
     stamp : 0..MaxEpoch, contexts : SUBSET Stage, done : SUBSET Stage, transient : BOOLEAN]

(* NoThread is like no thread of an attempt, and To and Fails only move one. *)
LEMMA ContextConstants ==
    /\ MaxEpoch \in Nat /\ MaxEpoch # 0 /\ Required \cap Optional = {}
    /\ NoThread \in ThreadRecord /\ NoThread.pc = "none" /\ NoThread.stamp = 0
    /\ NoThread.contexts = {} /\ NoThread.done = {}
BY ContextAssumption DEF NoThread, ThreadRecord

LEMMA ThreadMoves ==
    ASSUME thread \in ThreadRecord,
           NEW pc \in {"enter", "acquire", "resolve", "stages", "succeed"}, To(pc)
    PROVE  /\ thread' \in ThreadRecord
           /\ thread'.pc = pc /\ thread'.stamp = thread.stamp
           /\ thread'.contexts = thread.contexts /\ thread'.done = thread.done
BY DEF To, ThreadRecord

LEMMA ThreadFails ==
    ASSUME thread \in ThreadRecord, NEW transient \in BOOLEAN, Fails(transient)
    PROVE  /\ thread' \in ThreadRecord
           /\ thread'.pc = "fail" /\ thread'.stamp = thread.stamp
BY DEF Fails, ThreadRecord

(* The invariant survives when the thread fails, or is over, and the run is as
   it was. *)
LEMMA ThreadEnds ==
    ASSUME ContextInv, UNCHANGED <<run, result, fetchedIn, delivery, authority>>,
           task' \in {"none", "ready", "waits", "sleeps", "prepared", "error"},
           thread' = NoThread \/ (\E transient \in BOOLEAN : Fails(transient))
    PROVE  ContextInv'
<1>1. thread \in ThreadRecord
  BY DEF ContextInv, ContextTypeOK, ThreadRecord
<1>2. /\ thread' \in ThreadRecord /\ thread'.stamp \in {0, thread.stamp}
      /\ \/ thread'.pc = "none" /\ thread'.contexts = {} /\ thread'.done = {}
         \/ thread'.pc = "fail"
  BY <1>1, ThreadFails, ContextConstants
<1>3. ContextTypeOK'
  BY <1>2 DEF ContextInv, ContextTypeOK, ThreadRecord, authority
<1>4. StampsArePast'
  BY <1>2 DEF ContextInv, StampsArePast, authority, ContextTypeOK, Epoch
<1>5. ThreadInOrder'
  BY <1>2 DEF ThreadInOrder
<1>6. RunInOrder'
  BY DEF ContextInv, RunInOrder, ContextsShareStamp
<1>7. QED BY <1>3, <1>4, <1>5, <1>6 DEF ContextInv

(* The thread moves on to a step before it gathers anything, or ends, and the
   run changes without ending. *)
LEMMA RunGoesOn ==
    ASSUME ContextInv, UNCHANGED <<result, fetchedIn, delivery, authority>>,
           task' \in {"none", "ready", "waits", "sleeps", "prepared", "error"},
           run' \in RunRecord, run' = run \/ run'.status \notin RunTerminal,
           \/ thread' = NoThread \/ thread' = thread
           \/ /\ thread.pc \in {"none", "enter", "acquire"}
              /\ \E pc \in {"enter", "acquire", "resolve"} : To(pc)
    PROVE  ContextInv'
<1>1. thread \in ThreadRecord
  BY DEF ContextInv, ContextTypeOK, ThreadRecord
<1>2. /\ thread' \in ThreadRecord /\ thread'.stamp \in {0, thread.stamp}
      /\ \/ thread' = thread
         \/ /\ thread'.pc \in {"none", "enter", "acquire", "resolve"}
            /\ thread'.contexts = {} /\ thread'.done = {}
  BY <1>1, ThreadMoves, ContextConstants DEF ContextInv, ThreadInOrder
<1>3. ContextTypeOK'
  BY <1>2 DEF ContextInv, ContextTypeOK, ThreadRecord, RunRecord, authority
<1>4. StampsArePast'
  BY <1>2 DEF ContextInv, StampsArePast, authority, ContextTypeOK, Epoch
<1>5. ThreadInOrder'
  BY <1>2 DEF ContextInv, ThreadInOrder
<1>6. RunInOrder'
  BY DEF ContextInv, RunInOrder, ContextsShareStamp, RunTerminal
<1>7. QED BY <1>3, <1>4, <1>5, <1>6 DEF ContextInv

LEMMA ContextInitially == Init => ContextInv
<1> SUFFICES ASSUME Init PROVE ContextInv
  OBVIOUS
<1>1. ContextTypeOK
  BY ContextConstants DEF Init, ContextTypeOK, Epoch, ThreadRecord
<1>2. StampsArePast
  BY ContextConstants DEF Init, StampsArePast
<1>3. ThreadInOrder
  BY ContextConstants DEF Init, ThreadInOrder
<1>4. RunInOrder
  BY DEF Init, RunInOrder, ContextsShareStamp, RunTerminal
<1>5. QED BY <1>1, <1>2, <1>3, <1>4 DEF ContextInv

-----------------------------------------------------------------------------
(* One lemma for each step of the attempt.                                 *)

LEMMA EnterStep == ASSUME ContextInv, Enter PROVE ContextInv'
<1>1. run \in RunRecord /\ task \in {"none", "ready", "waits", "sleeps", "prepared", "error"}
  BY DEF ContextInv, ContextTypeOK, RunRecord
<1>2. run' \in RunRecord /\ (run' = run \/ run'.status \notin RunTerminal)
  BY <1>1 DEF Enter, RunRecord, RunTerminal
<1>3. task' \in {"none", "ready", "waits", "sleeps", "prepared", "error"}
  BY <1>1 DEF Enter, Ends
<1>4. thread' = NoThread \/ (thread.pc = "enter" /\ To("acquire"))
  BY DEF Enter, Thread, Ends
<1>5. UNCHANGED <<result, fetchedIn, delivery, authority>>
  BY DEF Enter
<1>6. QED BY <1>2, <1>3, <1>4, <1>5, RunGoesOn

LEMMA AcquireStep == ASSUME ContextInv, Acquire PROVE ContextInv'
<1>1. run \in RunRecord /\ task \in {"none", "ready", "waits", "sleeps", "prepared", "error"}
  BY DEF ContextInv, ContextTypeOK, RunRecord
<1>2. thread.pc = "acquire" /\ UNCHANGED <<result, fetchedIn, task, delivery, authority>>
  BY DEF Acquire, Thread
<1>3. CASE run.status \in RunTerminal
  <2>1. UNCHANGED run /\ Fails(FALSE)
    BY <1>3 DEF Acquire
  <2>2. QED BY <1>1, <1>2, <2>1, ThreadEnds
<1>4. CASE run.status \notin RunTerminal
  <2>1. /\ run' = [run EXCEPT !.status = "running", !.attempt = run.attempt + 1, !.late = FALSE]
        /\ To("resolve")
    BY <1>4 DEF Acquire
  <2>2. run.attempt + 1 \in Nat
    BY <1>1 DEF RunRecord
  <2>3. run' \in RunRecord
    BY <1>1, <2>1, <2>2 DEF RunRecord
  <2>4. run'.status = "running"
    BY <1>1, <2>1 DEF RunRecord
  <2>5. QED BY <1>1, <1>2, <2>1, <2>3, <2>4, RunGoesOn DEF RunTerminal
<1>5. QED BY <1>3, <1>4

LEMMA ResolveStep == ASSUME ContextInv, Resolve PROVE ContextInv'
<1>1. /\ thread \in ThreadRecord /\ epoch \in 1..MaxEpoch
      /\ task \in {"none", "ready", "waits", "sleeps", "prepared", "error"}
  BY DEF ContextInv, ContextTypeOK, ThreadRecord, Epoch
<1>2. /\ thread.pc = "resolve"
      /\ UNCHANGED <<run, result, fetchedIn, task, delivery, authority>>
  BY DEF Resolve, Thread, db
<1>3. CASE authorized
  <2>1. thread' = [thread EXCEPT !.pc = "stages", !.stamp = epoch]
    BY <1>3 DEF Resolve
  <2> thread.contexts = {} /\ thread.done = {} /\ epoch \in 0..MaxEpoch
    BY <1>1, <1>2, ContextConstants DEF ContextInv, ThreadInOrder
  <2>2. /\ thread' \in ThreadRecord /\ thread'.pc = "stages" /\ thread'.stamp = epoch
        /\ thread'.contexts = {} /\ thread'.done = {}
    BY <1>1, <2>1 DEF ThreadRecord
  <2>3. ContextTypeOK'
    BY <1>2, <2>2 DEF ContextInv, ContextTypeOK, ThreadRecord, authority
  <2>4. StampsArePast'
    BY <1>1, <1>2, <2>2 DEF ContextInv, StampsArePast, authority
  <2>5. ThreadInOrder'
    BY <1>1, <2>2 DEF ThreadInOrder
  <2>6. RunInOrder'
    BY <1>2 DEF ContextInv, RunInOrder, ContextsShareStamp
  <2>7. QED BY <2>3, <2>4, <2>5, <2>6 DEF ContextInv
<1>4. CASE ~authorized
  <2>1. Fails(FALSE)
    BY <1>4 DEF Resolve
  <2>2. QED BY <1>1, <1>2, <2>1, ThreadEnds
<1>5. QED BY <1>3, <1>4

(* A stage is done: with the context an earlier attempt left, or without. *)
LEMMA StageDone ==
    ASSUME ContextInv, NEW s \in Stage, thread.pc = "stages",
           \/ /\ thread' = [thread EXCEPT !.done = thread.done \cup {s}]
              /\ s \in Optional
           \/ /\ thread' = [thread EXCEPT !.done = thread.done \cup {s},
                                          !.contexts = thread.contexts \cup {s}]
              /\ result[s] = thread.stamp,
           UNCHANGED <<run, result, fetchedIn, task, delivery, authority>>
    PROVE  ContextInv'
<1>1. thread \in ThreadRecord
  BY DEF ContextInv, ContextTypeOK, ThreadRecord
<1>2. /\ thread'.pc = "stages" /\ thread'.stamp = thread.stamp
      /\ thread'.done = thread.done \cup {s}
      /\ \/ thread'.contexts = thread.contexts /\ s \in Optional
         \/ thread'.contexts = thread.contexts \cup {s} /\ result[s] = thread.stamp
  BY <1>1 DEF ThreadRecord
<1>3. thread' \in ThreadRecord
  <2>1. thread.done \cup {s} \in SUBSET Stage /\ thread.contexts \cup {s} \in SUBSET Stage
    BY <1>1 DEF ThreadRecord
  <2>2. QED BY <1>1, <2>1 DEF ThreadRecord
<1>4. ContextTypeOK'
  BY <1>3 DEF ContextInv, ContextTypeOK, ThreadRecord, authority
<1>5. StampsArePast'
  BY <1>2 DEF ContextInv, StampsArePast, authority
<1>6. ThreadInOrder'
  <2>1. s \in Required => s \notin Optional
    BY ContextConstants
  <2>2. /\ thread.stamp # 0 /\ thread.done \cap Required \subseteq thread.contexts
        /\ \A i \in thread.contexts : result[i] = thread.stamp
    BY DEF ContextInv, ThreadInOrder
  <2>3. thread'.done \cap Required \subseteq thread'.contexts
    BY <1>2, <2>1, <2>2
  <2>4. \A i \in thread'.contexts : result'[i] = thread'.stamp
    BY <1>2, <2>2
  <2>5. QED BY <1>2, <2>2, <2>3, <2>4 DEF ThreadInOrder
<1>7. RunInOrder'
  BY DEF ContextInv, RunInOrder, ContextsShareStamp
<1>8. QED BY <1>4, <1>5, <1>6, <1>7 DEF ContextInv

LEMMA ReuseStageStep ==
    ASSUME ContextInv, NEW s \in Stage, ReuseStage(s)
    PROVE  ContextInv'
<1>1. /\ thread.pc = "stages"
      /\ UNCHANGED <<run, result, fetchedIn, task, delivery, authority>>
      /\ task \in {"none", "ready", "waits", "sleeps", "prepared", "error"}
  BY DEF ReuseStage, Thread, db, ContextInv, ContextTypeOK
<1>2. CASE result[s] = thread.stamp
  <2>1. thread' = [thread EXCEPT !.done = thread.done \cup {s},
                                 !.contexts = thread.contexts \cup {s}]
    BY <1>2 DEF ReuseStage
  <2>2. QED BY <1>1, <1>2, <2>1, StageDone
<1>3. CASE result[s] # thread.stamp
  <2>1. Fails(FALSE)
    BY <1>3 DEF ReuseStage
  <2>2. QED BY <1>1, <2>1, ThreadEnds
<1>4. QED BY <1>2, <1>3

LEMMA MissStageStep ==
    ASSUME ContextInv, NEW s \in Stage, MissStage(s)
    PROVE  ContextInv'
<1>1. /\ thread.pc = "stages"
      /\ UNCHANGED <<run, result, fetchedIn, task, delivery, authority>>
      /\ task \in {"none", "ready", "waits", "sleeps", "prepared", "error"}
  BY DEF MissStage, Thread, db, ContextInv, ContextTypeOK
<1>2. CASE s \in Optional
  <2>1. thread' = [thread EXCEPT !.done = thread.done \cup {s}]
    BY <1>2 DEF MissStage
  <2>2. QED BY <1>1, <1>2, <2>1, StageDone
<1>3. CASE s \notin Optional
  <2>1. \E transient \in BOOLEAN : Fails(transient)
    BY <1>3 DEF MissStage
  <2>2. QED BY <1>1, <2>1, ThreadEnds
<1>4. QED BY <1>2, <1>3

(* The stage had no context, so no frozen and no gathered one changes. *)
LEMMA RetrieveStageStep ==
    ASSUME ContextInv, NEW s \in Stage, RetrieveStage(s)
    PROVE  ContextInv'
<1>1. /\ thread \in ThreadRecord /\ thread.pc = "stages" /\ result[s] = 0
      /\ result \in [Stage -> 0..MaxEpoch] /\ fetchedIn \in [Stage -> 0..MaxEpoch]
      /\ epoch \in 1..MaxEpoch /\ thread.stamp \in 0..MaxEpoch /\ thread.stamp # 0
      /\ UNCHANGED <<run, task, delivery, authority>>
  BY DEF RetrieveStage, Thread, ContextInv, ContextTypeOK, ThreadRecord, ThreadInOrder, Epoch
<1>2. /\ result' = [result EXCEPT ![s] = thread.stamp]
      /\ fetchedIn' = [fetchedIn EXCEPT ![s] = epoch]
      /\ thread' = [thread EXCEPT !.done = thread.done \cup {s},
                                  !.contexts = thread.contexts \cup {s}]
  BY DEF RetrieveStage
<1>3. /\ thread'.pc = "stages" /\ thread'.stamp = thread.stamp
      /\ thread'.done = thread.done \cup {s} /\ thread'.contexts = thread.contexts \cup {s}
  BY <1>1, <1>2 DEF ThreadRecord
<1>4. thread' \in ThreadRecord
  <2>1. thread.done \cup {s} \in SUBSET Stage /\ thread.contexts \cup {s} \in SUBSET Stage
    BY <1>1 DEF ThreadRecord
  <2>2. QED BY <1>1, <1>2, <2>1 DEF ThreadRecord
<1>5. /\ result' \in [Stage -> 0..MaxEpoch] /\ fetchedIn' \in [Stage -> 0..MaxEpoch]
      /\ result'[s] = thread.stamp /\ fetchedIn'[s] = epoch
      /\ \A i \in Stage \ {s} : result'[i] = result[i] /\ fetchedIn'[i] = fetchedIn[i]
  <2>1. epoch \in 0..MaxEpoch
    BY <1>1, ContextConstants
  <2>2. QED BY <1>1, <1>2, <2>1
<1>6. ContextTypeOK'
  BY <1>1, <1>4, <1>5 DEF ContextInv, ContextTypeOK, ThreadRecord, authority
<1>7. StampsArePast'
  <2>1. epoch' = epoch /\ thread'.stamp <= epoch'
    BY <1>1, <1>3 DEF ContextInv, StampsArePast, authority
  <2>2. ASSUME NEW i \in Stage PROVE result'[i] <= fetchedIn'[i] /\ fetchedIn'[i] <= epoch
    <3>1. CASE i = s
      BY <1>1, <1>3, <1>5, <2>1, <3>1
    <3>2. CASE i # s
      BY <1>5, <3>2 DEF ContextInv, StampsArePast
    <3>3. QED BY <3>1, <3>2
  <2>3. QED BY <2>1, <2>2 DEF StampsArePast
<1>8. ThreadInOrder'
  <2>1. /\ thread.done \cap Required \subseteq thread.contexts
        /\ thread.contexts \subseteq Stage
        /\ \A i \in thread.contexts : result[i] = thread.stamp
    BY <1>1 DEF ContextInv, ThreadInOrder, ThreadRecord
  <2>2. thread'.done \cap Required \subseteq thread'.contexts
    BY <1>3, <2>1
  <2>3. \A i \in thread'.contexts : result'[i] = thread'.stamp
    BY <1>3, <1>5, <2>1
  <2>4. QED BY <1>1, <1>3, <2>2, <2>3 DEF ThreadInOrder
<1>9. RunInOrder'
  <2>1. run.status = "succeeded" => s \notin run.contexts /\ run.contexts \subseteq Stage
    BY <1>1 DEF ContextInv, RunInOrder, ContextsShareStamp, ContextTypeOK
  <2>2. QED BY <1>1, <1>5, <2>1 DEF ContextInv, RunInOrder, ContextsShareStamp
<1>10. QED BY <1>6, <1>7, <1>8, <1>9 DEF ContextInv

(* The stamp is confirmed while it is the epoch in force: what was retrieved no
   earlier than in the epoch of the stamp was retrieved in it. *)
LEMMA ConfirmStep == ASSUME ContextInv, Confirm PROVE ContextInv'
<1>1. /\ thread \in ThreadRecord /\ thread.pc = "stages" /\ thread.done = Stage
      /\ UNCHANGED <<run, result, fetchedIn, task, delivery, authority>>
      /\ task \in {"none", "ready", "waits", "sleeps", "prepared", "error"}
  BY DEF Confirm, Thread, db, ContextInv, ContextTypeOK, ThreadRecord
<1>2. CASE EpochIs(thread.stamp)
  <2>1. To("succeed") /\ thread.stamp = epoch
    BY <1>2 DEF Confirm, EpochIs
  <2>2. /\ thread' \in ThreadRecord
        /\ thread'.pc = "succeed" /\ thread'.stamp = thread.stamp
        /\ thread'.contexts = thread.contexts /\ thread'.done = thread.done
    BY <1>1, <2>1, ThreadMoves
  <2>3. ContextTypeOK'
    BY <1>1, <2>2 DEF ContextInv, ContextTypeOK, ThreadRecord, authority
  <2>4. StampsArePast'
    BY <1>1, <2>2 DEF ContextInv, StampsArePast, authority
  <2>5. ThreadInOrder'
    <3>1. /\ thread.stamp # 0 /\ Required \subseteq thread.contexts
          /\ thread.contexts \subseteq Stage
          /\ \A i \in thread.contexts : result[i] = thread.stamp
      BY <1>1 DEF ContextInv, ThreadInOrder, ThreadRecord, Stage
    <3>2. ASSUME NEW i \in thread.contexts PROVE fetchedIn[i] = thread.stamp
      <4>1. /\ result[i] <= fetchedIn[i] /\ fetchedIn[i] <= epoch /\ result[i] = epoch
            /\ fetchedIn[i] \in 0..MaxEpoch /\ epoch \in 1..MaxEpoch
        BY <2>1, <3>1 DEF ContextInv, StampsArePast, ContextTypeOK, Epoch
      <4>2. QED BY <2>1, <4>1, ContextConstants
    <3>3. QED BY <1>1, <2>2, <3>1, <3>2 DEF ThreadInOrder
  <2>6. RunInOrder'
    BY <1>1 DEF ContextInv, RunInOrder, ContextsShareStamp
  <2>7. QED BY <2>3, <2>4, <2>5, <2>6 DEF ContextInv
<1>3. CASE ~EpochIs(thread.stamp)
  <2>1. Fails(FALSE)
    BY <1>3 DEF Confirm
  <2>2. QED BY <1>1, <2>1, ThreadEnds
<1>4. QED BY <1>2, <1>3

(* What the thread gathered is frozen. *)
LEMMA SucceedStep == ASSUME ContextInv, Succeed PROVE ContextInv'
<1>1. /\ thread \in ThreadRecord /\ thread.pc = "succeed" /\ run \in RunRecord
      /\ UNCHANGED <<result, fetchedIn, delivery, authority>>
      /\ task \in {"none", "ready", "waits", "sleeps", "prepared", "error"}
  BY DEF Succeed, Thread, ContextInv, ContextTypeOK, ThreadRecord, RunRecord
<1>2. CASE run.status = "running"
  <2>1. /\ run' = [run EXCEPT !.status = "succeeded", !.stamp = thread.stamp,
                              !.contexts = thread.contexts, !.late = FALSE]
        /\ thread' = NoThread
        /\ task' = IF task = "waits" THEN "prepared" ELSE task
    BY <1>2 DEF Succeed, Ends
  <2>2. thread.stamp \in 0..MaxEpoch /\ thread.contexts \in SUBSET Stage
    BY <1>1 DEF ThreadRecord
  <2>3. /\ run' \in RunRecord /\ run'.status = "succeeded" /\ run'.late = FALSE
        /\ run'.stamp = thread.stamp /\ run'.contexts = thread.contexts
    BY <1>1, <2>1, <2>2 DEF RunRecord, RunTerminal
  <2>4. ContextTypeOK'
    BY <1>1, <2>1, <2>3, ContextConstants
       DEF ContextInv, ContextTypeOK, ThreadRecord, RunRecord, authority
  <2>5. StampsArePast'
    BY <1>1, <2>1, ContextConstants
       DEF ContextInv, StampsArePast, authority, ContextTypeOK, Epoch
  <2>6. ThreadInOrder'
    BY <2>1, ContextConstants DEF ThreadInOrder
  <2>7. RunInOrder'
    <3>1. /\ thread.stamp # 0 /\ Required \subseteq thread.contexts
          /\ \A s \in thread.contexts : result[s] = thread.stamp /\ fetchedIn[s] = thread.stamp
      BY <1>1 DEF ContextInv, ThreadInOrder
    <3>2. QED BY <1>1, <2>3, <3>1 DEF RunInOrder, ContextsShareStamp
  <2>8. QED BY <2>4, <2>5, <2>6, <2>7 DEF ContextInv
<1>3. CASE run.status # "running"
  <2>1. UNCHANGED <<run, task>> /\ Fails(FALSE)
    BY <1>3 DEF Succeed
  <2>2. QED BY <1>1, <2>1, ThreadEnds
<1>4. QED BY <1>2, <1>3

(* A run that fails, or is cancelled, without having ended. *)
LEMMA RunEnds ==
    ASSUME ContextInv, UNCHANGED <<result, fetchedIn, authority>>,
           task' \in {"none", "ready", "waits", "sleeps", "prepared", "error"},
           delivery' \in {"preparing_context", "queued", "failed", "cancelled"},
           run' \in RunRecord, run'.status \in {"failed", "cancelled"}, run'.late = FALSE,
           thread' = NoThread \/ thread' = thread
    PROVE  ContextInv'
<1>1. thread' \in ThreadRecord /\ thread'.stamp \in {0, thread.stamp}
  BY ContextConstants DEF ContextInv, ContextTypeOK, ThreadRecord
<1>2. ContextTypeOK'
  BY <1>1 DEF ContextInv, ContextTypeOK, ThreadRecord, RunRecord, authority
<1>3. StampsArePast'
  BY <1>1 DEF ContextInv, StampsArePast, authority, ContextTypeOK, Epoch
<1>4. ThreadInOrder'
  BY ContextConstants DEF ContextInv, ThreadInOrder
<1>5. RunInOrder'
  BY DEF RunInOrder, ContextsShareStamp
<1>6. QED BY <1>2, <1>3, <1>4, <1>5 DEF ContextInv

(* What an attempt that failed does to the run: nothing once it has ended. *)
LEMMA FailureOfRun ==
    ASSUME ContextInv, FailAttempt
    PROVE  /\ thread' = NoThread
           /\ \/ run' = run
              \/ run' \in RunRecord /\ run'.status = "retry_wait" /\ run.status = "running"
              \/ /\ run' \in RunRecord /\ run'.status = "failed" /\ run'.late = FALSE
                 /\ run.status \notin RunTerminal
<1>1. run \in RunRecord /\ (run.status \in RunTerminal => run.late = FALSE)
  BY DEF ContextInv, ContextTypeOK, RunRecord, RunInOrder
<1>2. CASE thread.transient /\ run.attempt < MaxAttempts
  <2>1. CASE run.status = "running"
    <3>1. run' = [run EXCEPT !.status = "retry_wait", !.late = FALSE] /\ thread' = NoThread
      BY <1>2, <2>1 DEF FailAttempt, Ends
    <3>2. QED BY <1>1, <2>1, <3>1 DEF RunRecord
  <2>2. CASE run.status # "running"
    BY <1>2, <2>2 DEF FailAttempt, Ends
  <2>3. QED BY <2>1, <2>2
<1>3. CASE ~(thread.transient /\ run.attempt < MaxAttempts)
  <2> DEFINE status == IF run.status \in RunTerminal THEN run.status ELSE "failed"
  <2>1. run' = [run EXCEPT !.status = status, !.late = FALSE] /\ thread' = NoThread
    BY <1>3 DEF FailAttempt, Ends
  <2>2. CASE run.status \in RunTerminal
    <3>1. run' = [run EXCEPT !.status = run.status, !.late = run.late]
      BY <1>1, <2>1, <2>2
    <3>2. run' = run
      BY <1>1, <3>1 DEF RunRecord
    <3>3. QED BY <2>1, <3>2
  <2>3. CASE run.status \notin RunTerminal
    <3>1. run' = [run EXCEPT !.status = "failed", !.late = FALSE]
      BY <2>1, <2>3
    <3>2. run' \in RunRecord /\ run'.status = "failed" /\ run'.late = FALSE
      BY <1>1, <3>1 DEF RunRecord, RunTerminal
    <3>3. QED BY <2>1, <2>3, <3>2
  <2>4. QED BY <2>2, <2>3
<1>4. QED BY <1>2, <1>3

LEMMA FailAttemptStep == ASSUME ContextInv, FailAttempt PROVE ContextInv'
<1>1. /\ run \in RunRecord /\ UNCHANGED <<result, fetchedIn, delivery, authority>>
      /\ delivery \in {"preparing_context", "queued", "failed", "cancelled"}
      /\ task \in {"none", "ready", "waits", "sleeps", "prepared", "error"}
  BY DEF FailAttempt, ContextInv, ContextTypeOK, RunRecord
<1>2. task' \in {"none", "ready", "waits", "sleeps", "prepared", "error"}
  BY <1>1 DEF FailAttempt, Ends
<1>3. CASE run' \in RunRecord /\ run'.status = "failed" /\ run'.late = FALSE
  BY <1>1, <1>2, <1>3, FailureOfRun, RunEnds
<1>4. CASE run' = run \/ (run' \in RunRecord /\ run'.status = "retry_wait")
  BY <1>1, <1>2, <1>4, FailureOfRun, RunGoesOn DEF RunTerminal
<1>5. QED BY <1>3, <1>4, FailureOfRun

-----------------------------------------------------------------------------
(* What happens beside the attempt.                                        *)

LEMMA StartThreadStep == ASSUME ContextInv, StartThread PROVE ContextInv'
<1>1. /\ run \in RunRecord /\ UNCHANGED <<run, result, fetchedIn, delivery, authority>>
      /\ thread.pc = "none" /\ To("enter") /\ task' = "waits"
  BY DEF StartThread, Thread, db, ContextInv, ContextTypeOK, RunRecord
<1>2. QED BY <1>1, RunGoesOn

LEMMA TimePassesStep == ASSUME ContextInv, TimePasses PROVE ContextInv'
<1>1. /\ run \in RunRecord /\ UNCHANGED <<result, fetchedIn, thread, task, delivery, authority>>
      /\ run.status \in {"running", "retry_wait"} /\ run' = [run EXCEPT !.late = TRUE]
      /\ task \in {"none", "ready", "waits", "sleeps", "prepared", "error"}
  BY DEF TimePasses, ContextInv, ContextTypeOK, RunRecord
<1>2. run' \in RunRecord /\ run'.status \notin RunTerminal
  BY <1>1 DEF RunRecord, RunTerminal
<1>3. QED BY <1>1, <1>2, RunGoesOn

LEMMA DeliveryStep == ASSUME ContextInv, Wake \/ Deliver PROVE ContextInv'
<1>1. /\ UNCHANGED <<run, result, fetchedIn, thread, authority>>
      /\ task' \in {"none", "ready"}
      /\ delivery' \in {"preparing_context", "queued", "failed", "cancelled"}
  BY DEF Wake, Deliver, db, ContextInv, ContextTypeOK
<1>2. ContextTypeOK'
  BY <1>1 DEF ContextInv, ContextTypeOK, authority
<1>3. QED BY <1>1, <1>2 DEF ContextInv, StampsArePast, ThreadInOrder, RunInOrder,
                             ContextsShareStamp, authority

(* Cancelling changes the run unless it has ended. *)
LEMMA CancellationOfRun ==
    ASSUME ContextInv, Cancel
    PROVE  \/ run' = run
           \/ /\ run' \in RunRecord /\ run'.status = "cancelled" /\ run'.late = FALSE
              /\ run.status \notin RunTerminal
<1>1. run \in RunRecord
  BY DEF ContextInv, ContextTypeOK, RunRecord
<1>2. CASE run.status \in RunTerminal \cup {"absent"}
  BY <1>2 DEF Cancel
<1>3. CASE run.status \notin RunTerminal \cup {"absent"}
  <2>1. run' = [run EXCEPT !.status = "cancelled", !.late = FALSE]
    BY <1>3 DEF Cancel
  <2>2. QED BY <1>1, <1>3, <2>1 DEF RunRecord, RunTerminal
<1>4. QED BY <1>2, <1>3

LEMMA CancelStep == ASSUME ContextInv, Cancel PROVE ContextInv'
<1>1. /\ UNCHANGED <<result, fetchedIn, thread, authority>>
      /\ task' = "none" /\ delivery' = "cancelled"
  BY DEF Cancel
<1>2. CASE run' = run
  <2>1. ContextTypeOK'
    BY <1>1, <1>2 DEF ContextInv, ContextTypeOK, authority
  <2>2. QED BY <1>1, <1>2, <2>1 DEF ContextInv, StampsArePast, ThreadInOrder, RunInOrder,
                                   ContextsShareStamp, authority
<1>3. CASE run' \in RunRecord /\ run'.status = "cancelled" /\ run'.late = FALSE
  BY <1>1, <1>3, RunEnds
<1>4. QED BY <1>2, <1>3, CancellationOfRun

(* The epoch only grows, so what lies in the past stays there. *)
LEMMA ChangeStep == ASSUME ContextInv, Change PROVE ContextInv'
<1>1. /\ UNCHANGED <<run, result, fetchedIn, thread, task, delivery>>
      /\ epoch \in 1..MaxEpoch /\ epoch < MaxEpoch /\ epoch' = epoch + 1
      /\ authorized' \in BOOLEAN
  BY DEF Change, db, ContextInv, ContextTypeOK, Epoch
<1>2. ContextTypeOK'
  BY <1>1, ContextConstants DEF ContextInv, ContextTypeOK, Epoch
<1>3. StampsArePast'
  <2>1. /\ thread.stamp \in 0..MaxEpoch /\ \A s \in Stage : fetchedIn[s] \in 0..MaxEpoch
        /\ MaxEpoch \in Nat
    BY ContextConstants DEF ContextInv, ContextTypeOK
  <2>2. QED BY <1>1, <2>1 DEF ContextInv, StampsArePast
<1>4. QED BY <1>1, <1>2, <1>3 DEF ContextInv, ThreadInOrder, RunInOrder, ContextsShareStamp

LEMMA RestartStep == ASSUME ContextInv, Restart PROVE ContextInv'
<1>1. /\ run \in RunRecord /\ UNCHANGED <<run, result, fetchedIn, delivery, authority>>
      /\ thread' = NoThread /\ task' \in {"ready", "none"}
  BY DEF Restart, db, ContextInv, ContextTypeOK, RunRecord
<1>2. QED BY <1>1, RunGoesOn

LEMMA ContextStep == ContextInv /\ [Next]_vars => ContextInv'
<1> SUFFICES ASSUME ContextInv, [Next]_vars PROVE ContextInv'
  OBVIOUS
<1>1. CASE Attempt
  BY <1>1, EnterStep, AcquireStep, ResolveStep, ConfirmStep, SucceedStep, FailAttemptStep,
     ReuseStageStep, RetrieveStageStep, MissStageStep DEF Attempt
<1>2. CASE StartThread \/ TimePasses \/ Wake \/ Deliver
  BY <1>2, StartThreadStep, TimePassesStep, DeliveryStep
<1>3. CASE Cancel \/ Change \/ Restart
  BY <1>3, CancelStep, ChangeStep, RestartStep
<1>4. CASE UNCHANGED vars
  <2>1. UNCHANGED <<run, result, fetchedIn, thread, task, delivery, epoch, authorized>>
    BY <1>4 DEF vars, db, authority
  <2>2. QED BY <2>1 DEF ContextInv, ContextTypeOK, StampsArePast, ThreadInOrder, RunInOrder,
                       ContextsShareStamp
<1>5. QED BY <1>1, <1>2, <1>3, <1>4 DEF Next

LEMMA ContextInductive == Spec => []ContextInv
<1>1. QED BY ContextInitially, ContextStep, PTL DEF Spec

(* The run, its results and the thread hold values the code can write. *)
THEOREM ContextTypeCorrect == Spec => []ContextTypeOK
<1>1. ContextInv => ContextTypeOK
  BY DEF ContextInv
<1>2. QED BY <1>1, ContextInductive, PTL

(* A frozen context is complete and was retrieved, all of it, under the
   authorization it is stamped with: for any number of stages, attempts, changes
   of the authorization and restarts. *)
THEOREM FrozenContextsShareStamp == Spec => []ContextsShareStamp
<1>1. ContextInv => ContextsShareStamp
  BY DEF ContextInv, RunInOrder
<1>2. QED BY <1>1, ContextInductive, PTL

(* A run that has ended stays as it ended, also when a thread outlives the
   cancellation of its delivery. *)
THEOREM EndedPreparationIsFinal == Spec => PreparationIsFinal
<1>1. ContextInv /\ [Next]_vars => (run.status \in RunTerminal => run' = run)
  <2> SUFFICES ASSUME ContextInv, [Next]_vars, run.status \in RunTerminal PROVE run' = run
    OBVIOUS
  <2>1. CASE FailAttempt
    BY <2>1, FailureOfRun DEF RunTerminal
  <2>2. CASE Cancel
    BY <2>2, CancellationOfRun
  <2>3. CASE Enter \/ Acquire \/ Succeed \/ TimePasses
    BY <2>3 DEF Enter, Acquire, Succeed, TimePasses, RunTerminal
  <2>4. CASE Resolve \/ Confirm \/ StartThread \/ Wake \/ Deliver \/ Change \/ Restart
    BY <2>4 DEF Resolve, Confirm, StartThread, Wake, Deliver, Change, Restart, db
  <2>5. CASE \E s \in Stage : ReuseStage(s) \/ RetrieveStage(s) \/ MissStage(s)
    BY <2>5 DEF ReuseStage, RetrieveStage, MissStage, db
  <2>6. CASE UNCHANGED vars
    BY <2>6 DEF vars, db
  <2>7. QED BY <2>1, <2>2, <2>3, <2>4, <2>5, <2>6 DEF Next, Attempt
<1>2. ContextInv /\ [Next]_vars => [run.status \in RunTerminal => run' = run]_vars
  BY <1>1
<1>3. QED BY <1>2, ContextInductive, PTL DEF Spec, PreparationIsFinal
=============================================================================
