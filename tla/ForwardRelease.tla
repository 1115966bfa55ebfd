--------------------------- MODULE ForwardRelease ---------------------------
(***************************************************************************)
(* External forward-only release of the deliveries of one project          *)
(* (ADR-0015): ExternalForwardReleaseCoordinator pushes the approved       *)
(* candidates of a bundle to the main branches of its repositories, in the *)
(* frozen order, persists a receipt after each, and never rolls back.      *)
(*                                                                         *)
(* apply() runs in a thread of its own (one per delivery, started once by  *)
(* the candidate gate); resume-forward runs on the event loop, one request *)
(* at a time.  Each remote call and each transaction is a step, so the     *)
(* two, other people's pushes and the death of the process interleave.     *)
(*                                                                         *)
(* A commit is named by who made it: the seed, somebody else, or the       *)
(* delivery whose candidate it is on that repository.                      *)
(***************************************************************************)
EXTENDS Naturals, FiniteSets

CONSTANTS
    Delivery,        \* deliveries the project may create, one after the other
    N,               \* repositories of the release contract
    MaxMoves,        \* bound: moves of a main branch by somebody else
    MaxRestarts,     \* bound: restarts of the process
    MaxVersion,      \* bound: version an attempt may reach before a resume
    PatientOperator  \* nobody accepts a gate or resumes while a worker runs

(* At least one repository; and nothing that is not a delivery is named like one. *)
ASSUME ReleaseAssumption ==
    /\ N \in Nat \ {0}
    /\ {MaxMoves, MaxRestarts, MaxVersion} \subseteq Nat
    /\ PatientOperator \in BOOLEAN
    /\ Delivery \cap {"none", "resumer", "seed", "foreign"} = {}

VARIABLES
    main,        \* per repository: the commit at the head of main
    base,        \* per delivery and repository: reviewed base of the candidate
    lineage,     \* per delivery and repository: commits the candidate contains
    reached,     \* history: <<d, r>> whose candidate was at the head of main
    receipts,    \* remote_apply_receipts: <<d, r>>
    attempt,     \* release_apply_attempts_v2: [status, version] per delivery
    manifest,    \* release_manifests_v2: the delivery of the active manifest
    health,      \* project_release_health_v2: delivery named by a drift, or None
    announced,   \* deliveries with a delivery.completed event
    delivery,    \* deliveries: status
    lease,       \* project_delivery_leases: holder, or None
    job,         \* per worker: where its apply() or resume_forward() is
    moves, restarts

db == <<receipts, attempt, manifest, health, announced, delivery, lease>>
frozen == <<base, lineage>>
env == <<moves, restarts>>
vars == <<main, frozen, reached, db, job, env>>

None == "none"
Resumer == "resumer"
Worker == Delivery \cup {Resumer}
Repo == 1..N
Commit == {"seed", "foreign"} \cup Delivery
Over == {"completed", "ended"}
Status == {"absent", "active", "awaiting", "applying", "needs_attention"} \cup Over
Place == {"idle", "preflight", "open", "step", "fetch", "send", "verify", "put",
          "finalize", "error", "demote", "health", "mark", "close"}

NoJob == [pc |-> "idle", d |-> None, version |-> 0, at |-> 1, had |-> {}]
Receipts(d) == {r \in Repo : <<d, r>> \in receipts}
Running(w, place) == job[w].pc = place
Goto(w, place) == job' = [job EXCEPT ![w].pc = place]
Quit(w) == job' = [job EXCEPT ![w] = NoJob]

(* The event loop is free: resume_forward blocks it while it runs. *)
LoopFree == job[Resumer].pc \in {"idle", "close"}

(* People act on a release once the workers that were running have returned. *)
Attended == PatientOperator => \A w \in Worker : Running(w, "idle")

Init ==
    /\ main = [r \in Repo |-> "seed"]
    /\ base = [d \in Delivery |-> [r \in Repo |-> None]]
    /\ lineage = [d \in Delivery |-> [r \in Repo |-> {}]]
    /\ reached = {} /\ receipts = {}
    /\ attempt = [d \in Delivery |-> [status |-> None, version |-> 0]]
    /\ manifest = None /\ health = None /\ announced = {} /\ lease = None
    /\ delivery = [d \in Delivery |-> "absent"]
    /\ job = [w \in Worker |-> NoJob]
    /\ moves = 0 /\ restarts = 0

-----------------------------------------------------------------------------
(* Who must still bring a release to its end: Release's own facts, whatever
   became of the delivery or its lease. *)
Owners ==
    {d \in Delivery : attempt[d].status \in {"applying", "needs_attention"}}
        \cup {d \in Delivery : health = d}

Finalized(d) ==
    /\ manifest = d /\ attempt[d].status = "completed" /\ health = None
    /\ lease # d /\ d \in announced /\ delivery[d] = "completed"

(* release_delivery: the lease stays with whoever owns a recovery. *)
FreedBy(d) == IF lease = d /\ d \notin Owners THEN None ELSE lease

(* First save of a delivery, lease and admission checks in one transaction. *)
Admit(d) ==
    /\ LoopFree /\ delivery[d] = "absent"
    /\ Owners = {} /\ lease = None
    /\ delivery' = [delivery EXCEPT ![d] = "active"]
    /\ lease' = d
    /\ UNCHANGED <<main, frozen, reached, receipts, attempt, manifest, health,
                   announced, job, env>>

(* The candidates are built on the mains of the moment, verified and frozen in
   a bundle; the candidate gate opens. *)
OpenCandidateGate(d) ==
    /\ LoopFree /\ delivery[d] = "active"
    /\ base' = [base EXCEPT ![d] = main]
    /\ lineage' = [lineage EXCEPT ![d] = [r \in Repo |->
           {"seed", main[r]} \cup (IF main[r] \in Delivery THEN lineage[main[r]][r] ELSE {})]]
    /\ delivery' = [delivery EXCEPT ![d] = "awaiting"]
    /\ UNCHANGED <<main, reached, receipts, attempt, manifest, health, announced,
                   lease, job, env>>

(* Cancelled, rejected or failed before Apply: terminal save, then the lease. *)
End(d) ==
    /\ LoopFree /\ delivery[d] \in {"active", "awaiting"}
    /\ delivery' = [delivery EXCEPT ![d] = "ended"]
    /\ lease' = FreedBy(d)
    /\ UNCHANGED <<main, frozen, reached, receipts, attempt, manifest, health,
                   announced, job, env>>

(* The gate is accepted: awaiting -> applying by compare-and-set, then apply()
   in a thread.  Nothing is finalized and no attempt exists for d yet. *)
Accept(d) ==
    /\ LoopFree /\ delivery[d] = "awaiting" /\ Attended
    /\ delivery' = [delivery EXCEPT ![d] = "applying"]
    /\ job' = [job EXCEPT ![d] = [NoJob EXCEPT !.pc = "preflight", !.d = d]]
    /\ UNCHANGED <<main, frozen, reached, receipts, attempt, manifest, health,
                   announced, lease, env>>

(* POST /v1/releases/{delivery}/resume-forward. *)
Resume(d) ==
    /\ LoopFree /\ Running(Resumer, "idle")
    /\ Attended
    /\ \/ /\ Finalized(d)
          /\ job' = [job EXCEPT ![Resumer] = [NoJob EXCEPT !.pc = "close", !.d = d]]
       \/ /\ ~Finalized(d) /\ attempt[d].status = "needs_attention"
          /\ attempt[d].version < MaxVersion
          /\ job' = [job EXCEPT ![Resumer] =
                 [pc |-> "preflight", d |-> d, version |-> attempt[d].version,
                  at |-> 1, had |-> Receipts(d)]]
    /\ UNCHANGED <<main, frozen, reached, db, env>>

-----------------------------------------------------------------------------
(* Preflight: a drifted or unreachable repository ends the call, and so does an
   attempt that somebody else opened meanwhile; neither changes anything. *)

Acceptable(d, r, had) ==
    IF r \in had THEN main[r] = d ELSE main[r] \in {base[d][r], d}

(* The worker is done with one repository and turns to the next. *)
NextRepo(w, again, after) ==
    IF job[w].at = N THEN job' = [job EXCEPT ![w].pc = after, ![w].at = 1]
    ELSE job' = [job EXCEPT ![w].pc = again, ![w].at = @ + 1]

PreflightPasses(w) ==
    /\ Running(w, "preflight")
    /\ Acceptable(job[w].d, job[w].at, job[w].had)
    /\ NextRepo(w, "preflight", "open")
    /\ UNCHANGED <<main, frozen, reached, db, env>>

PreflightRefuses(w) ==
    /\ Running(w, "preflight") \/ Running(w, "open")
    /\ Quit(w)
    /\ UNCHANGED <<main, frozen, reached, db, env>>

(* put_attempt: the first attempt, or needs_attention -> applying by version;
   then the receipts persisted so far are listed. *)
OpenAttempt(w) ==
    /\ Running(w, "open")
    /\ LET d == job[w].d IN
       /\ attempt[d].version = job[w].version
       /\ attempt' = [attempt EXCEPT ![d] = [status |-> "applying", version |-> @.version + 1]]
       /\ job' = [job EXCEPT ![w].pc = "step", ![w].version = @ + 1, ![w].had = Receipts(d)]
    /\ UNCHANGED <<main, frozen, reached, receipts, manifest, health, announced,
                   delivery, lease, env>>

-----------------------------------------------------------------------------
(* One repository: main is read; a receipt is confirmed, a candidate already
   there is recovered, a base is pushed, anything else is an error. *)

Step(w) ==
    /\ Running(w, "step")
    /\ LET d == job[w].d
           r == job[w].at IN
       \/ r \in job[w].had /\ main[r] = d /\ NextRepo(w, "step", "finalize")
       \/ r \notin job[w].had /\ main[r] = d /\ Goto(w, "verify")
       \/ r \notin job[w].had /\ main[r] = base[d][r] /\ Goto(w, "fetch")
    /\ UNCHANGED <<main, frozen, reached, db, env>>

(* The push runs in a fresh clone: main is fetched once more. *)
Fetch(w) ==
    /\ Running(w, "fetch")
    /\ main[job[w].at] = base[job[w].d][job[w].at]
    /\ Goto(w, "send")
    /\ UNCHANGED <<main, frozen, reached, db, env>>

(* Mutant: a push that replaces whatever is there. *)
ForcePush(d, r) == TRUE

(* External: the server takes a non-force push that is a fast-forward. *)
FastForward(d, r) == main[r] \in lineage[d][r] \cup {d}

(* Mutant: the push is believed to have arrived. *)
TrustPush(w) ==
    /\ Running(w, "send") /\ Goto(w, "put")
    /\ UNCHANGED <<main, frozen, reached, db, env>>

(* The push arrives; its answer may be lost (WorkFails takes over then). *)
Send(w) ==
    /\ Running(w, "send")
    /\ LET d == job[w].d
           r == job[w].at IN
       /\ FastForward(d, r)
       /\ main' = [main EXCEPT ![r] = d]
       /\ reached' = reached \cup {<<d, r>>}
       /\ Goto(w, "verify") \/ Goto(w, "error")
    /\ UNCHANGED <<frozen, db, env>>

(* main is read back and must be the candidate. *)
ReadBack(w) ==
    /\ Running(w, "verify")
    /\ main[job[w].at] = job[w].d
    /\ Goto(w, "put")
    /\ UNCHANGED <<main, frozen, reached, db, env>>

(* Mutant: the release is finalized after the first repository. *)
FinalizeEarly(w) ==
    /\ Running(w, "put")
    /\ receipts' = receipts \cup {<<job[w].d, job[w].at>>}
    /\ Goto(w, "finalize")
    /\ UNCHANGED <<main, frozen, reached, attempt, manifest, health, announced,
                   delivery, lease, env>>

(* put_remote_receipt: a receipt that is there already conflicts. *)
PutReceipt(w) ==
    /\ Running(w, "put")
    /\ LET key == <<job[w].d, job[w].at>> IN
       key \notin receipts /\ receipts' = receipts \cup {key}
    /\ NextRepo(w, "step", "finalize")
    /\ UNCHANGED <<main, frozen, reached, attempt, manifest, health, announced,
                   delivery, lease, env>>

(* A remote call fails, a repository has drifted, a push is refused, or a
   transaction is not committed: the loop ends in its error path. *)
WorkFails(w) ==
    /\ job[w].pc \in {"step", "fetch", "send", "verify", "put", "finalize"}
    /\ Goto(w, "error")
    /\ UNCHANGED <<main, frozen, reached, db, env>>

(* finalize_release: one transaction; its confirmation may be lost. *)
Finalize(w) ==
    /\ Running(w, "finalize")
    /\ LET d == job[w].d IN
       /\ attempt[d] = [status |-> "applying", version |-> job[w].version]
       /\ attempt' = [attempt EXCEPT ![d] = [status |-> "completed", version |-> @.version + 1]]
       /\ manifest' = d /\ health' = None
       /\ delivery' = [delivery EXCEPT ![d] = "completed"]
       /\ announced' = announced \cup {d}
       /\ lease' = IF lease = d THEN None ELSE lease
    /\ Goto(w, "close") \/ Goto(w, "error")
    /\ UNCHANGED <<main, frozen, reached, receipts, env>>

-----------------------------------------------------------------------------
(* The error path: a release that was committed after all is a success; else
   the attempt, the health and the delivery are demoted, in three
   transactions of which only the first compares a version. *)

Caught(w) ==
    /\ Running(w, "error")
    /\ LET d == job[w].d IN
       \/ Finalized(d) /\ Goto(w, "close")
       \/ /\ ~Finalized(d)
          /\ job' = [job EXCEPT ![w].pc = "demote", ![w].version = attempt[d].version]
    /\ UNCHANGED <<main, frozen, reached, db, env>>

DemoteAttempt(w) ==
    /\ Running(w, "demote")
    /\ LET d == job[w].d IN
       /\ attempt[d].version = job[w].version
       /\ attempt' = [attempt EXCEPT ![d] = [status |-> "needs_attention", version |-> @.version + 1]]
    /\ Goto(w, "health")
    /\ UNCHANGED <<main, frozen, reached, receipts, manifest, health, announced,
                   delivery, lease, env>>

DriftHealth(w) ==
    /\ Running(w, "health")
    /\ health' = job[w].d
    /\ Goto(w, "mark")
    /\ UNCHANGED <<main, frozen, reached, receipts, attempt, manifest, announced,
                   delivery, lease, env>>

(* One of the three is not committed, or the attempt has another version by now:
   a success after all, or the call raises. *)
DemotionFails(w) ==
    /\ job[w].pc \in {"demote", "health", "mark"}
    /\ IF Finalized(job[w].d) THEN Goto(w, "close") ELSE Quit(w)
    /\ UNCHANGED <<main, frozen, reached, db, env>>

(* Mutant: the delivery gives its lease back with the mark. *)
MarkAndRelease(w) ==
    /\ Running(w, "mark")
    /\ delivery' = [delivery EXCEPT ![job[w].d] = "needs_attention"]
    /\ lease' = None
    /\ Quit(w)
    /\ UNCHANGED <<main, frozen, reached, receipts, attempt, manifest, health,
                   announced, env>>

(* Mutant: the delivery is marked with a health status. *)
MarkDrifted(w) ==
    /\ Running(w, "mark")
    /\ delivery' = [delivery EXCEPT ![job[w].d] = "release_drifted"]
    /\ Quit(w)
    /\ UNCHANGED <<main, frozen, reached, receipts, attempt, manifest, health,
                   announced, lease, env>>

(* mark_delivery_needs_attention keeps the lease; the call then raises. *)
MarkDelivery(w) ==
    /\ Running(w, "mark")
    /\ delivery' = [delivery EXCEPT ![job[w].d] = "needs_attention"]
    /\ Quit(w)
    /\ UNCHANGED <<main, frozen, reached, receipts, attempt, manifest, health,
                   announced, lease, env>>

(* After a success the pipeline is advanced: the delivery is saved completed
   once more, whatever it has become, and its lease released. *)
Close(w) ==
    /\ Running(w, "close")
    /\ delivery' = [delivery EXCEPT ![job[w].d] = "completed"]
    /\ lease' = FreedBy(job[w].d)
    /\ Quit(w)
    /\ UNCHANGED <<main, frozen, reached, receipts, attempt, manifest, health,
                   announced, env>>

-----------------------------------------------------------------------------
(* Everybody else, and the process itself. *)

(* External: somebody moves a main branch: a commit of theirs, or one that
   exists already (a merged pull request, a repaired branch). *)
Outsider(r) ==
    /\ moves < MaxMoves /\ moves' = moves + 1
    /\ \E c \in {"seed", "foreign"} \cup {d \in Delivery : base[d][r] # None} :
         /\ c # main[r]
         /\ main' = [main EXCEPT ![r] = c]
         /\ reached' = IF c \in Delivery THEN reached \cup {<<c, r>>} ELSE reached
    /\ UNCHANGED <<frozen, db, job, restarts>>

Unfinished == {d \in Delivery : delivery[d] \notin {"absent"} \cup Over}

(* reconcile_leases: the recovery owner holds the lease; with none, the holder
   or else some unfinished delivery does. *)
Survivors ==
    IF Owners # {} THEN Owners
    ELSE IF lease \in Unfinished THEN {lease}
    ELSE IF Unfinished = {} THEN {None} ELSE Unfinished

(* The process dies and comes back: reconcile_leases, then recover(), which
   fails what was executing and leaves gates and external releases alone.  Two
   recovery owners refuse the start. *)
Restart ==
    /\ restarts < MaxRestarts /\ restarts' = restarts + 1
    /\ Cardinality(Owners) <= 1
    /\ \E holder \in Survivors :
         /\ delivery' = [d \in Delivery |->
                IF delivery[d] = "active" \/ (Owners = {} /\ d \in Unfinished /\ d # holder)
                THEN "ended" ELSE delivery[d]]
         /\ lease' = IF Owners = {} /\ holder # None /\ delivery[holder] = "active"
                     THEN None ELSE holder
    /\ job' = [w \in Worker |-> NoJob]
    /\ UNCHANGED <<main, frozen, reached, receipts, attempt, manifest, health,
                   announced, moves>>

Work(w) ==
    \/ PreflightPasses(w) \/ PreflightRefuses(w) \/ OpenAttempt(w)
    \/ Step(w) \/ Fetch(w) \/ Send(w) \/ ReadBack(w) \/ PutReceipt(w)
    \/ Finalize(w) \/ WorkFails(w)
    \/ Caught(w) \/ DemoteAttempt(w) \/ DriftHealth(w) \/ MarkDelivery(w)
    \/ DemotionFails(w) \/ Close(w)

Next ==
    \/ \E d \in Delivery : Admit(d) \/ OpenCandidateGate(d) \/ End(d) \/ Accept(d) \/ Resume(d)
    \/ \E w \in Worker : Work(w)
    \/ \E r \in Repo : Outsider(r)
    \/ Restart

Spec == Init /\ [][Next]_vars

-----------------------------------------------------------------------------
(* Every row and every worker holds a value its table or its code allows. *)
ReleaseTypeOK ==
    /\ main \in [Repo -> Commit]
    /\ base \in [Delivery -> [Repo -> Commit \cup {None}]]
    /\ receipts \subseteq Delivery \X Repo
    /\ attempt \in [Delivery ->
          [status : {None, "applying", "needs_attention", "completed"}, version : 0..MaxVersion + 2]]
    /\ {manifest, health, lease} \subseteq Delivery \cup {None}
    /\ announced \subseteq Delivery
    /\ delivery \in [Delivery -> Status]
    /\ job \in [Worker -> [pc : Place, d : Delivery \cup {None},
                           version : 0..MaxVersion + 2, at : Repo, had : SUBSET Repo]]

(* put_remote_receipt is the evidence of a push: no receipt exists for a
   candidate that was never at the head of main, however the push, its answer,
   other people's pushes and a restart were ordered. *)
ReceiptIsTrue == receipts \subseteq reached

(* A release that was started and not finished holds the project's lease, so
   no second delivery can build on half-released repositories: through
   errors, resumptions and reconcile_leases() after a restart. *)
UnfinishedHoldsLease ==
    \A d \in Delivery :
        attempt[d].status \in {"applying", "needs_attention"} => lease = d

(* A push of the release belongs to the open attempt of the delivery with the
   lease, follows the receipts of all earlier repositories, is never repeated
   once it has a receipt, and takes nobody's commit off the branch, not even
   one that arrived after the last fetch. *)
PushesInOrder ==
    [][\A r \in Repo : main'[r] # main[r] /\ moves' = moves =>
         \E d \in Delivery :
            /\ main'[r] = d /\ main[r] \in lineage[d][r]
            /\ attempt[d].status = "applying" /\ lease = d
            /\ Receipts(d) = 1..(r - 1)]_vars

(* Repositories get their receipts in order, one bundle at a time, and a
   release that is announced as completed covered all of them. *)
Contract == INSTANCE ReleaseContract WITH
    applied <- [d \in Delivery |-> Receipts(d)],
    finished <- announced

ImplementsRelease == Contract!Spec

(* What the resumption and the late error path of apply() must not do: take a
   completed delivery back to needs_attention. *)
NeverDemoted ==
    [][\A d \in Delivery : delivery[d] = "completed" => delivery'[d] = "completed"]_vars
=============================================================================
