------------------------ MODULE ForwardReleaseProofs ------------------------
(***************************************************************************)
(* The external release (ForwardRelease), and below the release of a       *)
(* managed project (ManagedRelease), which shares no variable with it, for *)
(* every number of deliveries and repositories.                            *)
(*                                                                         *)
(* Shape and Evidence hold whatever people do: a receipt names a candidate *)
(* that was at the head of main, because a worker comes to write it only   *)
(* after it has read main back.                                            *)
(***************************************************************************)
EXTENDS ForwardRelease, ManagedRelease, TLAPS

Attempt == [status : {None, "applying", "needs_attention", "completed"}, version : Nat]
Job == [pc : Place, d : Delivery \cup {None}, version : Nat, at : Repo, had : SUBSET Repo]

(* ReleaseTypeOK without the bounds, with what it leaves out. *)
Shape ==
    /\ main \in [Repo -> Commit]
    /\ base \in [Delivery -> [Repo -> Commit \cup {None}]]
    /\ receipts \subseteq Delivery \X Repo
    /\ attempt \in [Delivery -> Attempt]
    /\ {manifest, health, lease} \subseteq Delivery \cup {None}
    /\ announced \subseteq Delivery
    /\ delivery \in [Delivery -> Status]
    /\ job \in [Worker -> Job]
    /\ moves \in Nat /\ restarts \in Nat
    /\ \A w \in Worker : ~Running(w, "idle") => job[w].d \in Delivery

(* What is at the head of main has been there, and a worker that is about to
   write a receipt has seen its candidate there. *)
Evidence ==
    /\ \A r \in Repo : main[r] \in Delivery => <<main[r], r>> \in reached
    /\ \A w \in Worker : Running(w, "put") => <<job[w].d, job[w].at>> \in reached
    /\ ReceiptIsTrue

-----------------------------------------------------------------------------
(* Constants, and how a worker's record changes. *)

LEMMA Constants ==
    /\ N \in Nat /\ N >= 1 /\ 1 \in Repo /\ Repo \subseteq Nat
    /\ None \notin Delivery /\ Resumer \notin Delivery
    /\ "seed" \notin Delivery /\ "foreign" \notin Delivery
    /\ Resumer \in Worker /\ Delivery \subseteq Worker
    /\ NoJob \in Job
BY ReleaseAssumption DEF Repo, None, Resumer, Worker, NoJob, Job, Place

LEMMA GotoJob ==
    ASSUME job \in [Worker -> Job], NEW w \in Worker, NEW place \in Place, Goto(w, place)
    PROVE  /\ job' \in [Worker -> Job]
           /\ job'[w].pc = place /\ job'[w].d = job[w].d /\ job'[w].at = job[w].at
           /\ job'[w].version = job[w].version /\ job'[w].had = job[w].had
           /\ \A v \in Worker \ {w} : job'[v] = job[v]
BY DEF Goto, Job

LEMMA QuitJob ==
    ASSUME job \in [Worker -> Job], NEW w \in Worker, Quit(w)
    PROVE  /\ job' \in [Worker -> Job]
           /\ job'[w] = NoJob /\ job'[w].pc = "idle"
           /\ \A v \in Worker \ {w} : job'[v] = job[v]
BY Constants DEF Quit, NoJob

LEMMA NextRepoJob ==
    ASSUME job \in [Worker -> Job], NEW w \in Worker, NEW again \in Place, NEW after \in Place,
           NextRepo(w, again, after)
    PROVE  /\ job' \in [Worker -> Job]
           /\ job'[w].d = job[w].d /\ job'[w].version = job[w].version
           /\ job'[w].had = job[w].had
           /\ job[w].at = N => job'[w].pc = after /\ job'[w].at = 1
           /\ job[w].at # N => job'[w].pc = again /\ job'[w].at = job[w].at + 1
           /\ \A v \in Worker \ {w} : job'[v] = job[v]
<1>1. job[w] \in Job /\ job[w].at \in 1..N /\ N \in Nat
  BY Constants DEF Job, Repo
<1>2. CASE job[w].at = N
  BY <1>1, <1>2, Constants DEF NextRepo, Job
<1>3. CASE job[w].at # N
  <2>1. job[w].at + 1 \in Repo
    BY <1>1, <1>3 DEF Repo
  <2>2. QED BY <1>1, <1>3, <2>1, Constants DEF NextRepo, Job
<1>4. QED BY <1>2, <1>3

(* The attempt is opened with the receipts of the moment, or demoted. *)
LEMMA OpenJob ==
    ASSUME job \in [Worker -> Job], NEW w \in Worker, OpenAttempt(w)
    PROVE  /\ job' \in [Worker -> Job]
           /\ job'[w].pc = "step" /\ job'[w].d = job[w].d /\ job'[w].at = job[w].at
           /\ job'[w].version = job[w].version + 1 /\ job'[w].had = Receipts(job[w].d)
           /\ \A v \in Worker \ {w} : job'[v] = job[v]
<1>1. Receipts(job[w].d) \subseteq Repo
  BY DEF Receipts
<1>2. job[w] \in Job /\ job[w].version + 1 \in Nat
  BY DEF Job
<1>3. job' = [job EXCEPT ![w].pc = "step", ![w].version = job[w].version + 1,
                         ![w].had = Receipts(job[w].d)]
  BY DEF OpenAttempt
<1>4. QED BY <1>1, <1>2, <1>3 DEF Job, Place

LEMMA CaughtJob ==
    ASSUME job \in [Worker -> Job], attempt \in [Delivery -> Attempt],
           NEW w \in Worker, job[w].d \in Delivery, Caught(w)
    PROVE  /\ job' \in [Worker -> Job]
           /\ job'[w].d = job[w].d /\ job'[w].at = job[w].at
           /\ \/ Finalized(job[w].d) /\ job'[w].pc = "close"
              \/ /\ ~Finalized(job[w].d) /\ job'[w].pc = "demote"
                 /\ job'[w].version = attempt[job[w].d].version
           /\ \A v \in Worker \ {w} : job'[v] = job[v]
<1>1. CASE Finalized(job[w].d) /\ Goto(w, "close")
  BY <1>1, GotoJob DEF Place
<1>2. CASE ~Finalized(job[w].d) /\ ~(Finalized(job[w].d) /\ Goto(w, "close"))
  <2>1. attempt[job[w].d].version \in Nat
    BY DEF Attempt
  <2>2. job' = [job EXCEPT ![w].pc = "demote", ![w].version = attempt[job[w].d].version]
    BY <1>2 DEF Caught
  <2>3. QED BY <1>2, <2>1, <2>2 DEF Job, Place
<1>3. QED BY <1>1, <1>2 DEF Caught

(* A worker of whom only the place changes keeps its delivery. *)
LEMMA ShapedWorkers ==
    ASSUME Shape, NEW w \in Worker, job' \in [Worker -> Job],
           job'[w].pc # "idle" => job'[w].d \in Delivery,
           \A v \in Worker \ {w} : job'[v] = job[v]
    PROVE  \A v \in Worker : ~Running(v, "idle")' => job'[v].d \in Delivery
BY DEF Shape, Running

-----------------------------------------------------------------------------
(* Shape is kept, action by action. *)

LEMMA InitShape ==
    ASSUME Init
    PROVE  Shape /\ Evidence
<1>1. Shape
  BY Constants DEF Init, Shape, Commit, Attempt, Status, Job, NoJob, Running, Place
<1>2. Evidence
  BY Constants DEF Init, Evidence, NoJob, Running, ReceiptIsTrue
<1>3. QED BY <1>1, <1>2

LEMMA PeopleKeepShape ==
    ASSUME Shape, NEW d \in Delivery,
           Admit(d) \/ OpenCandidateGate(d) \/ End(d) \/ Accept(d) \/ Resume(d)
    PROVE  Shape'
<1> USE Constants
<1>1. CASE Admit(d)
  BY <1>1 DEF Admit, Shape, Running, Status, frozen, env
<1>2. CASE OpenCandidateGate(d)
  BY <1>2 DEF OpenCandidateGate, Shape, Running, Status, env
<1>3. CASE End(d)
  BY <1>3 DEF End, Shape, Running, Status, Over, frozen, env, FreedBy
<1>4. CASE Accept(d)
  <2>1. [NoJob EXCEPT !.pc = "preflight", !.d = d] \in Job
    BY DEF Job, NoJob, Place
  <2>2. job' \in [Worker -> Job] /\ \A v \in Worker : job'[v].pc # "idle" => job'[v].d \in Delivery
    BY <1>4, <2>1 DEF Accept, Shape, Running, NoJob
  <2>3. QED BY <1>4, <2>2 DEF Accept, Shape, Running, Status, frozen, env
<1>5. CASE Resume(d)
  <2>1. /\ [NoJob EXCEPT !.pc = "close", !.d = d] \in Job
        /\ [pc |-> "preflight", d |-> d, version |-> attempt[d].version,
             at |-> 1, had |-> Receipts(d)] \in Job
    BY DEF Job, NoJob, Place, Shape, Attempt, Receipts
  <2>2. \E j \in Job : j.d = d /\ job' = [job EXCEPT ![Resumer] = j]
    BY <1>5, <2>1 DEF Resume, NoJob
  <2>3. job' \in [Worker -> Job] /\ \A v \in Worker : job'[v].pc # "idle" => job'[v].d \in Delivery
    BY <2>2 DEF Shape, Running
  <2>4. QED BY <1>5, <2>3 DEF Resume, Shape, Running, frozen, env, db
<1>6. QED BY <1>1, <1>2, <1>3, <1>4, <1>5

LEMMA WorkKeepsShape ==
    ASSUME Shape, NEW w \in Worker, Work(w)
    PROVE  Shape'
<1> USE Constants
<1>0. job \in [Worker -> Job] /\ attempt \in [Delivery -> Attempt]
  BY DEF Shape
<1>d. ~Running(w, "idle") => job[w].d \in Delivery
  BY DEF Shape
<1>1. CASE PreflightPasses(w) \/ Step(w) \/ Fetch(w) \/ ReadBack(w) \/ WorkFails(w)
  <2>1. /\ job' \in [Worker -> Job] /\ job'[w].d = job[w].d /\ ~Running(w, "idle")
        /\ \A v \in Worker \ {w} : job'[v] = job[v]
    BY <1>0, <1>1, GotoJob, NextRepoJob
       DEF PreflightPasses, Step, Fetch, ReadBack, WorkFails, Running, Place
  <2>2. UNCHANGED <<main, frozen, reached, db, env>>
    BY <1>1 DEF PreflightPasses, Step, Fetch, ReadBack, WorkFails
  <2>3. QED BY <1>d, <2>1, <2>2, ShapedWorkers DEF Shape, frozen, db, env
<1>2. CASE PreflightRefuses(w)
  BY <1>0, <1>2, QuitJob, ShapedWorkers DEF PreflightRefuses, Shape, frozen, db, env
<1>3. CASE OpenAttempt(w)
  <2>1. job[w].d \in Delivery
    BY <1>d, <1>3 DEF OpenAttempt, Running
  <2>2. attempt' \in [Delivery -> Attempt]
    BY <1>0, <1>3, <2>1 DEF OpenAttempt, Attempt
  <2>3. /\ job' \in [Worker -> Job]
        /\ \A v \in Worker : ~Running(v, "idle")' => job'[v].d \in Delivery
    BY <1>0, <1>3, <2>1, OpenJob, ShapedWorkers
  <2>4. UNCHANGED <<main, frozen, receipts, manifest, health, announced, delivery, lease, env>>
    BY <1>3 DEF OpenAttempt
  <2>5. QED BY <2>2, <2>3, <2>4 DEF Shape, frozen, env
<1>4. CASE Send(w)
  <2>1. /\ job' \in [Worker -> Job] /\ job'[w].d = job[w].d /\ job[w].d \in Delivery
        /\ \A v \in Worker \ {w} : job'[v] = job[v]
    BY <1>0, <1>d, <1>4, GotoJob DEF Send, Place, Running
  <2>2. main' \in [Repo -> Commit]
    BY <1>4, <2>1 DEF Send, Shape, Commit, Job
  <2>3. QED BY <1>4, <2>1, <2>2, ShapedWorkers DEF Send, Shape, frozen, db, env
<1>5. CASE PutReceipt(w)
  <2>1. /\ job' \in [Worker -> Job] /\ job'[w].d = job[w].d /\ job[w].d \in Delivery
        /\ \A v \in Worker \ {w} : job'[v] = job[v]
    BY <1>0, <1>d, <1>5, NextRepoJob DEF PutReceipt, Place, Running
  <2>2. job[w].at \in Repo
    BY <1>0 DEF Job
  <2>3. receipts' \subseteq Delivery \X Repo
    BY <1>5, <2>1, <2>2 DEF PutReceipt, Shape
  <2>4. QED BY <1>5, <2>1, <2>3, ShapedWorkers DEF PutReceipt, Shape, frozen, env
<1>6. CASE Finalize(w)
  <2>1. /\ job' \in [Worker -> Job] /\ job'[w].d = job[w].d /\ job[w].d \in Delivery
        /\ \A v \in Worker \ {w} : job'[v] = job[v]
    BY <1>0, <1>d, <1>6, GotoJob DEF Finalize, Place, Running
  <2>2. attempt' \in [Delivery -> Attempt]
    BY <1>0, <1>6, <2>1 DEF Finalize, Attempt
  <2>3. QED BY <1>6, <2>1, <2>2, ShapedWorkers DEF Finalize, Shape, frozen, env, Status, Over
<1>7. CASE Caught(w)
  BY <1>0, <1>d, <1>7, CaughtJob, ShapedWorkers DEF Caught, Running, Shape, frozen, db, env
<1>8. CASE DemoteAttempt(w)
  <2>1. /\ job' \in [Worker -> Job] /\ job'[w].d = job[w].d /\ job[w].d \in Delivery
        /\ \A v \in Worker \ {w} : job'[v] = job[v]
    BY <1>0, <1>d, <1>8, GotoJob DEF DemoteAttempt, Place, Running
  <2>2. attempt' \in [Delivery -> Attempt]
    BY <1>0, <1>8, <2>1 DEF DemoteAttempt, Attempt
  <2>3. QED BY <1>8, <2>1, <2>2, ShapedWorkers DEF DemoteAttempt, Shape, frozen, env
<1>9. CASE DriftHealth(w)
  BY <1>0, <1>d, <1>9, GotoJob, ShapedWorkers
     DEF DriftHealth, Place, Running, Shape, frozen, env
<1>10. CASE DemotionFails(w)
  <2>1. /\ job' \in [Worker -> Job]
        /\ job'[w].pc # "idle" => job'[w].d \in Delivery
        /\ \A v \in Worker \ {w} : job'[v] = job[v]
    BY <1>0, <1>d, <1>10, GotoJob, QuitJob DEF DemotionFails, Place, Running
  <2>2. \A v \in Worker : ~Running(v, "idle")' => job'[v].d \in Delivery
    BY <2>1, ShapedWorkers
  <2>3. QED BY <1>10, <2>1, <2>2 DEF DemotionFails, Shape, frozen, db, env
<1>11. CASE MarkDelivery(w)
  BY <1>0, <1>d, <1>11, QuitJob, ShapedWorkers
     DEF MarkDelivery, Running, Shape, frozen, env, Status
<1>12. CASE Close(w)
  BY <1>0, <1>d, <1>12, QuitJob, ShapedWorkers
     DEF Close, Running, Shape, frozen, env, Status, Over, FreedBy
<1>13. QED
  BY <1>1, <1>2, <1>3, <1>4, <1>5, <1>6, <1>7, <1>8, <1>9, <1>10, <1>11, <1>12 DEF Work

LEMMA OthersKeepShape ==
    ASSUME Shape, Restart \/ (\E r \in Repo : Outsider(r))
    PROVE  Shape'
<1> USE Constants
<1>1. CASE \E r \in Repo : Outsider(r)
  BY <1>1 DEF Outsider, Shape, Commit, frozen, db, Running
<1>2. CASE Restart
  <2>1. Survivors \subseteq Delivery \cup {None}
    BY DEF Survivors, Owners, Unfinished, Shape
  <2>2. PICK holder \in Survivors :
          /\ delivery' = [d \in Delivery |->
                IF delivery[d] = "active" \/ (Owners = {} /\ d \in Unfinished /\ d # holder)
                THEN "ended" ELSE delivery[d]]
          /\ lease' = IF Owners = {} /\ holder # None /\ delivery[holder] = "active"
                      THEN None ELSE holder
    BY <1>2 DEF Restart
  <2>3. delivery' \in [Delivery -> Status] /\ lease' \in Delivery \cup {None}
    BY <2>1, <2>2 DEF Shape, Status, Over
  <2>4. job' \in [Worker -> Job] /\ \A w \in Worker : job'[w].pc = "idle"
    BY <1>2 DEF Restart, NoJob
  <2>5. restarts' \in Nat
    BY <1>2 DEF Restart, Shape
  <2>6. QED BY <1>2, <2>3, <2>4, <2>5 DEF Restart, Shape, frozen, Running
<1>3. QED BY <1>1, <1>2

LEMMA StepKeepsShape ==
    ASSUME Shape, [Next]_vars
    PROVE  Shape'
<1>1. CASE UNCHANGED vars
  BY <1>1 DEF vars, frozen, db, env, Shape, Running
<1>2. CASE Next
  BY <1>2, PeopleKeepShape, WorkKeepsShape, OthersKeepShape DEF Next
<1>3. QED BY <1>1, <1>2

-----------------------------------------------------------------------------
(* Evidence: only Send and other people bring a candidate to main, and only a
   worker that has read it back comes to write its receipt. *)

LEMMA StepKeepsEvidence ==
    ASSUME Shape, Evidence, [Next]_vars
    PROVE  Evidence'
<1> USE Constants
<1>0. job \in [Worker -> Job] /\ main \in [Repo -> Commit]
  BY DEF Shape
<1>1. CASE UNCHANGED vars
  BY <1>1 DEF vars, db, Evidence, Running, ReceiptIsTrue
<1>2. ASSUME NEW d \in Delivery,
             Admit(d) \/ OpenCandidateGate(d) \/ End(d) \/ Accept(d) \/ Resume(d)
      PROVE  Evidence'
  <2>1. UNCHANGED <<main, reached, receipts>>
    BY <1>2 DEF Admit, OpenCandidateGate, End, Accept, Resume, db
  <2>2. \A v \in Worker : Running(v, "put")' => job'[v] = job[v]
    <3>1. CASE Accept(d)
      BY <1>0, <3>1 DEF Accept, Running, NoJob
    <3>2. CASE Resume(d)
      <4>1. \E j : j.pc # "put" /\ job' = [job EXCEPT ![Resumer] = j]
        BY <3>2 DEF Resume, NoJob
      <4>2. QED BY <1>0, <4>1 DEF Running
    <3>3. QED BY <1>2, <3>1, <3>2 DEF Admit, OpenCandidateGate, End
  <2>3. QED BY <2>1, <2>2 DEF Evidence, Running, ReceiptIsTrue
<1>3. ASSUME NEW w \in Worker, Work(w)
      PROVE  Evidence'
  <2>1. CASE ReadBack(w)
    <3>1. job[w].at \in Repo /\ ~Running(w, "idle") /\ job[w].d \in Delivery
      BY <1>0, <2>1 DEF ReadBack, Running, Job, Shape
    <3>2. <<job[w].d, job[w].at>> \in reached
      BY <2>1, <3>1 DEF ReadBack, Evidence
    <3>3. QED BY <1>0, <2>1, <3>2, GotoJob DEF ReadBack, Place, Evidence, Running, ReceiptIsTrue, db
  <2>2. CASE Send(w)
    <3>1. /\ \A v \in Worker : Running(v, "put")' => job'[v] = job[v]
          /\ receipts' = receipts
      BY <1>0, <2>2, GotoJob DEF Send, Place, Running, db
    <3>2. QED BY <1>0, <2>2, <3>1 DEF Send, Evidence, Running, ReceiptIsTrue
  <2>3. CASE PutReceipt(w)
    <3>1. \A v \in Worker : Running(v, "put")' => job'[v] = job[v]
      BY <1>0, <2>3, NextRepoJob DEF PutReceipt, Place, Running
    <3>2. <<job[w].d, job[w].at>> \in reached
      BY <2>3 DEF PutReceipt, Evidence
    <3>3. QED BY <2>3, <3>1, <3>2 DEF PutReceipt, Evidence, Running, ReceiptIsTrue
  <2>4. CASE \/ PreflightPasses(w) \/ Step(w) \/ Fetch(w) \/ WorkFails(w) \/ PreflightRefuses(w)
             \/ DemotionFails(w) \/ Finalize(w) \/ DriftHealth(w) \/ DemoteAttempt(w)
    <3>1. \A v \in Worker : Running(v, "put")' => job'[v] = job[v]
      BY <1>0, <2>4, GotoJob, QuitJob, NextRepoJob
         DEF PreflightPasses, Step, Fetch, WorkFails, PreflightRefuses, DemotionFails, Finalize,
             DriftHealth, DemoteAttempt, Place, Running
    <3>2. UNCHANGED <<main, reached, receipts>>
      BY <2>4 DEF PreflightPasses, Step, Fetch, WorkFails, PreflightRefuses, DemotionFails,
         Finalize, DriftHealth, DemoteAttempt, db
    <3>3. QED BY <3>1, <3>2 DEF Evidence, Running, ReceiptIsTrue
  <2>5. CASE OpenAttempt(w) \/ Caught(w) \/ MarkDelivery(w) \/ Close(w)
    <3>1. ~Running(w, "idle")
      BY <2>5 DEF OpenAttempt, Caught, MarkDelivery, Close, Running
    <3>2. \A v \in Worker : Running(v, "put")' => job'[v] = job[v]
      BY <1>0, <2>5, <3>1, OpenJob, CaughtJob, QuitJob DEF MarkDelivery, Close, Running, Shape
    <3>3. UNCHANGED <<main, reached, receipts>>
      BY <2>5 DEF OpenAttempt, Caught, MarkDelivery, Close, db
    <3>4. QED BY <3>2, <3>3 DEF Evidence, Running, ReceiptIsTrue
  <2>6. QED BY <1>3, <2>1, <2>2, <2>3, <2>4, <2>5 DEF Work
<1>4. CASE \E r \in Repo : Outsider(r)
  BY <1>0, <1>4 DEF Outsider, Evidence, Running, ReceiptIsTrue, db
<1>5. CASE Restart
  BY <1>5 DEF Restart, Evidence, Running, ReceiptIsTrue, NoJob
<1>6. QED BY <1>1, <1>2, <1>3, <1>4, <1>5 DEF Next

LEMMA ShapeAndEvidence == Spec => [](Shape /\ Evidence)
<1>1. Shape /\ Evidence /\ [Next]_vars => (Shape /\ Evidence)'
  BY StepKeepsShape, StepKeepsEvidence
<1>2. QED BY <1>1, InitShape, PTL DEF Spec

(* A receipt is persisted only for a candidate that was at the head of main,
   for any number of deliveries and repositories and whatever operators do. *)
THEOREM ReceiptsAreTrue == Spec => []ReceiptIsTrue
BY ShapeAndEvidence, PTL DEF Evidence

-----------------------------------------------------------------------------
(***************************************************************************)
(* The order of a release needs a patient operator: one who accepts a gate *)
(* or resumes a release only when no worker is under way.  Without him the *)
(* late error path of one worker meets the success of another, which the   *)
(* run release_demotion shows.                                             *)
(***************************************************************************)

Loop == {"step", "fetch", "send", "verify", "put", "finalize"}
Open == {"applying", "needs_attention"}

(* With a patient operator one worker at a time is under way. *)
Alone == \A v, w \in Worker : ~Running(v, "idle") /\ ~Running(w, "idle") => v = w

(* What a delivery's status says of its attempt and its receipts. *)
DeliveryInOrder(d) ==
    /\ delivery[d] \in {"absent", "active", "awaiting", "ended"} => attempt[d].status = None
    /\ delivery[d] = "needs_attention" => attempt[d].status \in Open
    /\ delivery[d] = "completed" <=> attempt[d].status = "completed"
    /\ d \in announced <=> attempt[d].status = "completed"
    /\ d \in Unfinished <=> lease = d
    /\ health = d => attempt[d].status \in Open

AttemptInOrder(d) ==
    /\ \E k \in 0..N : Receipts(d) = 1..k
    /\ attempt[d].status = None => attempt[d].version = 0 /\ Receipts(d) = {}
    /\ attempt[d].status = "applying" => attempt[d].version <= MaxVersion + 1
    /\ attempt[d].status = "completed" => Receipts(d) = Repo
    /\ attempt[d].version <= MaxVersion + 2

(* What a worker at work knows of its delivery. *)
WorkerInOrder(w) ==
    LET j == job[w]
        d == job[w].d IN
    /\ j.pc = "open" => j.at = 1
    /\ j.pc \in {"preflight", "open"} =>
         /\ attempt[d].status \in {None, "needs_attention"}
         /\ delivery[d] \in Open
         /\ j.version = attempt[d].version /\ (j.version = 0 \/ j.version < MaxVersion)
    /\ j.pc \in Loop \cup {"demote"} =>
         attempt[d] = [status |-> "applying", version |-> j.version]
    /\ j.pc = "step" => /\ \E k \in 0..N : j.had = 1..k
                        /\ IF j.at \in j.had THEN Receipts(d) = j.had
                           ELSE Receipts(d) = 1..(j.at - 1)
    /\ j.pc \in {"fetch", "send", "verify", "put"} =>
         /\ \E k \in 0..N : j.had = 1..k
         /\ j.at \notin j.had /\ Receipts(d) = 1..(j.at - 1)
    /\ j.pc = "finalize" => Receipts(d) = Repo
    /\ j.pc = "error" => Finalized(d) \/ attempt[d].status = "applying"
    /\ j.pc \in {"health", "mark"} => attempt[d].status = "needs_attention"
    /\ j.pc = "close" => Finalized(d)

ReleaseInOrder ==
    /\ Alone
    /\ \A d \in Delivery : DeliveryInOrder(d) /\ AttemptInOrder(d)
    /\ \A w \in Worker : ~Running(w, "idle") => job[w].d \in Delivery /\ WorkerInOrder(w)

Order == Shape /\ ReleaseInOrder

(* What is read off the invariant. *)
LEMMA StatusOfAttempt ==
    ASSUME Shape, NEW d \in Delivery
    PROVE  /\ attempt[d].status \in {None, "applying", "needs_attention", "completed"}
           /\ attempt[d].version \in Nat /\ delivery[d] \in Status
           /\ d \in Unfinished <=> delivery[d] \notin {"absent", "completed", "ended"}
BY DEF Shape, Attempt, Unfinished, Over

LEMMA OpenAttemptHoldsLease ==
    ASSUME Order, NEW d \in Delivery, attempt[d].status \in Open
    PROVE  lease = d /\ d \notin announced /\ delivery[d] \in Open
BY StatusOfAttempt DEF Order, ReleaseInOrder, DeliveryInOrder, Open, None, Status, Over

LEMMA OwnersAreOpen ==
    ASSUME Order
    PROVE  Owners = {d \in Delivery : attempt[d].status \in Open}
BY DEF Order, ReleaseInOrder, DeliveryInOrder, Open, Owners

LEMMA AtWork ==
    ASSUME Order, NEW w \in Worker, ~Running(w, "idle")
    PROVE  /\ job \in [Worker -> Job] /\ attempt \in [Delivery -> Attempt]
           /\ job[w].d \in Delivery /\ job[w].version \in Nat
           /\ job[w].at \in 1..N /\ job[w].had \subseteq Repo
           /\ WorkerInOrder(w)
           /\ \A v \in Worker \ {w} : Running(v, "idle")
BY DEF Order, Shape, ReleaseInOrder, Alone, Job, Repo

(* The step of one worker leaves the others idle. *)
LEMMA StepOfWorker ==
    ASSUME Order, NEW w \in Worker, ~Running(w, "idle"),
           \A v \in Worker \ {w} : job'[v] = job[v],
           \A d \in Delivery : DeliveryInOrder(d)' /\ AttemptInOrder(d)',
           job'[w].pc # "idle" => job'[w].d \in Delivery /\ WorkerInOrder(w)'
    PROVE  ReleaseInOrder'
<1>1. \A v \in Worker : ~Running(v, "idle")' => v = w
  BY AtWork DEF Running
<1>2. Alone'
  BY <1>1 DEF Alone
<1>3. \A v \in Worker : ~Running(v, "idle")' => job'[v].d \in Delivery /\ WorkerInOrder(v)'
  BY <1>1 DEF Running
<1>4. QED BY <1>2, <1>3 DEF ReleaseInOrder

LEMMA SameRows ==
    ASSUME ReleaseInOrder, UNCHANGED db
    PROVE  /\ \A d \in Delivery : DeliveryInOrder(d)' /\ AttemptInOrder(d)'
           /\ \A d \in Delivery : Receipts(d)' = Receipts(d) /\ Finalized(d)' = Finalized(d)
BY DEF ReleaseInOrder, DeliveryInOrder, AttemptInOrder, db, Receipts, Finalized, Unfinished

-----------------------------------------------------------------------------
(* Steps of a worker that change no row. *)

LEMMA ReadingKeepsOrder ==
    ASSUME Order, NEW w \in Worker,
           \/ PreflightPasses(w) \/ PreflightRefuses(w) \/ Step(w) \/ Fetch(w) \/ Send(w)
           \/ ReadBack(w) \/ WorkFails(w) \/ Caught(w) \/ DemotionFails(w)
    PROVE  ReleaseInOrder'
<1> USE Constants
<1>1. ~Running(w, "idle") /\ UNCHANGED db
  BY DEF PreflightPasses, PreflightRefuses, Step, Fetch, Send, ReadBack, WorkFails, Caught,
     DemotionFails, Running
<1> DEFINE d == job[w].d
<1>2. /\ job \in [Worker -> Job] /\ attempt \in [Delivery -> Attempt]
      /\ d \in Delivery /\ job[w].version \in Nat
      /\ job[w].at \in 1..N /\ job[w].had \subseteq Repo /\ WorkerInOrder(w)
  BY <1>1, AtWork
<1>3. \A e \in Delivery : DeliveryInOrder(e)' /\ AttemptInOrder(e)'
  BY <1>1, SameRows DEF Order
<1>4. /\ \A e \in Delivery : Receipts(e)' = Receipts(e) /\ Finalized(e)' = Finalized(e)
      /\ attempt' = attempt /\ delivery' = delivery /\ receipts' = receipts
  BY <1>1, SameRows DEF Order, db
<1> SUFFICES /\ \A v \in Worker \ {w} : job'[v] = job[v]
             /\ job'[w].pc # "idle" => job'[w].d \in Delivery /\ WorkerInOrder(w)'
  BY <1>1, <1>3, StepOfWorker
<1>5. CASE PreflightPasses(w)
  <2>1. /\ job'[w].d = d /\ job'[w].version = job[w].version
        /\ job'[w].pc \in {"preflight", "open"} /\ job[w].pc = "preflight"
        /\ job'[w].pc = "open" => job'[w].at = 1
        /\ \A v \in Worker \ {w} : job'[v] = job[v]
    BY <1>2, <1>5, NextRepoJob DEF PreflightPasses, Running, Place
  <2>2. QED BY <1>2, <1>4, <2>1 DEF WorkerInOrder, Loop, Receipts
<1>6. CASE PreflightRefuses(w)
  BY <1>2, <1>6, QuitJob DEF PreflightRefuses
<1>7. CASE Step(w)
  <2>0. /\ job[w].pc = "step" /\ N \in Nat
    BY <1>7 DEF Step, Running
  <2>1. PICK k \in 0..N : job[w].had = 1..k
    BY <1>2, <2>0 DEF WorkerInOrder
  <2>2. CASE job[w].at \in job[w].had /\ NextRepo(w, "step", "finalize")
    <3>1. Receipts(d) = job[w].had /\ attempt[d] = [status |-> "applying", version |-> job[w].version]
      BY <1>2, <2>0, <2>2 DEF WorkerInOrder, Loop
    <3>2. /\ job'[w].d = d /\ job'[w].version = job[w].version /\ job'[w].had = 1..k
          /\ \A v \in Worker \ {w} : job'[v] = job[v]
      BY <1>2, <2>1, <2>2, NextRepoJob DEF Place
    <3>3. CASE job[w].at = N
      <4>1. job'[w].pc = "finalize"
        BY <1>2, <2>2, <3>3, NextRepoJob DEF Place
      <4>2. k = N
        BY <2>1, <2>2, <3>3
      <4>3. Receipts(d) = Repo
        BY <2>1, <3>1, <4>2 DEF Repo
      <4>4. QED BY <1>2, <1>4, <3>1, <3>2, <4>1, <4>3 DEF WorkerInOrder, Receipts, Repo
    <3>4. CASE job[w].at # N
      <4>1. job'[w].pc = "step" /\ job'[w].at = job[w].at + 1
        BY <1>2, <2>2, <3>4, NextRepoJob DEF Place
      <4>2. IF job'[w].at \in job'[w].had THEN Receipts(d) = job'[w].had
            ELSE Receipts(d) = 1..(job'[w].at - 1)
        BY <1>2, <2>1, <2>2, <3>1, <3>2, <4>1
      <4>3. QED BY <1>2, <1>4, <2>1, <3>1, <3>2, <4>1, <4>2 DEF WorkerInOrder, Receipts
    <3>5. QED BY <3>3, <3>4
  <2>3. CASE job[w].at \notin job[w].had /\ (Goto(w, "verify") \/ Goto(w, "fetch"))
    <3>1. /\ job'[w].pc \in {"verify", "fetch"} /\ job'[w].d = d
          /\ job'[w].at = job[w].at /\ job'[w].version = job[w].version
          /\ job'[w].had = job[w].had /\ \A v \in Worker \ {w} : job'[v] = job[v]
      BY <1>2, <2>3, GotoJob DEF Place
    <3>2. QED BY <1>2, <1>4, <2>0, <2>3, <3>1 DEF WorkerInOrder, Loop, Receipts
  <2>4. QED BY <1>7, <2>2, <2>3 DEF Step
<1>8. CASE Fetch(w) \/ ReadBack(w) \/ Send(w)
  <2>1. /\ job[w].pc \in {"fetch", "send", "verify"}
        /\ job'[w].pc \in {"send", "verify", "put", "error"} /\ job'[w].d = d
        /\ job'[w].at = job[w].at /\ job'[w].version = job[w].version
        /\ job'[w].had = job[w].had /\ \A v \in Worker \ {w} : job'[v] = job[v]
    BY <1>2, <1>8, GotoJob DEF Place, Fetch, ReadBack, Send, Running
  <2>2. QED BY <1>2, <1>4, <2>1 DEF WorkerInOrder, Loop, Receipts
<1>9. CASE WorkFails(w)
  <2>1. /\ job[w].pc \in Loop
        /\ job'[w].pc = "error" /\ job'[w].d = d
        /\ \A v \in Worker \ {w} : job'[v] = job[v]
    BY <1>2, <1>9, GotoJob DEF Place, WorkFails, Loop
  <2>2. QED BY <1>2, <1>4, <2>1 DEF WorkerInOrder, Loop
<1>10. CASE Caught(w)
  <2>1. /\ job[w].pc = "error" /\ job'[w].d = d
        /\ \/ Finalized(d) /\ job'[w].pc = "close"
           \/ /\ ~Finalized(d) /\ job'[w].pc = "demote"
              /\ job'[w].version = attempt[d].version
        /\ \A v \in Worker \ {w} : job'[v] = job[v]
    BY <1>2, <1>10, CaughtJob DEF Caught, Running
  <2>2. CASE Finalized(d)
    BY <1>2, <1>4, <2>1, <2>2 DEF WorkerInOrder, Loop
  <2>3. CASE ~Finalized(d)
    <3>1. attempt[d] = [status |-> "applying", version |-> attempt[d].version]
      BY <1>2, <2>1, <2>3 DEF WorkerInOrder, Attempt
    <3>2. QED BY <1>2, <1>4, <2>1, <2>3, <3>1 DEF WorkerInOrder, Loop
  <2>4. QED BY <2>2, <2>3
<1>11. CASE DemotionFails(w)
  <2>1. /\ job'[w].pc # "idle" => job'[w].pc = "close" /\ Finalized(d) /\ job'[w].d = d
        /\ \A v \in Worker \ {w} : job'[v] = job[v]
    BY <1>2, <1>11, GotoJob, QuitJob DEF DemotionFails, Place
  <2>2. QED BY <1>2, <1>4, <2>1 DEF WorkerInOrder, Loop
<1>12. QED BY <1>5, <1>6, <1>7, <1>8, <1>9, <1>10, <1>11

-----------------------------------------------------------------------------
(* Steps of a worker that write rows of its delivery, and only of that one. *)

LEMMA OtherDeliveries ==
    ASSUME Order, NEW d \in Delivery, lease = d, lease' \in {d, None}, health' \in {health, d, None},
           \A e \in Delivery \ {d} :
             /\ attempt'[e] = attempt[e] /\ delivery'[e] = delivery[e]
             /\ Receipts(e)' = Receipts(e) /\ (e \in announced' <=> e \in announced)
    PROVE  \A e \in Delivery \ {d} : DeliveryInOrder(e)' /\ AttemptInOrder(e)'
BY Constants DEF Order, ReleaseInOrder, DeliveryInOrder, AttemptInOrder, Unfinished

LEMMA OpenKeepsOrder ==
    ASSUME Order, NEW w \in Worker, OpenAttempt(w)
    PROVE  ReleaseInOrder'
<1> USE Constants
<1>1. ~Running(w, "idle") /\ job[w].pc = "open"
  BY DEF OpenAttempt, Running
<1> DEFINE d == job[w].d
<1>2. /\ job \in [Worker -> Job] /\ attempt \in [Delivery -> Attempt]
      /\ d \in Delivery /\ job[w].version \in Nat /\ WorkerInOrder(w)
  BY <1>1, AtWork
<1>3. PICK e \in Delivery : e = d
  BY <1>2
<1>4. /\ attempt[e].status \in {None, "needs_attention"} /\ delivery[e] \in Open
      /\ attempt[e].version = job[w].version
      /\ job[w].version = 0 \/ job[w].version < MaxVersion
  BY <1>1, <1>2, <1>3 DEF WorkerInOrder
<1>5. /\ attempt' = [attempt EXCEPT ![e] = [status |-> "applying", version |-> job[w].version + 1]]
      /\ UNCHANGED <<receipts, manifest, health, announced, delivery, lease>>
  BY <1>2, <1>3, <1>4 DEF OpenAttempt
<1>6. /\ job'[w].pc = "step" /\ job'[w].d = e /\ job'[w].at = job[w].at
      /\ job'[w].version = job[w].version + 1 /\ job'[w].had = Receipts(e)
      /\ \A v \in Worker \ {w} : job'[v] = job[v]
  BY <1>2, <1>3, OpenJob
<1>7. e \in Unfinished /\ lease = e
  BY <1>4, StatusOfAttempt DEF Order, ReleaseInOrder, DeliveryInOrder, Open
<1>8. attempt'[e] = [status |-> "applying", version |-> job[w].version + 1]
  BY <1>2, <1>5
<1>9. \A f \in Delivery \ {e} : DeliveryInOrder(f)' /\ AttemptInOrder(f)'
  BY <1>2, <1>5, <1>7, OtherDeliveries DEF Receipts
<1>10. DeliveryInOrder(e)'
  BY <1>4, <1>5, <1>7, <1>8 DEF Order, ReleaseInOrder, DeliveryInOrder, Open, Unfinished
<1>11. AttemptInOrder(e)'
  <2>1. \E k \in 0..N : Receipts(e)' = 1..k
    BY <1>5 DEF Order, ReleaseInOrder, AttemptInOrder, Receipts
  <2>2. job[w].version + 1 <= MaxVersion + 1
    BY <1>2, <1>4, ReleaseAssumption
  <2>3. job[w].version + 1 <= MaxVersion + 2
    BY <1>2, <2>2, ReleaseAssumption
  <2>4. QED BY <1>8, <2>1, <2>2, <2>3 DEF AttemptInOrder, None
<1>12. WorkerInOrder(w)'
  <2>1. PICK k \in 0..N : Receipts(e) = 1..k
    BY DEF Order, ReleaseInOrder, AttemptInOrder
  <2>2. Receipts(e)' = Receipts(e)
    BY <1>5 DEF Receipts
  <2>3. job[w].at = 1
    BY <1>1, <1>2 DEF WorkerInOrder
  <2>4. QED BY <1>6, <1>8, <2>1, <2>2, <2>3 DEF WorkerInOrder, Loop
<1>13. QED BY <1>1, <1>6, <1>9, <1>10, <1>11, <1>12, StepOfWorker

(* What a worker that is past its preflight knows. *)
LEMMA WorkingOn ==
    ASSUME Order, NEW w \in Worker, job[w].pc \in Loop \cup {"demote", "health", "mark"}
    PROVE  \E e \in Delivery :
             /\ job[w].d = e /\ lease = e /\ e \notin announced /\ e \in Unfinished
             /\ delivery[e] \in Open /\ attempt[e].status \in Open
             /\ job[w].pc \in Loop \cup {"demote"} =>
                  attempt[e] = [status |-> "applying", version |-> job[w].version]
             /\ job[w].pc \in {"health", "mark"} => attempt[e].status = "needs_attention"
<1>1. ~Running(w, "idle")
  BY DEF Running, Loop
<1>2. job[w].d \in Delivery /\ WorkerInOrder(w)
  BY <1>1, AtWork
<1>3. attempt[job[w].d].status \in Open
  BY <1>2 DEF WorkerInOrder, Open, Loop
<1>4. lease = job[w].d /\ job[w].d \notin announced /\ delivery[job[w].d] \in Open
  BY <1>2, <1>3, OpenAttemptHoldsLease
<1>5. job[w].d \in Unfinished
  BY <1>2, <1>4, StatusOfAttempt DEF Order, Open
<1>6. QED BY <1>2, <1>3, <1>4, <1>5 DEF WorkerInOrder

LEMMA PutKeepsOrder ==
    ASSUME Order, NEW w \in Worker, PutReceipt(w)
    PROVE  ReleaseInOrder'
<1> USE Constants
<1>1. ~Running(w, "idle") /\ job[w].pc = "put"
  BY DEF PutReceipt, Running
<1>2. /\ job \in [Worker -> Job] /\ WorkerInOrder(w)
      /\ job[w].at \in 1..N /\ job[w].version \in Nat
  BY <1>1, AtWork
<1>3. PICK e \in Delivery :
        /\ job[w].d = e /\ lease = e /\ e \in Unfinished /\ delivery[e] \in Open
        /\ attempt[e] = [status |-> "applying", version |-> job[w].version]
  BY <1>1, WorkingOn DEF Loop
<1> DEFINE r == job[w].at
<1>4. PICK k \in 0..N : job[w].had = 1..k
  BY <1>1, <1>2 DEF WorkerInOrder
<1>5. r \notin 1..k /\ Receipts(e) = 1..(r - 1)
  BY <1>1, <1>2, <1>3, <1>4 DEF WorkerInOrder
<1>6. /\ receipts' = receipts \cup {<<e, r>>}
      /\ UNCHANGED <<attempt, manifest, health, announced, delivery, lease>>
      /\ NextRepo(w, "step", "finalize")
  BY <1>3 DEF PutReceipt
<1>7. \A f \in Delivery \ {e} : Receipts(f)' = Receipts(f)
  BY <1>6 DEF Receipts
<1>8. Receipts(e)' = 1..r
  <2>1. Receipts(e)' = Receipts(e) \cup {r}
    BY <1>2, <1>6 DEF Receipts, Repo
  <2>2. QED BY <1>2, <1>5, <2>1
<1>9. \A f \in Delivery \ {e} : DeliveryInOrder(f)' /\ AttemptInOrder(f)'
  BY <1>3, <1>6, <1>7, OtherDeliveries
<1>10. DeliveryInOrder(e)'
  BY <1>6 DEF Order, ReleaseInOrder, DeliveryInOrder, Unfinished
<1>11. AttemptInOrder(e)'
  <2>1. attempt[e].status = "applying" /\ AttemptInOrder(e)
    BY <1>3 DEF Order, ReleaseInOrder
  <2>2. QED BY <1>2, <1>6, <1>8, <2>1 DEF AttemptInOrder, None
<1>12. /\ job'[w].d = e /\ job'[w].version = job[w].version /\ job'[w].had = 1..k
       /\ \A v \in Worker \ {w} : job'[v] = job[v]
  BY <1>2, <1>3, <1>4, <1>6, NextRepoJob DEF Place
<1>13. WorkerInOrder(w)'
  <2>1. CASE r = N
    <3>1. job'[w].pc = "finalize" /\ Receipts(e)' = Repo
      BY <1>2, <1>6, <1>8, <2>1, NextRepoJob DEF Place, Repo
    <3>2. QED BY <1>3, <1>6, <1>12, <3>1 DEF WorkerInOrder
  <2>2. CASE r # N
    <3>1. job'[w].pc = "step" /\ job'[w].at = r + 1
      BY <1>2, <1>6, <2>2, NextRepoJob DEF Place
    <3>2. r + 1 \notin 1..k /\ (r + 1) - 1 = r
      BY <1>2, <1>5
    <3>3. QED BY <1>3, <1>4, <1>6, <1>8, <1>12, <3>1, <3>2 DEF WorkerInOrder
  <2>3. QED BY <2>1, <2>2
<1>14. QED BY <1>1, <1>9, <1>10, <1>11, <1>12, <1>13, StepOfWorker

LEMMA FinalizeKeepsOrder ==
    ASSUME Order, NEW w \in Worker, Finalize(w)
    PROVE  ReleaseInOrder'
<1> USE Constants
<1>1. ~Running(w, "idle") /\ job[w].pc = "finalize"
  BY DEF Finalize, Running
<1>2. /\ job \in [Worker -> Job] /\ attempt \in [Delivery -> Attempt] /\ WorkerInOrder(w)
      /\ job[w].version \in Nat
  BY <1>1, AtWork
<1>3. PICK e \in Delivery :
        /\ job[w].d = e /\ lease = e /\ e \in Unfinished /\ delivery[e] \in Open
        /\ attempt[e] = [status |-> "applying", version |-> job[w].version]
  BY <1>1, WorkingOn DEF Loop
<1>4. Receipts(e) = Repo /\ AttemptInOrder(e)
  BY <1>1, <1>2, <1>3 DEF WorkerInOrder, Order, ReleaseInOrder
<1>5. /\ attempt' = [attempt EXCEPT ![e] = [status |-> "completed", version |-> job[w].version + 1]]
      /\ manifest' = e /\ health' = None /\ delivery' = [delivery EXCEPT ![e] = "completed"]
      /\ announced' = announced \cup {e} /\ lease' = None /\ receipts' = receipts
  BY <1>3 DEF Finalize
<1>6. delivery \in [Delivery -> Status]
  BY DEF Order, Shape
<1>7. attempt'[e] = [status |-> "completed", version |-> job[w].version + 1]
      /\ delivery'[e] = "completed"
  BY <1>2, <1>5, <1>6
<1>8. \A f \in Delivery \ {e} : DeliveryInOrder(f)' /\ AttemptInOrder(f)'
  BY <1>2, <1>3, <1>5, <1>6, OtherDeliveries DEF Receipts
<1>9. DeliveryInOrder(e)'
  BY <1>5, <1>7 DEF DeliveryInOrder, Unfinished, Over, None
<1>10. AttemptInOrder(e)'
  <2>1. Receipts(e)' = Repo /\ Repo = 1..N /\ N \in 0..N
    BY <1>4, <1>5 DEF Receipts, Repo
  <2>2. job[w].version + 1 <= MaxVersion + 2
    BY <1>2, <1>3, <1>4, ReleaseAssumption DEF AttemptInOrder
  <2>3. QED BY <1>7, <2>1, <2>2 DEF AttemptInOrder, None
<1>11. Finalized(e)'
  BY <1>5, <1>7 DEF Finalized
<1>12. /\ job'[w].pc \in {"close", "error"} /\ job'[w].d = e
       /\ \A v \in Worker \ {w} : job'[v] = job[v]
  BY <1>2, <1>3, GotoJob DEF Finalize, Place
<1>13. WorkerInOrder(w)'
  BY <1>11, <1>12 DEF WorkerInOrder, Loop
<1>14. QED BY <1>1, <1>8, <1>9, <1>10, <1>12, <1>13, StepOfWorker

LEMMA DemotionKeepsOrder ==
    ASSUME Order, NEW w \in Worker, DemoteAttempt(w) \/ DriftHealth(w) \/ MarkDelivery(w)
    PROVE  ReleaseInOrder'
<1> USE Constants
<1>1. ~Running(w, "idle") /\ job[w].pc \in {"demote", "health", "mark"}
  BY DEF DemoteAttempt, DriftHealth, MarkDelivery, Running
<1>2. /\ job \in [Worker -> Job] /\ attempt \in [Delivery -> Attempt] /\ WorkerInOrder(w)
      /\ job[w].version \in Nat /\ delivery \in [Delivery -> Status]
  BY <1>1, AtWork DEF Order, Shape
<1>3. PICK e \in Delivery :
        /\ job[w].d = e /\ lease = e /\ e \in Unfinished /\ delivery[e] \in Open
        /\ e \notin announced /\ attempt[e].status \in Open
        /\ job[w].pc = "demote" =>
             attempt[e] = [status |-> "applying", version |-> job[w].version]
        /\ job[w].pc \in {"health", "mark"} => attempt[e].status = "needs_attention"
  BY <1>1, WorkingOn
<1>4. AttemptInOrder(e) /\ DeliveryInOrder(e)
  BY DEF Order, ReleaseInOrder
<1>5. CASE DemoteAttempt(w)
  <2>1. /\ attempt' = [attempt EXCEPT
                         ![e] = [status |-> "needs_attention", version |-> job[w].version + 1]]
        /\ UNCHANGED <<receipts, manifest, health, announced, delivery, lease>>
        /\ attempt[e] = [status |-> "applying", version |-> job[w].version]
    BY <1>3, <1>5 DEF DemoteAttempt, Running
  <2>2. attempt'[e] = [status |-> "needs_attention", version |-> job[w].version + 1]
    BY <1>2, <2>1
  <2>3. \A f \in Delivery \ {e} : DeliveryInOrder(f)' /\ AttemptInOrder(f)'
    BY <1>2, <1>3, <2>1, OtherDeliveries DEF Receipts
  <2>4. DeliveryInOrder(e)'
    BY <1>3, <1>4, <2>1, <2>2 DEF DeliveryInOrder, Unfinished, Open, None
  <2>5. job[w].version + 1 <= MaxVersion + 2
    BY <1>2, <1>4, <2>1, ReleaseAssumption DEF AttemptInOrder
  <2>6. AttemptInOrder(e)'
    BY <1>4, <2>1, <2>2, <2>5 DEF AttemptInOrder, Receipts, None
  <2>7. /\ job'[w].pc = "health" /\ job'[w].d = e
        /\ \A v \in Worker \ {w} : job'[v] = job[v]
    BY <1>2, <1>3, <1>5, GotoJob DEF DemoteAttempt, Place
  <2>8. WorkerInOrder(w)'
    BY <2>2, <2>7 DEF WorkerInOrder, Loop
  <2>9. QED BY <1>1, <2>3, <2>4, <2>6, <2>7, <2>8, StepOfWorker
<1>6. CASE DriftHealth(w)
  <2>1. /\ health' = e /\ attempt[e].status = "needs_attention"
        /\ UNCHANGED <<receipts, attempt, manifest, announced, delivery, lease>>
    BY <1>3, <1>6 DEF DriftHealth, Running
  <2>2. \A f \in Delivery \ {e} : DeliveryInOrder(f)' /\ AttemptInOrder(f)'
    BY <1>2, <1>3, <2>1, OtherDeliveries DEF Receipts
  <2>3. DeliveryInOrder(e)' /\ AttemptInOrder(e)'
    BY <1>3, <1>4, <2>1 DEF DeliveryInOrder, AttemptInOrder, Unfinished, Receipts
  <2>4. /\ job'[w].pc = "mark" /\ job'[w].d = e
        /\ \A v \in Worker \ {w} : job'[v] = job[v]
    BY <1>2, <1>3, <1>6, GotoJob DEF DriftHealth, Place
  <2>5. WorkerInOrder(w)'
    BY <2>1, <2>4 DEF WorkerInOrder, Loop
  <2>6. QED BY <1>1, <2>2, <2>3, <2>4, <2>5, StepOfWorker
<1>7. CASE MarkDelivery(w)
  <2>1. /\ delivery' = [delivery EXCEPT ![e] = "needs_attention"]
        /\ attempt[e].status = "needs_attention"
        /\ UNCHANGED <<receipts, attempt, manifest, health, announced, lease>>
    BY <1>3, <1>7 DEF MarkDelivery, Running
  <2>2. \A f \in Delivery \ {e} : DeliveryInOrder(f)' /\ AttemptInOrder(f)'
    BY <1>2, <1>3, <2>1, OtherDeliveries DEF Receipts
  <2>3. DeliveryInOrder(e)' /\ AttemptInOrder(e)'
    BY <1>2, <1>3, <1>4, <2>1 DEF DeliveryInOrder, AttemptInOrder, Unfinished, Receipts, Over, Open
  <2>4. job'[w].pc = "idle" /\ \A v \in Worker \ {w} : job'[v] = job[v]
    BY <1>2, <1>7, QuitJob DEF MarkDelivery
  <2>5. QED BY <1>1, <2>2, <2>3, <2>4, StepOfWorker
<1>8. QED BY <1>5, <1>6, <1>7

(* Close saves a release that is finalized once more. *)
LEMMA CloseKeepsOrder ==
    ASSUME Order, NEW w \in Worker, Close(w)
    PROVE  ReleaseInOrder'
<1> USE Constants
<1>1. ~Running(w, "idle") /\ job[w].pc = "close"
  BY DEF Close, Running
<1>2. /\ job \in [Worker -> Job] /\ job[w].d \in Delivery /\ WorkerInOrder(w)
      /\ delivery \in [Delivery -> Status]
  BY <1>1, AtWork DEF Order, Shape
<1>3. delivery[job[w].d] = "completed" /\ lease # job[w].d
  BY <1>1, <1>2 DEF WorkerInOrder, Finalized
<1>4. UNCHANGED db
  BY <1>2, <1>3 DEF Close, FreedBy, db
<1>5. job'[w].pc = "idle" /\ \A v \in Worker \ {w} : job'[v] = job[v]
  BY <1>2, QuitJob DEF Close
<1>6. QED BY <1>1, <1>4, <1>5, SameRows, StepOfWorker DEF Order

-----------------------------------------------------------------------------
(* Steps of everybody else. *)

(* Workers and receipts stay; rows are written of one delivery that no worker
   is on, and the lease is nobody else's. *)
LEMMA RowsOfOneDelivery ==
    ASSUME Order, NEW d \in Delivery, job' = job, receipts' = receipts, attempt' = attempt,
           manifest' = manifest, health' = health, announced' = announced,
           delivery[d] \in {"absent", "active", "awaiting"}, lease' \in {d, None},
           lease \in {d, None}, \A e \in Delivery \ {d} : delivery'[e] = delivery[e],
           DeliveryInOrder(d)'
    PROVE  ReleaseInOrder'
<1> USE Constants
<1>1. \A e \in Delivery : Receipts(e)' = Receipts(e)
  BY DEF Receipts
<1>2. \A e \in Delivery : AttemptInOrder(e)'
  BY <1>1 DEF Order, ReleaseInOrder, AttemptInOrder
<1>3. \A e \in Delivery \ {d} : DeliveryInOrder(e)'
  BY DEF Order, ReleaseInOrder, DeliveryInOrder, Unfinished
<1>4. ASSUME NEW w \in Worker, ~Running(w, "idle")
      PROVE  job'[w].d \in Delivery /\ WorkerInOrder(w)'
  <2>1. job[w].d \in Delivery /\ WorkerInOrder(w) /\ job[w] \in Job
    BY <1>4 DEF Order, ReleaseInOrder, Shape
  <2>2. DeliveryInOrder(job[w].d) /\ DeliveryInOrder(d)
    BY <2>1 DEF Order, ReleaseInOrder
  <2>3. CASE job[w].d = d
    <3>1. attempt[d].status = None
      BY <2>2 DEF DeliveryInOrder
    <3>2. ~Finalized(d) /\ delivery[d] \notin Open /\ attempt[d].status \notin Open
      BY <3>1 DEF Finalized, None, Open
    <3>3. job[w].pc \notin Place
      BY <1>4, <2>1, <2>3, <3>1, <3>2 DEF WorkerInOrder, Running, Place, Loop, None, Open
    <3>4. QED BY <2>1, <3>3 DEF Job
  <2>4. CASE job[w].d # d
    <3>1. \A e \in Delivery \ {d} : Finalized(e) => Finalized(e)'
      BY DEF Finalized
    <3>2. QED BY <1>1, <2>1, <2>4, <3>1 DEF WorkerInOrder
  <2>5. QED BY <2>3, <2>4
<1>5. Alone'
  BY DEF Order, ReleaseInOrder, Alone, Running
<1>6. QED BY <1>2, <1>3, <1>4, <1>5 DEF ReleaseInOrder, Running

LEMMA PeopleKeepOrder ==
    ASSUME Order, PatientOperator, NEW d \in Delivery,
           Admit(d) \/ OpenCandidateGate(d) \/ End(d) \/ Accept(d) \/ Resume(d)
    PROVE  ReleaseInOrder'
<1> USE Constants
<1>0. /\ delivery \in [Delivery -> Status] /\ DeliveryInOrder(d) /\ AttemptInOrder(d)
      /\ job \in [Worker -> Job]
  BY DEF Order, Shape, ReleaseInOrder
<1>1. CASE Admit(d)
  <2>1. /\ delivery'[d] = "active" /\ delivery[d] = "absent" /\ lease = None /\ lease' = d
        /\ \A e \in Delivery \ {d} : delivery'[e] = delivery[e]
        /\ UNCHANGED <<receipts, attempt, manifest, health, announced, job>>
    BY <1>0, <1>1 DEF Admit
  <2>2. DeliveryInOrder(d)'
    BY <1>0, <2>1 DEF DeliveryInOrder, Unfinished, Over, None
  <2>3. QED BY <2>1, <2>2, RowsOfOneDelivery
<1>2. CASE OpenCandidateGate(d)
  <2>1. /\ delivery'[d] = "awaiting" /\ delivery[d] = "active" /\ lease' = lease
        /\ \A e \in Delivery \ {d} : delivery'[e] = delivery[e]
        /\ UNCHANGED <<receipts, attempt, manifest, health, announced, job>>
    BY <1>0, <1>2 DEF OpenCandidateGate
  <2>2. lease = d
    BY <1>0, <2>1 DEF DeliveryInOrder, Unfinished, Over
  <2>3. DeliveryInOrder(d)'
    BY <1>0, <2>1, <2>2 DEF DeliveryInOrder, Unfinished, Over, None
  <2>4. QED BY <2>1, <2>2, <2>3, RowsOfOneDelivery
<1>3. CASE End(d)
  <2>1. /\ delivery'[d] = "ended" /\ delivery[d] \in {"active", "awaiting"} /\ lease' = FreedBy(d)
        /\ \A e \in Delivery \ {d} : delivery'[e] = delivery[e]
        /\ UNCHANGED <<receipts, attempt, manifest, health, announced, job>>
    BY <1>0, <1>3 DEF End
  <2>2. lease = d /\ attempt[d].status = None
    BY <1>0, <2>1 DEF DeliveryInOrder, Unfinished, Over
  <2>3. d \notin Owners
    BY <2>2, OwnersAreOpen DEF Open, None
  <2>4. lease' = None
    BY <2>1, <2>2, <2>3 DEF FreedBy
  <2>5. DeliveryInOrder(d)'
    BY <1>0, <2>1, <2>2, <2>4 DEF DeliveryInOrder, Unfinished, Over, None
  <2>6. QED BY <2>1, <2>2, <2>4, <2>5, RowsOfOneDelivery
<1>4. CASE Accept(d)
  <2>1. /\ delivery' = [delivery EXCEPT ![d] = "applying"] /\ delivery[d] = "awaiting"
        /\ job' = [job EXCEPT ![d] = [NoJob EXCEPT !.pc = "preflight", !.d = d]]
        /\ UNCHANGED <<receipts, attempt, manifest, health, announced, lease>>
        /\ \A w \in Worker : Running(w, "idle")
    BY <1>4 DEF Accept, Attended
  <2>2. /\ job'[d].pc = "preflight" /\ job'[d].d = d /\ job'[d].version = 0
        /\ \A w \in Worker \ {d} : job'[w].pc = "idle"
    BY <1>0, <2>1 DEF NoJob, Running
  <2>3. attempt[d].status = None /\ attempt[d].version = 0
    BY <1>0, <2>1 DEF DeliveryInOrder, AttemptInOrder
  <2>4. \A e \in Delivery : DeliveryInOrder(e)'
    BY <1>0, <2>1, <2>3 DEF Order, ReleaseInOrder, DeliveryInOrder, Unfinished, Over, None
  <2>5. \A e \in Delivery : AttemptInOrder(e)'
    BY <2>1 DEF Order, ReleaseInOrder, AttemptInOrder, Receipts
  <2>6. WorkerInOrder(d)'
    BY <1>0, <2>1, <2>2, <2>3 DEF WorkerInOrder, Loop, Open
  <2>7. QED BY <2>2, <2>4, <2>5, <2>6 DEF ReleaseInOrder, Alone, Running
<1>5. CASE Resume(d)
  <2>1. UNCHANGED db /\ \A w \in Worker : Running(w, "idle")
    BY <1>5 DEF Resume, Attended
  <2>2. \E j : /\ job' = [job EXCEPT ![Resumer] = j] /\ j.d = d
               /\ \/ j.pc = "close" /\ Finalized(d)
                  \/ /\ j.pc = "preflight" /\ attempt[d].status = "needs_attention"
                     /\ j.version = attempt[d].version /\ attempt[d].version < MaxVersion
    <3> DEFINE close == [NoJob EXCEPT !.pc = "close", !.d = d]
               again == [pc |-> "preflight", d |-> d, version |-> attempt[d].version,
                         at |-> 1, had |-> Receipts(d)]
    <3>1. close.d = d /\ close.pc = "close"
      BY DEF NoJob
    <3>2. again.d = d /\ again.pc = "preflight" /\ again.version = attempt[d].version
      OBVIOUS
    <3>3. \/ Finalized(d) /\ job' = [job EXCEPT ![Resumer] = close]
          \/ /\ attempt[d].status = "needs_attention" /\ attempt[d].version < MaxVersion
             /\ job' = [job EXCEPT ![Resumer] = again]
      BY <1>5 DEF Resume
    <3> HIDE DEF close, again
    <3>4. QED BY <3>1, <3>2, <3>3
  <2>3. /\ job'[Resumer].d = d
        /\ \/ job'[Resumer].pc = "close" /\ Finalized(d)
           \/ /\ job'[Resumer].pc = "preflight" /\ attempt[d].status = "needs_attention"
              /\ job'[Resumer].version = attempt[d].version /\ attempt[d].version < MaxVersion
        /\ \A w \in Worker \ {Resumer} : job'[w].pc = "idle"
    BY <1>0, <2>1, <2>2 DEF Running
  <2>4. attempt[d].status = "needs_attention" => delivery[d] \in Open
    BY OpenAttemptHoldsLease DEF Open
  <2>5. WorkerInOrder(Resumer)'
    BY <2>1, <2>3, <2>4, SameRows DEF WorkerInOrder, Loop, Order, db
  <2>6. Alone'
    BY <2>3 DEF Alone, Running
  <2>7. QED BY <2>1, <2>3, <2>5, <2>6, SameRows DEF Order, ReleaseInOrder, Running
<1>6. QED BY <1>1, <1>2, <1>3, <1>4, <1>5

(* At most one delivery is unfinished, and the lease says which. *)
LEMMA SurvivorHoldsLease ==
    ASSUME Order, NEW holder \in Survivors
    PROVE  /\ lease # None => holder = lease
           /\ lease = None => holder = None /\ Unfinished = {} /\ Owners = {}
<1> USE Constants
<1>1. lease \in Delivery \cup {None}
  BY DEF Order, Shape
<1>2. \A d \in Delivery : d \in Unfinished <=> lease = d
  BY DEF Order, ReleaseInOrder, DeliveryInOrder
<1>3. \A d \in Owners : lease = d
  BY OwnersAreOpen, OpenAttemptHoldsLease
<1>4. CASE lease = None
  <2>1. Unfinished = {} /\ Owners = {}
    BY <1>2, <1>3, <1>4 DEF Unfinished, Owners
  <2>2. QED BY <1>4, <2>1 DEF Survivors
<1>5. CASE lease # None
  <2>1. lease \in Unfinished
    BY <1>1, <1>2, <1>5
  <2>2. QED BY <1>3, <1>5, <2>1 DEF Survivors
<1>6. QED BY <1>4, <1>5

LEMMA OthersKeepOrder ==
    ASSUME Order, Restart \/ (\E r \in Repo : Outsider(r))
    PROVE  ReleaseInOrder'
<1> USE Constants
<1>1. CASE \E r \in Repo : Outsider(r)
  <2>1. UNCHANGED <<db, job>>
    BY <1>1 DEF Outsider
  <2>2. Alone'
    BY <2>1 DEF Order, ReleaseInOrder, Alone, Running
  <2>3. \A w \in Worker : ~Running(w, "idle")' => job'[w].d \in Delivery /\ WorkerInOrder(w)'
    BY <2>1, SameRows DEF Order, ReleaseInOrder, WorkerInOrder, Running, db
  <2>4. QED BY <2>1, <2>2, <2>3, SameRows DEF Order, ReleaseInOrder
<1>2. CASE Restart
  <2>1. PICK holder \in Survivors :
          /\ delivery' = [d \in Delivery |->
                IF delivery[d] = "active" \/ (Owners = {} /\ d \in Unfinished /\ d # holder)
                THEN "ended" ELSE delivery[d]]
          /\ lease' = IF Owners = {} /\ holder # None /\ delivery[holder] = "active"
                      THEN None ELSE holder
    BY <1>2 DEF Restart
  <2>2. UNCHANGED <<receipts, attempt, manifest, health, announced>>
    BY <1>2 DEF Restart
  <2>3. \A w \in Worker : job'[w].pc = "idle"
    BY <1>2 DEF Restart, NoJob
  <2>4. \A d \in Delivery : d \in Unfinished <=> lease = d
    BY DEF Order, ReleaseInOrder, DeliveryInOrder
  <2>5. lease \in Delivery \cup {None}
    BY DEF Order, Shape
  <2>6. holder = lease
    BY <2>5, SurvivorHoldsLease
  <2>7. \A d \in Delivery : delivery'[d] = IF delivery[d] = "active" THEN "ended" ELSE delivery[d]
    BY <2>1, <2>4, <2>6
  <2>8. lease # None /\ delivery[lease] = "active" => Owners = {}
    <3>1. \A d \in Owners : lease = d /\ delivery[d] \in Open
      BY OwnersAreOpen, OpenAttemptHoldsLease
    <3>2. QED BY <3>1 DEF Open
  <2>9. lease' = IF lease # None /\ delivery[lease] = "active" THEN None ELSE lease
    BY <2>1, <2>6, <2>8
  <2>10. \A d \in Delivery : DeliveryInOrder(d)'
    <3> TAKE d \in Delivery
    <3>1. DeliveryInOrder(d) /\ delivery[d] \in Status
      BY DEF Order, ReleaseInOrder, Shape
    <3>2. (d \in Unfinished)' <=> delivery[d] \notin {"absent", "active"} \cup Over
      BY <2>7, <3>1 DEF Unfinished, Over
    <3>3. d \in Unfinished <=> delivery[d] \notin {"absent"} \cup Over
      BY DEF Unfinished
    <3>4. (d \in Unfinished)' <=> lease' = d
      BY <2>4, <2>9, <3>2, <3>3 DEF Over
    <3>5. QED BY <2>2, <2>7, <3>1, <3>4 DEF DeliveryInOrder
  <2>11. \A d \in Delivery : AttemptInOrder(d)'
    BY <2>2 DEF Order, ReleaseInOrder, AttemptInOrder, Receipts
  <2>12. QED BY <2>3, <2>10, <2>11 DEF ReleaseInOrder, Alone, Running
<1>3. QED BY <1>1, <1>2

-----------------------------------------------------------------------------
(* The invariant, and what follows from it. *)

LEMMA InitOrder ==
    ASSUME Init
    PROVE  ReleaseInOrder
<1> USE Constants
<1>1. \A w \in Worker : Running(w, "idle")
  BY DEF Init, NoJob, Running
<1>2. \A d \in Delivery : Receipts(d) = {} /\ {} = 1..0 /\ 0 \in 0..N
  BY DEF Init, Receipts
<1>3. \A d \in Delivery : attempt[d].status = None /\ attempt[d].version = 0
  BY DEF Init
<1>4. \A d \in Delivery : AttemptInOrder(d)
  BY <1>2, <1>3, ReleaseAssumption DEF AttemptInOrder, None
<1>5. \A d \in Delivery : DeliveryInOrder(d)
  BY <1>3 DEF Init, DeliveryInOrder, Unfinished, None
<1>6. QED BY <1>1, <1>4, <1>5 DEF ReleaseInOrder, Alone

LEMMA StepKeepsOrder ==
    ASSUME Order, PatientOperator, [Next]_vars
    PROVE  ReleaseInOrder'
<1>1. CASE UNCHANGED vars
  <2>1. UNCHANGED db /\ UNCHANGED job
    BY <1>1 DEF vars
  <2>2. \A w \in Worker : ~Running(w, "idle")' => job'[w].d \in Delivery /\ WorkerInOrder(w)'
    BY <2>1, SameRows DEF Order, ReleaseInOrder, WorkerInOrder, Running, db
  <2>3. QED BY <2>1, <2>2, SameRows DEF Order, ReleaseInOrder, Alone, Running
<1>2. ASSUME NEW w \in Worker, Work(w)
      PROVE  ReleaseInOrder'
  BY <1>2, ReadingKeepsOrder, OpenKeepsOrder, PutKeepsOrder, FinalizeKeepsOrder,
     DemotionKeepsOrder, CloseKeepsOrder DEF Work
<1>3. QED BY <1>1, <1>2, PeopleKeepOrder, OthersKeepOrder DEF Next

LEMMA ReleaseStaysInOrder ==
    ASSUME PatientOperator
    PROVE  Spec => []Order
<1>1. Init => Order
  BY InitShape, InitOrder DEF Order
<1>2. Order /\ [Next]_vars => Order'
  BY StepKeepsShape, StepKeepsOrder DEF Order
<1>3. QED BY <1>1, <1>2, PTL DEF Spec

(* A release that was started and not finished holds the lease of the project,
   for every number of deliveries and repositories. *)
THEOREM UnfinishedReleasesHoldLease ==
    ASSUME PatientOperator
    PROVE  Spec => []UnfinishedHoldsLease
<1>1. Order => UnfinishedHoldsLease
  BY OpenAttemptHoldsLease DEF UnfinishedHoldsLease, Open
<1>2. QED BY <1>1, ReleaseStaysInOrder, PTL

(* What a worker remembers of the version is in bounds as well. *)
VersionsBounded == \A w \in Worker : job[w].version <= MaxVersion + 2

LEMMA StepKeepsBounds ==
    ASSUME Order, VersionsBounded, [Next]_vars
    PROVE  VersionsBounded'
<1> USE Constants, ReleaseAssumption
<1>0. /\ job \in [Worker -> Job] /\ attempt \in [Delivery -> Attempt]
      /\ \A d \in Delivery : attempt[d].version \in Nat /\ attempt[d].version <= MaxVersion + 2
      /\ MaxVersion \in Nat
  BY DEF Order, Shape, ReleaseInOrder, AttemptInOrder, Attempt
<1> SUFFICES \A w \in Worker :
               \/ job'[w].version = job[w].version \/ job'[w].version = 0
               \/ \E d \in Delivery : job'[w].version = attempt[d].version
               \/ job'[w].version <= MaxVersion + 2
  BY <1>0 DEF VersionsBounded
<1>1. CASE UNCHANGED vars \/ Restart \/ (\E r \in Repo : Outsider(r))
  BY <1>1 DEF vars, Restart, Outsider, NoJob
<1>2. ASSUME NEW d \in Delivery, Accept(d) \/ Resume(d), NEW w \in Worker
      PROVE  \/ job'[w].version = job[w].version \/ job'[w].version = 0
             \/ job'[w].version = attempt[d].version
  <2>1. CASE Accept(d)
    BY <1>0, <2>1 DEF Accept, NoJob
  <2>2. CASE Resume(d)
    <3> DEFINE close == [NoJob EXCEPT !.pc = "close", !.d = d]
               again == [pc |-> "preflight", d |-> d, version |-> attempt[d].version,
                         at |-> 1, had |-> Receipts(d)]
    <3>1. close.version = 0 /\ again.version = attempt[d].version
      BY DEF NoJob
    <3>2. job' = [job EXCEPT ![Resumer] = close] \/ job' = [job EXCEPT ![Resumer] = again]
      BY <2>2 DEF Resume
    <3> HIDE DEF close, again
    <3>3. QED BY <1>0, <3>1, <3>2
  <2>3. QED BY <1>2, <2>1, <2>2
<1>3. ASSUME NEW d \in Delivery, Admit(d) \/ OpenCandidateGate(d) \/ End(d)
      PROVE  job' = job
  BY <1>3 DEF Admit, OpenCandidateGate, End
<1>4. ASSUME NEW w \in Worker, Work(w)
      PROVE  /\ \A v \in Worker \ {w} : job'[v] = job[v]
             /\ \/ job'[w].version = job[w].version \/ job'[w].version = 0
                \/ \E d \in Delivery : job'[w].version = attempt[d].version
                \/ job'[w].version <= MaxVersion + 2
  <2>1. CASE OpenAttempt(w)
    <3>1. ~Running(w, "idle") /\ job[w].pc = "open"
      BY <2>1 DEF OpenAttempt, Running
    <3>2. job[w].version \in Nat /\ (job[w].version = 0 \/ job[w].version < MaxVersion)
      BY <3>1, AtWork DEF WorkerInOrder
    <3>3. job'[w].version <= MaxVersion + 2 /\ \A v \in Worker \ {w} : job'[v] = job[v]
      BY <1>0, <2>1, <3>2, OpenJob
    <3>4. QED BY <3>3
  <2>2. CASE Caught(w)
    <3>1. ~Running(w, "idle") /\ job[w].d \in Delivery
      BY <2>2, AtWork DEF Caught, Running
    <3>2. CASE Finalized(job[w].d)
      BY <1>0, <2>2, <3>2, GotoJob DEF Caught, Place
    <3>3. CASE ~Finalized(job[w].d)
      BY <1>0, <2>2, <3>1, <3>3, CaughtJob
    <3>4. QED BY <3>2, <3>3
  <2>3. CASE \/ PreflightPasses(w) \/ PreflightRefuses(w) \/ Step(w) \/ Fetch(w) \/ Send(w)
             \/ ReadBack(w) \/ PutReceipt(w) \/ Finalize(w) \/ WorkFails(w)
             \/ DemoteAttempt(w) \/ DriftHealth(w) \/ MarkDelivery(w) \/ DemotionFails(w)
             \/ Close(w)
    <3>1. \/ \E place \in Place : Goto(w, place)
          \/ \E again, after \in Place : NextRepo(w, again, after)
          \/ Quit(w)
      BY <2>3 DEF PreflightPasses, PreflightRefuses, Step, Fetch, Send, ReadBack, PutReceipt,
         Finalize, WorkFails, DemoteAttempt, DriftHealth, MarkDelivery, DemotionFails, Close, Place
    <3>2. QED BY <1>0, <3>1, GotoJob, NextRepoJob, QuitJob DEF NoJob
  <2>4. QED BY <1>4, <2>1, <2>2, <2>3 DEF Work
<1>5. QED BY <1>1, <1>2, <1>3, <1>4 DEF Next

(* Every row and every worker holds a value its table or its code allows. *)
THEOREM ReleaseTypeCorrect ==
    ASSUME PatientOperator
    PROVE  Spec => []ReleaseTypeOK
<1>1. Init => VersionsBounded
  BY Constants, ReleaseAssumption DEF Init, VersionsBounded, NoJob
<1>2. Order /\ VersionsBounded /\ [Next]_vars => VersionsBounded'
  BY StepKeepsBounds
<1>3. Order /\ VersionsBounded => ReleaseTypeOK
  <2> SUFFICES ASSUME Order, VersionsBounded
               PROVE  ReleaseTypeOK
    OBVIOUS
  <2>0. MaxVersion \in Nat
    BY ReleaseAssumption
  <2>1. attempt \in [Delivery -> [status : {None, "applying", "needs_attention", "completed"},
                                  version : 0..MaxVersion + 2]]
    BY <2>0 DEF Order, Shape, Attempt, ReleaseInOrder, AttemptInOrder
  <2>2. job \in [Worker -> [pc : Place, d : Delivery \cup {None}, version : 0..MaxVersion + 2,
                            at : Repo, had : SUBSET Repo]]
    BY <2>0 DEF Order, Shape, Job, VersionsBounded
  <2>3. QED BY <2>1, <2>2 DEF Order, Shape, ReleaseTypeOK
<1>4. QED BY <1>1, <1>2, <1>3, ReleaseStaysInOrder, PTL DEF Spec

(* Only Send changes main for a release: it has the open attempt and the lease,
   and it comes after the receipts of all earlier repositories. *)
THEOREM PushesAreInOrder ==
    ASSUME PatientOperator
    PROVE  Spec => PushesInOrder
<1> USE Constants
<1> DEFINE Push == \A r \in Repo : main'[r] # main[r] /\ moves' = moves =>
                     \E d \in Delivery :
                        /\ main'[r] = d /\ main[r] \in lineage[d][r]
                        /\ attempt[d].status = "applying" /\ lease = d
                        /\ Receipts(d) = 1..(r - 1)
<1>1. Order /\ [Next]_vars => Push
  <2> SUFFICES ASSUME Order, [Next]_vars
               PROVE  Push
    OBVIOUS
  <2>1. ASSUME NEW w \in Worker, Send(w)
        PROVE  Push
    <3>1. job[w].pc = "send" /\ ~Running(w, "idle")
      BY <2>1 DEF Send, Running
    <3>2. PICK d \in Delivery :
            /\ job[w].d = d /\ lease = d
            /\ attempt[d] = [status |-> "applying", version |-> job[w].version]
      BY <3>1, WorkingOn DEF Loop
    <3>3. Receipts(d) = 1..(job[w].at - 1)
      BY <3>1, <3>2, AtWork DEF WorkerInOrder
    <3>4. main \in [Repo -> Commit] /\ main' = [main EXCEPT ![job[w].at] = d]
          /\ main[job[w].at] \in lineage[d][job[w].at] \cup {d}
      BY <2>1, <3>2 DEF Send, FastForward, Order, Shape
    <3>5. QED BY <3>2, <3>3, <3>4
  <2>2. CASE \E r \in Repo : Outsider(r)
    BY <2>2 DEF Outsider, Order, Shape
  <2>3. ASSUME NEW w \in Worker, Work(w), ~Send(w)
        PROVE  main' = main
    BY <2>3 DEF Work, PreflightPasses, PreflightRefuses, OpenAttempt, Step, Fetch, ReadBack,
       PutReceipt, Finalize, WorkFails, Caught, DemoteAttempt, DriftHealth, MarkDelivery,
       DemotionFails, Close
  <2>4. ASSUME NEW d \in Delivery,
               Admit(d) \/ OpenCandidateGate(d) \/ End(d) \/ Accept(d) \/ Resume(d)
        PROVE  main' = main
    BY <2>4 DEF Admit, OpenCandidateGate, End, Accept, Resume
  <2>5. CASE UNCHANGED vars \/ Restart
    BY <2>5 DEF vars, Restart
  <2>6. QED BY <2>1, <2>2, <2>3, <2>4, <2>5 DEF Next
<1>2. QED BY <1>1, ReleaseStaysInOrder, PTL DEF Spec, PushesInOrder

(* A completed delivery is never taken back, if operators are patient (the run
   release_demotion shows that they have to be). *)
THEOREM CompletedStaysCompleted ==
    ASSUME PatientOperator
    PROVE  Spec => NeverDemoted
<1> DEFINE Kept == \A d \in Delivery : delivery[d] = "completed" => delivery'[d] = "completed"
<1>1. Order /\ [Next]_vars => Kept
  <2> SUFFICES ASSUME Order, [Next]_vars
               PROVE  Kept
    OBVIOUS
  <2>0. delivery \in [Delivery -> Status]
    BY DEF Order, Shape
  <2>1. ASSUME NEW d \in Delivery,
               Admit(d) \/ OpenCandidateGate(d) \/ End(d) \/ Accept(d) \/ Resume(d)
        PROVE  Kept
    BY <2>0, <2>1 DEF Admit, OpenCandidateGate, End, Accept, Resume, db
  <2>2. ASSUME NEW w \in Worker, MarkDelivery(w)
        PROVE  Kept
    <3>1. \E d \in Delivery : job[w].d = d /\ delivery[d] \in Open
      BY <2>2, WorkingOn DEF MarkDelivery, Running
    <3>2. QED BY <2>0, <2>2, <3>1 DEF MarkDelivery, Open
  <2>3. ASSUME NEW w \in Worker, Finalize(w) \/ Close(w)
        PROVE  Kept
    BY <2>0, <2>3 DEF Finalize, Close
  <2>4. ASSUME NEW w \in Worker, Work(w), ~MarkDelivery(w), ~Finalize(w), ~Close(w)
        PROVE  delivery' = delivery
    BY <2>4 DEF Work, PreflightPasses, PreflightRefuses, OpenAttempt, Step, Fetch, ReadBack, Send,
       PutReceipt, WorkFails, Caught, DemoteAttempt, DriftHealth, DemotionFails, db
  <2>5. CASE Restart
    BY <2>0, <2>5 DEF Restart, Unfinished, Over
  <2>6. CASE UNCHANGED vars \/ (\E r \in Repo : Outsider(r))
    BY <2>6 DEF vars, db, Outsider
  <2>7. QED BY <2>1, <2>2, <2>3, <2>4, <2>5, <2>6 DEF Next
<1>2. QED BY <1>1, ReleaseStaysInOrder, PTL DEF Spec, NeverDemoted

-----------------------------------------------------------------------------
(* ReleaseContract: PutReceipt lands, Finalize finishes, all else stutters. *)

LEMMA StepOfContract ==
    ASSUME Order, [Next]_vars
    PROVE  Contract!Next \/ UNCHANGED Contract!release
<1> USE Constants
<1>1. ASSUME NEW w \in Worker, PutReceipt(w)
      PROVE  Contract!Next
  <2>1. job[w].pc = "put" /\ ~Running(w, "idle")
    BY <1>1 DEF PutReceipt, Running
  <2>2. PICK d \in Delivery : job[w].d = d /\ lease = d /\ d \notin announced
    BY <2>1, WorkingOn DEF Loop
  <2> DEFINE r == job[w].at
  <2>3. r \in 1..N /\ Receipts(d) = 1..(r - 1) /\ receipts' = receipts \cup {<<d, r>>}
        /\ announced' = announced
    BY <1>1, <2>1, <2>2, AtWork DEF WorkerInOrder, PutReceipt
  <2>4. \A e \in Delivery \ {d} : e \in announced \/ Receipts(e) = {}
    <3> TAKE e \in Delivery \ {d}
    <3>1. attempt[e].status \notin Open
      BY <2>2, OpenAttemptHoldsLease
    <3>2. attempt[e].status \in {None, "completed"}
      BY <3>1, StatusOfAttempt DEF Order, Open
    <3>3. QED BY <3>2 DEF Order, ReleaseInOrder, DeliveryInOrder, AttemptInOrder
  <2>5. Receipts(d)' = 1..r /\ \A e \in Delivery \ {d} : Receipts(e)' = Receipts(e)
    <3>1. Receipts(d)' = Receipts(d) \cup {r}
      BY <2>3 DEF Receipts, Repo
    <3>2. QED BY <2>3, <3>1 DEF Receipts
  <2>6. [e \in Delivery |-> Receipts(e)]' = [[e \in Delivery |-> Receipts(e)] EXCEPT ![d] = 1..r]
    BY <2>5
  <2>7. r \in Contract!Repo
    BY <2>3 DEF Contract!Repo
  <2>8. Contract!Land(d)
    BY <2>2, <2>3, <2>4, <2>6, <2>7 DEF Contract!Land
  <2>9. QED BY <2>8 DEF Contract!Next
<1>2. ASSUME NEW w \in Worker, Finalize(w)
      PROVE  Contract!Next
  <2>1. job[w].pc = "finalize" /\ ~Running(w, "idle")
    BY <1>2 DEF Finalize, Running
  <2>2. PICK d \in Delivery : job[w].d = d /\ d \notin announced
    BY <2>1, WorkingOn DEF Loop
  <2>3. Receipts(d) = Repo /\ announced' = announced \cup {d} /\ receipts' = receipts
    BY <1>2, <2>1, <2>2, AtWork DEF WorkerInOrder, Finalize
  <2>4. Contract!Finish(d)
    BY <2>2, <2>3 DEF Contract!Finish, Contract!Repo, Repo, Receipts
  <2>5. QED BY <2>4 DEF Contract!Next
<1>3. ASSUME UNCHANGED <<receipts, announced>>
      PROVE  UNCHANGED Contract!release
  BY <1>3 DEF Contract!release, Receipts
<1>4. ASSUME NEW w \in Worker, Work(w), ~PutReceipt(w), ~Finalize(w)
      PROVE  UNCHANGED <<receipts, announced>>
  BY <1>4 DEF Work, PreflightPasses, PreflightRefuses, OpenAttempt, Step, Fetch, ReadBack, Send,
     WorkFails, Caught, DemoteAttempt, DriftHealth, MarkDelivery, DemotionFails, Close, db
<1>5. ASSUME NEW d \in Delivery,
             Admit(d) \/ OpenCandidateGate(d) \/ End(d) \/ Accept(d) \/ Resume(d)
      PROVE  UNCHANGED <<receipts, announced>>
  BY <1>5 DEF Admit, OpenCandidateGate, End, Accept, Resume, db
<1>6. CASE UNCHANGED vars \/ Restart \/ (\E r \in Repo : Outsider(r))
  BY <1>3, <1>6 DEF vars, db, Restart, Outsider
<1>7. QED BY <1>1, <1>2, <1>3, <1>4, <1>5, <1>6 DEF Next

(* The attempts, workers and leases implement ReleaseContract: receipts in the
   frozen order, one bundle at a time, and what is announced covered all of it. *)
THEOREM ReleaseImplementsContract ==
    ASSUME PatientOperator
    PROVE  Spec => ImplementsRelease
<1>1. Init => Contract!Init
  BY DEF Init, Contract!Init, Receipts
<1>2. Order /\ [Next]_vars => [Contract!Next]_Contract!release
  BY StepOfContract
<1>3. QED BY <1>1, <1>2, ReleaseStaysInOrder, PTL DEF Spec, ImplementsRelease, Contract!Spec

-----------------------------------------------------------------------------
(* The release of a managed project.                                       *)

Forward == {"step", "readBack", "record"}
Backward == {"undo", "restored", "undone"}

(* Going forward, what lies behind holds the candidate; going back, what has a
   receipt and lies behind does not. *)
CoordinatorInOrder ==
    /\ coordinator.pc \in Forward => \A r \in Bundle : r < coordinator.at => Holds(r)
    /\ coordinator.pc \in {"readBack", "record"} => Holds(coordinator.at)
    /\ coordinator.pc = "activate" => \A r \in Bundle : Holds(r)
    /\ coordinator.pc \in Backward =>
         \A r \in coordinator.had : coordinator.at < r => ~Holds(r)
    /\ coordinator.pc = "restored" => ~Holds(coordinator.at)
    /\ coordinator.pc = "undone" => \A r \in coordinator.had : ~Holds(r)

(* Once the manifest is active nothing is applied, or undone, any more. *)
ManifestEnds ==
    /\ active => coordinator.pc \in {"finish", "return", "over", "idle"}
    /\ coordinator.pc \in {"finish", "return"} => active

(* A release that was given up is not taken up again. *)
CompensationEnds ==
    application.status = "compensated" => coordinator.pc \in {"over", "idle"}

(* The inductive invariant of the managed release. *)
ManagedInv ==
    /\ ManagedTypeOK
    /\ CoordinatorInOrder /\ ManifestEnds /\ CompensationEnds
    /\ ManifestIsWhole /\ RecordedIsUndone /\ CompletedIsReleased

Coordinator == [pc : CoordinatorStep, at : Bundle, had : SUBSET Bundle]

LEMMA ManagedConstants ==
    /\ BundleSize \in Nat \ {0} /\ 1 \in Bundle /\ BundleSize \in Bundle
    /\ \A r \in Bundle : r \in Nat /\ 1 <= r /\ r <= BundleSize
    /\ NoCoordinator \in Coordinator /\ NoCoordinator.pc = "idle"
BY BundleAssumption DEF Bundle, NoCoordinator, Coordinator, CoordinatorStep

LEMMA Places ==
    /\ \A r, at \in Bundle : r < at + 1 => r < at \/ r = at
    /\ \A r, at \in Bundle : at - 1 < r => at < r \/ at = r
    /\ \A r \in Bundle : (r < BundleSize \/ r = BundleSize) /\ (1 < r \/ r = 1)
BY BundleAssumption DEF Bundle

LEMMA ManagedInitially == ManagedInit => ManagedInv
<1> SUFFICES ASSUME ManagedInit PROVE ManagedInv
  OBVIOUS
<1>1. ManagedTypeOK
  BY ManagedConstants DEF ManagedInit, ManagedTypeOK, HeadState, Coordinator
<1>2. QED
  BY <1>1, ManagedConstants
     DEF ManagedInit, ManagedInv, CoordinatorInOrder, ManifestEnds, CompensationEnds,
         ManifestIsWhole, RecordedIsUndone, CompletedIsReleased, Forward, Backward

(* Where the coordinator goes, the rest of its record stays. *)
LEMMA CoordinatorMoves ==
    ASSUME ManagedTypeOK, NEW pc \in CoordinatorStep
    PROVE  /\ CoordinatorGoes(pc) => /\ coordinator' \in Coordinator
                                     /\ coordinator'.pc = pc
                                     /\ coordinator'.at = coordinator.at
                                     /\ coordinator'.had = coordinator.had
           /\ \A r \in Bundle : TurnTo(pc, r) =>
                /\ coordinator' \in Coordinator
                /\ coordinator'.pc = pc /\ coordinator'.at = r
                /\ coordinator'.had = coordinator.had
BY DEF ManagedTypeOK, CoordinatorGoes, TurnTo, Coordinator

(* A call that ends, or has not begun, needs nothing of the heads. *)
LEMMA QuietCoordinator ==
    ASSUME ManagedInv, coordinator' \in Coordinator,
           coordinator'.pc \in {"over", "idle", "compensate", "attention"},
           coordinator'.pc \in {"compensate", "attention"} =>
             ~active /\ application.status # "compensated",
           UNCHANGED <<heads, active, applied>>,
           application' = application \/
             /\ application' \in [status : {"applying", "completed", "compensating",
                                            "needs_attention"}, receipts : SUBSET Bundle]
    PROVE  ManagedInv'
<1>1. ManagedTypeOK'
  BY DEF ManagedInv, ManagedTypeOK, Coordinator
<1>2. CoordinatorInOrder'
  BY DEF CoordinatorInOrder, Forward, Backward
<1>3. ManifestEnds' /\ CompensationEnds'
  BY DEF ManagedInv, ManifestEnds, CompensationEnds
<1>4. ManifestIsWhole' /\ CompletedIsReleased'
  BY DEF ManagedInv, ManifestIsWhole, CompletedIsReleased, Holds
<1>5. RecordedIsUndone'
  BY DEF ManagedInv, RecordedIsUndone, Holds
<1>6. QED BY <1>1, <1>2, <1>3, <1>4, <1>5 DEF ManagedInv

(* A call at work has neither activated the manifest nor given the release up. *)
LEMMA CoordinatorAtWork ==
    ASSUME ManagedInv, coordinator.pc \notin {"finish", "return", "over", "idle"}
    PROVE  ~active /\ application.status # "compensated"
BY DEF ManagedInv, ManifestEnds, CompensationEnds

LEMMA Working ==
    ASSUME ManagedInv, ~active,
           application' \in [status : {"none", "applying", "completed", "compensating",
                                       "needs_attention"}, receipts : SUBSET Bundle],
           coordinator' \in Coordinator, coordinator'.pc \notin {"finish", "return"},
           heads' \in [Bundle -> HeadState], CoordinatorInOrder', UNCHANGED <<active, applied>>
    PROVE  ManagedInv'
<1>1. ManagedTypeOK'
  BY DEF ManagedInv, ManagedTypeOK, Coordinator
<1>2. /\ ManifestEnds' /\ CompensationEnds' /\ ManifestIsWhole' /\ CompletedIsReleased'
      /\ RecordedIsUndone'
  BY DEF ManagedInv, ManifestEnds, CompensationEnds, ManifestIsWhole, CompletedIsReleased,
         RecordedIsUndone
<1>3. QED BY <1>1, <1>2 DEF ManagedInv

(* The row of a release that was not given up. *)
LEMMA ApplicationTyped ==
    ASSUME ManagedInv, application.status # "compensated"
    PROVE  application \in [status : {"none", "applying", "completed", "compensating",
                                      "needs_attention"}, receipts : SUBSET Bundle]
BY DEF ManagedInv, ManagedTypeOK

LEMMA CallApplyStep == ASSUME ManagedInv, CallApply PROVE ManagedInv'
<1>1. UNCHANGED <<heads, active, applied>> /\ coordinator.pc = "idle"
  BY DEF CallApply, bare, CoordinatorAt
<1>2. CASE active /\ CoordinatorGoes("return") /\ UNCHANGED application
  <2>1. coordinator' \in Coordinator /\ coordinator'.pc = "return"
    BY <1>2, CoordinatorMoves DEF ManagedInv, CoordinatorStep
  <2>2. application.status # "compensated"
    BY <1>2 DEF ManagedInv, RecordedIsUndone
  <2>3. QED BY <1>1, <1>2, <2>1, <2>2
            DEF ManagedInv, ManagedTypeOK, Coordinator, CoordinatorInOrder, Forward, Backward,
                ManifestEnds, CompensationEnds, ManifestIsWhole, RecordedIsUndone,
                CompletedIsReleased, Holds
<1>3. CASE Raise /\ UNCHANGED application
  <2>1. coordinator' \in Coordinator /\ coordinator'.pc = "over"
    BY <1>3, CoordinatorMoves DEF ManagedInv, CoordinatorStep, Raise
  <2>2. QED BY <1>1, <1>3, <2>1, QuietCoordinator
<1>4. CASE ~active /\ application' = [status |-> "applying", receipts |-> {}] /\ TurnTo("step", 1)
  <2>1. coordinator' \in Coordinator /\ coordinator'.pc = "step" /\ coordinator'.at = 1
    BY <1>4, CoordinatorMoves, ManagedConstants DEF ManagedInv, CoordinatorStep
  <2>2. CoordinatorInOrder'
    BY <2>1, ManagedConstants DEF CoordinatorInOrder, Forward, Backward
  <2>3. QED BY <1>1, <1>4, <2>1, <2>2, Working DEF ManagedInv, ManagedTypeOK
<1>5. CASE /\ ~active /\ application.status \in {"applying", "compensating"}
           /\ coordinator' = [pc |-> "step", at |-> 1, had |-> application.receipts]
           /\ UNCHANGED application
  <2>1. coordinator' \in Coordinator /\ coordinator'.pc = "step" /\ coordinator'.at = 1
    BY <1>5, ManagedConstants DEF ManagedInv, ManagedTypeOK, Coordinator, CoordinatorStep
  <2>2. CoordinatorInOrder'
    BY <2>1, ManagedConstants DEF CoordinatorInOrder, Forward, Backward
  <2>3. QED BY <1>1, <1>5, <2>1, <2>2, Working, ApplicationTyped DEF ManagedInv, ManagedTypeOK
<1>6. QED BY <1>2, <1>3, <1>4, <1>5 DEF CallApply

(* apply() raises, or turns to the compensation. *)
LEMMA GivesUp ==
    ASSUME ManagedInv, coordinator.pc \notin {"finish", "return", "over", "idle"},
           NEW pc \in {"over", "compensate", "attention"}, CoordinatorGoes(pc),
           UNCHANGED <<heads, application, active, applied>>
    PROVE  ManagedInv'
<1>1. coordinator' \in Coordinator /\ coordinator'.pc = pc
  BY CoordinatorMoves DEF ManagedInv, CoordinatorStep
<1>2. QED BY <1>1, CoordinatorAtWork, QuietCoordinator

(* The next repository, or the manifest: the coordinator is past a repository
   that holds the candidate. *)
LEMMA PassesRepository ==
    ASSUME ManagedInv, coordinator.pc \in Forward, Holds(coordinator.at),
           coordinator' \in Coordinator,
           IF coordinator.at = BundleSize THEN coordinator'.pc = "activate"
           ELSE coordinator'.pc = "step" /\ coordinator'.at = coordinator.at + 1,
           UNCHANGED heads
    PROVE  CoordinatorInOrder'
<1>1. /\ coordinator.at \in Bundle
      /\ \A r \in Bundle : r < coordinator.at => Holds(r)
  BY DEF ManagedInv, ManagedTypeOK, CoordinatorInOrder, Coordinator
<1>2. Holds(coordinator.at) /\ BundleSize \in Bundle
  BY ManagedConstants
<1>3. CASE coordinator.at = BundleSize
  <2>1. \A r \in Bundle : Holds(r)
    BY <1>1, <1>2, <1>3, Places
  <2>2. QED BY <1>3, <2>1 DEF CoordinatorInOrder, Forward, Backward, Holds
<1>4. CASE coordinator.at # BundleSize
  <2>1. \A r \in Bundle : r < coordinator.at + 1 => Holds(r)
    BY <1>1, <1>2, Places
  <2>2. QED BY <1>4, <2>1 DEF CoordinatorInOrder, Forward, Backward, Holds
<1>5. QED BY <1>3, <1>4

LEMMA NextRepositoryStep ==
    ASSUME ManagedInv, coordinator.pc \in Forward, Holds(coordinator.at), NextRepository,
           UNCHANGED <<heads, application, active, applied>>
    PROVE  ManagedInv'
<1>1. coordinator.at \in Bundle
  BY DEF ManagedInv, ManagedTypeOK
<1>2. /\ coordinator' \in Coordinator
      /\ IF coordinator.at = BundleSize THEN coordinator'.pc = "activate"
         ELSE coordinator'.pc = "step" /\ coordinator'.at = coordinator.at + 1
  <2>1. CASE coordinator.at = BundleSize
    BY <2>1, CoordinatorMoves DEF NextRepository, ManagedInv, CoordinatorStep
  <2>2. CASE coordinator.at # BundleSize
    <3>1. coordinator.at + 1 \in Bundle
      BY <1>1, <2>2, BundleAssumption DEF Bundle
    <3>2. QED BY <2>2, <3>1, CoordinatorMoves DEF NextRepository, ManagedInv, CoordinatorStep
  <2>3. QED BY <2>1, <2>2
<1>3. CoordinatorInOrder'
  BY <1>2, PassesRepository
<1>4. ~active /\ application.status # "compensated" /\ coordinator'.pc \notin {"finish", "return"}
  BY <1>2, CoordinatorAtWork DEF Forward
<1>5. heads' \in [Bundle -> HeadState]
  BY DEF ManagedInv, ManagedTypeOK
<1>6. QED BY <1>2, <1>3, <1>4, <1>5, ApplicationTyped, Working

LEMMA ApplyNextStep == ASSUME ManagedInv, ApplyNext PROVE ManagedInv'
<1> DEFINE r == coordinator.at
<1>1. /\ coordinator.pc = "step" /\ r \in Bundle /\ UNCHANGED <<application, active, applied>>
      /\ heads \in [Bundle -> HeadState]
  BY DEF ApplyNext, CoordinatorAt, managedRows, ManagedInv, ManagedTypeOK
<1>2. CASE heads[r] = "candidate" /\ NextRepository /\ UNCHANGED heads
  BY <1>1, <1>2, NextRepositoryStep DEF Forward, Holds
<1>3. CASE CoordinatorGoes("compensate") /\ UNCHANGED heads
  BY <1>1, <1>3, GivesUp
<1>4. ASSUME NEW pc \in {"readBack", "record"}, CoordinatorGoes(pc),
             heads' \in [Bundle -> HeadState], heads'[r] = "candidate",
             \A q \in Bundle \ {r} : heads'[q] = heads[q]
      PROVE  ManagedInv'
  <2>1. coordinator' \in Coordinator /\ coordinator'.pc = pc /\ coordinator'.at = r
    BY <1>4, CoordinatorMoves DEF ManagedInv, CoordinatorStep
  <2>2. \A q \in Bundle : q < r => heads'[q] \in {"candidate", "atop"}
    BY <1>1, <1>4, ManagedConstants DEF ManagedInv, CoordinatorInOrder, Forward, Holds
  <2>3. CoordinatorInOrder'
    BY <1>4, <2>1, <2>2 DEF CoordinatorInOrder, Forward, Backward, Holds
  <2>4. ~active /\ application.status # "compensated"
    BY <1>1, CoordinatorAtWork
  <2>5. QED BY <1>1, <1>4, <2>1, <2>3, <2>4, ApplicationTyped, Working
<1>5. CASE heads[r] = "candidate" /\ CoordinatorGoes("record") /\ UNCHANGED heads
  BY <1>1, <1>4, <1>5
<1>6. CASE heads' = [heads EXCEPT ![r] = "candidate"] /\ CoordinatorGoes("readBack")
  BY <1>1, <1>4, <1>6 DEF HeadState
<1>7. QED BY <1>2, <1>3, <1>5, <1>6 DEF ApplyNext

LEMMA ReadHeadBackStep == ASSUME ManagedInv, ReadHeadBack PROVE ManagedInv'
<1>1. /\ coordinator.pc = "readBack" /\ UNCHANGED <<heads, application, active, applied>>
      /\ heads \in [Bundle -> HeadState]
  BY DEF ReadHeadBack, CoordinatorAt, bare, managedRows, ManagedInv, ManagedTypeOK
<1>2. CASE CoordinatorGoes("compensate")
  BY <1>1, <1>2, GivesUp
<1>3. CASE heads[coordinator.at] = "candidate" /\ CoordinatorGoes("record")
  <2>1. coordinator' \in Coordinator /\ coordinator'.pc = "record"
        /\ coordinator'.at = coordinator.at
    BY <1>3, CoordinatorMoves DEF ManagedInv, CoordinatorStep
  <2>2. CoordinatorInOrder'
    BY <1>1, <1>3, <2>1 DEF ManagedInv, CoordinatorInOrder, Forward, Backward, Holds
  <2>3. QED BY <1>1, <2>1, <2>2, CoordinatorAtWork, ApplicationTyped, Working
<1>4. QED BY <1>2, <1>3 DEF ReadHeadBack

LEMMA RecordStep == ASSUME ManagedInv, Record PROVE ManagedInv'
<1> DEFINE had == coordinator.had \cup {coordinator.at}
           next == IF coordinator.at = BundleSize
                   THEN [pc |-> "activate", at |-> BundleSize, had |-> had]
                   ELSE [pc |-> "step", at |-> coordinator.at + 1, had |-> had]
<1>1. /\ coordinator.pc = "record" /\ UNCHANGED <<heads, active, applied>>
      /\ heads \in [Bundle -> HeadState] /\ coordinator.at \in Bundle /\ had \in SUBSET Bundle
  BY DEF Record, CoordinatorAt, bare, ManagedInv, ManagedTypeOK
<1>2. ~active /\ application.status # "compensated"
  BY <1>1, CoordinatorAtWork
<1>3. CASE application' = [status |-> "applying", receipts |-> had] /\ coordinator' = next
  <2>1. /\ coordinator' \in Coordinator
        /\ IF coordinator.at = BundleSize THEN coordinator'.pc = "activate"
           ELSE coordinator'.pc = "step" /\ coordinator'.at = coordinator.at + 1
    <3>1. CASE coordinator.at = BundleSize
      BY <1>1, <1>3, <3>1, ManagedConstants DEF Coordinator, CoordinatorStep
    <3>2. CASE coordinator.at # BundleSize
      <4>1. coordinator.at + 1 \in Bundle
        BY <1>1, <3>2, BundleAssumption DEF Bundle
      <4>2. QED BY <1>1, <1>3, <3>2, <4>1 DEF Coordinator, CoordinatorStep
    <3>3. QED BY <3>1, <3>2
  <2>2. Holds(coordinator.at)
    BY <1>1 DEF ManagedInv, CoordinatorInOrder
  <2>3. CoordinatorInOrder'
    BY <1>1, <2>1, <2>2, PassesRepository DEF Forward
  <2>4. QED BY <1>1, <1>2, <1>3, <2>1, <2>3, Working
<1>4. CASE /\ coordinator' = [coordinator EXCEPT !.pc = "compensate", !.had = had]
           /\ UNCHANGED application
  <2>1. coordinator' \in Coordinator /\ coordinator'.pc = "compensate"
    BY <1>1, <1>4 DEF ManagedInv, ManagedTypeOK, Coordinator, CoordinatorStep
  <2>2. QED BY <1>1, <1>2, <1>4, <2>1, QuietCoordinator
<1>5. QED BY <1>3, <1>4 DEF Record

LEMMA ActivateStep == ASSUME ManagedInv, ActivateManifest PROVE ManagedInv'
<1>1. coordinator.pc = "activate" /\ UNCHANGED <<heads, application, applied>>
  BY DEF ActivateManifest, CoordinatorAt, bare
<1>2. CASE Raise /\ UNCHANGED active
  BY <1>1, <1>2, GivesUp DEF Raise
<1>3. CASE active' = TRUE /\ CoordinatorGoes("finish")
  <2>1. coordinator' \in Coordinator /\ coordinator'.pc = "finish"
    BY <1>3, CoordinatorMoves DEF ManagedInv, CoordinatorStep
  <2>2. application.status # "compensated" /\ \A r \in Bundle : Holds(r)
    BY <1>1, CoordinatorAtWork DEF ManagedInv, CoordinatorInOrder
  <2>3. QED BY <1>1, <1>3, <2>1, <2>2
            DEF ManagedInv, ManagedTypeOK, Coordinator, CoordinatorInOrder, Forward, Backward,
                ManifestEnds, CompensationEnds, ManifestIsWhole, RecordedIsUndone,
                CompletedIsReleased, Holds
<1>4. QED BY <1>2, <1>3 DEF ActivateManifest

LEMMA FinishStep == ASSUME ManagedInv, Finish PROVE ManagedInv'
<1>1. coordinator.pc = "finish" /\ UNCHANGED <<heads, active, applied>> /\ active
      /\ coordinator.had \in SUBSET Bundle /\ application.status # "compensated"
  BY DEF Finish, CoordinatorAt, bare, ManagedInv, ManifestEnds, ManagedTypeOK, RecordedIsUndone
<1>2. CASE Raise /\ UNCHANGED application
  <2>1. coordinator' \in Coordinator /\ coordinator'.pc = "over"
    BY <1>2, CoordinatorMoves DEF ManagedInv, CoordinatorStep, Raise
  <2>2. QED BY <1>1, <1>2, <2>1, QuietCoordinator
<1>3. CASE /\ CoordinatorGoes("return")
           /\ application' = [status |-> "completed", receipts |-> coordinator.had]
  <2>1. coordinator' \in Coordinator /\ coordinator'.pc = "return"
    BY <1>3, CoordinatorMoves DEF ManagedInv, CoordinatorStep
  <2>2. application' \in [status : {"completed"}, receipts : SUBSET Bundle]
    BY <1>1, <1>3
  <2>3. QED BY <1>1, <1>3, <2>1, <2>2
            DEF ManagedInv, ManagedTypeOK, Coordinator, CoordinatorInOrder, Forward, Backward,
                ManifestEnds, CompensationEnds, ManifestIsWhole, RecordedIsUndone,
                CompletedIsReleased, Holds
<1>4. QED BY <1>2, <1>3 DEF Finish, PutStatus

LEMMA CompensateStep == ASSUME ManagedInv, Compensate PROVE ManagedInv'
<1>1. /\ coordinator.pc = "compensate" /\ UNCHANGED <<heads, active, applied>>
      /\ heads \in [Bundle -> HeadState] /\ coordinator.had \in SUBSET Bundle
  BY DEF Compensate, CoordinatorAt, bare, ManagedInv, ManagedTypeOK
<1>2. CASE Raise /\ UNCHANGED application
  BY <1>1, <1>2, GivesUp DEF Raise
<1>3. CASE /\ TurnTo("undo", BundleSize)
           /\ application' = [status |-> "compensating", receipts |-> coordinator.had]
  <2>1. /\ coordinator' \in Coordinator /\ coordinator'.pc = "undo"
        /\ coordinator'.at = BundleSize /\ coordinator'.had = coordinator.had
    BY <1>3, CoordinatorMoves, ManagedConstants DEF ManagedInv, CoordinatorStep
  <2>2. \A r \in coordinator.had : ~(BundleSize < r)
    <3>1. \A r \in Bundle : ~(BundleSize < r)
      BY BundleAssumption DEF Bundle
    <3>2. QED BY <1>1, <3>1
  <2>3. CoordinatorInOrder'
    BY <2>1, <2>2 DEF CoordinatorInOrder, Forward, Backward
  <2>4. QED BY <1>1, <1>3, <2>1, <2>3, CoordinatorAtWork, Working
<1>4. QED BY <1>2, <1>3 DEF Compensate, PutStatus

(* The repository before: the coordinator has left one behind that does not hold
   the candidate, or has no receipt. *)
LEMMA PreviousRepositoryStep ==
    ASSUME ManagedInv, coordinator.pc \in {"undo", "restored"},
           coordinator.at \in coordinator.had => ~Holds(coordinator.at),
           PreviousRepository, UNCHANGED <<heads, application, active, applied>>
    PROVE  ManagedInv'
<1>1. /\ coordinator.at \in Bundle /\ coordinator.had \in SUBSET Bundle
      /\ \A r \in coordinator.had : coordinator.at < r => ~Holds(r)
      /\ heads \in [Bundle -> HeadState]
  BY DEF ManagedInv, ManagedTypeOK, CoordinatorInOrder, Backward
<1>2. coordinator.at \in coordinator.had => ~Holds(coordinator.at)
  OBVIOUS
<1>3. /\ coordinator' \in Coordinator /\ coordinator'.had = coordinator.had
      /\ IF coordinator.at = 1 THEN coordinator'.pc = "undone"
         ELSE coordinator'.pc = "undo" /\ coordinator'.at = coordinator.at - 1
  <2>1. CASE coordinator.at = 1
    BY <2>1, CoordinatorMoves DEF PreviousRepository, ManagedInv, CoordinatorStep
  <2>2. CASE coordinator.at # 1
    <3>1. coordinator.at - 1 \in Bundle
      BY <1>1, <2>2, BundleAssumption DEF Bundle
    <3>2. QED BY <2>2, <3>1, CoordinatorMoves DEF PreviousRepository, ManagedInv, CoordinatorStep
  <2>3. QED BY <2>1, <2>2
<1>4. CoordinatorInOrder'
  <2>1. CASE coordinator.at = 1
    <3>1. \A r \in coordinator.had : ~Holds(r)
      BY <1>1, <1>2, <2>1, Places
    <3>2. QED BY <1>3, <2>1, <3>1 DEF CoordinatorInOrder, Forward, Backward, Holds
  <2>2. CASE coordinator.at # 1
    <3>1. \A r \in coordinator.had : coordinator.at - 1 < r => ~Holds(r)
      BY <1>1, <1>2, Places
    <3>2. QED BY <1>3, <2>2, <3>1 DEF CoordinatorInOrder, Forward, Backward, Holds
  <2>3. QED BY <2>1, <2>2
<1>5. ~active /\ application.status # "compensated" /\ coordinator'.pc \notin {"finish", "return"}
  BY <1>3, CoordinatorAtWork
<1>6. QED BY <1>1, <1>3, <1>4, <1>5, ApplicationTyped, Working

LEMMA UndoStep == ASSUME ManagedInv, Undo PROVE ManagedInv'
<1> DEFINE r == coordinator.at
<1>1. /\ coordinator.pc = "undo" /\ r \in Bundle /\ UNCHANGED <<application, active, applied>>
      /\ heads \in [Bundle -> HeadState] /\ coordinator.had \in SUBSET Bundle
  BY DEF Undo, CoordinatorAt, managedRows, ManagedInv, ManagedTypeOK
<1>2. CASE (r \notin coordinator.had \/ heads[r] = "base") /\ PreviousRepository /\ UNCHANGED heads
  BY <1>1, <1>2, PreviousRepositoryStep DEF Holds
<1>3. CASE CoordinatorGoes("attention") /\ UNCHANGED heads
  BY <1>1, <1>3, GivesUp
<1>4. CASE heads' = [heads EXCEPT ![r] = "base"] /\ CoordinatorGoes("restored")
  <2>1. /\ coordinator' \in Coordinator /\ coordinator'.pc = "restored"
        /\ coordinator'.at = r /\ coordinator'.had = coordinator.had
    BY <1>4, CoordinatorMoves DEF ManagedInv, CoordinatorStep
  <2>2. /\ heads' \in [Bundle -> HeadState] /\ heads'[r] = "base"
        /\ \A q \in Bundle \ {r} : heads'[q] = heads[q]
    BY <1>1, <1>4 DEF HeadState
  <2>3. \A q \in coordinator.had : r < q => heads'[q] \notin {"candidate", "atop"}
    BY <1>1, <2>2 DEF ManagedInv, CoordinatorInOrder, Backward, Holds
  <2>4. CoordinatorInOrder'
    BY <2>1, <2>2, <2>3 DEF CoordinatorInOrder, Forward, Backward, Holds
  <2>5. QED BY <1>1, <2>1, <2>2, <2>4, CoordinatorAtWork, ApplicationTyped, Working
<1>5. QED BY <1>2, <1>3, <1>4 DEF Undo

LEMMA RestoredStep == ASSUME ManagedInv, Restored PROVE ManagedInv'
<1>1. coordinator.pc = "restored" /\ UNCHANGED <<heads, application, active, applied>>
  BY DEF Restored, CoordinatorAt, bare, managedRows
<1>2. CASE CoordinatorGoes("attention")
  BY <1>1, <1>2, GivesUp
<1>3. CASE heads[coordinator.at] = "base" /\ PreviousRepository
  BY <1>1, <1>3, PreviousRepositoryStep DEF Holds
<1>4. QED BY <1>2, <1>3 DEF Restored

LEMMA CloseApplicationStep == ASSUME ManagedInv, CloseApplication PROVE ManagedInv'
<1>1. /\ coordinator.pc \in {"undone", "attention"} /\ UNCHANGED <<heads, active, applied>> /\ Raise
      /\ coordinator.had \in SUBSET Bundle
  BY DEF CloseApplication, CoordinatorAt, bare, PutStatus, ManagedInv, ManagedTypeOK
<1>2. coordinator' \in Coordinator /\ coordinator'.pc = "over" /\ ~active
  BY <1>1, CoordinatorMoves, CoordinatorAtWork DEF ManagedInv, CoordinatorStep, Raise
<1>3. CASE UNCHANGED application
  BY <1>1, <1>2, <1>3, QuietCoordinator
<1>4. CASE application' = [status |-> "needs_attention", receipts |-> coordinator.had]
  BY <1>1, <1>2, <1>4, QuietCoordinator
<1>5. CASE /\ coordinator.pc = "undone"
           /\ application' = [status |-> "compensated", receipts |-> coordinator.had]
  <2>1. \A r \in coordinator.had : ~Holds(r)
    BY <1>5 DEF ManagedInv, CoordinatorInOrder
  <2>2. QED BY <1>1, <1>2, <1>5, <2>1
            DEF ManagedInv, ManagedTypeOK, Coordinator, CoordinatorInOrder, Forward, Backward,
                ManifestEnds, CompensationEnds, ManifestIsWhole, RecordedIsUndone,
                CompletedIsReleased, Holds
<1>6. QED BY <1>3, <1>4, <1>5 DEF CloseApplication, CoordinatorAt, PutStatus

LEMMA ReturnStep == ASSUME ManagedInv, Return PROVE ManagedInv'
<1>1. /\ coordinator.pc = "return" /\ UNCHANGED <<heads, application, active>> /\ active
      /\ applied' = "completed"
  BY DEF Return, CoordinatorAt, bare, ManagedInv, ManifestEnds
<1>2. coordinator' \in Coordinator /\ coordinator'.pc = "over"
  BY CoordinatorMoves DEF Return, ManagedInv, CoordinatorStep
<1>3. QED BY <1>1, <1>2
          DEF ManagedInv, ManagedTypeOK, Coordinator, CoordinatorInOrder, Forward, Backward,
              ManifestEnds, CompensationEnds, ManifestIsWhole, RecordedIsUndone,
              CompletedIsReleased, Holds

(* A push by somebody else takes the candidate from no main, and puts it on none. *)
LEMMA SomebodyStep ==
    ASSUME ManagedInv, NEW r \in Bundle, Somebody(r)
    PROVE  ManagedInv'
<1>1. /\ UNCHANGED <<coordinator, application, active, applied>>
      /\ heads' \in [Bundle -> HeadState]
      /\ \A q \in Bundle : heads'[q] \in {"candidate", "atop"} <=> Holds(q)
  BY DEF Somebody, managedRows, ManagedInv, ManagedTypeOK, HeadState, Holds
<1>2. coordinator.at \in Bundle /\ coordinator.had \in SUBSET Bundle
      /\ application.receipts \in SUBSET Bundle
  BY DEF ManagedInv, ManagedTypeOK
<1>3. CoordinatorInOrder'
  BY <1>1, <1>2 DEF ManagedInv, CoordinatorInOrder, Holds
<1>4. ManifestIsWhole' /\ RecordedIsUndone'
  BY <1>1, <1>2 DEF ManagedInv, ManifestIsWhole, RecordedIsUndone, Holds
<1>5. QED BY <1>1, <1>3, <1>4
          DEF ManagedInv, ManagedTypeOK, ManifestEnds, CompensationEnds, CompletedIsReleased

LEMMA ManagedStep == ManagedInv /\ [ManagedNext]_managedVars => ManagedInv'
<1> SUFFICES ASSUME ManagedInv, [ManagedNext]_managedVars PROVE ManagedInv'
  OBVIOUS
<1>1. CASE CallApply \/ ApplyNext \/ ReadHeadBack \/ Record \/ ActivateManifest \/ Finish
  BY <1>1, CallApplyStep, ApplyNextStep, ReadHeadBackStep, RecordStep, ActivateStep, FinishStep
<1>2. CASE Compensate \/ Undo \/ Restored \/ CloseApplication \/ Return
  BY <1>2, CompensateStep, UndoStep, RestoredStep, CloseApplicationStep, ReturnStep
<1>3. CASE \E r \in Bundle : Somebody(r)
  BY <1>3, SomebodyStep
<1>4. CASE RestartCoordinator
  BY <1>4, ManagedConstants, QuietCoordinator DEF RestartCoordinator, bare, managedRows
<1>5. CASE UNCHANGED managedVars
  BY <1>5 DEF managedVars, bare, managedRows, ManagedInv, ManagedTypeOK, CoordinatorInOrder,
              ManifestEnds, CompensationEnds, ManifestIsWhole, RecordedIsUndone,
              CompletedIsReleased, Holds
<1>6. QED BY <1>1, <1>2, <1>3, <1>4, <1>5 DEF ManagedNext

LEMMA ManagedInductive == ManagedSpec => []ManagedInv
BY ManagedInitially, ManagedStep, PTL DEF ManagedSpec

(* Mains, attempt, manifest, delivery and coordinator hold values the code can
   write. *)
THEOREM ManagedTypeCorrect == ManagedSpec => []ManagedTypeOK
<1>1. ManagedInv => ManagedTypeOK
  BY DEF ManagedInv
<1>2. QED BY <1>1, ManagedInductive, PTL

(* A managed release is whole or undone as far as its receipts go, and moves no
   main that somebody else has moved: for any number of repositories, faults,
   restarts and pushes. *)
THEOREM ManagedReleaseCompensates == ManagedSpec => ReleaseCompensates
<1>1. ManagedInv => ManifestIsWhole /\ RecordedIsUndone /\ CompletedIsReleased
  BY DEF ManagedInv
<1>2. ManagedInv /\ [ManagedNext]_managedVars =>
        [\A r \in Bundle : heads[r] \in {"beside", "atop"} => heads'[r] = heads[r]]_heads
  <2> SUFFICES ASSUME ManagedInv, [ManagedNext]_managedVars, heads' # heads,
                      NEW r \in Bundle, heads[r] \in {"beside", "atop"}
               PROVE  heads'[r] = heads[r]
    OBVIOUS
  <2>1. heads \in [Bundle -> HeadState] /\ coordinator.at \in Bundle
    BY DEF ManagedInv, ManagedTypeOK
  <2>2. CASE ApplyNext \/ Undo
    BY <2>1, <2>2 DEF ApplyNext, Undo, IsReleased
  <2>3. CASE \E q \in Bundle : Somebody(q)
    BY <2>1, <2>3 DEF Somebody
  <2>4. QED BY <2>2, <2>3
            DEF ManagedNext, managedVars, bare, managedRows, CallApply, ReadHeadBack, Record,
                ActivateManifest, Finish, Compensate, Restored, CloseApplication, Return,
                RestartCoordinator
<1>3. QED BY <1>1, <1>2, ManagedInductive, PTL DEF ManagedSpec, ReleaseCompensates, OthersCommitsStay
=============================================================================
