-------------------------- MODULE CandidateProofs --------------------------
(***************************************************************************)
(* The candidate of a code workcell.                                       *)
(*                                                                         *)
(* Its machine verification, for any set of workcells with any packages    *)
(* between them, profiles of any length, and any number of cancellations   *)
(* and changes of the tools: nothing of a process group outlives its call, *)
(* and what passed was verified against what was reviewed.                 *)
(*                                                                         *)
(* Its workspaces, for any Reviewers, any capacity and any number of       *)
(* iterations, revisions and faults: the overlay is there exactly as long  *)
(* as somebody works with it, and what is judged is the frozen candidate.  *)
(*                                                                         *)
(* The deliveries of a workspace that run without a pipeline, any number   *)
(* of them with any number of tasks, restarts and pushes: main takes a     *)
(* candidate as it was reviewed.                                           *)
(***************************************************************************)
EXTENDS MachineVerification, WriterWorkspace, LinearDelivery,
        SequenceTheorems, FiniteSetTheorems, TLAPS

-----------------------------------------------------------------------------
(* Machine verification. *)

(* A profile asks for packages of workcells of the delivery. *)
SourcesAreWorkcells == \A w \in Workcell : Sources[w] \subseteq Workcell

RunRecord ==
    [status : {"running", "verified", "succeeded", "failed", "raised", "cancelled"},
     verification : {"none", "passed", "failed"}, inputs : SUBSET (Workcell \X Nat)]
CallRecord ==
    [of : Workcell \cup {"none"},
     pc : {"idle", "prepare", "spawn", "communicate", "finish", "cleaning"},
     step : Nat, why : {"none", "passed", "failed", "timeout", "cancelled"}]
GroupRecord ==
    [main : {"none", "starting", "running", "passed", "failed", "unspawned"},
     child : {"none", "quiet", "holds"}]

Typed ==
    /\ runs \in [Workcell -> Seq(RunRecord)]
    /\ call \in CallRecord /\ group \in GroupRecord
    /\ reaper \in {"none", "spawning", "term", "wait", "done", "failed"}
    /\ root \in BOOLEAN /\ asked \in Nat

(* The call and its group: what each await of the call may find. *)
CallInOrder ==
    /\ call.pc = "idle" <=> call = NoCall
    /\ call # NoCall => W \in Workcell /\ runs[W] # <<>> /\ Current.status = "running"
    /\ root <=> call.pc \notin {"idle", "prepare"} /\ W \in Fullstack

GroupInOrder ==
    /\ group.main \in {"starting", "unspawned"} => group.child = "none"
    /\ call.pc \in {"idle", "prepare"} => ~Alive
    /\ call.pc \in {"spawn", "communicate"} <=>
         call # NoCall /\ reaper = "none" /\ call.pc # "prepare"
    /\ call.pc \in {"idle", "prepare"} => reaper = "none"
    /\ call.pc = "communicate" => group.main # "starting"
    /\ group.main = "starting" => call.pc = "spawn" \/ reaper = "spawning"
    /\ reaper \in {"done", "failed"} => ~Alive
    /\ reaper \in {"spawning", "failed"} => call.pc = "cleaning"

(* Of each source of w one package, of a run that succeeded. *)
OnePackageEach(rs, w, packages) ==
    \A s \in Sources[w] : \E i \in DOMAIN rs[s] :
        /\ packages \cap ({s} \X Nat) = {<<s, i>>}
        /\ rs[s][i].status = "succeeded"

(* A call that has left its preparation works with one package of each source, and
   who passed had done so. *)
PackagesInOrder ==
    /\ call.pc \notin {"idle", "prepare"} /\ W \in Fullstack =>
         OnePackageEach(runs, W, Current.inputs)
    /\ \A w \in Workcell \cap Fullstack : \A k \in DOMAIN runs[w] :
         runs[w][k].verification = "passed" => OnePackageEach(runs, w, runs[w][k].inputs)

AskedInOrder == asked > 0 => call.pc \in {"idle", "cleaning"}

(* The inductive invariant. *)
Inv == Typed /\ CallInOrder /\ GroupInOrder /\ PackagesInOrder /\ AskedInOrder

-----------------------------------------------------------------------------
(* How the runs change: what has succeeded stays, where it is. *)

Stays(rs, new) ==
    \A s \in Workcell : \A i \in DOMAIN rs[s] :
        i \in DOMAIN new[s] /\ (rs[s][i].status = "succeeded" => new[s][i].status = "succeeded")

LEMMA PackagesStay ==
    ASSUME SourcesAreWorkcells, NEW rs, NEW new, Stays(rs, new), NEW w \in Workcell, NEW packages,
           OnePackageEach(rs, w, packages)
    PROVE  OnePackageEach(new, w, packages)
BY DEF OnePackageEach, Stays, SourcesAreWorkcells

(* The newest run of a workcell takes another value. *)
LEMMA RunReplaced ==
    ASSUME Typed, NEW w \in Workcell, runs[w] # <<>>, NEW run \in RunRecord,
           runs' = [runs EXCEPT ![w] = ReplaceAt(@, Len(@), run)]
    PROVE  /\ runs' \in [Workcell -> Seq(RunRecord)]
           /\ Len(runs[w]) \in DOMAIN runs[w] /\ DOMAIN runs'[w] = DOMAIN runs[w]
           /\ Len(runs'[w]) = Len(runs[w]) /\ runs'[w] # <<>> /\ Last(runs'[w]) = run
           /\ \A i \in DOMAIN runs[w] : i # Len(runs[w]) => runs'[w][i] = runs[w][i]
           /\ \A v \in Workcell \ {w} : runs'[v] = runs[v]
<1>1. runs[w] \in Seq(RunRecord) /\ Len(runs[w]) \in Nat /\ Len(runs[w]) \in 1..Len(runs[w])
  BY DEF Typed
<1>2. runs'[w] = [runs[w] EXCEPT ![Len(runs[w])] = run]
  BY DEF Typed, ReplaceAt
<1>3. runs'[w] \in Seq(RunRecord) /\ Len(runs'[w]) = Len(runs[w])
  BY <1>1, <1>2, ExceptSeq
<1>4. runs' \in [Workcell -> Seq(RunRecord)]
  BY <1>3 DEF Typed
<1>5. runs'[w] # <<>> /\ Last(runs'[w]) = run
  BY <1>1, <1>2, <1>3 DEF Last
<1>6. QED BY <1>1, <1>2, <1>3, <1>4, <1>5 DEF Typed

LEMMA LastRun ==
    ASSUME Typed, NEW w \in Workcell, runs[w] # <<>>
    PROVE  Last(runs[w]) \in RunRecord
BY DEF Typed, Last

(* A run that has not succeeded takes another value, with packages of its sources
   if it passes. *)
LEMMA ReplacingKeepsPackages ==
    ASSUME SourcesAreWorkcells, Inv, NEW w \in Workcell, runs[w] # <<>>, NEW run \in RunRecord,
           Last(runs[w]).status # "succeeded",
           runs' = [runs EXCEPT ![w] = ReplaceAt(@, Len(@), run)],
           w \in Fullstack /\ run.verification = "passed" => OnePackageEach(runs, w, run.inputs)
    PROVE  /\ Stays(runs, runs')
           /\ \A v \in Workcell \cap Fullstack : \A k \in DOMAIN runs'[v] :
                runs'[v][k].verification = "passed" => OnePackageEach(runs', v, runs'[v][k].inputs)
<1>1. /\ DOMAIN runs'[w] = DOMAIN runs[w] /\ Last(runs'[w]) = run
      /\ Len(runs'[w]) = Len(runs[w])
      /\ \A i \in DOMAIN runs[w] : i # Len(runs[w]) => runs'[w][i] = runs[w][i]
      /\ \A v \in Workcell \ {w} : runs'[v] = runs[v]
  BY RunReplaced DEF Inv
<1>2. Stays(runs, runs')
  BY <1>1 DEF Stays, Last
<1>3. ASSUME NEW v \in Workcell \cap Fullstack, NEW k \in DOMAIN runs'[v],
             runs'[v][k].verification = "passed"
      PROVE  OnePackageEach(runs', v, runs'[v][k].inputs)
  <2>1. CASE v = w /\ k = Len(runs[w])
    <3>1. runs'[v][k] = run
      BY <1>1, <2>1 DEF Last
    <3>2. OnePackageEach(runs, w, run.inputs)
      BY <1>3, <2>1, <3>1
    <3>3. QED BY <1>2, <2>1, <3>1, <3>2, PackagesStay
  <2>2. CASE v # w \/ k # Len(runs[w])
    <3>1. k \in DOMAIN runs[v] /\ runs'[v][k] = runs[v][k]
      BY <1>1, <1>3, <2>2
    <3>2. OnePackageEach(runs, v, runs[v][k].inputs)
      BY <1>3, <3>1 DEF Inv, PackagesInOrder
    <3>3. QED BY <1>2, <3>1, <3>2, PackagesStay
  <2>3. QED BY <2>1, <2>2
<1>4. QED BY <1>2, <1>3

(* The current run takes another value. *)
LEMMA CurrentReplaced ==
    ASSUME SourcesAreWorkcells, Inv, call # NoCall, NEW run \in RunRecord, Sets(run),
           W \in Fullstack /\ run.verification = "passed" => OnePackageEach(runs, W, run.inputs)
    PROVE  /\ runs' \in [Workcell -> Seq(RunRecord)] /\ Stays(runs, runs')
           /\ W \in Workcell /\ runs'[W] # <<>> /\ Last(runs'[W]) = run
           /\ \A v \in Workcell \cap Fullstack : \A k \in DOMAIN runs'[v] :
                runs'[v][k].verification = "passed" => OnePackageEach(runs', v, runs'[v][k].inputs)
<1>1. /\ W \in Workcell /\ runs[W] # <<>> /\ Last(runs[W]).status # "succeeded"
      /\ runs' = [runs EXCEPT ![W] = ReplaceAt(@, Len(@), run)]
  BY DEF Inv, CallInOrder, Current, Sets
<1>2. QED BY <1>1, RunReplaced, ReplacingKeepsPackages DEF Inv

LEMMA CurrentRun ==
    ASSUME Inv, call # NoCall
    PROVE  /\ Current \in RunRecord /\ Current.status = "running" /\ W \in Workcell
           /\ runs[W] # <<>>
BY LastRun DEF Inv, CallInOrder, Current

-----------------------------------------------------------------------------
(* The steps. *)

LEMMA BeginKeeps ==
    ASSUME SourcesAreWorkcells, Inv, NEW w \in Workcell, Begin(w)
    PROVE  Inv'
<1>1. /\ call' = [of |-> w, pc |-> "prepare", step |-> 0, why |-> "none"]
      /\ runs' = [runs EXCEPT ![w] = Append(@, NewRun)] /\ NewRun \in RunRecord
      /\ UNCHANGED <<group, reaper, root, asked>> /\ call = NoCall /\ asked = 0
  BY DEF Begin, NoCall, NewRun, RunRecord
<1>2. /\ runs[w] \in Seq(RunRecord) /\ Len(runs[w]) \in Nat
      /\ DOMAIN runs[w] = 1..Len(runs[w])
  BY DEF Inv, Typed
<1>3. /\ runs'[w] = Append(runs[w], NewRun) /\ runs'[w] \in Seq(RunRecord)
      /\ Len(runs'[w]) = Len(runs[w]) + 1 /\ DOMAIN runs'[w] = 1..(Len(runs[w]) + 1)
      /\ runs'[w][Len(runs[w]) + 1] = NewRun
      /\ \A i \in DOMAIN runs[w] : runs'[w][i] = runs[w][i]
      /\ \A v \in Workcell \ {w} : runs'[v] = runs[v]
  BY <1>1, <1>2 DEF Inv, Typed
<1>4. runs' \in [Workcell -> Seq(RunRecord)]
  BY <1>1, <1>3 DEF Inv, Typed
<1>5. Stays(runs, runs')
  BY <1>2, <1>3 DEF Stays
<1>6. call' \in CallRecord /\ call' # NoCall /\ call'.of = w
  BY <1>1 DEF CallRecord, NoCall
<1>7. Last(runs'[w]) = NewRun /\ runs'[w] # <<>>
  BY <1>2, <1>3 DEF Last
<1>8. Typed'
  BY <1>1, <1>4, <1>6 DEF Inv, Typed
<1>9. root = FALSE /\ reaper = "none" /\ ~Alive
  BY <1>1 DEF Inv, CallInOrder, GroupInOrder, NoCall
<1>10. CallInOrder'
  BY <1>1, <1>6, <1>7, <1>9 DEF CallInOrder, Current, NewRun, W
<1>11. GroupInOrder'
  BY <1>1, <1>9 DEF Inv, GroupInOrder, Alive
<1>12. ASSUME NEW v \in Workcell \cap Fullstack, NEW k \in DOMAIN runs'[v],
              runs'[v][k].verification = "passed"
       PROVE  OnePackageEach(runs', v, runs'[v][k].inputs)
  <2>1. k \in DOMAIN runs[v] /\ runs'[v][k] = runs[v][k]
    BY <1>2, <1>3, <1>12 DEF NewRun
  <2>2. OnePackageEach(runs, v, runs[v][k].inputs)
    BY <1>12, <2>1 DEF Inv, PackagesInOrder
  <2>3. QED BY <1>5, <2>1, <2>2, PackagesStay
<1>13. PackagesInOrder'
  BY <1>1, <1>12 DEF PackagesInOrder
<1>14. AskedInOrder'
  BY <1>1 DEF AskedInOrder
<1>15. QED BY <1>8, <1>10, <1>11, <1>13, <1>14 DEF Inv

(* The call ends with a verdict; nothing of its group is alive. *)
LEMMA EndsKeeps ==
    ASSUME SourcesAreWorkcells, Inv, call # NoCall, ~Alive, UNCHANGED <<group, asked>>,
           NEW status \in {"verified", "failed", "raised", "cancelled"},
           NEW verification \in {"none", "passed", "failed"}, Ends(status, verification),
           verification = "passed" => call.pc # "prepare"
    PROVE  Inv'
<1> DEFINE run == [Current EXCEPT !.status = status, !.verification = verification]
<1>1. Current \in RunRecord /\ W \in Workcell
  BY CurrentRun
<1>2. run \in RunRecord /\ run.verification = verification /\ run.inputs = Current.inputs
  BY <1>1 DEF RunRecord
<1>3. Sets(run) /\ call' = NoCall /\ root' = FALSE /\ reaper' = "none"
  BY DEF Ends
<1>4. W \in Fullstack /\ run.verification = "passed" => OnePackageEach(runs, W, run.inputs)
  BY <1>2 DEF Inv, PackagesInOrder, CallInOrder
<1> HIDE DEF run
<1>5. /\ runs' \in [Workcell -> Seq(RunRecord)]
      /\ \A v \in Workcell \cap Fullstack : \A k \in DOMAIN runs'[v] :
           runs'[v][k].verification = "passed" => OnePackageEach(runs', v, runs'[v][k].inputs)
  BY <1>2, <1>3, <1>4, CurrentReplaced
<1>6. Typed'
  BY <1>3, <1>5 DEF Inv, Typed, NoCall, CallRecord
<1>7. CallInOrder' /\ AskedInOrder'
  BY <1>3 DEF CallInOrder, AskedInOrder, NoCall
<1>8. GroupInOrder'
  BY <1>3 DEF Inv, GroupInOrder, NoCall, Alive
<1>9. PackagesInOrder'
  BY <1>3, <1>5 DEF PackagesInOrder, NoCall
<1>10. QED BY <1>6, <1>7, <1>8, <1>9 DEF Inv

(* The call goes on at another place. *)
LEMMA CallMoves ==
    ASSUME Inv, UNCHANGED <<runs, root>>,
           call' = call \/ (/\ call' \in CallRecord /\ call'.of = call.of
                            /\ call.pc \notin {"idle", "prepare"}
                            /\ call'.pc \notin {"idle", "prepare"})
    PROVE  CallInOrder' /\ PackagesInOrder'
<1>1. CASE call' = call
  BY <1>1 DEF Inv, CallInOrder, PackagesInOrder, W, Current
<1>2. CASE call' # call
  <2>1. call # NoCall /\ call' # NoCall
    BY <1>2 DEF Inv, CallInOrder, NoCall
  <2>2. CallInOrder'
    BY <1>2, <2>1 DEF Inv, CallInOrder, W, Current
  <2>3. PackagesInOrder'
    BY <1>2 DEF Inv, PackagesInOrder, W, Current
  <2>4. QED BY <2>2, <2>3
<1>3. QED BY <1>1, <1>2

(* One package of each source, of runs that have succeeded, was laid out. *)
LEMMA AdmittedPackages ==
    ASSUME SourcesAreWorkcells, Inv, NEW w \in Workcell
    PROVE  /\ Packages(w) \in SUBSET (Workcell \X Nat)
           /\ Admitted(w, Packages(w)) => OnePackageEach(runs, w, Packages(w))
<1>1. \A s \in Workcell : Published(s) \subseteq DOMAIN runs[s] /\ DOMAIN runs[s] \subseteq Nat
  BY DEF Published, Inv, Typed
<1>2. \A p \in Packages(w) : p \in Workcell \X Nat /\ p[2] \in Published(p[1])
  BY <1>1 DEF Packages, SourcesAreWorkcells
<1>3. ASSUME Admitted(w, Packages(w)), NEW s \in Sources[w]
      PROVE  \E i \in DOMAIN runs[s] :
                /\ Packages(w) \cap ({s} \X Nat) = {<<s, i>>}
                /\ runs[s][i].status = "succeeded"
  <2>1. PICK p \in Packages(w) : Packages(w) \cap ({s} \X Nat) = {p}
    BY <1>3 DEF Admitted
  <2>2. p = <<s, p[2]>>
    BY <2>1
  <2>3. p[2] \in Published(s)
    BY <1>2, <2>1, <2>2
  <2>4. QED BY <2>1, <2>2, <2>3 DEF Published
<1>4. QED BY <1>2, <1>3 DEF OnePackageEach

(* A command is started. *)
LEMMA CommandStarts ==
    ASSUME call \in CallRecord, NEW step \in Nat, StartsCommand(step)
    PROVE  /\ call' \in CallRecord /\ call'.of = call.of /\ call'.pc = "spawn"
           /\ call' # NoCall
           /\ group' \in GroupRecord /\ group'.child = "none"
<1>1. /\ call' = [call EXCEPT !.pc = "spawn", !.step = step]
      /\ group' = [main |-> "starting", child |-> "none"]
  BY DEF StartsCommand
<1>2. call' \in CallRecord /\ call'.of = call.of /\ call'.pc = "spawn"
  BY <1>1 DEF CallRecord
<1>3. group' \in GroupRecord /\ group'.child = "none"
  BY <1>1 DEF GroupRecord
<1>4. NoCall.pc = "idle"
  BY DEF NoCall
<1>5. QED BY <1>2, <1>3, <1>4

LEMMA PrepareKeeps == ASSUME SourcesAreWorkcells, Inv, Prepare PROVE Inv'
<1>1. /\ call.pc = "prepare" /\ call # NoCall /\ W \in Workcell /\ ~Alive /\ reaper = "none"
      /\ UNCHANGED <<tools, asked>>
  BY DEF Prepare, Inv, CallInOrder, GroupInOrder
<1>2. CASE Ends("raised", "none") /\ UNCHANGED group
  BY <1>1, <1>2, EndsKeeps
<1>3. CASE /\ W \in Fullstack => Admitted(W, Packages(W))
           /\ StartsCommand(1)
           /\ root' = (W \in Fullstack)
           /\ Sets([Current EXCEPT !.inputs = IF W \in Fullstack THEN Packages(W) ELSE {}])
           /\ UNCHANGED reaper
  <2> DEFINE run == [Current EXCEPT !.inputs = IF W \in Fullstack THEN Packages(W) ELSE {}]
  <2>1. Current \in RunRecord /\ Current.status = "running"
    BY <1>1, CurrentRun
  <2>2. Packages(W) \in SUBSET (Workcell \X Nat)
        /\ (Admitted(W, Packages(W)) => OnePackageEach(runs, W, Packages(W)))
    BY <1>1, AdmittedPackages
  <2>3. /\ run \in RunRecord /\ run.status = "running"
        /\ run.verification = Current.verification
        /\ run.inputs = IF W \in Fullstack THEN Packages(W) ELSE {}
    BY <2>1, <2>2 DEF RunRecord
  <2>4. W \in Fullstack => OnePackageEach(runs, W, run.inputs)
    BY <1>3, <2>2, <2>3
  <2>5. Sets(run)
    BY <1>3
  <2> HIDE DEF run
  <2>6. /\ runs' \in [Workcell -> Seq(RunRecord)] /\ Stays(runs, runs')
        /\ runs'[W] # <<>> /\ Last(runs'[W]) = run
        /\ \A v \in Workcell \cap Fullstack : \A k \in DOMAIN runs'[v] :
             runs'[v][k].verification = "passed" => OnePackageEach(runs', v, runs'[v][k].inputs)
    BY <1>1, <2>3, <2>4, <2>5, CurrentReplaced
  <2>7. /\ call' \in CallRecord /\ call'.of = call.of /\ call'.pc = "spawn" /\ call' # NoCall
        /\ group' \in GroupRecord /\ group'.child = "none"
    BY <1>3, CommandStarts DEF Inv, Typed
  <2>8. call'.of = W /\ root' \in BOOLEAN
    BY <1>3, <2>7 DEF W
  <2>9. Typed'
    BY <1>1, <1>3, <2>6, <2>7, <2>8 DEF Inv, Typed
  <2>10. CallInOrder'
    BY <1>1, <1>3, <2>3, <2>6, <2>7, <2>8 DEF CallInOrder, W, Current
  <2>11. GroupInOrder'
    BY <1>1, <1>3, <2>7, <2>8 DEF GroupInOrder
  <2>12. OnePackageEach(runs', W, run.inputs) \/ W \notin Fullstack
    BY <1>1, <2>4, <2>6, PackagesStay
  <2>13. PackagesInOrder'
    BY <2>6, <2>7, <2>8, <2>12 DEF PackagesInOrder, W, Current
  <2>14. AskedInOrder'
    BY <1>1 DEF Inv, AskedInOrder
  <2>15. QED BY <2>9, <2>10, <2>11, <2>13, <2>14 DEF Inv
<1>4. QED BY <1>2, <1>3 DEF Prepare

(* The awaits of a call: it goes on reading, waits for its reaper, or is over. *)
LEMMA SpawnedKeeps == ASSUME SourcesAreWorkcells, Inv, Spawned PROVE Inv'
<1>1. /\ call.pc = "spawn" /\ call # NoCall /\ UNCHANGED <<group, tools, asked>>
      /\ reaper = "none"
  BY DEF Spawned, Inv, CallInOrder, GroupInOrder, NoCall
<1>2. CASE group.main = "unspawned" /\ Ends("raised", "none")
  <2>1. ~Alive
    BY <1>2 DEF Inv, GroupInOrder, Alive
  <2>2. QED BY <1>1, <1>2, <2>1, EndsKeeps
<1>3. CASE /\ group.main \in {"running", "passed", "failed"}
           /\ Calls("communicate") /\ UNCHANGED <<runs, reaper, root>>
  <2>1. call' \in CallRecord /\ call'.of = call.of /\ call'.pc = "communicate"
    BY <1>3 DEF Calls, Inv, Typed, CallRecord
  <2>2. CallInOrder' /\ PackagesInOrder'
    BY <1>1, <1>3, <2>1, CallMoves
  <2>3. Typed' /\ AskedInOrder'
    BY <1>1, <1>3, <2>1 DEF Inv, Typed, AskedInOrder
  <2>4. GroupInOrder'
    BY <1>1, <1>3, <2>1 DEF Inv, GroupInOrder, NoCall, Alive
  <2>5. QED BY <2>2, <2>3, <2>4 DEF Inv
<1>4. QED BY <1>2, <1>3 DEF Spawned

LEMMA ReadKeeps == ASSUME SourcesAreWorkcells, Inv, Communicated \/ TimesOut PROVE Inv'
<1>1. /\ call.pc = "communicate" /\ reaper' = "term"
      /\ UNCHANGED <<runs, group, root, tools, asked>>
  BY DEF Communicated, TimesOut
<1>2. /\ call' \in CallRecord /\ call'.of = call.of /\ call'.pc \in {"finish", "cleaning"}
  BY DEF Communicated, TimesOut, Inv, Typed, CallRecord
<1>3. group.main # "starting" /\ asked = 0
  BY <1>1 DEF Inv, GroupInOrder, AskedInOrder, Typed
<1>4. CallInOrder' /\ PackagesInOrder'
  BY <1>1, <1>2, CallMoves
<1>5. Typed' /\ AskedInOrder'
  BY <1>1, <1>2, <1>3 DEF Inv, Typed, AskedInOrder
<1>6. GroupInOrder'
  BY <1>1, <1>2, <1>3 DEF Inv, GroupInOrder, NoCall, Alive
<1>7. QED BY <1>4, <1>5, <1>6 DEF Inv

LEMMA CancelKeeps == ASSUME SourcesAreWorkcells, Inv, Cancel PROVE Inv'
<1>1. /\ call.pc \in {"spawn", "communicate", "finish", "cleaning"} /\ asked' = asked + 1
      /\ call' = IF call.pc = "cleaning" THEN call
                 ELSE [call EXCEPT !.pc = "cleaning", !.why = "cancelled"]
      /\ reaper' = CASE call.pc = "spawn" -> "spawning"
                     [] call.pc = "communicate" -> "term"
                     [] OTHER -> reaper
      /\ UNCHANGED <<runs, group, root, tools>>
  BY DEF Cancel, Interrupted
<1>2. call' \in CallRecord /\ call'.of = call.of /\ call'.pc = "cleaning"
  BY <1>1 DEF Inv, Typed, CallRecord
<1>3. CallInOrder' /\ PackagesInOrder'
  BY <1>1, <1>2, CallMoves
<1>4. Typed' /\ AskedInOrder'
  BY <1>1, <1>2 DEF Inv, Typed, AskedInOrder
<1>5. GroupInOrder'
  <2>1. call # NoCall /\ call' # NoCall
    <3>1. NoCall.pc = "idle"
      BY DEF NoCall
    <3>2. QED BY <1>1, <1>2, <3>1
  <2>2. CASE call.pc = "spawn"
    BY <1>1, <1>2, <2>1, <2>2 DEF Inv, GroupInOrder, Alive
  <2>3. CASE call.pc = "communicate"
    BY <1>1, <1>2, <2>1, <2>3 DEF Inv, GroupInOrder, Alive
  <2>4. CASE call.pc \in {"finish", "cleaning"}
    BY <1>1, <1>2, <2>1, <2>4 DEF Inv, GroupInOrder, Alive
  <2>5. QED BY <1>1, <2>2, <2>3, <2>4
<1>6. QED BY <1>3, <1>4, <1>5 DEF Inv

LEMMA CleanedKeeps == ASSUME SourcesAreWorkcells, Inv, Cleaned \/ CleaningFails PROVE Inv'
<1>1. /\ call.pc = "cleaning" /\ reaper \in {"done", "failed"} /\ UNCHANGED <<group, tools, asked>>
      /\ Ends("cancelled", "none") \/ Ends("failed", "failed") \/ Ends("raised", "none")
  BY DEF Cleaned, CleaningFails
<1>2. ~Alive /\ call # NoCall
  BY <1>1 DEF Inv, GroupInOrder, NoCall
<1>3. QED BY <1>1, <1>2, EndsKeeps

LEMMA FinishedKeeps == ASSUME SourcesAreWorkcells, Inv, Finished PROVE Inv'
<1>1. /\ call.pc = "finish" /\ reaper = "done" /\ UNCHANGED <<tools, asked>> /\ ~Alive
      /\ call # NoCall /\ asked = 0
  BY DEF Finished, Inv, GroupInOrder, AskedInOrder, Typed, NoCall
<1>2. CASE (Ends("verified", "passed") \/ Ends("raised", "none") \/ Ends("failed", "failed"))
           /\ UNCHANGED group
  BY <1>1, <1>2, EndsKeeps
<1>3. CASE StartsCommand(call.step + 1) /\ reaper' = "none" /\ UNCHANGED <<runs, root>>
  <2>1. /\ call' \in CallRecord /\ call'.of = call.of /\ call'.pc = "spawn"
        /\ group' \in GroupRecord /\ group'.child = "none"
    BY <1>3, CommandStarts DEF Inv, Typed, CallRecord
  <2>2. CallInOrder' /\ PackagesInOrder'
    BY <1>1, <1>3, <2>1, CallMoves
  <2>3. Typed' /\ AskedInOrder'
    BY <1>1, <1>3, <2>1 DEF Inv, Typed, AskedInOrder
  <2>4. GroupInOrder'
    BY <1>1, <1>3, <2>1 DEF GroupInOrder, NoCall
  <2>5. QED BY <2>2, <2>3, <2>4 DEF Inv
<1>4. QED BY <1>2, <1>3 DEF Finished, Publishes

(* Reviews end a verified run. *)
LEMMA ReviewedKeeps == ASSUME SourcesAreWorkcells, Inv, NEW w \in Workcell, Reviewed(w) PROVE Inv'
<1>1. /\ call = NoCall /\ runs[w] # <<>> /\ Last(runs[w]).status = "verified"
      /\ UNCHANGED <<call, group, reaper, root, tools, asked>>
  BY DEF Reviewed
<1>2. PICK status \in {"succeeded", "failed", "raised"} :
        runs' = [runs EXCEPT ![w] = ReplaceAt(@, Len(@), [Last(@) EXCEPT !.status = status])]
  BY DEF Reviewed
<1> DEFINE run == [Last(runs[w]) EXCEPT !.status = status]
<1>3. Last(runs[w]) \in RunRecord
  BY <1>1, LastRun DEF Inv
<1>4. run \in RunRecord /\ run.verification = Last(runs[w]).verification
      /\ run.inputs = Last(runs[w]).inputs
  BY <1>3 DEF RunRecord
<1>5. runs' = [runs EXCEPT ![w] = ReplaceAt(@, Len(@), run)]
  BY <1>2 DEF Inv, Typed
<1>6. w \in Fullstack /\ run.verification = "passed" => OnePackageEach(runs, w, run.inputs)
  <2>1. Len(runs[w]) \in DOMAIN runs[w]
    BY <1>1 DEF Inv, Typed
  <2>2. QED BY <1>4, <2>1 DEF Inv, PackagesInOrder, Last
<1> HIDE DEF run
<1>7. /\ runs' \in [Workcell -> Seq(RunRecord)]
      /\ \A v \in Workcell \cap Fullstack : \A k \in DOMAIN runs'[v] :
           runs'[v][k].verification = "passed" => OnePackageEach(runs', v, runs'[v][k].inputs)
  BY <1>1, <1>4, <1>5, <1>6, RunReplaced, ReplacingKeepsPackages DEF Inv
<1>8. Typed' /\ AskedInOrder' /\ GroupInOrder'
  BY <1>1, <1>7 DEF Inv, Typed, AskedInOrder, GroupInOrder, Alive
<1>9. CallInOrder' /\ PackagesInOrder'
  BY <1>1, <1>7 DEF Inv, CallInOrder, PackagesInOrder, NoCall, W
<1>10. QED BY <1>8, <1>9 DEF Inv

(* The reaper and the processes of the group. *)
LEMMA ReapKeeps == ASSUME Inv, Reap PROVE Inv'
<1>1. /\ reaper' \in {"failed", "term", "wait", "done"} /\ reaper # "none"
      /\ UNCHANGED <<runs, call, root, tools, asked>>
      /\ group' = group \/ group' = NoGroup
  BY DEF Reap, Reaps
<1>2. CallInOrder' /\ PackagesInOrder'
  BY <1>1, CallMoves
<1>3. Typed' /\ AskedInOrder'
  BY <1>1 DEF Inv, Typed, AskedInOrder, NoGroup, GroupRecord
<1>4. GroupInOrder'
  <2>1. CASE reaper = "spawning"
    BY <1>1, <2>1 DEF Reap, Reaps, Inv, GroupInOrder, Alive
  <2>2. CASE reaper = "term"
    BY <1>1, <2>2 DEF Reap, Reaps, Inv, GroupInOrder, Alive
  <2>3. CASE reaper = "wait"
    BY <1>1, <2>3 DEF Reap, Reaps, Inv, GroupInOrder, Alive, NoGroup
  <2>4. QED BY <2>1, <2>2, <2>3 DEF Reap
<1>5. QED BY <1>2, <1>3, <1>4 DEF Inv

LEMMA ProcessesKeep == ASSUME Inv, Processes PROVE Inv'
<1>1. UNCHANGED <<runs, call, reaper, root, tools, asked>> /\ group \in GroupRecord
  BY DEF Processes, Inv, Typed
<1>2. /\ group' \in GroupRecord /\ Alive
      /\ group'.main = "starting" => group.main = "starting"
      /\ group'.main = "unspawned" => group'.child = "none"
  BY <1>1 DEF Processes, Alive, GroupRecord, Inv, GroupInOrder
<1>3. CallInOrder' /\ PackagesInOrder'
  BY <1>1, CallMoves
<1>4. Typed' /\ AskedInOrder'
  BY <1>1, <1>2 DEF Inv, Typed, AskedInOrder
<1>5. group'.main = "starting" => group'.child = "none"
  BY <1>1 DEF Processes, GroupRecord, Inv, GroupInOrder
<1>6. GroupInOrder'
  BY <1>1, <1>2, <1>5 DEF Inv, GroupInOrder
<1>7. QED BY <1>3, <1>4, <1>6 DEF Inv

LEMMA StutterKeeps == ASSUME Inv, UNCHANGED <<runs, call, group, reaper, root, asked>> PROVE Inv'
<1>1. Typed' /\ AskedInOrder' /\ GroupInOrder'
  BY DEF Inv, Typed, AskedInOrder, GroupInOrder, Alive
<1>2. QED BY <1>1, CallMoves DEF Inv

LEMMA StepKeeps == ASSUME SourcesAreWorkcells, Inv, [Next]_vars PROVE Inv'
<1>1. CASE \E w \in Workcell : Begin(w) \/ Reviewed(w)
  BY <1>1, BeginKeeps, ReviewedKeeps
<1>2. CASE CallStep
  BY <1>2, PrepareKeeps, SpawnedKeeps, ReadKeeps, CleanedKeeps, FinishedKeeps, ReapKeeps,
     ProcessesKeep DEF CallStep
<1>3. CASE Processes \/ Cancel
  BY <1>3, ProcessesKeep, CancelKeeps
<1>4. CASE ChangeTools \/ UNCHANGED vars
  BY <1>4, StutterKeeps DEF ChangeTools, vars
<1>5. QED BY <1>1, <1>2, <1>3, <1>4 DEF Next

LEMMA InitInOrder == ASSUME Init PROVE Inv
<1>1. Typed
  <2>1. NoCall \in CallRecord /\ NoGroup \in GroupRecord
    BY DEF NoCall, CallRecord, NoGroup, GroupRecord
  <2>2. <<>> \in Seq(RunRecord)
    OBVIOUS
  <2>3. QED BY <2>1, <2>2 DEF Init, Typed
<1>2. CallInOrder /\ GroupInOrder /\ AskedInOrder
  BY DEF Init, CallInOrder, GroupInOrder, AskedInOrder, Alive, NoCall, NoGroup
<1>3. PackagesInOrder
  BY DEF Init, PackagesInOrder, NoCall
<1>4. QED BY <1>1, <1>2, <1>3 DEF Inv

LEMMA AlwaysInOrder == ASSUME SourcesAreWorkcells PROVE Spec => []Inv
<1>1. Init => Inv
  BY InitInOrder
<1>2. Inv /\ [Next]_vars => Inv'
  BY StepKeeps
<1>3. QED BY <1>1, <1>2, PTL DEF Spec

-----------------------------------------------------------------------------
(* The theorems. *)

(* However a call ends, in whatever order its command, its children, time-outs and
   cancellations come, nothing of its process group lives on; and what passed was
   verified against exactly one package of each source, made from the candidate
   that was reviewed. *)
THEOREM VerificationsAreInOrder ==
    ASSUME SourcesAreWorkcells, Fullstack \subseteq Workcell
    PROVE  Spec => []VerificationInOrder
<1>1. ASSUME Inv PROVE VerificationInOrder
  <2>1. Alive => call # NoCall /\ (root <=> W \in Fullstack)
    BY <1>1 DEF Inv, CallInOrder, GroupInOrder, NoCall
  <2>2. QED BY <1>1, <2>1 DEF Inv, PackagesInOrder, OnePackageEach, VerificationInOrder
<1>2. QED BY <1>1, AlwaysInOrder, PTL

(* A stage that was asked to stop starts no command any more, not even when the
   request met a time-out and was lost. *)
THEOREM AskedStartsNothing ==
    ASSUME SourcesAreWorkcells
    PROVE  Spec => [][StartsNothing]_vars
<1>1. ASSUME Inv, Next PROVE StartsNothing
  <2>1. SUFFICES ASSUME asked > 0, group'.main = "starting" PROVE group.main = "starting"
    BY DEF StartsNothing
  <2>2. call.pc \in {"idle", "cleaning"}
    BY <1>1, <2>1 DEF Inv, AskedInOrder
  <2>3. CASE group' = group
    BY <2>1, <2>3
  <2>4. CASE Processes
    BY <1>1, <2>1, <2>4 DEF Processes, Inv, Typed, GroupRecord
  <2>5. CASE Reap
    BY <2>1, <2>5 DEF Reap, Reaps, NoGroup
  <2>6. ~Prepare /\ ~Finished
    BY <2>2 DEF Prepare, Finished
  <2>7. QED
    BY <1>1, <2>3, <2>4, <2>5, <2>6 DEF Next, CallStep, Begin, Reviewed, Spawned, Communicated,
       TimesOut, Cleaned, CleaningFails, Cancel, ChangeTools
<1>2. QED BY <1>1, AlwaysInOrder, PTL DEF Spec

-----------------------------------------------------------------------------
(* Workspaces. *)

(* What a Writer or a command leaves behind, and the pcs of attempts and stages. *)
Kind == {"allowed"} \cup Forbidden
Revision == [parent : Nat, line : SUBSET Nat, files : SUBSET Kind]
Busy == {"running", "answered", "leaving", "stopping"}
Going == {"queued", "running", "answered", "leaving", "done", "failed"}
Ended == {"idle", "stopping", "stopped", "done", "failed"}
Judging == {"verify", "view", "review", "succeeded"}

(* Revisions are made from earlier ones. *)
HistoryTyped(h) ==
    /\ h \in Seq(Revision) /\ Len(h) \in 1..MaxRevision
    /\ \A i \in 1..Len(h) : h[i].parent < i

RevisionsTyped(h, r, t, e) ==
    /\ r \in [main : 1..Len(h), candidate : 0..Len(h)]
    /\ t \in [head : 0..Len(h), dirty : SUBSET Kind]
    /\ e \in 0..Len(h)

AttemptsTyped ==
    /\ attempt \in [Attempt -> [pc : Going \cup Ended, at : Workspace]]
    /\ overlay \in [Workspace -> {"none", "installed", "foreign"}]
    /\ leases \in [Workspace -> Nat]
    /\ writable \in [Workspace -> BOOLEAN]
    /\ used \in 0..Capacity

StageTyped ==
    stage \in [pc : {"prepare", "write", "stopped", "failed"} \cup Judging, iteration : 1..Iterations]

WorkspaceTyped ==
    /\ HistoryTyped(history) /\ RevisionsTyped(history, remote, tree, evidence)
    /\ AttemptsTyped /\ StageTyped

(* Places of the agent's capacity. *)
Holders == {a \in Attempt : attempt[a].pc \in Busy}
PlacesInOrder == Cardinality(Holders) \leq used

(* Who is at work in which stage. *)
AttemptsInOrder ==
    /\ stage.pc \notin {"write", "review", "stopped"} => \A a \in Attempt : attempt[a].pc = "idle"
    /\ stage.pc = "write" =>
         /\ attempt[Writer].at = Tree /\ attempt[Writer].pc \in Going
         /\ \A a \in Reviewer : attempt[a].pc = "idle"
    /\ stage.pc = "review" =>
         /\ attempt[Writer].pc = "idle"
         /\ \A a \in Reviewer : attempt[a].at = evidence /\ attempt[a].pc \in Going
    /\ stage.pc = "stopped" => \A a \in Attempt : attempt[a].pc \in Ended
    /\ stage.pc \notin {"prepare", "failed"} => tree.head # 0

(* The candidate judged, without what follows from AttemptsInOrder. *)
CandidateInOrder ==
    stage.pc \in Judging =>
        /\ evidence > 1 /\ Descends(evidence, Base) /\ (history[evidence].files \cap Forbidden) = {}
        /\ tree.head = evidence /\ (stage.pc = "verify" => tree.dirty = {})
        /\ stage.pc = "review" => evidence \in views /\ ~writable[evidence]

WorkspaceInv ==
    WorkspaceTyped /\ AttemptsInOrder /\ CandidateInOrder /\ PlacesInOrder /\ OverlayReturned

-----------------------------------------------------------------------------
(* Attempts, and those at work, are finitely many. *)
LEMMA AttemptIsFinite == IsFiniteSet(Attempt)
BY WorkspaceAssumption, FS_AddElement, FS_Union, FS_Singleton DEF Attempt, Writer

LEMMA BusyIsFinite ==
    /\ IsFiniteSet(Holders) /\ IsFiniteSet(Holders')
    /\ \A w \in Workspace : IsFiniteSet(Inside(w)) /\ IsFiniteSet(Inside(w)')
<1>1. \A s \in SUBSET Attempt : IsFiniteSet(s)
  BY AttemptIsFinite, FS_Subset
<1>2. /\ Holders \in SUBSET Attempt /\ Holders' \in SUBSET Attempt
      /\ \A w \in Workspace : Inside(w) \in SUBSET Attempt /\ Inside(w)' \in SUBSET Attempt
  BY DEF Holders, Inside
<1> QED BY <1>1, <1>2

(* A commit leaves all earlier revisions as they are. *)
LEMMA Committed ==
    ASSUME HistoryTyped(history), NEW parent \in 1..Len(history), NEW files \in SUBSET Kind,
           Commit(parent, files), Len(history) < MaxRevision
    PROVE  /\ HistoryTyped(history') /\ Len(history') = Len(history) + 1
           /\ \A i \in 1..Len(history) : history'[i] = history[i]
           /\ history'[Len(history) + 1] =
                [parent |-> parent, line |-> {parent} \cup history[parent].line, files |-> files]
<1> DEFINE new == [parent |-> parent, line |-> {parent} \cup history[parent].line, files |-> files]
<1>1. history \in Seq(Revision) /\ Len(history) \in 1..MaxRevision /\ history' = Append(history, new)
      /\ Len(history) \in Nat
  BY DEF HistoryTyped, Commit
<1>2. history[parent] \in Revision
  BY <1>1, ElementOfSeq
<1>3. new \in Revision
  BY <1>1, <1>2 DEF Revision
<1>a. new.parent = parent
  OBVIOUS
<1> HIDE DEF new
<1>4. /\ history' \in Seq(Revision) /\ Len(history') = Len(history) + 1
      /\ \A i \in 1..Len(history) : history'[i] = history[i]
      /\ history'[Len(history) + 1] = new
  BY <1>1, <1>3, AppendProperties
<1>5. MaxRevision \in Nat
  BY WorkspaceAssumption
<1>6. Len(history') \in 1..MaxRevision
  BY <1>1, <1>4, <1>5
<1>7. ASSUME NEW i \in 1..Len(history') PROVE history'[i].parent < i
  <2>1. CASE i \in 1..Len(history)
    BY <2>1, <1>4 DEF HistoryTyped
  <2>2. CASE i = Len(history) + 1
    BY <2>2, <1>4, <1>a, <1>1
  <2> QED BY <1>7, <1>4, <1>1, <2>1, <2>2
<1> QED BY <1>4, <1>6, <1>7 DEF HistoryTyped, new

LEMMA RevisionsStay ==
    ASSUME HistoryTyped(history), NEW parent \in 1..Len(history), NEW files \in SUBSET Kind,
           Commit(parent, files), Len(history) < MaxRevision,
           NEW r, NEW t, NEW e, RevisionsTyped(history, r, t, e)
    PROVE  RevisionsTyped(history', r, t, e)
<1>1. Len(history') = Len(history) + 1
  BY Committed
<1>2. Len(history) \in Nat
  BY DEF HistoryTyped
<1> QED BY <1>1, <1>2 DEF RevisionsTyped

(* A descendant of the base stays one. *)
LEMMA DescendsStays ==
    ASSUME HistoryTyped(history), NEW parent \in 1..Len(history), NEW files \in SUBSET Kind,
           Commit(parent, files), Len(history) < MaxRevision,
           NEW r \in 1..Len(history)
    PROVE  /\ history'[r] = history[r]
           /\ Descends(r, Base) => Descends(r, Base)'
<1>1. history'[r] = history[r]
  BY Committed
<1> QED BY <1>1 DEF Descends

(* Nobody enters or leaves a workspace. *)
NobodyMoves ==
    /\ \A a \in Attempt : /\ attempt'[a].pc \in Busy <=> attempt[a].pc \in Busy
                          /\ attempt[a].pc \in Busy => attempt'[a].at = attempt[a].at
    /\ UNCHANGED <<overlay, leases, used>>

LEMMA NobodyDisturbs ==
    ASSUME NobodyMoves, PlacesInOrder, OverlayReturned
    PROVE  PlacesInOrder' /\ OverlayReturned'
<1>1. Holders' = Holders
  BY DEF NobodyMoves, Holders
<1>2. \A w \in Workspace : Inside(w)' = Inside(w)
  BY DEF NobodyMoves, Inside, Busy
<1>3. PlacesInOrder'
  BY <1>1 DEF PlacesInOrder, NobodyMoves
<1>4. OverlayReturned'
  BY <1>2 DEF OverlayReturned, NobodyMoves
<1> QED BY <1>3, <1>4

-----------------------------------------------------------------------------
LEMMA Constants ==
    /\ Writer \notin Reviewer /\ Writer \in Attempt /\ Reviewer \subseteq Attempt
    /\ Tree \in Workspace /\ \A i \in 2..MaxRevision : i \in Workspace
    /\ Capacity \in Nat /\ Iterations \in Nat \ {0} /\ MaxRevision \in Nat \ {0}
BY WorkspaceAssumption DEF Writer, Attempt, Tree, Workspace

LEMMA StartsInOrder == WorkspaceInit => WorkspaceInv
<1> SUFFICES ASSUME WorkspaceInit PROVE WorkspaceInv
  OBVIOUS
<1>1. HistoryTyped(history)
  <2> DEFINE first == [parent |-> 0, line |-> {}, files |-> {}]
  <2>1. first \in Revision /\ first.parent = 0
    BY DEF Revision
  <2>2. history = <<first>>
    BY DEF WorkspaceInit
  <2> HIDE DEF first
  <2>3. history \in Seq(Revision) /\ Len(history) = 1 /\ history[1] = first
    BY <2>1, <2>2
  <2> QED BY <2>1, <2>3, Constants DEF HistoryTyped
<1>2. Len(history) = 1
  BY DEF WorkspaceInit
<1>3. RevisionsTyped(history, remote, tree, evidence)
  BY <1>2 DEF WorkspaceInit, RevisionsTyped, Base
<1>4. AttemptsTyped /\ StageTyped
  BY Constants DEF WorkspaceInit, AttemptsTyped, StageTyped, Away, Ended
<1>5. \A a \in Attempt : attempt[a].pc = "idle"
  BY DEF WorkspaceInit, Away
<1>6. Holders = {} /\ \A w \in Workspace : Inside(w) = {}
  BY <1>5 DEF Holders, Inside, Busy
<1>7. PlacesInOrder
  BY <1>6, FS_EmptySet DEF PlacesInOrder, WorkspaceInit
<1>9. OverlayReturned
  BY <1>6, FS_EmptySet DEF OverlayReturned, WorkspaceInit
<1>8. AttemptsInOrder /\ CandidateInOrder
  BY <1>5 DEF AttemptsInOrder, CandidateInOrder, WorkspaceInit, Judging
<1> QED BY <1>1, <1>3, <1>4, <1>7, <1>8, <1>9 DEF WorkspaceInv, WorkspaceTyped

(* An iteration that is repaired. *)
LEMMA RepairsInOrder ==
    ASSUME StageTyped, Repairs
    PROVE  /\ StageTyped' /\ evidence' = 0
           /\ stage'.pc \in {"prepare", "failed"}
BY Constants DEF StageTyped, Repairs

LEMMA MovesInOrder ==
    ASSUME StageTyped, NEW to \in {"prepare", "write", "stopped", "failed"} \cup Judging, Moves(to)
    PROVE  StageTyped' /\ stage'.pc = to
BY DEF StageTyped, Moves

(* Who is not at work, or is at it and goes on, is there still. *)
LEMMA AttemptBecomes ==
    ASSUME AttemptsTyped, NEW a \in Attempt, NEW how \in Going \cup Ended, Becomes(a, how)
    PROVE  /\ attempt' \in [Attempt -> [pc : Going \cup Ended, at : Workspace]]
           /\ attempt'[a].pc = how /\ attempt'[a].at = attempt[a].at
           /\ \A b \in Attempt \ {a} : attempt'[b] = attempt[b]
BY DEF AttemptsTyped, Becomes

-----------------------------------------------------------------------------
(* Each action of the workspaces keeps the invariant. *)
LEMMA PrepareWriterInOrder ==
    ASSUME WorkspaceInv, PrepareWriter PROVE WorkspaceInv'
<1> USE DEF WorkspaceInv, WorkspaceTyped
<1>1. HistoryTyped(history') /\ history' = history
  BY DEF PrepareWriter
<1>2. RevisionsTyped(history', remote', tree', evidence')
  <2>1. remote' = remote /\ evidence' \in {evidence, 0} /\ Len(history) \in Nat /\ Len(history) # 0
    BY DEF PrepareWriter, Repairs, HistoryTyped
  <2>2. tree' \in [head : 0..Len(history), dirty : SUBSET Kind]
    BY <2>1 DEF PrepareWriter, RevisionsTyped, Base
  <2> QED BY <1>1, <2>1, <2>2 DEF RevisionsTyped
<1>3. \A a \in Attempt : attempt[a].pc = "idle"
  BY DEF PrepareWriter, AttemptsInOrder
<1>4. attempt' = attempt \/ attempt' = [attempt EXCEPT ![Writer] = [pc |-> "queued", at |-> Tree]]
  BY DEF PrepareWriter
<1>5. AttemptsTyped'
  BY <1>4, Constants DEF PrepareWriter, AttemptsTyped, Going
<1>6. StageTyped'
  BY RepairsInOrder, MovesInOrder DEF PrepareWriter
<1>7. AttemptsInOrder' /\ CandidateInOrder'
  <2>1. CASE stage'.pc = "write"
    <3>1. stage'.pc = "write" /\ attempt' = [attempt EXCEPT ![Writer] = [pc |-> "queued", at |-> Tree]]
          /\ tree'.head # 0
      BY <2>1, MovesInOrder, RepairsInOrder DEF PrepareWriter, Base
    <3>2. /\ attempt'[Writer].at = Tree /\ attempt'[Writer].pc \in Going
          /\ \A a \in Reviewer : attempt'[a].pc = "idle"
      BY <3>1, <1>3, Constants DEF AttemptsTyped, Going
    <3> QED BY <3>1, <3>2 DEF AttemptsInOrder, CandidateInOrder, Judging
  <2>2. CASE stage'.pc # "write"
    <3>1. stage'.pc \in {"prepare", "failed"} /\ attempt' = attempt
      BY <2>2, MovesInOrder, RepairsInOrder DEF PrepareWriter
    <3> QED BY <3>1, <1>3 DEF AttemptsInOrder, CandidateInOrder, Judging
  <2> QED BY <2>1, <2>2
<1>8. NobodyMoves
  <2>1. \A a \in Attempt : attempt'[a].pc \notin Busy /\ attempt[a].pc \notin Busy
    BY <1>3, <1>4, Constants DEF AttemptsTyped, Busy
  <2> QED BY <2>1 DEF NobodyMoves, PrepareWriter
<1> QED BY <1>1, <1>2, <1>5, <1>6, <1>7, <1>8, NobodyDisturbs

(* An attempt at work goes on, or ends, as its stage expects. *)
LEMMA GoesOnInOrder ==
    ASSUME WorkspaceInv, NEW a \in Attempt, NEW how \in Going \cup Ended, Becomes(a, how),
           attempt[a].pc # "idle",
           stage.pc \in {"write", "review"} => how \in Going,
           stage.pc = "stopped" => how \in Ended,
           UNCHANGED <<history, tree, evidence, views, writable, stage>>
    PROVE  AttemptsInOrder' /\ CandidateInOrder'
<1> USE DEF WorkspaceInv, WorkspaceTyped
<1>1. /\ attempt'[a].pc = how /\ attempt'[a].at = attempt[a].at
      /\ \A b \in Attempt \ {a} : attempt'[b] = attempt[b]
  BY AttemptBecomes
<1>2. stage.pc \in {"write", "review", "stopped"}
  BY DEF AttemptsInOrder
<1>3. CandidateInOrder'
  BY DEF CandidateInOrder, Descends
<1>4. CASE stage.pc = "write"
  <2>1. a = Writer
    BY <1>4 DEF AttemptsInOrder, Attempt
  <2> QED BY <2>1, <1>4, <1>1, <1>3, Constants DEF AttemptsInOrder
<1>5. CASE stage.pc = "review"
  <2>1. a \in Reviewer
    BY <1>5 DEF AttemptsInOrder, Attempt
  <2>2. \A b \in Reviewer : attempt'[b].at = evidence /\ attempt'[b].pc \in Going
    BY <2>1, <1>5, <1>1, Constants DEF AttemptsInOrder
  <2>3. attempt'[Writer].pc = "idle"
    BY <2>1, <1>5, <1>1, Constants DEF AttemptsInOrder
  <2> QED BY <2>2, <2>3, <1>3, <1>5 DEF AttemptsInOrder
<1>6. CASE stage.pc = "stopped"
  <2>1. \A b \in Attempt : attempt'[b].pc \in Ended
    BY <1>6, <1>1 DEF AttemptsInOrder
  <2> QED BY <2>1, <1>3, <1>6 DEF AttemptsInOrder
<1> QED BY <1>2, <1>4, <1>5, <1>6

LEMMA EnterInOrder ==
    ASSUME WorkspaceInv, NEW a \in Attempt, Enter(a) PROVE WorkspaceInv'
<1> USE DEF WorkspaceInv, WorkspaceTyped
<1>0. PICK here \in Workspace : here = attempt[a].at
  BY DEF AttemptsTyped
<1>1. /\ here = attempt[a].at /\ attempt[a].pc = "queued" /\ used < Capacity
      /\ UNCHANGED <<history, remote, tree, evidence, views, writable, stage, faults>>
  BY <1>0 DEF Enter
<1>2. HistoryTyped(history') /\ RevisionsTyped(history', remote', tree', evidence') /\ StageTyped'
  BY <1>1 DEF StageTyped
<1>3. PICK how \in {"failed", "running", "leaving"} : Becomes(a, how)
  BY DEF Enter
<1>4. /\ attempt' \in [Attempt -> [pc : Going \cup Ended, at : Workspace]]
      /\ attempt'[a].pc = how /\ attempt'[a].at = here
      /\ \A b \in Attempt \ {a} : attempt'[b] = attempt[b]
  BY <1>1, <1>3, AttemptBecomes DEF Going
<1>5. stage.pc \in {"write", "review"}
  BY <1>1 DEF AttemptsInOrder, Ended
<1>6. AttemptsInOrder' /\ CandidateInOrder'
  BY <1>1, <1>3, <1>5, GoesOnInOrder DEF Going
<1>7. CASE leases[here] = 0 /\ overlay[here] = "foreign"
  <2>1. how = "failed" /\ UNCHANGED <<overlay, leases, used>>
    <3>1. Becomes(a, "failed") /\ UNCHANGED <<overlay, leases, used>>
      BY <1>1, <1>7 DEF Enter
    <3>2. attempt'[a].pc = "failed"
      BY <3>1, AttemptBecomes DEF Going
    <3> QED BY <3>1, <3>2, <1>4
  <2>2. NobodyMoves
    BY <2>1, <1>1, <1>4 DEF NobodyMoves, Busy
  <2>3. AttemptsTyped'
    BY <2>1, <1>1, <1>4 DEF AttemptsTyped
  <2> QED BY <2>2, <2>3, <1>2, <1>6, NobodyDisturbs
<1>8. CASE ~(leases[here] = 0 /\ overlay[here] = "foreign")
  <2>1. /\ used' = used + 1 /\ leases' = [leases EXCEPT ![here] = @ + 1]
        /\ overlay' = IF leases[here] = 0 THEN [overlay EXCEPT ![here] = "installed"] ELSE overlay
        /\ \E pc \in {"running", "leaving"} : Becomes(a, pc)
    BY <1>1, <1>8 DEF Enter
  <2>2. attempt'[a].pc \in Busy
    <3>1. PICK pc \in {"running", "leaving"} : Becomes(a, pc)
      BY <2>1
    <3>2. attempt'[a].pc = pc
      BY <3>1, AttemptBecomes DEF Going
    <3> QED BY <3>1, <3>2 DEF Busy
  <2>3. AttemptsTyped'
    <3>1. used' \in 0..Capacity
      BY <2>1, <1>1, Constants DEF AttemptsTyped
    <3>2. leases' \in [Workspace -> Nat]
      BY <2>1, <1>1 DEF AttemptsTyped
    <3>3. overlay' \in [Workspace -> {"none", "installed", "foreign"}]
      BY <2>1, <1>1 DEF AttemptsTyped
    <3> QED BY <3>1, <3>2, <3>3, <1>1, <1>4 DEF AttemptsTyped
  <2>4. Holders' = Holders \cup {a} /\ a \notin Holders
    BY <1>1, <1>4, <2>2 DEF Holders, Busy
  <2>5. PlacesInOrder'
    <3>1. Cardinality(Holders') = Cardinality(Holders) + 1
      BY <2>4, BusyIsFinite, FS_AddElement
    <3>2. Cardinality(Holders) \in Nat /\ used \in Nat
      BY BusyIsFinite, FS_CardinalityType DEF AttemptsTyped
    <3> QED BY <3>1, <3>2, <2>1 DEF PlacesInOrder
  <2>6. Inside(here)' = Inside(here) \cup {a} /\ a \notin Inside(here)
    BY <1>1, <1>4, <2>2 DEF Inside, Busy
  <2>7. \A w \in Workspace \ {here} : Inside(w)' = Inside(w)
    BY <1>1, <1>4 DEF Inside
  <2>8. Cardinality(Inside(here)') = Cardinality(Inside(here)) + 1
    BY <2>6, <1>1, BusyIsFinite, FS_AddElement
  <2>9. ASSUME NEW w \in Workspace
        PROVE  /\ leases'[w] = Cardinality(Inside(w)')
               /\ Inside(w)' # {} => overlay'[w] # "none"
               /\ Inside(w)' = {} => overlay'[w] # "installed"
    <3>1. CASE w = here
      <4>1. leases'[w] = leases[w] + 1
        BY <3>1, <2>1, <1>1 DEF AttemptsTyped
      <4>2. overlay'[w] # "none"
        <5>1. CASE leases[here] = 0
          BY <5>1, <3>1, <2>1, <1>1 DEF AttemptsTyped
        <5>2. CASE leases[here] # 0
          <6>1. Inside(here) # {}
            BY <5>2, <1>1, FS_EmptySet DEF OverlayReturned
          <6> QED BY <6>1, <5>2, <3>1, <2>1, <1>1 DEF OverlayReturned
        <5> QED BY <5>1, <5>2
      <4>3. Inside(w)' # {} /\ Cardinality(Inside(w)') = Cardinality(Inside(w)) + 1
        BY <3>1, <2>6, <2>8
      <4> QED BY <4>1, <4>2, <4>3 DEF OverlayReturned
    <3>2. CASE w # here
      <4>1. leases'[w] = leases[w] /\ overlay'[w] = overlay[w]
        BY <3>2, <2>1, <1>1 DEF AttemptsTyped
      <4> QED BY <4>1, <3>2, <2>7 DEF OverlayReturned
    <3> QED BY <3>1, <3>2
  <2>10. OverlayReturned'
    BY <2>9 DEF OverlayReturned
  <2> QED BY <2>3, <2>5, <2>10, <1>2, <1>6
<1> QED BY <1>7, <1>8

LEMMA LeaveInOrder ==
    ASSUME WorkspaceInv, NEW a \in Attempt, Leave(a) PROVE WorkspaceInv'
<1> USE DEF WorkspaceInv, WorkspaceTyped
<1>0. PICK here \in Workspace : here = attempt[a].at
  BY DEF AttemptsTyped
<1>1. /\ here = attempt[a].at /\ attempt[a].pc \in {"answered", "leaving", "stopping"}
      /\ UNCHANGED <<history, remote, tree, evidence, views, writable, stage, faults>>
      /\ used' = used - 1 /\ leases' = [leases EXCEPT ![here] = @ - 1]
      /\ overlay' = IF leases[here] = 1 /\ overlay[here] = "installed"
                    THEN [overlay EXCEPT ![here] = "none"] ELSE overlay
  BY <1>0 DEF Leave, LastOf
<1>2. HistoryTyped(history') /\ RevisionsTyped(history', remote', tree', evidence') /\ StageTyped'
  BY <1>1 DEF StageTyped
<1>3. PICK how \in {"stopped", "failed", "done"} :
         Becomes(a, how) /\ (how = "stopped" <=> attempt[a].pc = "stopping")
  BY DEF Leave
<1>4. /\ attempt' \in [Attempt -> [pc : Going \cup Ended, at : Workspace]]
      /\ attempt'[a].pc = how /\ attempt'[a].at = here
      /\ \A b \in Attempt \ {a} : attempt'[b] = attempt[b]
  BY <1>1, <1>3, AttemptBecomes DEF Going, Ended
<1>5. AttemptsInOrder' /\ CandidateInOrder'
  <2>1. stage.pc \in {"write", "review"} => attempt[a].pc # "stopping"
    BY <1>1 DEF AttemptsInOrder, Going, Attempt
  <2> QED BY <2>1, <1>1, <1>3, GoesOnInOrder DEF Going, Ended
<1>6. Holders' = Holders \ {a} /\ a \in Holders
  BY <1>1, <1>4 DEF Holders, Busy
<1>7. Cardinality(Holders') = Cardinality(Holders) - 1 /\ Cardinality(Holders) \in Nat
      /\ Cardinality(Holders') \in Nat
  BY <1>6, BusyIsFinite, FS_RemoveElement, FS_CardinalityType
<1>8. used' \in 0..Capacity /\ PlacesInOrder'
  <2>1. used \in 0..Capacity /\ Capacity \in Nat /\ Cardinality(Holders) \leq used
    BY Constants DEF AttemptsTyped, PlacesInOrder
  <2>2. used' \in 0..Capacity /\ Cardinality(Holders') \leq used'
    BY <2>1, <1>1, <1>7
  <2> QED BY <2>2 DEF PlacesInOrder
<1>9. Inside(here)' = Inside(here) \ {a} /\ a \in Inside(here)
  BY <1>1, <1>4 DEF Inside
<1>10. \A w \in Workspace \ {here} : Inside(w)' = Inside(w)
  BY <1>1, <1>4 DEF Inside
<1>11. Cardinality(Inside(here)') = Cardinality(Inside(here)) - 1 /\ Cardinality(Inside(here)) \in Nat
       /\ Cardinality(Inside(here)') \in Nat
  BY <1>9, BusyIsFinite, FS_RemoveElement, FS_CardinalityType
<1>12. leases[here] = Cardinality(Inside(here)) /\ Inside(here) # {} /\ overlay[here] # "none"
  BY <1>9 DEF OverlayReturned
<1>13. leases[here] = 1 <=> Inside(here)' = {}
  <2>1. Inside(here)' = {} <=> Cardinality(Inside(here)') = 0
    BY BusyIsFinite, FS_EmptySet
  <2> QED BY <2>1, <1>11, <1>12
<1>14. AttemptsTyped'
  <2>1. leases' \in [Workspace -> Nat]
    <3>1. leases[here] - 1 \in Nat
      BY <1>11, <1>12
    <3> QED BY <3>1, <1>1 DEF AttemptsTyped
  <2>2. overlay' \in [Workspace -> {"none", "installed", "foreign"}]
    BY <1>1 DEF AttemptsTyped
  <2> QED BY <2>1, <2>2, <1>8, <1>1, <1>4 DEF AttemptsTyped
<1>15. ASSUME NEW w \in Workspace
       PROVE  /\ leases'[w] = Cardinality(Inside(w)')
              /\ Inside(w)' # {} => overlay'[w] # "none"
              /\ Inside(w)' = {} => overlay'[w] # "installed"
  <2>1. CASE w = here
    <3>1. leases'[w] = leases[w] - 1
      BY <2>1, <1>1 DEF AttemptsTyped
    <3>2. leases[w] = 1 => overlay'[w] # "installed"
      BY <2>1, <1>1 DEF AttemptsTyped
    <3>3. leases[w] # 1 => overlay'[w] = overlay[w]
      BY <2>1, <1>1
    <3>4. leases'[w] = Cardinality(Inside(w)')
      BY <2>1, <3>1, <1>11, <1>12
    <3> QED BY <2>1, <3>2, <3>3, <3>4, <1>12, <1>13
  <2>2. CASE w # here
    <3>1. leases'[w] = leases[w] /\ overlay'[w] = overlay[w]
      BY <2>2, <1>1 DEF AttemptsTyped
    <3> QED BY <3>1, <2>2, <1>10 DEF OverlayReturned
  <2> QED BY <2>1, <2>2
<1>16. OverlayReturned'
  BY <1>15 DEF OverlayReturned
<1> QED BY <1>2, <1>5, <1>8, <1>14, <1>16

LEMMA ExitOrRetryInOrder ==
    ASSUME WorkspaceInv, NEW a \in Attempt, Exit(a) \/ Retry(a) PROVE WorkspaceInv'
<1> USE DEF WorkspaceInv, WorkspaceTyped
<1>1. PICK how \in {"answered", "leaving", "queued"} :
         Becomes(a, how) /\ (how = "queued" <=> attempt[a].pc = "done")
  BY DEF Exit, Retry
<1>2. /\ UNCHANGED <<history, remote, tree, evidence, views, writable, stage>>
      /\ UNCHANGED <<overlay, leases, used>>
      /\ attempt[a].pc \in {"running", "done"} /\ (attempt[a].pc = "done" => stage.pc # "stopped")
  BY DEF Exit, Retry
<1>3. stage.pc # "stopped"
  BY <1>2 DEF AttemptsInOrder, Ended
<1>4. AttemptsInOrder' /\ CandidateInOrder'
  BY <1>1, <1>2, <1>3, GoesOnInOrder DEF Going
<1>5. /\ attempt' \in [Attempt -> [pc : Going \cup Ended, at : Workspace]]
      /\ attempt'[a].pc = how /\ attempt'[a].at = attempt[a].at
      /\ \A b \in Attempt \ {a} : attempt'[b] = attempt[b]
  BY <1>1, AttemptBecomes DEF Going
<1>6. NobodyMoves
  BY <1>1, <1>2, <1>5 DEF NobodyMoves, Busy
<1>7. AttemptsTyped' /\ StageTyped' /\ HistoryTyped(history')
      /\ RevisionsTyped(history', remote', tree', evidence')
  BY <1>2, <1>5 DEF AttemptsTyped, StageTyped
<1> QED BY <1>4, <1>6, <1>7, NobodyDisturbs

LEMMA DamageInOrder ==
    ASSUME WorkspaceInv, NEW a \in Attempt, Damage(a) PROVE WorkspaceInv'
<1> USE DEF WorkspaceInv, WorkspaceTyped
<1>0. PICK here \in Workspace : here = attempt[a].at
  BY DEF AttemptsTyped
<1>1. /\ attempt[a].pc = "running" /\ overlay' = [overlay EXCEPT ![here] = "foreign"]
      /\ UNCHANGED <<history, remote, tree, evidence, views, leases, writable, used, attempt, stage>>
  BY <1>0 DEF Damage
<1>2. AttemptsTyped' /\ StageTyped' /\ HistoryTyped(history')
      /\ RevisionsTyped(history', remote', tree', evidence')
  BY <1>1 DEF AttemptsTyped, StageTyped
<1>3. AttemptsInOrder' /\ CandidateInOrder' /\ PlacesInOrder'
  BY <1>1 DEF AttemptsInOrder, CandidateInOrder, PlacesInOrder, Holders, Descends
<1>4. \A w \in Workspace : Inside(w)' = Inside(w) /\ leases'[w] = leases[w]
  BY <1>1 DEF Inside
<1>5. a \in Inside(here)
  BY <1>0, <1>1 DEF Inside
<1>6. \A w \in Workspace : overlay'[w] = IF w = here THEN "foreign" ELSE overlay[w]
  BY <1>1 DEF AttemptsTyped
<1>7. OverlayReturned'
  BY <1>4, <1>5, <1>6 DEF OverlayReturned
<1> QED BY <1>2, <1>3, <1>7

LEMMA OthersInOrder ==
    ASSUME WorkspaceInv, Others PROVE WorkspaceInv'
<1> USE DEF WorkspaceInv, WorkspaceTyped
<1>1. /\ \/ used < Capacity /\ used' = used + 1
         \/ used > Cardinality(Holders) /\ used' = used - 1
      /\ UNCHANGED <<history, remote, tree, evidence, views, overlay, leases, writable, attempt, stage>>
  BY DEF Others, Holders, Busy
<1>2. Cardinality(Holders) \in Nat /\ used \in 0..Capacity /\ Capacity \in Nat
      /\ Cardinality(Holders) \leq used
  BY BusyIsFinite, FS_CardinalityType, Constants DEF AttemptsTyped, PlacesInOrder
<1>3. used' \in 0..Capacity /\ Cardinality(Holders) \leq used'
  BY <1>1, <1>2
<1>4. AttemptsTyped' /\ StageTyped' /\ HistoryTyped(history')
      /\ RevisionsTyped(history', remote', tree', evidence')
  BY <1>1, <1>3 DEF AttemptsTyped, StageTyped
<1>5. AttemptsInOrder' /\ CandidateInOrder'
  BY <1>1 DEF AttemptsInOrder, CandidateInOrder, Descends
<1>6. Holders' = Holders /\ \A w \in Workspace : Inside(w)' = Inside(w)
  BY <1>1 DEF Holders, Inside
<1>7. PlacesInOrder' /\ OverlayReturned'
  BY <1>1, <1>3, <1>6 DEF PlacesInOrder, OverlayReturned
<1> QED BY <1>4, <1>5, <1>7

LEMMA SomebodyInOrder ==
    ASSUME WorkspaceInv, Somebody PROVE WorkspaceInv'
<1> USE DEF WorkspaceInv, WorkspaceTyped
<1>1. /\ Len(history) < MaxRevision
      /\ UNCHANGED <<tree, evidence, views, overlay, leases, writable, used, attempt, stage>>
  BY DEF Somebody
<1>2. PICK b \in {"main", "candidate"} :
         /\ remote[b] # 0 /\ Commit(remote[b], history[remote[b]].files)
         /\ remote' = [remote EXCEPT ![b] = Len(history')]
  BY DEF Somebody
<1>3. PICK parent \in 1..Len(history) : parent = remote[b]
  BY <1>2 DEF RevisionsTyped, HistoryTyped
<1>4. PICK files \in SUBSET Kind : files = history[parent].files
  <2>1. history[parent] \in Revision
    BY <1>3, ElementOfSeq DEF HistoryTyped
  <2> QED BY <2>1 DEF Revision
<1>5. Commit(parent, files)
  BY <1>2, <1>3, <1>4
<1>6. HistoryTyped(history') /\ Len(history') = Len(history) + 1
  BY <1>1, <1>5, Committed
<1>7. RevisionsTyped(history', remote, tree, evidence) /\ Len(history) \in Nat
  BY <1>1, <1>5, RevisionsStay DEF HistoryTyped
<1>8. RevisionsTyped(history', remote', tree', evidence')
  BY <1>1, <1>2, <1>6, <1>7 DEF RevisionsTyped
<1>9. AttemptsTyped' /\ StageTyped' /\ AttemptsInOrder'
  BY <1>1 DEF AttemptsTyped, StageTyped, AttemptsInOrder
<1>10. CandidateInOrder'
  <2>1. ASSUME stage.pc \in Judging
        PROVE  Descends(evidence, Base)' /\ history'[evidence].files = history[evidence].files
    <3>1. PICK e \in 1..Len(history) : e = evidence
      BY <2>1 DEF CandidateInOrder, RevisionsTyped, HistoryTyped
    <3>2. history'[e] = history[e] /\ (Descends(e, Base) => Descends(e, Base)')
      BY <1>1, <1>5, DescendsStays
    <3>3. Descends(e, Base)'
      BY <3>1, <3>2, <2>1 DEF CandidateInOrder
    <3> QED BY <3>1, <3>2, <3>3, <1>1 DEF Descends
  <2> QED BY <2>1, <1>1 DEF CandidateInOrder
<1>11. NobodyMoves
  BY <1>1 DEF NobodyMoves
<1> QED BY <1>6, <1>8, <1>9, <1>10, <1>11, NobodyDisturbs

LEMMA WriteInOrder ==
    ASSUME WorkspaceInv, Write PROVE WorkspaceInv'
<1> USE DEF WorkspaceInv, WorkspaceTyped
<1>1. /\ attempt[Writer].pc = "running"
      /\ UNCHANGED <<remote, evidence, views, overlay, leases, writable, used, attempt, stage>>
  BY DEF Write
<1>2. stage.pc = "write"
  BY <1>1, Constants DEF AttemptsInOrder, Ended
<1>3. AttemptsTyped' /\ StageTyped' /\ NobodyMoves
  BY <1>1 DEF AttemptsTyped, StageTyped, NobodyMoves
<1>4. tree.head \in 1..Len(history) /\ tree \in [head : 0..Len(history), dirty : SUBSET Kind]
      /\ Len(history) \in Nat
  BY <1>2 DEF AttemptsInOrder, RevisionsTyped, HistoryTyped
<1>5. /\ HistoryTyped(history') /\ RevisionsTyped(history', remote', tree', evidence')
      /\ tree'.head # 0
  <2>1. CASE UNCHANGED history
    <3>1. tree' \in [head : 0..Len(history), dirty : SUBSET Kind] /\ tree'.head = tree.head
      <4>1. CASE \E kind \in {"allowed", "outside"} : tree' = [tree EXCEPT !.dirty = @ \cup {kind}]
        BY <4>1, <1>4 DEF Kind, Forbidden
      <4>2. CASE tree' = [tree EXCEPT !.dirty = @ \ {"outside"}]
        BY <4>2, <1>4
      <4>3. CASE tree' = [head |-> Len(history'), dirty |-> {}] /\ history' # history
        BY <4>3, <2>1
      <4>4. ASSUME NEW parent, NEW files, Commit(parent, files) PROVE history' # history
        <5>1. history \in Seq(Revision) /\ Len(history) \in Nat
          BY DEF HistoryTyped
        <5>2. Len(history') = Len(history) + 1
          BY <4>4, <5>1 DEF Commit
        <5> QED BY <5>1, <5>2
      <4> QED BY <4>1, <4>2, <4>3, <4>4 DEF Write
    <3> QED BY <2>1, <3>1, <1>1, <1>4 DEF RevisionsTyped
  <2>2. CASE ~UNCHANGED history
    <3>1. PICK parent \in {tree.head, history[tree.head].parent} \ {0} :
             /\ Commit(parent, tree.dirty \cup history[tree.head].files)
             /\ Len(history) < MaxRevision /\ tree' = [head |-> Len(history'), dirty |-> {}]
      BY <2>2 DEF Write
    <3>2. history[tree.head] \in Revision /\ history[tree.head].parent < tree.head
      BY <1>4, ElementOfSeq DEF HistoryTyped
    <3>3. parent \in 1..Len(history)
      BY <3>1, <3>2, <1>4 DEF Revision
    <3>4. PICK files \in SUBSET Kind : files = tree.dirty \cup history[tree.head].files
      BY <3>2, <1>4 DEF Revision
    <3>5. HistoryTyped(history') /\ Len(history') = Len(history) + 1
      BY <3>1, <3>3, <3>4, Committed
    <3>6. RevisionsTyped(history', remote, tree, evidence)
      BY <3>1, <3>3, <3>4, RevisionsStay
    <3>7. RevisionsTyped(history', remote', tree', evidence') /\ tree'.head # 0
      BY <3>1, <3>5, <3>6, <1>1, <1>4 DEF RevisionsTyped
    <3> QED BY <3>5, <3>7
  <2> QED BY <2>1, <2>2
<1>6. AttemptsInOrder' /\ CandidateInOrder'
  BY <1>1, <1>2, <1>5 DEF AttemptsInOrder, CandidateInOrder, Judging
<1> QED BY <1>3, <1>5, <1>6, NobodyDisturbs

(* The Writer is not at work any more: nobody is. *)
LEMMA WriterReturns ==
    ASSUME WorkspaceInv, stage.pc = "write", attempt[Writer].pc \in {"done", "failed"},
           attempt' = [attempt EXCEPT ![Writer] = Away], UNCHANGED <<overlay, leases, writable, used>>
    PROVE  /\ \A a \in Attempt : attempt'[a].pc = "idle"
           /\ AttemptsTyped' /\ NobodyMoves
<1> USE DEF WorkspaceInv, WorkspaceTyped
<1>1. \A a \in Attempt : attempt'[a] = IF a = Writer THEN Away ELSE attempt[a]
  BY DEF AttemptsTyped
<1>2. \A a \in Attempt : attempt'[a].pc = "idle"
  BY <1>1 DEF AttemptsInOrder, Attempt, Away
<1>3. AttemptsTyped'
  BY Constants DEF AttemptsTyped, Away, Ended
<1>4. \A a \in Attempt : attempt'[a].pc \notin Busy /\ attempt[a].pc \notin Busy
  BY <1>2 DEF AttemptsInOrder, Attempt, Busy
<1> QED BY <1>2, <1>3, <1>4 DEF NobodyMoves

LEMMA FreezeInOrder ==
    ASSUME WorkspaceInv, Freeze PROVE WorkspaceInv'
<1> USE DEF WorkspaceInv, WorkspaceTyped
<1> DEFINE dirty == tree.dirty \cup (IF overlay[Tree] # "none" THEN {"overlay"} ELSE {})
           commits == dirty # {} /\ (dirty \cap Forbidden) = {}
           head == IF commits THEN Len(history) + 1 ELSE tree.head
           files == history[tree.head].files
<1>1. /\ stage.pc = "write" /\ attempt[Writer].pc = "done"
      /\ commits => Len(history) < MaxRevision
      /\ IF commits THEN Commit(tree.head, files \cup dirty) ELSE UNCHANGED history
      /\ tree' = IF commits THEN [head |-> head, dirty |-> {}] ELSE tree
      /\ attempt' = [attempt EXCEPT ![Writer] = Away]
      /\ UNCHANGED <<views, overlay, leases, writable, used>>
  BY DEF Freeze
<1>2. \/ /\ "overlay" \in dirty
         /\ Moves("failed") /\ UNCHANGED <<remote, evidence>>
      \/ /\ Repairs /\ UNCHANGED remote
      \/ /\ Allowed(dirty, files) /\ head # Base /\ Descends(tree.head, Base)
         /\ \/ /\ remote' = [remote EXCEPT !.candidate = head]
               /\ evidence' = head /\ Moves("verify")
            \/ /\ Repairs
               /\ remote' \in {remote, [remote EXCEPT !.candidate = head]}
  BY DEF Freeze
<1>3. /\ \A a \in Attempt : attempt'[a].pc = "idle"
      /\ AttemptsTyped' /\ NobodyMoves
  BY <1>1, WriterReturns
<1>4. PICK parent \in 1..Len(history) : parent = tree.head
  BY <1>1 DEF AttemptsInOrder, RevisionsTyped, HistoryTyped
<1>5. Len(history) \in Nat /\ history[parent] \in Revision /\ dirty \subseteq Kind
  BY ElementOfSeq DEF HistoryTyped, RevisionsTyped, Kind, Forbidden
<1>6. PICK more \in SUBSET Kind : more = files \cup dirty
  BY <1>4, <1>5 DEF Revision
<1>7. /\ HistoryTyped(history') /\ RevisionsTyped(history', remote, tree, evidence)
      /\ commits => Len(history') = Len(history) + 1 /\
                    history'[Len(history) + 1] =
                      [parent |-> parent, line |-> {parent} \cup history[parent].line, files |-> more]
      /\ ~commits => history' = history
  <2>1. CASE commits
    <3>1. Commit(parent, more) /\ Len(history) < MaxRevision
      BY <2>1, <1>1, <1>4, <1>6
    <3> HIDE DEF dirty, commits, head, files
    <3> QED BY <3>1, <2>1, Committed, RevisionsStay
  <2>2. CASE ~commits
    BY <2>2, <1>1
  <2> QED BY <2>1, <2>2
<1> HIDE DEF dirty, head
<1>8. head \in 1..Len(history') /\ tree'.head = head /\ tree' \in [head : 0..Len(history'), dirty : SUBSET Kind]
  BY <1>1, <1>4, <1>5, <1>7 DEF head, RevisionsTyped
<1>9. RevisionsTyped(history', remote', tree', evidence')
  <2>1. remote' = remote \/ remote' = [remote EXCEPT !.candidate = head]
    BY <1>2
  <2>2. evidence' \in {evidence, 0, head}
    BY <1>2, RepairsInOrder
  <2>3. /\ remote \in [main : 1..Len(history'), candidate : 0..Len(history')]
        /\ evidence \in 0..Len(history')
    BY <1>7 DEF RevisionsTyped
  <2>4. remote' \in [main : 1..Len(history'), candidate : 0..Len(history')]
    BY <2>1, <2>3, <1>8
  <2> QED BY <2>2, <2>3, <2>4, <1>8 DEF RevisionsTyped
<1>10. StageTyped' /\ stage'.pc \in {"failed", "prepare", "verify"}
  BY <1>2, RepairsInOrder, MovesInOrder DEF Judging
<1>11. AttemptsInOrder'
  BY <1>3, <1>8, <1>10 DEF AttemptsInOrder
<1>12. CandidateInOrder'
  <2> SUFFICES ASSUME stage'.pc = "verify" PROVE CandidateInOrder'
    BY <1>10 DEF CandidateInOrder, Judging
  <2>1. Allowed(dirty, files) /\ head # Base /\ Descends(tree.head, Base) /\ evidence' = head
    BY <1>2, RepairsInOrder, MovesInOrder
  <2>2. (files \cap Forbidden) = {} /\ (dirty \cap Forbidden) = {}
    BY <2>1 DEF Allowed
  <2>3. Descends(parent, Base)
    BY <2>1, <1>4
  <2>4. PICK new \in 1..Len(history') : new = head
    BY <1>8
  <2>5. new > 1 /\ evidence' = new /\ tree'.head = new
    BY <2>1, <2>4, <1>8 DEF Base
  <2>6. /\ Base \in history'[new].line \/ new = Base
        /\ (history'[new].files \cap Forbidden) = {} /\ tree'.dirty = {}
    <3>1. CASE commits
      <4>1. new = Len(history) + 1 /\ tree'.dirty = {}
        BY <3>1, <2>4, <1>1 DEF head
      <4>2. history'[new].line = {parent} \cup history[parent].line /\ history'[new].files = more
        BY <3>1, <4>1, <1>7
      <4>3. Base \in history'[new].line
        BY <4>2, <2>3 DEF Descends
      <4>4. (history'[new].files \cap Forbidden) = {}
        BY <4>2, <1>6, <2>2
      <4> QED BY <4>1, <4>3, <4>4
    <3>2. CASE ~commits
      <4>1. new = parent /\ history' = history /\ tree' = tree
        BY <3>2, <2>4, <1>1, <1>4, <1>7 DEF head
      <4>2. dirty = {}
        BY <3>2, <2>2
      <4>3. tree.dirty = {}
        BY <4>2 DEF dirty
      <4> QED BY <4>1, <4>3, <2>2, <2>3, <1>4 DEF Descends
    <3> QED BY <3>1, <3>2
  <2>7. Descends(evidence, Base)'
    BY <2>5, <2>6 DEF Descends
  <2> QED BY <2>5, <2>6, <2>7 DEF CandidateInOrder
<1> QED BY <1>3, <1>7, <1>9, <1>10, <1>11, <1>12, NobodyDisturbs

LEMMA WriterFailedInOrder ==
    ASSUME WorkspaceInv, WriterFailed PROVE WorkspaceInv'
<1> USE DEF WorkspaceInv, WorkspaceTyped
<1>1. /\ stage.pc = "write" /\ attempt[Writer].pc = "failed"
      /\ attempt' = [attempt EXCEPT ![Writer] = Away]
      /\ Repairs \/ (Moves("failed") /\ UNCHANGED evidence)
      /\ UNCHANGED <<history, remote, tree, views, overlay, leases, writable, used>>
  BY DEF WriterFailed
<1>2. /\ \A a \in Attempt : attempt'[a].pc = "idle"
      /\ AttemptsTyped' /\ NobodyMoves
  BY <1>1, WriterReturns
<1>3. StageTyped' /\ stage'.pc \in {"prepare", "failed"} /\ evidence' \in {0, evidence}
  BY <1>1, RepairsInOrder, MovesInOrder
<1>4. HistoryTyped(history') /\ RevisionsTyped(history', remote', tree', evidence')
  BY <1>1, <1>3 DEF RevisionsTyped, HistoryTyped
<1>5. AttemptsInOrder' /\ CandidateInOrder'
  BY <1>2, <1>3 DEF AttemptsInOrder, CandidateInOrder, Judging
<1> QED BY <1>2, <1>3, <1>4, <1>5, NobodyDisturbs

LEMMA VerifiedInOrder ==
    ASSUME WorkspaceInv, Verified PROVE WorkspaceInv'
<1> USE DEF WorkspaceInv, WorkspaceTyped
<1>1. /\ stage.pc = "verify"
      /\ (Moves("view") /\ UNCHANGED evidence) \/ Repairs
      /\ UNCHANGED tree \/ tree' = [tree EXCEPT !.dirty = {"generated"}]
      /\ UNCHANGED <<history, remote, views, overlay, leases, writable, used, attempt>>
  BY DEF Verified
<1>2. \/ stage'.pc = "view" /\ evidence' = evidence
      \/ stage'.pc \in {"prepare", "failed"} /\ evidence' = 0
  BY <1>1, RepairsInOrder, MovesInOrder DEF Judging
<1>3. StageTyped'
  BY <1>1, RepairsInOrder, MovesInOrder DEF Judging
<1>4. tree' \in [head : 0..Len(history), dirty : SUBSET Kind] /\ tree'.head = tree.head
  BY <1>1 DEF RevisionsTyped, Kind, Forbidden
<1>5. HistoryTyped(history') /\ RevisionsTyped(history', remote', tree', evidence')
  BY <1>1, <1>2, <1>4 DEF RevisionsTyped, HistoryTyped
<1>6. AttemptsTyped' /\ NobodyMoves
  BY <1>1 DEF AttemptsTyped, NobodyMoves
<1>7. AttemptsInOrder'
  BY <1>1, <1>2, <1>4 DEF AttemptsInOrder
<1>8. CandidateInOrder'
  BY <1>1, <1>2, <1>4 DEF CandidateInOrder, Judging, Descends
<1> QED BY <1>3, <1>5, <1>6, <1>7, <1>8, NobodyDisturbs

LEMMA PrepareViewInOrder ==
    ASSUME WorkspaceInv, PrepareView PROVE WorkspaceInv'
<1> USE DEF WorkspaceInv, WorkspaceTyped
<1>1. /\ stage.pc = "view"
      /\ UNCHANGED <<history, remote, tree, evidence, overlay, leases, used>>
  BY DEF PrepareView
<1>2. \/ /\ views' = views \cup {evidence} /\ writable' = [writable EXCEPT ![evidence] = FALSE]
         /\ attempt' = [a \in Attempt |-> IF a \in Reviewer
                                          THEN [pc |-> "queued", at |-> evidence] ELSE Away]
         /\ Moves("review")
      \/ Moves("failed") /\ UNCHANGED <<views, writable, attempt>>
  BY DEF PrepareView, ViewOf
<1>3. evidence \in Workspace /\ \A a \in Attempt : attempt[a].pc = "idle"
  <2>1. evidence > 1 /\ evidence \in 0..Len(history) /\ Len(history) \in 1..MaxRevision
    BY <1>1 DEF CandidateInOrder, RevisionsTyped, HistoryTyped, Judging
  <2>2. evidence \in 2..MaxRevision
    BY <2>1, Constants
  <2> QED BY <2>2, <1>1, Constants DEF AttemptsInOrder
<1>4. HistoryTyped(history') /\ RevisionsTyped(history', remote', tree', evidence') /\ StageTyped'
  BY <1>1, <1>2, MovesInOrder DEF Judging
<1>5. CASE stage'.pc = "failed" /\ UNCHANGED <<views, writable, attempt>>
  <2>1. AttemptsTyped' /\ NobodyMoves
    BY <1>5, <1>1 DEF AttemptsTyped, NobodyMoves
  <2>2. AttemptsInOrder' /\ CandidateInOrder'
    BY <1>5, <1>1, <1>3 DEF AttemptsInOrder, CandidateInOrder, Judging
  <2> QED BY <2>1, <2>2, <1>4, NobodyDisturbs
<1>6. CASE /\ stage'.pc = "review"
           /\ views' = views \cup {evidence} /\ writable' = [writable EXCEPT ![evidence] = FALSE]
           /\ attempt' = [a \in Attempt |-> IF a \in Reviewer
                                            THEN [pc |-> "queued", at |-> evidence] ELSE Away]
  <2>1. AttemptsTyped'
    <3>1. attempt' \in [Attempt -> [pc : Going \cup Ended, at : Workspace]]
      BY <1>6, <1>3, Constants DEF Away, Going, Ended
    <3>2. writable' \in [Workspace -> BOOLEAN]
      BY <1>6 DEF AttemptsTyped
    <3> QED BY <3>1, <3>2, <1>1 DEF AttemptsTyped
  <2>2. NobodyMoves
    <3>1. \A a \in Attempt : attempt'[a].pc \in {"queued", "idle"}
      BY <1>6 DEF Away
    <3> QED BY <3>1, <1>1, <1>3 DEF NobodyMoves, Busy
  <2>3. AttemptsInOrder'
    <3>1. attempt'[Writer].pc = "idle"
      BY <1>6, Constants DEF Away
    <3>2. \A a \in Reviewer : attempt'[a].at = evidence /\ attempt'[a].pc \in Going
      BY <1>6, Constants DEF Going
    <3> QED BY <3>1, <3>2, <1>6, <1>1 DEF AttemptsInOrder
  <2>4. CandidateInOrder'
    <3>1. evidence' \in views' /\ ~writable'[evidence']
      BY <1>6, <1>1, <1>3 DEF AttemptsTyped
    <3> QED BY <3>1, <1>6, <1>1 DEF CandidateInOrder, Judging, Descends
  <2> QED BY <2>1, <2>2, <2>3, <2>4, <1>4, NobodyDisturbs
<1> QED BY <1>2, <1>5, <1>6, MovesInOrder DEF Judging

LEMMA ReviewsEndInOrder ==
    ASSUME WorkspaceInv, ReviewsEnd PROVE WorkspaceInv'
<1> USE DEF WorkspaceInv, WorkspaceTyped
<1>1. /\ stage.pc = "review" /\ \A a \in Reviewer : attempt[a].pc \in {"done", "failed"}
      /\ attempt' = [a \in Attempt |-> Away]
      /\ UNCHANGED <<history, remote, tree, views, overlay, leases, writable, used>>
  BY DEF ReviewsEnd
<1>2. \/ Moves("failed") /\ UNCHANGED evidence
      \/ Moves("succeeded") /\ UNCHANGED evidence
      \/ Repairs
  BY DEF ReviewsEnd
<1>3. /\ StageTyped'
      /\ \/ stage'.pc = "succeeded" /\ evidence' = evidence
         \/ stage'.pc \in {"prepare", "failed"} /\ evidence' \in {0, evidence}
  BY <1>2, RepairsInOrder, MovesInOrder DEF Judging
<1>4. \A a \in Attempt : attempt'[a].pc = "idle"
  BY <1>1 DEF Away
<1>5. AttemptsTyped'
  BY <1>1, Constants DEF AttemptsTyped, Away, Ended
<1>6. HistoryTyped(history') /\ RevisionsTyped(history', remote', tree', evidence')
  BY <1>1, <1>3 DEF RevisionsTyped, HistoryTyped
<1>7. NobodyMoves
  <2>1. \A a \in Attempt : attempt[a].pc \notin Busy
    BY <1>1 DEF AttemptsInOrder, Attempt, Busy
  <2> QED BY <2>1, <1>1, <1>4 DEF NobodyMoves, Busy
<1>8. AttemptsInOrder'
  BY <1>1, <1>3, <1>4 DEF AttemptsInOrder
<1>9. CandidateInOrder'
  BY <1>1, <1>3 DEF CandidateInOrder, Judging, Descends
<1> QED BY <1>3, <1>5, <1>6, <1>7, <1>8, <1>9, NobodyDisturbs

LEMMA StopInOrder ==
    ASSUME WorkspaceInv, Stop PROVE WorkspaceInv'
<1> USE DEF WorkspaceInv, WorkspaceTyped
<1>1. /\ stage.pc \in {"write", "review"}
      /\ attempt' = [a \in Attempt |->
            [attempt[a] EXCEPT !.pc = CASE @ = "queued" -> "stopped"
                                        [] @ \in {"running", "answered", "leaving"} -> "stopping"
                                        [] OTHER -> @]]
      /\ UNCHANGED <<history, remote, tree, evidence, views, overlay, leases, writable, used>>
      /\ Moves("stopped")
  BY DEF Stop
<1>2. StageTyped' /\ stage'.pc = "stopped"
  BY <1>1, MovesInOrder
<1>3. ASSUME NEW a \in Attempt
      PROVE  /\ attempt'[a].at = attempt[a].at
             /\ attempt'[a].pc = CASE attempt[a].pc = "queued" -> "stopped"
                                   [] attempt[a].pc \in {"running", "answered", "leaving"} -> "stopping"
                                   [] OTHER -> attempt[a].pc
             /\ attempt'[a] \in [pc : Going \cup Ended, at : Workspace]
  <2>1. attempt[a] \in [pc : Going \cup Ended, at : Workspace]
    BY DEF AttemptsTyped
  <2>2. "stopped" \in Going \cup Ended /\ "stopping" \in Going \cup Ended
    BY DEF Ended
  <2> QED BY <2>1, <2>2, <1>1
<1>4. \A a \in Attempt : attempt[a].pc \in Going \cup {"idle"}
  BY <1>1 DEF AttemptsInOrder, Attempt
<1>5. NobodyMoves
  BY <1>1, <1>3 DEF NobodyMoves, Busy
<1>6. AttemptsTyped'
  BY <1>1, <1>3 DEF AttemptsTyped
<1>7. AttemptsInOrder'
  <2>1. \A a \in Attempt : attempt'[a].pc \in Ended
    BY <1>3, <1>4 DEF Ended, Going
  <2> QED BY <2>1, <1>1, <1>2 DEF AttemptsInOrder
<1>8. CandidateInOrder'
  BY <1>2 DEF CandidateInOrder, Judging
<1> QED BY <1>1, <1>2, <1>5, <1>6, <1>7, <1>8, NobodyDisturbs

-----------------------------------------------------------------------------
LEMMA WorkspaceInvHolds == WorkspaceSpec => []WorkspaceInv
<1>1. WorkspaceInit => WorkspaceInv
  BY StartsInOrder
<1>2. WorkspaceInv /\ [WorkspaceNext]_workspaceVars => WorkspaceInv'
  <2> SUFFICES ASSUME WorkspaceInv, [WorkspaceNext]_workspaceVars PROVE WorkspaceInv'
    OBVIOUS
  <2>1. CASE UNCHANGED workspaceVars
    <3>1. /\ UNCHANGED <<history, remote, tree, evidence, views, stage>>
          /\ UNCHANGED <<overlay, leases, writable, used, attempt>>
      BY <2>1 DEF workspaceVars
    <3>2. WorkspaceTyped' /\ AttemptsInOrder' /\ CandidateInOrder'
      BY <3>1 DEF WorkspaceInv, WorkspaceTyped, AttemptsTyped, StageTyped, AttemptsInOrder,
                  CandidateInOrder, Descends
    <3>3. NobodyMoves
      BY <3>1 DEF NobodyMoves
    <3> QED BY <3>2, <3>3, NobodyDisturbs DEF WorkspaceInv
  <2>2. CASE PrepareWriter \/ Write \/ Freeze \/ WriterFailed \/ Verified
    BY <2>2, PrepareWriterInOrder, WriteInOrder, FreezeInOrder, WriterFailedInOrder, VerifiedInOrder
  <2>3. CASE PrepareView \/ ReviewsEnd \/ Stop \/ Somebody \/ Others
    BY <2>3, PrepareViewInOrder, ReviewsEndInOrder, StopInOrder, SomebodyInOrder, OthersInOrder
  <2>4. CASE \E a \in Attempt : Enter(a) \/ Damage(a) \/ Exit(a) \/ Leave(a) \/ Retry(a)
    BY <2>4, EnterInOrder, DamageInOrder, ExitOrRetryInOrder, LeaveInOrder
  <2> QED BY <2>1, <2>2, <2>3, <2>4 DEF WorkspaceNext
<1> QED BY <1>1, <1>2, PTL DEF WorkspaceSpec

(* WriterWorkspace: however many Reviewers, iterations, places and faults there are,
   the state of the workspaces keeps its type. *)
THEOREM WorkspaceTypeCorrect == WorkspaceSpec => []WorkspaceTypeOK
<1>1. WorkspaceInv => WorkspaceTypeOK
  <2> SUFFICES ASSUME WorkspaceInv PROVE WorkspaceTypeOK
    OBVIOUS
  <2>1. evidence \in 0..Len(history) /\ tree.head \in 0..Len(history)
    BY DEF WorkspaceInv, WorkspaceTyped, RevisionsTyped
  <2>2. used \in 0..Capacity /\ stage.iteration \in 1..Iterations
    BY DEF WorkspaceInv, WorkspaceTyped, AttemptsTyped, StageTyped
  <2>3. \A w \in Workspace : overlay[w] \in {"none", "installed", "foreign"}
    BY DEF WorkspaceInv, WorkspaceTyped, AttemptsTyped
  <2> QED BY <2>1, <2>2, <2>3 DEF WorkspaceTypeOK
<1> QED BY <1>1, WorkspaceInvHolds, PTL

(* WriterWorkspace: the overlay is in a workspace exactly as long as an attempt is
   inside, and what is verified, reviewed and reported as a success is the frozen
   candidate, a descendant of the base within the policy, at which the worktree
   still stands and of which every Reviewer has a read-only view. *)
THEOREM WorkspacesStayInOrder == WorkspaceSpec => []WorkspacesInOrder
<1>1. WorkspaceInv => WorkspacesInOrder
  <2> SUFFICES ASSUME WorkspaceInv PROVE WorkspacesInOrder
    OBVIOUS
  <2>1. CandidateAsJudged
    <3> SUFFICES ASSUME stage.pc \in Judging PROVE CandidateAsJudged
      BY DEF CandidateAsJudged, Judging
    <3>1. Inside(Tree) = {}
      <4>1. ASSUME NEW a \in Attempt, attempt[a].pc # "idle" PROVE attempt[a].at # Tree
        <5>1. stage.pc = "review"
          BY <4>1 DEF WorkspaceInv, AttemptsInOrder, Judging
        <5>2. attempt[a].at = evidence /\ evidence > 1
          BY <4>1, <5>1 DEF WorkspaceInv, AttemptsInOrder, CandidateInOrder, Attempt
        <5> QED BY <5>2 DEF Tree
      <4> QED BY <4>1 DEF Inside
    <3>2. \A a \in Reviewer : attempt[a].pc # "idle" =>
             attempt[a].at = evidence /\ evidence \in views /\ ~writable[evidence]
      BY Constants DEF WorkspaceInv, AttemptsInOrder, CandidateInOrder, Judging
    <3>3. /\ evidence # 0 /\ Descends(evidence, Base) /\ (history[evidence].files \cap Forbidden) = {}
          /\ tree.head = evidence /\ (stage.pc = "verify" => tree.dirty = {})
      BY DEF WorkspaceInv, CandidateInOrder
    <3> QED BY <3>1, <3>2, <3>3 DEF CandidateAsJudged
  <2> QED BY <2>1 DEF WorkspacesInOrder, WorkspaceInv
<1> QED BY <1>1, WorkspaceInvHolds, PTL

-----------------------------------------------------------------------------
(* Deliveries without a pipeline. *)

(* What a delivery has been through, by its status. *)
Unapproved == {"queued", "planning"}
AtWork == {"executing", "verifying"}
Taken(r) == r.plan = "approve" /\ r.candidate = "approve" /\ r.verified /\ r.version = 3
GivenUpAs(r) == r.status \in {"cancelling", "cancelled", "rejected"}

RowInOrder(r) ==
    /\ r.status = "absent" => r = NoDelivery
    /\ r.status \in Unapproved => r.plan = "none" /\ r.candidate = "none" /\ r.version = 1
    /\ r.status = "awaiting_plan_decision" =>
         r.plan = "open" /\ r.candidate = "none" /\ r.version = 1
    /\ r.status \in AtWork => r.plan = "approve" /\ r.candidate = "none" /\ r.version = 2
    /\ r.status = "awaiting_candidate_decision" =>
         r.plan = "approve" /\ r.candidate = "open" /\ r.verified /\ r.version = 2
    /\ r.status \in {"applying", "completed"} => Taken(r)
    /\ r.status = "completed" => r.receipt
    /\ r.plan = "reject" => r.status = "rejected"
    /\ r.candidate = "reject" => r.status \in {"cancelling", "rejected"}

RowsInOrder ==
    /\ \A d \in DirectDelivery : RowInOrder(rows[d])
    /\ \A d, e \in DirectDelivery : Active(d) /\ Active(e) => d = e

On(d) == \E k \in 1..Len(main) : main[k] = d

MainInOrder ==
    /\ main[1] = "seed"
    /\ \A j, k \in 1..Len(main) : main[j] = main[k] => j = k
    /\ \A k \in 2..Len(main) : main[k] \in DirectDelivery =>
         rows[main[k]].status \in {"applying", "completed"} /\ main[k - 1] = rows[main[k]].base
    /\ \A d \in DirectDelivery : rows[d].status = "completed" => On(d)

(* What a task finds when it goes on. *)
Fits(w, r) ==
    /\ w.pc = "start" /\ w.what = "plan queued" => r.status = "queued"
    /\ w.pc = "start" /\ w.what \in DirectGate => r.status = AwaitingAt[w.what]
    /\ w.pc = "plan" => r.status = "planning"
    /\ w.pc = "work" => r.status = "executing"

Working == {"start", "plan", "work"}
Tasks == {"plan queued", "plan", "candidate"}

WorkerInOrder(t) ==
    /\ worker[t].pc \in Working \cup {"returned", "waiting"} => worker[t].of \in DirectDelivery
    /\ worker[t].pc \in Working \cup {"returned"} =>
         /\ worker[t].what \in Tasks /\ registered[worker[t].of] = t
         /\ RowOf(t).status # "absent"
    /\ worker[t].what = "candidate" => worker[t].pc \in {"start", "returned"}
    /\ worker[t].pc \in Working =>
         IF worker[t].asked THEN RowOf(t).status = "cancelling" ELSE Fits(worker[t], RowOf(t))
    /\ worker[t].what = "cancel" <=> worker[t].pc = "waiting"
    /\ worker[t].pc = "waiting" =>
         /\ GivenUpAs(RowOf(t))
         /\ \A s \in Worker : worker[s].pc \in Working /\ worker[s].of = worker[t].of =>
              worker[t].on = s

WorkersInOrder ==
    /\ \A t \in Worker : WorkerInOrder(t)
    /\ \A d \in DirectDelivery : registered[d] # 0 =>
         worker[registered[d]].of = d /\ worker[registered[d]].pc \in Working \cup {"returned"}
    /\ booting # {} => \A t \in Worker : worker[t].pc = "free"

DirectInv == LinearTypeOK /\ RowsInOrder /\ MainInOrder /\ (lives => WorkersInOrder)

DirectData ==
    /\ rows \in [DirectDelivery -> DirectRow]
    /\ main \in Seq(MainRevision) /\ main # <<>>
    /\ RowsInOrder /\ MainInOrder

(* A commit of the delivery d that leaves them in order. *)
RowCommit == [row : DirectRow, main : Seq(MainRevision)]
CommitAllowed(d, c) ==
    /\ c \in RowCommit /\ RowInOrder(c.row) /\ c.row.status # "absent"
    /\ c.row.status \notin Closed => Active(d)
    /\ GivenUpAs(rows[d]) => GivenUpAs(c.row)
    /\ \/ c.main = main
       \/ c.main = Append(main, d) /\ Tip = c.row.base /\ ~On(d)
    /\ On(d) \/ c.main # main => c.row.status \in {"applying", "completed"}
    /\ c.row.status = "completed" => On(d) \/ c.main # main
    /\ On(d) => c.row.base = rows[d].base

LEMMA MainAppends ==
    ASSUME main \in Seq(MainRevision), main # <<>>, NEW d \in MainRevision
    PROVE  /\ Append(main, d) \in Seq(MainRevision) /\ Append(main, d) # <<>>
           /\ Len(main) \in Nat /\ Len(main) > 0
           /\ Len(Append(main, d)) = Len(main) + 1
           /\ \A k \in 1..Len(main) : Append(main, d)[k] = main[k] /\ main[k] \in MainRevision
           /\ Append(main, d)[Len(main) + 1] = d
           /\ Append(main, d) # main
           /\ Tip = main[Len(main)]
  <1>1. Len(main) \in Nat /\ Len(main) > 0
    BY EmptySeq, LenProperties
  <1>2. Len(Append(main, d)) = Len(main) + 1
    BY AppendProperties
  <1>3. Append(main, d) \in Seq(MainRevision) /\ Append(main, d) # <<>>
    BY AppendProperties
  <1>4. \A k \in 1..Len(main) : Append(main, d)[k] = main[k] /\ main[k] \in MainRevision
    BY AppendProperties, ElementOfSeq
  <1>5. Append(main, d)[Len(main) + 1] = d
    BY AppendProperties
  <1>6. Append(main, d) # main
    BY <1>1, <1>2
  <1>7. Tip = main[Len(main)]
    BY DEF Tip, Last
  <1> QED BY <1>1, <1>2, <1>3, <1>4, <1>5, <1>6, <1>7

(* Nothing but a delivery that is applied, or was, is on main. *)
LEMMA OnMain ==
    ASSUME DirectData, NEW d \in DirectDelivery, On(d)
    PROVE  /\ rows[d].status \in {"applying", "completed"}
           /\ \E k \in 2..Len(main) : main[k] = d /\ main[k - 1] = rows[d].base
  <1>1. PICK k \in 1..Len(main) : main[k] = d
    BY DEF On
  <1>2. k # 1
    BY <1>1, DirectAssumption DEF DirectData, MainInOrder
  <1>3. Len(main) \in Nat
    BY DEF DirectData
  <1>4. k \in 2..Len(main)
    BY <1>2, <1>3
  <1> QED BY <1>1, <1>4 DEF DirectData, MainInOrder

(* A commit that is allowed. *)
LEMMA CommitKeeps ==
    ASSUME DirectData, NEW d \in DirectDelivery, NEW c, CommitAllowed(d, c), WritesRow(d, c)
    PROVE  /\ DirectData'
           /\ rows'[d] = c.row
           /\ \A e \in DirectDelivery : e # d => rows'[e] = rows[e]
           /\ \A e \in DirectDelivery : GivenUpAs(rows[e]) => GivenUpAs(rows'[e])
           /\ \A e \in DirectDelivery : rows[e].status # "absent" => rows'[e].status # "absent"
  <1> DEFINE r == c.row
  <1>1. r \in DirectRow /\ c.main \in Seq(MainRevision)
    BY DEF CommitAllowed, RowCommit
  <1>2. rows' \in [DirectDelivery -> DirectRow] /\ rows'[d] = r
    BY <1>1 DEF WritesRow, DirectData
  <1>3. \A e \in DirectDelivery : e # d => rows'[e] = rows[e]
    BY DEF WritesRow, DirectData
  <1>4. main' = c.main
    BY DEF WritesRow
  <1>5. d \in MainRevision
    BY DEF MainRevision
  <1>6. main' # <<>> /\ main' \in Seq(MainRevision)
    BY <1>1, <1>4, <1>5, MainAppends DEF CommitAllowed, DirectData
  <1>7. RowsInOrder'
    <2>1. \A e \in DirectDelivery : RowInOrder(rows'[e])
      BY <1>2, <1>3 DEF CommitAllowed, DirectData, RowsInOrder
    <2>2. \A e \in DirectDelivery : Active(e)' => Active(e)
      BY <1>2, <1>3 DEF CommitAllowed, Active
    <2> QED BY <2>1, <2>2 DEF DirectData, RowsInOrder
  <1>8. MainInOrder'
    <2>1. CASE c.main = main
      <3>1. main' = main
        BY <1>4, <2>1
      <3>2. ASSUME NEW k \in 2..Len(main), main[k] \in DirectDelivery
            PROVE  /\ rows'[main[k]].status \in {"applying", "completed"}
                   /\ main[k - 1] = rows'[main[k]].base
        <4>1. /\ rows[main[k]].status \in {"applying", "completed"}
              /\ main[k - 1] = rows[main[k]].base
          BY <3>2 DEF DirectData, MainInOrder
        <4>2. CASE main[k] = d
          <5>1. On(d)
            BY <4>2 DEF On
          <5> QED BY <5>1, <4>1, <4>2, <1>2 DEF CommitAllowed
        <4> QED BY <4>1, <4>2, <1>3, <3>2
      <3>3. \A e \in DirectDelivery : rows'[e].status = "completed" => On(e)
        BY <1>2, <1>3, <2>1 DEF CommitAllowed, DirectData, MainInOrder
      <3> QED BY <3>1, <3>2, <3>3 DEF MainInOrder, DirectData, On
    <2>2. CASE c.main = Append(main, d) /\ Tip = r.base /\ ~On(d)
      <3> DEFINE n == Len(main)
                 m == Append(main, d)
      <3>1. /\ m \in Seq(MainRevision) /\ n \in Nat /\ n > 0 /\ Len(m) = n + 1
            /\ \A k \in 1..n : m[k] = main[k] /\ main[k] \in MainRevision
            /\ m[n + 1] = d /\ m # main /\ Tip = main[n]
        BY <1>5, MainAppends DEF DirectData
      <3>2. main' = m
        BY <1>4, <2>2
      <3>3. r.status \in {"applying", "completed"}
        BY <2>2, <3>1 DEF CommitAllowed
      <3>4. \A k \in 1..n : main[k] # d
        BY <2>2 DEF On
      <3> HIDE DEF m, n
      <3>5. m[1] = "seed"
        BY <3>1 DEF DirectData, MainInOrder
      <3>6. \A j, k \in 1..(n + 1) : m[j] = m[k] => j = k
        <4> SUFFICES ASSUME NEW j \in 1..(n + 1), NEW k \in 1..(n + 1), m[j] = m[k]
                     PROVE  j = k
          OBVIOUS
        <4>1. CASE j = n + 1 \/ k = n + 1
          BY <4>1, <3>1, <3>4
        <4>2. CASE j # n + 1 /\ k # n + 1
          <5>1. j \in 1..n /\ k \in 1..n
            BY <4>2, <3>1
          <5> QED BY <5>1, <3>1 DEF DirectData, MainInOrder, n
        <4> QED BY <4>1, <4>2
      <3>7. ASSUME NEW k \in 2..(n + 1), m[k] \in DirectDelivery
            PROVE  rows'[m[k]].status \in {"applying", "completed"} /\ m[k - 1] = rows'[m[k]].base
        <4>1. CASE k = n + 1
          <5>1. n \in 1..n /\ k - 1 = n
            BY <4>1, <3>1
          <5> QED BY <5>1, <4>1, <3>1, <3>3, <1>2, <2>2
        <4>2. CASE k # n + 1
          <5>1. k \in 2..n /\ k \in 1..n /\ k - 1 \in 1..n
            BY <4>2, <3>1
          <5>2. m[k] = main[k] /\ m[k - 1] = main[k - 1] /\ m[k] # d
            BY <5>1, <3>1, <3>4
          <5> QED BY <5>1, <5>2, <3>7, <1>3 DEF DirectData, MainInOrder, n
        <4> QED BY <4>1, <4>2
      <3>8. \A e \in DirectDelivery : rows'[e].status = "completed" => \E k \in 1..(n + 1) : m[k] = e
        <4> SUFFICES ASSUME NEW e \in DirectDelivery, rows'[e].status = "completed"
                     PROVE  \E k \in 1..(n + 1) : m[k] = e
          OBVIOUS
        <4>1. CASE e = d
          BY <4>1, <3>1
        <4>2. CASE e # d
          <5>1. \E k \in 1..n : main[k] = e
            BY <4>2, <1>3 DEF DirectData, MainInOrder, On, n
          <5> QED BY <5>1, <3>1
        <4> QED BY <4>1, <4>2
      <3>9. Len(main') = n + 1
        BY <3>1, <3>2
      <3> QED BY <3>2, <3>5, <3>6, <3>7, <3>8, <3>9 DEF MainInOrder, On
    <2> QED BY <2>1, <2>2 DEF CommitAllowed
  <1>9. \A e \in DirectDelivery : GivenUpAs(rows[e]) => GivenUpAs(rows'[e])
    BY <1>2, <1>3 DEF CommitAllowed
  <1>10. \A e \in DirectDelivery : rows[e].status # "absent" => rows'[e].status # "absent"
    BY <1>2, <1>3 DEF CommitAllowed
  <1> QED BY <1>2, <1>3, <1>6, <1>7, <1>8, <1>9, <1>10 DEF DirectData

(* A commit that changes the row only. *)
LEMMA RowOnly ==
    ASSUME DirectData, NEW d \in DirectDelivery, NEW r \in DirectRow, RowInOrder(r),
           rows[d].status \notin {"applying", "completed"}, r.status \notin {"absent", "completed"},
           r.status \notin Closed => Active(d),
           GivenUpAs(rows[d]) => GivenUpAs(r)
    PROVE  CommitAllowed(d, Save(r, main)) /\ Save(r, main).row = r
  <1>1. ~On(d)
    BY OnMain
  <1>2. Save(r, main) \in RowCommit
    BY DEF Save, RowCommit, DirectData
  <1> QED BY <1>1, <1>2 DEF CommitAllowed, Save

-----------------------------------------------------------------------------
(* Stretches. *)

(* A stretch of d all of whose commits are allowed. *)
Orderly(d, span) ==
    span.writes \in Seq(RowCommit) /\ \A k \in 1..Len(span.writes) : CommitAllowed(d, span.writes[k])

LEMMA SpanKeeps ==
    ASSUME DirectData, NEW d \in DirectDelivery, NEW span, Orderly(d, span)
    PROVE  /\ CommitsAll(d, span) =>
                /\ DirectData'
                /\ \A e \in DirectDelivery : e # d => rows'[e] = rows[e]
                /\ \A e \in DirectDelivery : GivenUpAs(rows[e]) => GivenUpAs(rows'[e])
                /\ \A e \in DirectDelivery : rows[e].status # "absent" => rows'[e].status # "absent"
                /\ span.writes # <<>> => rows'[d] = Last(span.writes).row
           /\ DiesIn(d, span) => DirectData'
  <1>1. Len(span.writes) \in Nat
    BY LenProperties DEF Orderly
  <1>2. CASE span.writes = <<>>
    <2>1. CommitsAll(d, span) => rows' = rows /\ main' = main
      BY <1>2 DEF CommitsAll
    <2>2. ~DiesIn(d, span)
      BY <1>2 DEF DiesIn
    <2> QED BY <2>1, <2>2, <1>2 DEF DirectData, RowsInOrder, MainInOrder, Active, On
  <1>3. CASE span.writes # <<>>
    <2>1. Len(span.writes) \in 1..Len(span.writes)
      BY <1>1, <1>3, EmptySeq DEF Orderly
    <2>2. CommitAllowed(d, Last(span.writes))
      BY <2>1 DEF Orderly, Last
    <2>3. CommitsAll(d, span) => WritesRow(d, Last(span.writes))
      BY <1>3 DEF CommitsAll
    <2>4. ASSUME DiesIn(d, span) PROVE DirectData'
      <3>1. PICK k \in 1..(Len(span.writes) - 1) : WritesRow(d, span.writes[k])
        BY <2>4 DEF DiesIn
      <3>2. k \in 1..Len(span.writes)
        BY <1>1
      <3> QED BY <3>1, <3>2, CommitKeeps DEF Orderly
    <2> QED BY <2>2, <2>3, <2>4, CommitKeeps
  <1> QED BY <1>2, <1>3

DirectTasks ==
    /\ worker \in [Worker -> WorkerRow]
    /\ registered \in [DirectDelivery -> Worker \cup {0}]
    /\ lives \in BOOLEAN /\ booting \subseteq DirectDelivery

LEMMA InvParts ==
    DirectInv <=> DirectData /\ DirectTasks /\ (lives => WorkersInOrder)
  BY DEF DirectInv, DirectData, DirectTasks, LinearTypeOK

LEMMA InvPartsNext ==
    DirectInv' <=> DirectData' /\ DirectTasks' /\ (lives' => WorkersInOrder')
  BY DEF DirectInv, DirectData, DirectTasks, LinearTypeOK

(* Only one task works on a delivery. *)
LEMMA OneTask ==
    ASSUME WorkersInOrder, NEW t \in Worker, NEW u \in Worker, worker[u].pc \in Working,
           worker[u].of = worker[t].of, worker[t].pc \in Working \cup {"returned"}
    PROVE  u = t
  BY DEF WorkersInOrder, WorkerInOrder

(* How the task t may go on: others do not work on its delivery. *)
Continues(t, span) ==
    /\ worker[t].pc \in Working \cup {"waiting"}
    /\ worker[t].pc = "waiting" =>
         span.pc = "end" /\ \A u \in Worker : worker[u].pc \in Working => worker[u].of # worker[t].of
    /\ span.pc \in {"end", "plan", "work"}
    /\ span.pc # "end" =>
         /\ ~worker[t].asked /\ worker[t].what \in Tasks \ {"candidate"}
         /\ span.writes # <<>>
         /\ Last(span.writes).row.status = IF span.pc = "plan" THEN "planning" ELSE "executing"

LEMMA ExecutesKeeps ==
    ASSUME DirectInv, lives, NEW t \in Worker, NEW span, Orderly(worker[t].of, span),
           Continues(t, span), Executes(t, span)
    PROVE  DirectInv'
  <1> DEFINE d == worker[t].of
  <1>0. DirectData /\ DirectTasks /\ WorkersInOrder
    BY InvParts
  <1>1. d \in DirectDelivery /\ worker[t] \in WorkerRow
    BY <1>0 DEF WorkersInOrder, WorkerInOrder, Continues, DirectTasks
  <1>2. CASE DiesIn(d, span)
    <2>1. DirectData'
      BY <1>0, <1>1, <1>2, SpanKeeps
    <2>2. DirectTasks' /\ lives' = FALSE
      BY <1>0, <1>2 DEF DiesIn, DirectTasks
    <2> QED BY <2>1, <2>2, InvPartsNext
  <1>3. CASE CommitsAll(d, span) /\ ~DiesIn(d, span)
    <2> DEFINE w == IF span.pc = "end" THEN WorkerEnds(t) ELSE WorkerAwaits(t, span.pc)
    <2>1. /\ DirectData'
          /\ \A e \in DirectDelivery : e # d => rows'[e] = rows[e]
          /\ \A e \in DirectDelivery : GivenUpAs(rows[e]) => GivenUpAs(rows'[e])
          /\ \A e \in DirectDelivery : rows[e].status # "absent" => rows'[e].status # "absent"
          /\ span.writes # <<>> => rows'[d] = Last(span.writes).row
      BY <1>0, <1>1, <1>3, SpanKeeps
    <2>2. /\ worker' = [worker EXCEPT ![t] = w]
          /\ registered' = registered /\ lives' = lives /\ booting' = booting
      BY <1>3 DEF Executes
    <2>3. /\ w \in WorkerRow
          /\ w.what = "cancel" <=> w.pc = "waiting"
          /\ w = NoWorker \/ (w.of = d /\ w.what = worker[t].what /\ w.asked = worker[t].asked
                              /\ w.pc = IF span.pc = "end" THEN "returned" ELSE span.pc)
          /\ w = NoWorker <=> worker[t].what = "cancel"
          /\ w = NoWorker <=> worker[t].pc = "waiting"
      <3>1. worker[t].what = "cancel" <=> worker[t].pc = "waiting"
        BY <1>0 DEF WorkersInOrder, WorkerInOrder
      <3>2. CASE span.pc = "end" /\ worker[t].what = "cancel"
        <4>1. w = NoWorker
          BY <3>2 DEF WorkerEnds
        <4> HIDE DEF w
        <4> QED BY <4>1, <3>1, <3>2 DEF NoWorker, WorkerRow
      <3>3. CASE span.pc = "end" /\ worker[t].what # "cancel"
        <4>1. w = [worker[t] EXCEPT !.pc = "returned"]
          BY <3>3 DEF WorkerEnds
        <4> HIDE DEF w
        <4>2. w.pc = "returned" /\ w.what = worker[t].what /\ w.asked = worker[t].asked /\ w.of = d
          BY <4>1, <1>1 DEF WorkerRow
        <4>3. w \in WorkerRow
          BY <4>1, <1>1 DEF WorkerRow
        <4>4. w # NoWorker
          BY <4>2 DEF NoWorker
        <4> QED BY <4>2, <4>3, <4>4, <3>1, <3>3
      <3>4. CASE span.pc # "end"
        <4>1. w = [worker[t] EXCEPT !.pc = span.pc, !.base = BaseIn(span.pc, worker[t].base)]
          BY <3>4 DEF WorkerAwaits
        <4>2. BaseIn(span.pc, worker[t].base) \in MainRevision \cup {"none"}
          <5>1. Tip \in MainRevision
            BY <1>0, EmptySeq, LenProperties, ElementOfSeq DEF DirectData, Tip, Last
          <5> QED BY <5>1, <1>1 DEF BaseIn, WorkerRow
        <4>3. span.pc \in {"plan", "work"} /\ worker[t].what \in Tasks /\ worker[t].pc # "waiting"
          BY <3>4 DEF Continues
        <4> HIDE DEF w
        <4> QED BY <4>1, <4>2, <4>3, <3>1, <3>4, <1>1 DEF NoWorker, WorkerRow, Tasks
      <3> QED BY <3>2, <3>3, <3>4
    <2> HIDE DEF w
    <2>4. worker'[t] = w /\ \A u \in Worker : u # t => worker'[u] = worker[u]
      BY <2>2, <1>0 DEF DirectTasks
    <2>5. DirectTasks'
      BY <2>2, <2>3, <1>0 DEF DirectTasks
    <2>6. \A u \in Worker : worker[u].pc \in Working /\ u # t => worker[u].of # d
      BY <1>0, OneTask DEF Continues
    <2>7. ASSUME NEW u \in Worker PROVE WorkerInOrder(u)'
      <3>1. CASE u # t
        <4>1. worker'[u] = worker[u] /\ WorkerInOrder(u)
          BY <3>1, <2>4, <1>0 DEF WorkersInOrder
        <4>2. worker[u].pc \in Working => rows'[worker[u].of] = rows[worker[u].of]
          BY <4>1, <3>1, <2>6, <2>1 DEF WorkerInOrder
        <4>3. ASSUME worker[u].pc = "waiting", NEW s \in Worker, worker'[s].pc \in Working,
                     worker'[s].of = worker[u].of
              PROVE  worker[u].on = s
          <5>1. worker[s].pc \in Working /\ worker[s].of = worker[u].of
            BY <4>3, <2>3, <2>4 DEF Working, NoWorker, Continues
          <5> QED BY <5>1, <4>1, <4>3 DEF WorkerInOrder
        <4>4. worker[u].pc = "waiting" => GivenUpAs(rows'[worker[u].of])
          BY <4>1, <2>1 DEF WorkerInOrder, RowOf
        <4>5. worker[u].pc \in Working \cup {"returned"} => rows'[worker[u].of].status # "absent"
          BY <4>1, <2>1 DEF WorkerInOrder, RowOf
        <4> QED BY <4>1, <4>2, <4>3, <4>4, <4>5, <2>2 DEF WorkerInOrder, RowOf
      <3>2. CASE u = t
        <4>1. WorkerInOrder(t)
          BY <1>0 DEF WorkersInOrder
        <4>2. CASE w = NoWorker
          BY <4>2, <3>2, <2>4 DEF WorkerInOrder, NoWorker, Working, Tasks
        <4>3. CASE w # NoWorker
          <5>1. w.of = d /\ w.what = worker[t].what /\ w.what \in Tasks /\ registered'[d] = t
                /\ w.asked = worker[t].asked /\ w.pc = IF span.pc = "end" THEN "returned" ELSE span.pc
            BY <4>1, <4>3, <2>2, <2>3 DEF WorkerInOrder, Continues
          <5>2. span.pc # "end" => ~w.asked /\ Fits(w, rows'[d]) /\ w.what # "candidate"
            BY <5>1, <2>1 DEF Continues, Fits
          <5>3. w.pc # "waiting" /\ w.what # "cancel"
            BY <5>1 DEF Tasks, Continues
          <5>4. worker'[t] = w
            BY <2>4
          <5> HIDE DEF d
          <5>5. d \in DirectDelivery
            BY <1>1 DEF d
          <5>6. worker[t].pc \in Working
            BY <2>3, <4>3 DEF Continues
          <5>7. rows'[d].status # "absent"
            BY <5>5, <5>6, <4>1, <2>1 DEF WorkerInOrder, RowOf, d
          <5>8. w.what = "candidate" => w.pc \in {"start", "returned"}
            BY <5>1, <5>2
          <5> QED BY <5>1, <5>2, <5>3, <5>4, <5>5, <5>8, <5>7, <3>2 DEF WorkerInOrder, RowOf, Working, Continues
        <4> QED BY <4>2, <4>3
      <3> QED BY <3>1, <3>2
    <2>8. ASSUME NEW e \in DirectDelivery, registered'[e] # 0
          PROVE  /\ worker'[registered'[e]].of = e
                 /\ worker'[registered'[e]].pc \in Working \cup {"returned"}
      <3>1. PICK s \in Worker : s = registered[e]
        BY <2>2, <2>8, <1>0 DEF DirectTasks
      <3>2. worker[s].of = e /\ worker[s].pc \in Working \cup {"returned"}
        BY <3>1, <2>2, <2>8, <1>0 DEF WorkersInOrder
      <3>3. CASE s = t
        BY <3>1, <3>2, <3>3, <2>2, <2>3, <2>4 DEF Continues, Working
      <3>4. CASE s # t
        BY <3>1, <3>2, <3>4, <2>2, <2>4
      <3> QED BY <3>3, <3>4
    <2>9. booting' = {}
      BY <2>2, <1>0 DEF WorkersInOrder, Continues, Working
    <2> QED BY <2>1, <2>5, <2>7, <2>8, <2>9, InvPartsNext DEF WorkersInOrder
  <1> QED BY <1>2, <1>3 DEF Executes

LEMMA NoSaves ==
    ASSUME NEW d PROVE Orderly(d, NoSave) /\ NoSave.pc = "end"
  <1>1. NoSave.writes = <<>>
    BY DEF NoSave, Span
  <1>2. NoSave.pc = "end"
    BY DEF NoSave, Span
  <1>3. <<>> \in Seq(RowCommit) /\ Len(<<>>) = 0
    OBVIOUS
  <1> QED BY <1>1, <1>2, <1>3 DEF Orderly

LEMMA OneSave ==
    ASSUME NEW d, NEW a, NEW pc, CommitAllowed(d, a)
    PROVE  /\ Orderly(d, Span(<<a>>, pc)) /\ Span(<<a>>, pc).pc = pc
           /\ Span(<<a>>, pc).writes # <<>> /\ Last(Span(<<a>>, pc).writes) = a
  <1>1. Span(<<a>>, pc).writes = <<a>> /\ Span(<<a>>, pc).pc = pc
    BY DEF Span
  <1>2. a \in RowCommit
    BY DEF CommitAllowed
  <1>3. <<a>> \in Seq(RowCommit) /\ Len(<<a>>) = 1 /\ <<a>>[1] = a
    BY <1>2
  <1>4. \A k \in 1..Len(<<a>>) : <<a>>[k] = a
    BY <1>3
  <1>5. Last(<<a>>) = a
    BY <1>3 DEF Last
  <1>6. \A k \in 1..Len(<<a>>) : CommitAllowed(d, <<a>>[k])
    BY <1>4
  <1>7. Orderly(d, Span(<<a>>, pc))
    BY <1>1, <1>3, <1>6 DEF Orderly
  <1>8. <<a>> # <<>>
    OBVIOUS
  <1>9. Span(<<a>>, pc).writes # <<>>
    BY <1>1, <1>8, Zenon
  <1>10. Last(Span(<<a>>, pc).writes) = a
    BY <1>1, <1>5, Zenon
  <1> QED BY <1>1, <1>7, <1>9, <1>10, Zenon

LEMMA TwoSaves ==
    ASSUME NEW d, NEW a, NEW b, CommitAllowed(d, a), CommitAllowed(d, b)
    PROVE  Orderly(d, Span(<<a, b>>, "end")) /\ Span(<<a, b>>, "end").pc = "end"
  <1>1. Span(<<a, b>>, "end").writes = <<a, b>> /\ Span(<<a, b>>, "end").pc = "end"
    BY DEF Span
  <1>2. a \in RowCommit /\ b \in RowCommit
    BY DEF CommitAllowed
  <1>3. <<a, b>> \in Seq(RowCommit) /\ Len(<<a, b>>) = 2
    BY <1>2
  <1>4. \A k \in 1..Len(<<a, b>>) : <<a, b>>[k] = a \/ <<a, b>>[k] = b
    BY <1>3
  <1> QED BY <1>1, <1>3, <1>4 DEF Orderly

LEMMA OneBefore ==
    ASSUME NEW d, NEW a, NEW w \in Seq(RowCommit), CommitAllowed(d, a), Orderly(d, Span(w, "end"))
    PROVE  /\ Orderly(d, After(<<a>>, Span(w, "end")))
           /\ After(<<a>>, Span(w, "end")).pc = "end"
  <1> DEFINE s == After(<<a>>, Span(w, "end"))
  <1>1. s.writes = <<a>> \o w /\ s.pc = "end" /\ Span(w, "end").writes = w
    BY DEF After, Span
  <1>2. a \in RowCommit
    BY DEF CommitAllowed
  <1>3. <<a>> \in Seq(RowCommit) /\ Len(<<a>>) = 1 /\ <<a>>[1] = a
    BY <1>2
  <1>4. /\ <<a>> \o w \in Seq(RowCommit) /\ Len(<<a>> \o w) = 1 + Len(w)
        /\ \A k \in 1..(1 + Len(w)) :
             (<<a>> \o w)[k] = IF k <= 1 THEN <<a>>[k] ELSE w[k - 1]
    BY <1>3, ConcatProperties
  <1>5. Len(w) \in Nat
    BY LenProperties
  <1>6. ASSUME NEW k \in 1..(1 + Len(w)) PROVE CommitAllowed(d, (<<a>> \o w)[k])
    <2>1. CASE k = 1
      BY <2>1, <1>3, <1>4
    <2>2. CASE k # 1
      <3>1. k - 1 \in 1..Len(w) /\ ~(k <= 1)
        BY <2>2, <1>5
      <3>2. (<<a>> \o w)[k] = w[k - 1]
        BY <3>1, <1>4
      <3>3. CommitAllowed(d, w[k - 1])
        BY <3>1, <1>1 DEF Orderly
      <3> QED BY <3>2, <3>3
    <2> QED BY <2>1, <2>2
  <1> QED BY <1>1, <1>4, <1>6 DEF Orderly

(* The end of a cancellation. *)
LEMMA CancelledInOrder ==
    ASSUME DirectData, NEW d \in DirectDelivery, NEW r \in DirectRow, RowInOrder(r),
           rows[d].status \notin {"applying", "completed"}
    PROVE  /\ Orderly(d, CancelledRow(r)) /\ CancelledRow(r).pc = "end"
           /\ \E w \in Seq(RowCommit) : CancelledRow(r) = Span(w, "end")
  <1>1. CASE r.status = "cancelling"
    <2> DEFINE new == [r EXCEPT !.status = IF r.candidate = "reject" THEN "rejected" ELSE "cancelled"]
               c == Save(new, main)
    <2>1. CancelledRow(r) = Span(<<c>>, "end")
      BY <1>1 DEF CancelledRow
    <2>2. new \in DirectRow /\ new.plan = r.plan /\ new.candidate = r.candidate
          /\ new.status = IF r.candidate = "reject" THEN "rejected" ELSE "cancelled"
      BY DEF DirectRow, DirectStatus, Closed
    <2> HIDE DEF new
    <2>3. RowInOrder(new) /\ new.status \in Closed /\ GivenUpAs(new) /\ new.status # "completed"
      BY <1>1, <2>2 DEF RowInOrder, Closed, GivenUpAs, Unapproved, AtWork
    <2>4. CommitAllowed(d, c)
      BY <2>2, <2>3, RowOnly
    <2>5. c \in RowCommit
      BY <2>4 DEF CommitAllowed
    <2> HIDE DEF c
    <2>6. <<c>> \in Seq(RowCommit)
      BY <2>5
    <2>7. Orderly(d, CancelledRow(r)) /\ CancelledRow(r).pc = "end"
      BY <2>1, <2>4, OneSave
    <2>8. \E w \in Seq(RowCommit) : CancelledRow(r) = Span(w, "end")
      BY <2>1, <2>6, Zenon
    <2> QED BY <2>7, <2>8
  <1>2. CASE r.status # "cancelling"
    <2>1. CancelledRow(r) = NoSave
      BY <1>2 DEF CancelledRow
    <2>2. <<>> \in Seq(RowCommit)
      OBVIOUS
    <2> QED BY <2>1, <2>2, NoSaves DEF NoSave
  <1> QED BY <1>1, <1>2

(* Apply: main is the candidate already, takes it, or has moved. *)
LEMMA AppliedInOrder ==
    ASSUME DirectData, NEW d \in DirectDelivery, NEW r \in DirectRow, r.status = "applying",
           RowInOrder(r), Active(d), ~GivenUpAs(rows[d]), On(d) => r.base = rows[d].base
    PROVE  /\ Orderly(d, Applied(d, r)) /\ Applied(d, r).pc = "end"
           /\ \E w \in Seq(RowCommit) : Applied(d, r) = Span(w, "end")
  <1> DEFINE done == [r EXCEPT !.status = "completed", !.receipt = TRUE]
             moved == IF Tip = d THEN main ELSE Append(main, d)
  <1>1. d \in MainRevision
    BY DEF MainRevision
  <1>2. /\ Append(main, d) \in Seq(MainRevision) /\ Append(main, d) # main
        /\ Len(main) \in 1..Len(main) /\ Tip = main[Len(main)]
    BY <1>1, MainAppends DEF DirectData
  <1>3. done \in DirectRow /\ done.status = "completed" /\ done.receipt /\ done.base = r.base
        /\ done.plan = r.plan /\ done.candidate = r.candidate /\ done.verified = r.verified
        /\ done.version = r.version
    BY DEF DirectRow, DirectStatus, Closed
  <1> HIDE DEF done
  <1>4. RowInOrder(done)
    BY <1>3 DEF RowInOrder, Taken, Unapproved, AtWork
  <1>5. CASE Tip = d \/ MainStands(r)
    <2>1. (moved = main /\ On(d)) \/ (moved = Append(main, d) /\ Tip = r.base /\ ~On(d))
      <3>1. CASE Tip = d
        BY <3>1, <1>2 DEF On
      <3>2. CASE Tip # d
        <4>1. Tip = r.base
          BY <3>2, <1>5 DEF MainStands
        <4>2. SUFFICES ASSUME On(d) PROVE FALSE
          BY <4>1, <3>2
        <4>3. PICK k \in 2..Len(main) : main[k] = d /\ main[k - 1] = rows[d].base
          BY <4>2, OnMain
        <4>4. main[k - 1] = main[Len(main)]
          BY <4>1, <4>2, <4>3, <1>2
        <4>5. k - 1 \in 1..Len(main) /\ k - 1 # Len(main)
          BY <1>2
        <4> QED BY <4>4, <4>5, <1>2 DEF DirectData, MainInOrder
      <3> QED BY <3>1, <3>2
    <2> HIDE DEF moved
    <2>2. moved \in Seq(MainRevision)
      BY <2>1, <1>2 DEF DirectData
    <2>3. CommitAllowed(d, Save(r, moved)) /\ CommitAllowed(d, Save(done, moved))
      <3>1. Save(r, moved) \in RowCommit /\ Save(done, moved) \in RowCommit
        BY <2>2, <1>3 DEF Save, RowCommit
      <3>2. On(d) \/ moved # main
        BY <2>1, <1>2
      <3> QED BY <3>1, <3>2, <2>1, <1>3, <1>4 DEF CommitAllowed, Save, GivenUpAs
    <2>4. Applied(d, r) = Span(<<Save(r, moved), Save(done, moved)>>, "end")
      BY <1>5 DEF Applied, moved, done
    <2>5. <<Save(r, moved), Save(done, moved)>> \in Seq(RowCommit)
      BY <2>3 DEF CommitAllowed
    <2> QED BY <2>3, <2>4, <2>5, TwoSaves
  <1>6. CASE ~(Tip = d \/ MainStands(r))
    <2>1. FailedRow(r) = r
      BY DEF FailedRow, Shielded, DirectRow
    <2>2. Applied(d, r) = Span(<<Save(r, main)>>, "end")
      BY <2>1, <1>6 DEF Applied
    <2>3. Save(r, main) \in RowCommit
      BY DEF Save, RowCommit, DirectData
    <2>4. CommitAllowed(d, Save(r, main))
      BY <2>3 DEF CommitAllowed, Save, GivenUpAs
    <2>5. <<Save(r, main)>> \in Seq(RowCommit)
      BY <2>3
    <2>6. Orderly(d, Applied(d, r)) /\ Applied(d, r).pc = "end"
      BY <2>2, <2>4, OneSave
    <2>7. \E w \in Seq(RowCommit) : Applied(d, r) = Span(w, "end")
      BY <2>2, <2>5, Zenon
    <2> QED BY <2>6, <2>7
  <1> QED BY <1>5, <1>6

-----------------------------------------------------------------------------
(* Each step of a task. *)

LEMMA TaskFacts ==
    ASSUME DirectInv, lives, NEW t \in Worker, worker[t].pc \in Working \cup {"returned", "waiting"}
    PROVE  /\ worker[t].of \in DirectDelivery /\ RowOf(t) \in DirectRow /\ RowInOrder(RowOf(t))
           /\ DirectData /\ worker[t] \in WorkerRow /\ WorkerInOrder(t)
  BY InvParts DEF WorkersInOrder, WorkerInOrder, DirectTasks, DirectData, RowsInOrder, RowOf

LEMMA TaskContinues ==
    ASSUME NEW t, NEW span, worker[t].pc \in Working, span.pc = "end"
    PROVE  Continues(t, span)
  BY DEF Continues, Working

LEMMA BeginPlanKeeps ==
    ASSUME DirectInv, NEW t \in Worker, BeginPlan(t) PROVE DirectInv'
  <1> DEFINE d == worker[t].of
             r == [RowOf(t) EXCEPT !.status = "planning"]
             span == Span(<<Save(r, main)>>, "plan")
  <1>1. lives /\ worker[t].pc = "start" /\ worker[t].what = "plan queued" /\ ~worker[t].asked
        /\ Executes(t, span)
    BY DEF BeginPlan, StartsOn
  <1>2. /\ d \in DirectDelivery /\ RowOf(t) \in DirectRow /\ RowInOrder(RowOf(t))
        /\ DirectData /\ WorkerInOrder(t)
    BY <1>1, TaskFacts DEF Working
  <1>3. RowOf(t).status = "queued"
    BY <1>1, <1>2 DEF WorkerInOrder, Fits, Working
  <1>4. r \in DirectRow /\ r.status = "planning" /\ r.plan = RowOf(t).plan
        /\ r.candidate = RowOf(t).candidate /\ r.version = RowOf(t).version
    BY <1>2 DEF DirectRow, DirectStatus
  <1> HIDE DEF r
  <1>5. RowInOrder(r)
    BY <1>2, <1>3, <1>4 DEF RowInOrder, Unapproved, AtWork
  <1>6. CommitAllowed(d, Save(r, main)) /\ Save(r, main).row = r
    BY <1>2, <1>3, <1>4, <1>5, RowOnly DEF Active, RowOf, GivenUpAs, Closed
  <1>7. /\ Orderly(d, span) /\ span.pc = "plan" /\ span.writes # <<>>
        /\ Last(span.writes) = Save(r, main)
    BY <1>6, OneSave
  <1> HIDE DEF span
  <1>8. Continues(t, span)
    BY <1>1, <1>4, <1>6, <1>7 DEF Continues, Working, Tasks
  <1> QED BY <1>1, <1>7, <1>8, ExecutesKeeps DEF span

LEMMA PlanReturnsKeeps ==
    ASSUME DirectInv, NEW t \in Worker, PlanReturns(t) PROVE DirectInv'
  <1> DEFINE d == worker[t].of
             r == [RowOf(t) EXCEPT !.status = AwaitingAt["plan"], !.plan = "open"]
             span == Span(<<Save(r, main)>>, "end")
  <1>1. lives /\ worker[t].pc = "plan" /\ ~worker[t].asked /\ Executes(t, span)
    BY DEF PlanReturns, AwaitsIn
  <1>2. /\ d \in DirectDelivery /\ RowOf(t) \in DirectRow /\ RowInOrder(RowOf(t))
        /\ DirectData /\ WorkerInOrder(t)
    BY <1>1, TaskFacts DEF Working
  <1>3. RowOf(t).status = "planning"
    BY <1>1, <1>2 DEF WorkerInOrder, Fits, Working
  <1>4. r \in DirectRow /\ r.status = "awaiting_plan_decision" /\ r.plan = "open"
        /\ r.candidate = RowOf(t).candidate /\ r.version = RowOf(t).version
    BY <1>2 DEF DirectRow, DirectStatus, AwaitingAt
  <1> HIDE DEF r
  <1>5. RowInOrder(r)
    BY <1>2, <1>3, <1>4 DEF RowInOrder, Unapproved, AtWork
  <1>6. CommitAllowed(d, Save(r, main))
    BY <1>2, <1>3, <1>4, <1>5, RowOnly DEF Active, RowOf, GivenUpAs, Closed
  <1>7. Orderly(d, span) /\ Continues(t, span)
    BY <1>1, <1>6, OneSave, TaskContinues DEF Working
  <1> QED BY <1>1, <1>7, ExecutesKeeps

(* What a failed task does to its row: nothing when it is over or stopping. *)
LEMMA FailedInOrder ==
    ASSUME DirectData, NEW d \in DirectDelivery, NEW r \in DirectRow, RowInOrder(r),
           rows[d].status \notin {"applying", "completed"}, r.status \notin {"absent", "applying", "completed"},
           r.status \notin Closed => Active(d),
           GivenUpAs(rows[d]) => GivenUpAs(r)
    PROVE  CommitAllowed(d, Save(FailedRow(r), main))
  <1>1. CASE r.status \in Closed \cup Shielded
    <2>1. FailedRow(r) = r
      BY <1>1 DEF FailedRow, DirectRow
    <2> QED BY <2>1, RowOnly
  <1>2. CASE r.status \notin Closed \cup Shielded
    <2> DEFINE new == [r EXCEPT !.status = "failed"]
    <2>1. FailedRow(r) = new
      BY <1>2 DEF FailedRow
    <2>2. new \in DirectRow /\ new.status = "failed" /\ new.plan = r.plan /\ new.candidate = r.candidate
      BY DEF DirectRow, DirectStatus, Closed
    <2> HIDE DEF new
    <2>3. RowInOrder(new)
      BY <1>2, <2>2 DEF RowInOrder, Unapproved, AtWork, Closed, Shielded
    <2>4. ~GivenUpAs(rows[d])
      BY <1>2 DEF GivenUpAs, Closed, Shielded
    <2> QED BY <2>1, <2>2, <2>3, <2>4, RowOnly DEF Closed
  <1> QED BY <1>1, <1>2

LEMMA AgentFailsKeeps ==
    ASSUME DirectInv, NEW t \in Worker, AgentFails(t) PROVE DirectInv'
  <1> DEFINE d == worker[t].of
             span == Span(<<Save(FailedRow(RowOf(t)), main)>>, "end")
  <1>1. lives /\ worker[t].pc \in {"plan", "work"} /\ Executes(t, span)
    BY DEF AgentFails, AwaitsIn
  <1>2. /\ d \in DirectDelivery /\ RowOf(t) \in DirectRow /\ RowInOrder(RowOf(t))
        /\ DirectData /\ WorkerInOrder(t)
    BY <1>1, TaskFacts DEF Working
  <1>3. RowOf(t).status \in {"planning", "executing", "cancelling"}
    BY <1>1, <1>2 DEF WorkerInOrder, Fits, Working
  <1>4. CommitAllowed(d, Save(FailedRow(RowOf(t)), main))
    BY <1>2, <1>3, FailedInOrder DEF RowOf, Active
  <1>5. Orderly(d, span) /\ Continues(t, span)
    BY <1>1, <1>4, OneSave, TaskContinues DEF Working
  <1> QED BY <1>1, <1>5, ExecutesKeeps

LEMMA StopsKeeps ==
    ASSUME DirectInv, NEW t \in Worker, StopsWorker(t) PROVE DirectInv'
  <1>1. lives /\ worker[t].pc \in Working /\ Executes(t, NoSave)
    BY DEF StopsWorker, Working
  <1>2. Orderly(worker[t].of, NoSave) /\ Continues(t, NoSave)
    BY <1>1, NoSaves, TaskContinues
  <1> QED BY <1>1, <1>2, ExecutesKeeps

LEMMA DecidedInOrder ==
    ASSUME NEW r \in DirectRow, r.version \in 1..2, NEW status \in DirectStatus
    PROVE  /\ DecidedRow(r, status) \in DirectRow
           /\ DecidedRow(r, status).status = status /\ DecidedRow(r, status).version = r.version + 1
           /\ DecidedRow(r, status).plan = r.plan /\ DecidedRow(r, status).candidate = r.candidate
           /\ DecidedRow(r, status).verified = r.verified
  <1>1. PICK n \in 0..3 : n = r.version + 1
    OBVIOUS
  <1> DEFINE new == [r EXCEPT !.status = status, !.version = n]
  <1>2. DecidedRow(r, status) = new
    BY <1>1 DEF DecidedRow
  <1>3. /\ new \in DirectRow /\ new.status = status /\ new.version = n /\ new.plan = r.plan
        /\ new.candidate = r.candidate /\ new.verified = r.verified
    BY DEF DirectRow
  <1> QED BY <1>1, <1>2, <1>3

LEMMA JudgePlanKeeps ==
    ASSUME DirectInv, NEW t \in Worker, JudgePlan(t) PROVE DirectInv'
  <1> DEFINE d == worker[t].of
             failing == Save(FailedRow(RowOf(t)), main)
             refused == PlanDecided(RowOf(t), "reject", "rejected")
             begun == PlanDecided(RowOf(t), "approve", "executing")
  <1>1. lives /\ worker[t].pc = "start" /\ worker[t].what = "plan" /\ ~worker[t].asked
    BY DEF JudgePlan, StartsOn
  <1>2. /\ d \in DirectDelivery /\ RowOf(t) \in DirectRow /\ RowInOrder(RowOf(t))
        /\ DirectData /\ WorkerInOrder(t)
    BY <1>1, TaskFacts DEF Working
  <1>3. RowOf(t).status = "awaiting_plan_decision"
    BY <1>1, <1>2 DEF WorkerInOrder, Fits, Working, DirectGate, AwaitingAt
  <1>4. Active(d) /\ ~GivenUpAs(rows[d]) /\ rows[d].status \notin {"applying", "completed"}
    BY <1>3 DEF RowOf, Active, Closed, GivenUpAs
  <1>5. RowOf(t).plan = "open" /\ RowOf(t).candidate = "none" /\ RowOf(t).version = 1
    BY <1>2, <1>3 DEF RowInOrder
  <1>6. CommitAllowed(d, failing)
    BY <1>2, <1>3, <1>4, FailedInOrder
  <1>7. CommitAllowed(d, Save(refused, main))
    <2>1. refused \in DirectRow /\ refused.status = "rejected" /\ refused.plan = "reject"
          /\ refused.candidate = "none"
      BY <1>2, <1>5, DecidedInOrder DEF PlanDecided, DirectRow, DirectStatus, Closed
    <2> HIDE DEF refused
    <2>2. RowInOrder(refused)
      BY <2>1 DEF RowInOrder, Unapproved, AtWork
    <2> QED BY <2>1, <2>2, <1>2, <1>4, RowOnly DEF Closed
  <1>8. CommitAllowed(d, Save(begun, main)) /\ Save(begun, main).row.status = "executing"
    <2>1. begun \in DirectRow /\ begun.status = "executing" /\ begun.plan = "approve"
          /\ begun.candidate = "none" /\ begun.version = 2
      BY <1>2, <1>5, DecidedInOrder DEF PlanDecided, DirectRow, DirectStatus
    <2> HIDE DEF begun
    <2>2. RowInOrder(begun)
      BY <2>1 DEF RowInOrder, Unapproved, AtWork
    <2> QED BY <2>1, <2>2, <1>2, <1>4, RowOnly DEF Closed
  <1> HIDE DEF failing, refused, begun
  <1>9. \/ Executes(t, NoSave)
        \/ Executes(t, Span(<<failing>>, "end"))
        \/ Executes(t, Span(<<Save(refused, main)>>, "end"))
        \/ Executes(t, Span(<<Save(begun, main)>>, "work"))
    BY Zenon DEF JudgePlan, failing, refused, begun
  <1>10. /\ Orderly(d, NoSave) /\ Continues(t, NoSave)
         /\ Orderly(d, Span(<<failing>>, "end")) /\ Continues(t, Span(<<failing>>, "end"))
    BY <1>1, <1>6, NoSaves, OneSave, TaskContinues DEF Working
  <1>11. /\ Orderly(d, Span(<<Save(refused, main)>>, "end"))
         /\ Continues(t, Span(<<Save(refused, main)>>, "end"))
    BY <1>1, <1>7, OneSave, TaskContinues DEF Working
  <1> DEFINE span == Span(<<Save(begun, main)>>, "work")
  <1>12. /\ Orderly(d, span) /\ span.pc = "work" /\ span.writes # <<>>
         /\ Last(span.writes) = Save(begun, main)
    BY <1>8, OneSave
  <1>13. Executes(t, span) => DirectInv'
    <2> HIDE DEF span
    <2>1. Continues(t, span)
      BY <1>1, <1>8, <1>12 DEF Continues, Working, Tasks
    <2> QED BY <2>1, <1>1, <1>12, ExecutesKeeps
  <1> QED BY <1>1, <1>9, <1>10, <1>11, <1>13, ExecutesKeeps

LEMMA WorkReturnsKeeps ==
    ASSUME DirectInv, NEW t \in Worker, WorkReturns(t) PROVE DirectInv'
  <1> DEFINE d == worker[t].of
             verifying == [RowOf(t) EXCEPT !.status = "verifying"]
             judged(passed) == [VerifiedRow(RowOf(t), passed) EXCEPT !.base = worker[t].base]
  <1>1. lives /\ worker[t].pc = "work" /\ ~worker[t].asked
    BY DEF WorkReturns, AwaitsIn
  <1>2. /\ d \in DirectDelivery /\ RowOf(t) \in DirectRow /\ RowInOrder(RowOf(t))
        /\ DirectData /\ WorkerInOrder(t) /\ worker[t].base \in MainRevision \cup {"none"}
    BY <1>1, TaskFacts DEF Working, WorkerRow
  <1>3. RowOf(t).status = "executing"
    BY <1>1, <1>2 DEF WorkerInOrder, Fits, Working
  <1>4. Active(d) /\ ~GivenUpAs(rows[d]) /\ rows[d].status \notin {"applying", "completed"}
    BY <1>3 DEF RowOf, Active, Closed, GivenUpAs
  <1>5. RowOf(t).plan = "approve" /\ RowOf(t).candidate = "none" /\ RowOf(t).version = 2
    BY <1>2, <1>3 DEF RowInOrder, AtWork
  <1>6. /\ verifying \in DirectRow /\ verifying.status = "verifying" /\ RowInOrder(verifying)
        /\ CommitAllowed(d, Save(verifying, main)) /\ CommitAllowed(d, Save(FailedRow(verifying), main))
    <2>1. verifying \in DirectRow /\ verifying.status = "verifying" /\ verifying.plan = "approve"
          /\ verifying.candidate = "none" /\ verifying.version = 2
      BY <1>2, <1>5 DEF DirectRow, DirectStatus
    <2> HIDE DEF verifying
    <2>2. RowInOrder(verifying)
      BY <2>1 DEF RowInOrder, Unapproved, AtWork
    <2>3. CommitAllowed(d, Save(verifying, main))
      BY <2>1, <2>2, <1>2, <1>4, RowOnly
    <2>4. CommitAllowed(d, Save(FailedRow(verifying), main))
      BY <2>1, <2>2, <1>2, <1>4, FailedInOrder
    <2> QED BY <2>1, <2>2, <2>3, <2>4
  <1>7. ASSUME NEW passed \in BOOLEAN PROVE CommitAllowed(d, Save(judged(passed), main))
    <2> DEFINE v == VerifiedRow(RowOf(t), passed)
               new == judged(passed)
    <2>1. /\ v \in DirectRow /\ v.plan = "approve" /\ v.version = 2
          /\ \/ v.status = "failed" /\ v.candidate = "none"
             \/ v.status = "awaiting_candidate_decision" /\ v.candidate = "open" /\ v.verified
      <3>1. CASE passed
        BY <3>1, <1>2, <1>5 DEF VerifiedRow, AwaitingAt, DirectRow, DirectStatus
      <3>2. CASE ~passed
        BY <3>2, <1>2, <1>5 DEF VerifiedRow, DirectRow, DirectStatus, Closed
      <3> QED BY <3>1, <3>2
    <2>2. new = [v EXCEPT !.base = worker[t].base]
      OBVIOUS
    <2> HIDE DEF v, new
    <2>3. new \in DirectRow /\ new.plan = v.plan /\ new.version = v.version /\ new.status = v.status
          /\ new.candidate = v.candidate /\ new.verified = v.verified
      BY <2>1, <2>2, <1>2 DEF DirectRow
    <2>4. RowInOrder(new)
      BY <2>1, <2>3 DEF RowInOrder, Unapproved, AtWork
    <2>5. CommitAllowed(d, Save(new, main))
      BY <2>1, <2>3, <2>4, <1>2, <1>4, RowOnly
    <2> QED BY <2>5 DEF new
  <1> HIDE DEF verifying, judged
  <1>8. CASE \E passed \in BOOLEAN :
               Executes(t, Span(<<Save(verifying, main), Save(judged(passed), main)>>, "end"))
    <2>1. PICK passed \in BOOLEAN :
               Executes(t, Span(<<Save(verifying, main), Save(judged(passed), main)>>, "end"))
      BY <1>8
    <2> DEFINE span == Span(<<Save(verifying, main), Save(judged(passed), main)>>, "end")
    <2>2. Orderly(d, span) /\ span.pc = "end"
      BY <1>6, <1>7, TwoSaves
    <2> HIDE DEF span
    <2>3. Continues(t, span)
      BY <2>2, <1>1, TaskContinues DEF Working
    <2> QED BY <2>1, <2>2, <2>3, <1>1, ExecutesKeeps DEF span
  <1>9. CASE Executes(t, Span(<<Save(verifying, main), Save(FailedRow(verifying), main)>>, "end"))
    <2> DEFINE span == Span(<<Save(verifying, main), Save(FailedRow(verifying), main)>>, "end")
    <2>1. Orderly(d, span) /\ span.pc = "end"
      BY <1>6, TwoSaves
    <2> HIDE DEF span
    <2>2. Continues(t, span)
      BY <2>1, <1>1, TaskContinues DEF Working
    <2> QED BY <2>1, <2>2, <1>1, <1>9, ExecutesKeeps DEF span
  <1> QED BY <1>8, <1>9, Zenon DEF WorkReturns, verifying, judged

LEMMA JudgeCandidateKeeps ==
    ASSUME DirectInv, NEW t \in Worker, JudgeCandidate(t) PROVE DirectInv'
  <1> DEFINE d == worker[t].of
             failing == Span(<<Save(FailedRow(RowOf(t)), main)>>, "end")
             applying == CandidateDecided(RowOf(t), "approve", "applying")
             cancelling == CandidateDecided(RowOf(t), "reject", "cancelling")
             refusing == After(<<Save(cancelling, main)>>, CancelledRow(cancelling))
             taking == After(<<Save(applying, main)>>, Applied(d, applying))
  <1>1. lives /\ worker[t].pc = "start" /\ worker[t].what = "candidate" /\ ~worker[t].asked
    BY DEF JudgeCandidate, StartsOn
  <1>2. /\ d \in DirectDelivery /\ RowOf(t) \in DirectRow /\ RowInOrder(RowOf(t))
        /\ DirectData /\ WorkerInOrder(t)
    BY <1>1, TaskFacts DEF Working
  <1>3. RowOf(t).status = "awaiting_candidate_decision"
    BY <1>1, <1>2 DEF WorkerInOrder, Fits, Working, DirectGate, AwaitingAt
  <1>4. Active(d) /\ ~GivenUpAs(rows[d]) /\ rows[d].status \notin {"applying", "completed"}
    BY <1>3 DEF RowOf, Active, Closed, GivenUpAs
  <1>5. RowOf(t).plan = "approve" /\ RowOf(t).candidate = "open" /\ RowOf(t).version = 2
        /\ RowOf(t).verified
    BY <1>2, <1>3 DEF RowInOrder
  <1>6. ~On(d)
    BY <1>2, <1>4, OnMain
  <1>7. Orderly(d, failing) /\ failing.pc = "end"
    BY <1>2, <1>3, <1>4, FailedInOrder, OneSave
  <1>8. Orderly(d, refusing) /\ refusing.pc = "end"
    <2>1. cancelling \in DirectRow /\ cancelling.status = "cancelling" /\ cancelling.plan = "approve"
          /\ cancelling.candidate = "reject"
      BY <1>2, <1>5, DecidedInOrder DEF CandidateDecided, DirectRow, DirectStatus, Shielded
    <2> HIDE DEF cancelling
    <2>2. RowInOrder(cancelling)
      BY <2>1 DEF RowInOrder, Unapproved, AtWork
    <2>3. CommitAllowed(d, Save(cancelling, main))
      BY <2>1, <2>2, <1>2, <1>4, RowOnly
    <2>4. Orderly(d, CancelledRow(cancelling))
          /\ \E w \in Seq(RowCommit) : CancelledRow(cancelling) = Span(w, "end")
      BY <2>1, <2>2, <1>2, <1>4, CancelledInOrder
    <2>5. PICK w \in Seq(RowCommit) : CancelledRow(cancelling) = Span(w, "end")
      BY <2>4
    <2>6. Orderly(d, Span(w, "end"))
      BY <2>4, <2>5
    <2> QED BY <2>3, <2>5, <2>6, OneBefore
  <1>9. Orderly(d, taking) /\ taking.pc = "end"
    <2>1. applying \in DirectRow /\ applying.status = "applying" /\ applying.plan = "approve"
          /\ applying.candidate = "approve" /\ applying.verified /\ applying.version = 3
      BY <1>2, <1>5, DecidedInOrder DEF CandidateDecided, DirectRow, DirectStatus, Shielded
    <2> HIDE DEF applying
    <2>2. RowInOrder(applying)
      BY <2>1 DEF RowInOrder, Unapproved, AtWork, Taken
    <2>3. CommitAllowed(d, Save(applying, main))
      BY <2>1, <2>2, <1>2, <1>4, RowOnly
    <2>4. Orderly(d, Applied(d, applying))
          /\ \E w \in Seq(RowCommit) : Applied(d, applying) = Span(w, "end")
      BY <2>1, <2>2, <1>2, <1>4, <1>6, AppliedInOrder
    <2>5. PICK w \in Seq(RowCommit) : Applied(d, applying) = Span(w, "end")
      BY <2>4
    <2>6. Orderly(d, Span(w, "end"))
      BY <2>4, <2>5
    <2> QED BY <2>3, <2>5, <2>6, OneBefore
  <1>10. ~(RowOf(t).candidate = worker[t].decision)
    BY <1>1, <1>2, <1>5, TaskFacts DEF WorkerRow, Working
  <1> HIDE DEF failing, refusing, taking
  <1>11. Executes(t, NoSave) \/ Executes(t, failing) \/ Executes(t, refusing) \/ Executes(t, taking)
    BY <1>10, Zenon DEF JudgeCandidate, failing, refusing, taking
  <1>12. Orderly(d, NoSave) /\ NoSave.pc = "end"
    BY NoSaves
  <1> QED BY <1>1, <1>7, <1>8, <1>9, <1>11, <1>12, TaskContinues, ExecutesKeeps DEF Working

LEMMA CancelEndsKeeps ==
    ASSUME DirectInv, NEW t \in Worker, CancelEnds(t) PROVE DirectInv'
  <1> DEFINE d == worker[t].of
             span == CancelledRow(RowOf(t))
  <1>1. /\ lives /\ worker[t].what = "cancel" /\ Executes(t, span)
        /\ worker[t].on \notin {s \in Worker : worker[s].pc \notin {"free", "returned"}}
    BY DEF CancelEnds
  <1>2. worker[t].pc = "waiting"
    BY <1>1, InvParts DEF WorkersInOrder, WorkerInOrder
  <1>3. /\ d \in DirectDelivery /\ RowOf(t) \in DirectRow /\ RowInOrder(RowOf(t))
        /\ DirectData /\ WorkerInOrder(t)
    BY <1>1, <1>2, TaskFacts
  <1>4. GivenUpAs(RowOf(t))
    BY <1>2, <1>3 DEF WorkerInOrder
  <1>5. Orderly(d, span) /\ span.pc = "end"
    BY <1>3, <1>4, CancelledInOrder DEF RowOf, GivenUpAs
  <1>6. \A u \in Worker : worker[u].pc \in Working => worker[u].of # d
    BY <1>1, <1>2, <1>3 DEF WorkerInOrder, Working
  <1> HIDE DEF span
  <1>7. Continues(t, span)
    BY <1>2, <1>5, <1>6 DEF Continues, Working
  <1> QED BY <1>1, <1>5, <1>7, ExecutesKeeps

-----------------------------------------------------------------------------
(* Requests, the end of a task, and the process. *)

LEMMA NoWorkerIs ==
    /\ NoWorker \in WorkerRow /\ NoWorker.pc = "free" /\ NoWorker.what = "none" /\ ~NoWorker.asked
    /\ NoWorker.of = "none" /\ NoWorker.on = 0
  BY DEF NoWorker, WorkerRow

LEMMA ScheduleKeeps ==
    ASSUME DirectTasks, WorkersInOrder, NEW t \in Worker, NEW d \in DirectDelivery, NEW w \in WorkerRow,
           booting = {}, worker[t].pc = "free", registered[d] = 0, ~GivenUpAs(rows[d]),
           w.pc = "start", w.of = d, ~w.asked, w.what \in Tasks,
           Fits(w, rows'[d]), rows'[d].status # "absent",
           \A e \in DirectDelivery : e # d => rows'[e] = rows[e],
           worker' = [worker EXCEPT ![t] = w], registered' = [registered EXCEPT ![d] = t],
           lives' = lives, booting' = booting
    PROVE  DirectTasks' /\ WorkersInOrder'
  <1>1. worker'[t] = w /\ \A u \in Worker : u # t => worker'[u] = worker[u]
    BY DEF DirectTasks
  <1>2. registered'[d] = t /\ \A e \in DirectDelivery : e # d => registered'[e] = registered[e]
    BY DEF DirectTasks
  <1>3. DirectTasks'
    BY DEF DirectTasks
  <1>4. 0 \notin Worker
    BY DEF Worker
  <1>5. \A u \in Worker : worker[u].pc \in Working \cup {"returned", "waiting"} => worker[u].of # d
    BY <1>4 DEF WorkersInOrder, WorkerInOrder, RowOf
  <1>6. ASSUME NEW u \in Worker PROVE WorkerInOrder(u)'
    <2>1. CASE u = t
      BY <2>1, <1>1, <1>2 DEF WorkerInOrder, RowOf, Working, Tasks
    <2>2. CASE u # t
      <3>1. worker'[u] = worker[u] /\ WorkerInOrder(u)
        BY <2>2, <1>1 DEF WorkersInOrder
      <3>2. worker[u].pc \in Working \cup {"returned", "waiting"} =>
              /\ rows'[worker[u].of] = rows[worker[u].of]
              /\ registered'[worker[u].of] = registered[worker[u].of]
        BY <3>1, <1>2, <1>5 DEF WorkerInOrder
      <3>3. ASSUME worker[u].pc = "waiting", NEW s \in Worker, worker'[s].pc \in Working,
                   worker'[s].of = worker[u].of
            PROVE  worker[u].on = s
        <4>1. s # t
          BY <3>3, <1>1, <1>5
        <4> QED BY <4>1, <3>1, <3>3, <1>1 DEF WorkerInOrder
      <3> QED BY <3>1, <3>2, <3>3 DEF WorkerInOrder, RowOf
    <2> QED BY <2>1, <2>2
  <1>7. ASSUME NEW e \in DirectDelivery, registered'[e] # 0
        PROVE  /\ worker'[registered'[e]].of = e
               /\ worker'[registered'[e]].pc \in Working \cup {"returned"}
    <2>1. CASE e = d
      BY <2>1, <1>1, <1>2 DEF Working
    <2>2. CASE e # d
      <3>1. PICK s \in Worker : s = registered[e] /\ registered'[e] = s
        BY <2>2, <1>2, <1>7 DEF DirectTasks
      <3>2. worker[s].of = e /\ worker[s].pc \in Working \cup {"returned"}
        BY <3>1, <1>4 DEF WorkersInOrder
      <3>3. s # t
        BY <3>2 DEF Working
      <3> QED BY <3>1, <3>2, <3>3, <1>1
    <2> QED BY <2>1, <2>2
  <1> QED BY <1>3, <1>6, <1>7 DEF WorkersInOrder

LEMMA CreateKeeps ==
    ASSUME DirectInv, NEW t \in Worker, NEW d \in DirectDelivery, Create(t, d) PROVE DirectInv'
  <1> DEFINE r == [rows[d] EXCEPT !.status = "queued", !.version = 1]
             w == [[NoWorker EXCEPT !.what = "plan queued"] EXCEPT !.pc = "start", !.of = d]
  <1>1. /\ lives /\ booting = {} /\ worker[t].pc = "free" /\ rows[d].status = "absent"
        /\ WorkspaceFree
        /\ rows' = [rows EXCEPT ![d] = r] /\ main' = main
        /\ worker' = [worker EXCEPT ![t] = w] /\ registered' = [registered EXCEPT ![d] = t]
        /\ lives' = lives /\ booting' = booting
    BY DEF Create, ArrivesAs, FreeWorkers, Schedules
  <1>2. DirectData /\ DirectTasks /\ WorkersInOrder
    BY <1>1, InvParts
  <1>3. rows[d] \in DirectRow /\ rows[d] = NoDelivery
    BY <1>1, <1>2 DEF DirectData, RowsInOrder, RowInOrder
  <1>4. r \in DirectRow /\ r.status = "queued" /\ r.version = 1 /\ r.plan = "none" /\ r.candidate = "none"
    <2>1. rows[d].plan = "none" /\ rows[d].candidate = "none"
      BY <1>3 DEF NoDelivery
    <2>2. PICK old \in DirectRow : old = rows[d]
      BY <1>3
    <2>3. PICK n \in 0..3 : n = 1
      OBVIOUS
    <2>4. r = [old EXCEPT !.status = "queued", !.version = n]
      BY <2>2, <2>3
    <2>5. r \in DirectRow /\ r.status = "queued" /\ r.version = n /\ r.plan = old.plan
          /\ r.candidate = old.candidate
      <3> HIDE DEF r
      <3> QED BY <2>4 DEF DirectRow, DirectStatus
    <2> QED BY <2>1, <2>2, <2>3, <2>5
  <1>5. w \in WorkerRow /\ w.pc = "start" /\ w.of = d /\ ~w.asked /\ w.what = "plan queued"
    <2> DEFINE v == [NoWorker EXCEPT !.what = "plan queued"]
    <2>1. v \in WorkerRow /\ v.what = "plan queued" /\ ~v.asked
      BY NoWorkerIs DEF WorkerRow
    <2>2. w = [v EXCEPT !.pc = "start", !.of = d]
      OBVIOUS
    <2> HIDE DEF v, w
    <2> QED BY <2>1, <2>2 DEF WorkerRow
  <1> HIDE DEF r, w
  <1>6. rows'[d] = r /\ \A e \in DirectDelivery : e # d => rows'[e] = rows[e]
    BY <1>1, <1>2 DEF DirectData
  <1>7. ~On(d)
    BY <1>1, <1>2, OnMain
  <1>8. DirectData'
    <2>1. RowInOrder(r)
      BY <1>4 DEF RowInOrder, Unapproved, AtWork
    <2>2. RowsInOrder'
      <3>1. \A e \in DirectDelivery : RowInOrder(rows'[e])
        BY <2>1, <1>2, <1>6 DEF DirectData, RowsInOrder
      <3>2. \A e \in DirectDelivery : Active(e)' => e = d
        BY <1>1, <1>6 DEF WorkspaceFree, Active
      <3> QED BY <3>1, <3>2 DEF RowsInOrder
    <2>3. MainInOrder'
      <3>1. \A k \in 2..Len(main) : main[k] # d
        <4>1. Len(main) \in Nat
          BY <1>2 DEF DirectData
        <4> QED BY <4>1, <1>7 DEF On
      <3>2. \A e \in DirectDelivery : rows'[e].status = "completed" => On(e)
        BY <1>2, <1>4, <1>6 DEF DirectData, MainInOrder
      <3> QED BY <3>1, <3>2, <1>1, <1>2, <1>6 DEF DirectData, MainInOrder, On
    <2> QED BY <2>2, <2>3, <1>1, <1>2, <1>4 DEF DirectData
  <1>9. registered[d] = 0
    <2>1. SUFFICES ASSUME registered[d] # 0 PROVE FALSE
      OBVIOUS
    <2>2. PICK s \in Worker : s = registered[d]
      BY <2>1, <1>2 DEF DirectTasks
    <2>3. worker[s].of = d /\ worker[s].pc \in Working \cup {"returned"}
      BY <2>1, <2>2, <1>2 DEF WorkersInOrder
    <2> QED BY <2>3, <1>1, <1>2 DEF WorkersInOrder, WorkerInOrder, RowOf
  <1>10. Fits(w, rows'[d]) /\ w.what \in Tasks /\ rows'[d].status # "absent" /\ ~GivenUpAs(rows[d])
    BY <1>1, <1>4, <1>5, <1>6 DEF Fits, DirectGate, AwaitingAt, Tasks, GivenUpAs
  <1>11. DirectTasks' /\ WorkersInOrder'
    BY <1>1, <1>2, <1>5, <1>6, <1>9, <1>10, ScheduleKeeps
  <1> QED BY <1>8, <1>11, InvPartsNext

LEMMA DataKept ==
    ASSUME DirectData, rows' = rows, main' = main PROVE DirectData'
  BY DEF DirectData, RowsInOrder, MainInOrder, Active, On

LEMMA AskDecisionKeeps ==
    ASSUME DirectInv, NEW t \in Worker, NEW d \in DirectDelivery, NEW gate \in DirectGate,
           NEW decision \in {"approve", "reject"}, AskDecision(t, d, gate, decision)
    PROVE  DirectInv'
  <1> DEFINE v == [NoWorker EXCEPT !.what = gate, !.decision = decision, !.version = rows[d].version]
             w == [v EXCEPT !.pc = "start", !.of = d]
  <1>1. /\ lives /\ booting = {} /\ worker[t].pc = "free" /\ registered[d] = 0
        /\ rows[d].status = AwaitingAt[gate]
        /\ rows' = rows /\ main' = main
        /\ worker' = [worker EXCEPT ![t] = w] /\ registered' = [registered EXCEPT ![d] = t]
        /\ lives' = lives /\ booting' = booting
    BY DEF AskDecision, ArrivesAs, FreeWorkers, Schedules
  <1>2. DirectData /\ DirectTasks /\ WorkersInOrder
    BY <1>1, InvParts
  <1>3. gate \in {"plan", "candidate"}
    BY DEF DirectGate, AwaitingAt
  <1>4. rows[d] \in DirectRow
    BY <1>2 DEF DirectData
  <1>5. v \in WorkerRow /\ v.what = gate /\ ~v.asked
    BY <1>3, <1>4 DEF NoWorker, WorkerRow, DirectRow
  <1> HIDE DEF v
  <1>6. w \in WorkerRow /\ w.pc = "start" /\ w.of = d /\ ~w.asked /\ w.what = gate
    BY <1>5 DEF WorkerRow
  <1> HIDE DEF w
  <1>7. Fits(w, rows'[d]) /\ w.what \in Tasks /\ rows'[d].status # "absent" /\ ~GivenUpAs(rows[d])
    <2>1. w.what \in Tasks /\ w.what # "plan queued"
      BY <1>3, <1>6 DEF Tasks
    <2>2. AwaitingAt[gate] \in {"awaiting_plan_decision", "awaiting_candidate_decision"}
      BY <1>3 DEF AwaitingAt
    <2>3. Fits(w, rows'[d])
      BY <1>1, <1>6, <2>1 DEF Fits
    <2> QED BY <2>1, <2>2, <2>3, <1>1 DEF GivenUpAs
  <1>8. DirectTasks' /\ WorkersInOrder'
    BY <1>1, <1>2, <1>6, <1>7, ScheduleKeeps
  <1> QED BY <1>1, <1>2, <1>8, DataKept, InvPartsNext

LEMMA DoneKeeps ==
    ASSUME DirectInv, NEW t \in Worker, WorkerDone(t) PROVE DirectInv'
  <1>1. /\ lives /\ worker[t].pc = "returned" /\ rows' = rows /\ main' = main
        /\ worker' = [worker EXCEPT ![t] = NoWorker]
        /\ registered' = [registered EXCEPT ![worker[t].of] = 0]
        /\ lives' = lives /\ booting' = booting
    BY DEF WorkerDone
  <1>2. DirectData /\ DirectTasks /\ WorkersInOrder
    BY <1>1, InvParts
  <1>3. PICK d \in DirectDelivery : d = worker[t].of /\ registered[d] = t
    BY <1>1, <1>2 DEF WorkersInOrder, WorkerInOrder
  <1>4. registered'[d] = 0 /\ \A e \in DirectDelivery : e # d => registered'[e] = registered[e]
    BY <1>1, <1>2, <1>3 DEF DirectTasks
  <1>5. worker'[t] = NoWorker /\ \A u \in Worker : u # t => worker'[u] = worker[u]
    BY <1>1, <1>2 DEF DirectTasks
  <1>6. NoWorker \in WorkerRow
    BY DEF NoWorker, WorkerRow
  <1>7. DirectTasks'
    BY <1>1, <1>2, <1>6 DEF DirectTasks
  <1>8. ASSUME NEW u \in Worker PROVE WorkerInOrder(u)'
    <2>1. CASE u = t
      BY <2>1, <1>5 DEF WorkerInOrder, NoWorker, Working, Tasks
    <2>2. CASE u # t
      <3>1. worker'[u] = worker[u] /\ WorkerInOrder(u)
        BY <2>2, <1>2, <1>5 DEF WorkersInOrder
      <3>2. worker[u].pc \in Working \cup {"returned"} => worker[u].of # d
        BY <3>1, <2>2, <1>3 DEF WorkerInOrder
      <3>3. \A s \in Worker : worker'[s].pc \in Working =>
              worker[s].pc \in Working /\ worker'[s].of = worker[s].of
        BY <1>5 DEF NoWorker, Working
      <3> QED BY <3>1, <3>2, <3>3, <1>1, <1>4 DEF WorkerInOrder, RowOf
    <2> QED BY <2>1, <2>2
  <1>9. ASSUME NEW e \in DirectDelivery, registered'[e] # 0
        PROVE  /\ worker'[registered'[e]].of = e
               /\ worker'[registered'[e]].pc \in Working \cup {"returned"}
    <2>1. e # d
      BY <1>4, <1>9
    <2>2. PICK s \in Worker : s = registered[e] /\ registered'[e] = s
      BY <2>1, <1>2, <1>4, <1>9 DEF DirectTasks
    <2>3. worker[s].of = e /\ worker[s].pc \in Working \cup {"returned"}
      BY <2>2, <1>2, <1>9 DEF WorkersInOrder
    <2>4. s # t
      BY <2>1, <2>3, <1>3
    <2> QED BY <2>2, <2>3, <2>4, <1>5
  <1>10. booting' = {}
    BY <1>1, <1>2 DEF WorkersInOrder
  <1> QED BY <1>1, <1>2, <1>7, <1>8, <1>9, <1>10, DataKept, InvPartsNext DEF WorkersInOrder

LEMMA AskCancelKeeps ==
    ASSUME DirectInv, NEW t \in Worker, NEW d \in DirectDelivery, AskCancel(t, d) PROVE DirectInv'
  <1> DEFINE r == CancellingRow(rows[d])
             w == [NoWorker EXCEPT !.pc = "waiting", !.what = "cancel", !.of = d, !.on = registered[d]]
  <1>1. /\ lives /\ booting = {} /\ worker[t].pc = "free" /\ Cancellable(rows[d])
        /\ rows' = [rows EXCEPT ![d] = r] /\ main' = main
        /\ worker' = [s \in Worker |-> IF s = t THEN w
                                       ELSE IF s = registered[d] THEN [worker[s] EXCEPT !.asked = TRUE]
                                       ELSE worker[s]]
        /\ registered' = registered /\ lives' = lives /\ booting' = booting
    BY DEF AskCancel, ArrivesAs, FreeWorkers
  <1>2. DirectData /\ DirectTasks /\ WorkersInOrder
    BY <1>1, InvParts
  <1>3. rows[d] \in DirectRow /\ RowInOrder(rows[d]) /\ registered[d] \in Worker \cup {0}
    BY <1>2 DEF DirectData, RowsInOrder, DirectTasks
  <1>4. /\ r \in DirectRow /\ r.status = "cancelling" /\ r.plan = rows[d].plan
        /\ r.candidate = rows[d].candidate
    <2>1. CASE rows[d].status = "cancelling"
      BY <2>1, <1>3 DEF CancellingRow
    <2>2. CASE rows[d].status # "cancelling"
      <3>1. rows[d].version \in 0..2
        BY <2>2, <1>1, <1>3 DEF RowInOrder, Cancellable, DirectRow, DirectStatus, Closed, Shielded,
             Unapproved, AtWork
      <3>2. PICK n \in 0..3 : n = rows[d].version + 1
        BY <3>1
      <3>3. r = [rows[d] EXCEPT !.status = "cancelling", !.version = n]
        BY <2>2, <3>2 DEF CancellingRow
      <3> QED BY <3>3, <1>3 DEF DirectRow, DirectStatus, Shielded
    <2> QED BY <2>1, <2>2
  <1>5. w \in WorkerRow /\ w.pc = "waiting" /\ w.what = "cancel" /\ w.of = d /\ w.on = registered[d]
    <2> DEFINE v == [NoWorker EXCEPT !.pc = "waiting", !.what = "cancel"]
    <2>1. v \in WorkerRow /\ v.pc = "waiting" /\ v.what = "cancel"
      BY NoWorkerIs DEF WorkerRow
    <2>2. w = [v EXCEPT !.of = d, !.on = registered[d]]
      OBVIOUS
    <2> HIDE DEF v, w
    <2> QED BY <2>1, <2>2, <1>3 DEF WorkerRow
  <1> HIDE DEF r, w
  <1>6. RowInOrder(r)
    BY <1>1, <1>3, <1>4 DEF RowInOrder, Cancellable, Unapproved, AtWork, Closed
  <1>7. Active(d) /\ rows[d].status \notin {"applying", "completed"}
    BY <1>1 DEF Cancellable, Active, Closed
  <1>8. CommitAllowed(d, Save(r, main)) /\ Save(r, main).row = r
    BY <1>2, <1>4, <1>6, <1>7, RowOnly DEF GivenUpAs
  <1>9. WritesRow(d, Save(r, main))
    BY <1>1 DEF WritesRow, Save
  <1>10. /\ DirectData'
         /\ rows'[d] = r /\ \A e \in DirectDelivery : e # d => rows'[e] = rows[e]
         /\ \A e \in DirectDelivery : GivenUpAs(rows[e]) => GivenUpAs(rows'[e])
         /\ \A e \in DirectDelivery : rows[e].status # "absent" => rows'[e].status # "absent"
    BY <1>2, <1>8, <1>9, CommitKeeps
  <1>11. /\ worker'[t] = w
         /\ \A s \in Worker : s # t =>
              IF s = registered[d] THEN worker'[s] = [worker[s] EXCEPT !.asked = TRUE]
              ELSE worker'[s] = worker[s]
    BY <1>1
  <1>12. \A s \in Worker : s # t =>
           /\ worker'[s] \in WorkerRow /\ worker'[s].pc = worker[s].pc /\ worker'[s].of = worker[s].of
           /\ worker'[s].what = worker[s].what /\ worker'[s].on = worker[s].on
           /\ IF s = registered[d] THEN worker'[s].asked ELSE worker'[s] = worker[s]
    <2> SUFFICES ASSUME NEW s \in Worker, s # t
                 PROVE  /\ worker'[s] \in WorkerRow /\ worker'[s].pc = worker[s].pc
                        /\ worker'[s].of = worker[s].of
                        /\ worker'[s].what = worker[s].what /\ worker'[s].on = worker[s].on
                        /\ IF s = registered[d] THEN worker'[s].asked ELSE worker'[s] = worker[s]
      OBVIOUS
    <2>1. worker[s] \in WorkerRow
      BY <1>2 DEF DirectTasks
    <2>2. CASE s = registered[d]
      <3>1. worker'[s] = [worker[s] EXCEPT !.asked = TRUE]
        BY <2>2, <1>11
      <3> QED BY <3>1, <2>1, <2>2 DEF WorkerRow
    <2>3. CASE s # registered[d]
      BY <2>1, <2>3, <1>11
    <2> QED BY <2>2, <2>3
  <1>13. DirectTasks'
    <2>1. \A s \in Worker : worker'[s] \in WorkerRow
      BY <1>5, <1>11, <1>12
    <2>2. worker' = [s \in Worker |-> worker'[s]]
      BY <1>1
    <2>3. worker' \in [Worker -> WorkerRow]
      BY <2>1, <2>2
    <2> QED BY <2>3, <1>1, <1>2 DEF DirectTasks
  <1>14. ASSUME NEW u \in Worker PROVE WorkerInOrder(u)'
    <2>1. CASE u = t
      <3>1. ASSUME NEW s \in Worker, worker'[s].pc \in Working, worker'[s].of = d
            PROVE  registered[d] = s
        <4>1. s # t
          BY <3>1, <1>5, <1>11 DEF Working
        <4>2. worker[s].pc \in Working /\ worker[s].of = d
          BY <3>1, <4>1, <1>12
        <4> QED BY <4>2, <1>2 DEF WorkersInOrder, WorkerInOrder
      <3>2. GivenUpAs(rows'[d])
        BY <1>4, <1>10 DEF GivenUpAs
      <3> QED BY <3>1, <3>2, <2>1, <1>5, <1>11 DEF WorkerInOrder, RowOf, Working
    <2>2. CASE u # t
      <3>1. WorkerInOrder(u) /\ worker'[u].pc = worker[u].pc /\ worker'[u].of = worker[u].of
            /\ worker'[u].what = worker[u].what /\ worker'[u].on = worker[u].on
        BY <2>2, <1>2, <1>12 DEF WorkersInOrder
      <3>2. worker[u].pc \in Working =>
              IF worker'[u].asked THEN rows'[worker[u].of].status = "cancelling"
              ELSE Fits(worker'[u], rows'[worker[u].of])
        <4>1. CASE worker[u].pc \in Working /\ worker[u].of = d
          <5>1. u = registered[d]
            BY <4>1, <3>1 DEF WorkerInOrder
          <5> QED BY <5>1, <4>1, <2>2, <1>4, <1>10, <1>12
        <4>2. CASE worker[u].pc \in Working /\ worker[u].of # d
          <5>1. rows'[worker[u].of] = rows[worker[u].of]
            BY <4>2, <3>1, <1>10 DEF WorkerInOrder
          <5>2. u # registered[d]
            BY <4>2, <1>2, <1>3 DEF WorkersInOrder, Worker
          <5>3. worker'[u] = worker[u]
            BY <5>2, <2>2, <1>12
          <5> QED BY <5>1, <5>3, <4>2, <3>1 DEF WorkerInOrder, RowOf
        <4> QED BY <4>1, <4>2
      <3>3. ASSUME worker[u].pc = "waiting", NEW s \in Worker, worker'[s].pc \in Working,
                   worker'[s].of = worker[u].of
            PROVE  worker[u].on = s
        <4>1. worker[s].pc \in Working /\ worker[s].of = worker[u].of
          <5>1. s # t
            BY <3>3, <1>5, <1>11 DEF Working
          <5> QED BY <5>1, <3>3, <1>12
        <4> QED BY <4>1, <3>1, <3>3 DEF WorkerInOrder
      <3>4. /\ worker[u].pc = "waiting" => GivenUpAs(rows'[worker[u].of])
            /\ worker[u].pc \in Working \cup {"returned"} => rows'[worker[u].of].status # "absent"
        BY <3>1, <1>10 DEF WorkerInOrder, RowOf
      <3> QED BY <3>1, <3>2, <3>3, <3>4, <1>1 DEF WorkerInOrder, RowOf
    <2> QED BY <2>1, <2>2
  <1>15. ASSUME NEW e \in DirectDelivery, registered'[e] # 0
         PROVE  /\ worker'[registered'[e]].of = e
                /\ worker'[registered'[e]].pc \in Working \cup {"returned"}
    <2>1. PICK s \in Worker : s = registered[e] /\ registered'[e] = s
      BY <1>1, <1>2, <1>15 DEF DirectTasks
    <2>2. worker[s].of = e /\ worker[s].pc \in Working \cup {"returned"}
      BY <2>1, <1>2, <1>15 DEF WorkersInOrder
    <2>3. s # t
      BY <2>2, <1>1 DEF Working
    <2> QED BY <2>1, <2>2, <2>3, <1>12
  <1> QED BY <1>1, <1>10, <1>13, <1>14, <1>15, InvPartsNext DEF WorkersInOrder

LEMMA PushKeeps ==
    ASSUME DirectInv, SomebodyPushes PROVE DirectInv'
  <1>1. PICK c \in Pushed \ ToSet(main) : main' = Append(main, c)
    BY DEF SomebodyPushes
  <1>2. rows' = rows /\ UNCHANGED <<worker, registered, lives, booting>>
    BY DEF SomebodyPushes
  <1>3. DirectData /\ DirectTasks /\ (lives => WorkersInOrder)
    BY InvParts
  <1>4. c \in MainRevision /\ c \notin DirectDelivery
    BY DirectAssumption DEF MainRevision
  <1> DEFINE n == Len(main)
             m == Append(main, c)
  <1>5. /\ m \in Seq(MainRevision) /\ m # <<>> /\ n \in Nat /\ n > 0 /\ Len(m) = n + 1
        /\ \A k \in 1..n : m[k] = main[k]
        /\ m[n + 1] = c
    BY <1>3, <1>4, MainAppends DEF DirectData
  <1>6. \A k \in 1..n : main[k] # c
    <2>1. DOMAIN main = 1..n
      BY <1>3 DEF DirectData
    <2> QED BY <2>1, <1>1 DEF ToSet
  <1> HIDE DEF m, n
  <1>7. m[1] = "seed"
    BY <1>3, <1>5 DEF DirectData, MainInOrder
  <1>8. \A j, k \in 1..(n + 1) : m[j] = m[k] => j = k
    <2> SUFFICES ASSUME NEW j \in 1..(n + 1), NEW k \in 1..(n + 1), m[j] = m[k]
                 PROVE  j = k
      OBVIOUS
    <2>1. CASE j = n + 1 \/ k = n + 1
      BY <2>1, <1>5, <1>6
    <2>2. CASE j # n + 1 /\ k # n + 1
      <3>1. j \in 1..n /\ k \in 1..n
        BY <2>2, <1>5
      <3> QED BY <3>1, <1>3, <1>5 DEF DirectData, MainInOrder, n
    <2> QED BY <2>1, <2>2
  <1>9. ASSUME NEW k \in 2..(n + 1), m[k] \in DirectDelivery
        PROVE  rows[m[k]].status \in {"applying", "completed"} /\ m[k - 1] = rows[m[k]].base
    <2>1. k # n + 1
      BY <1>4, <1>5, <1>9
    <2>2. k \in 2..n /\ k \in 1..n /\ k - 1 \in 1..n
      BY <2>1, <1>5
    <2>3. m[k] = main[k] /\ m[k - 1] = main[k - 1]
      BY <2>2, <1>5
    <2> QED BY <2>2, <2>3, <1>3, <1>9 DEF DirectData, MainInOrder, n
  <1>10. \A e \in DirectDelivery : rows[e].status = "completed" => \E k \in 1..(n + 1) : m[k] = e
    <2> SUFFICES ASSUME NEW e \in DirectDelivery, rows[e].status = "completed"
                 PROVE  \E k \in 1..(n + 1) : m[k] = e
      OBVIOUS
    <2>1. \E k \in 1..n : main[k] = e
      BY <1>3 DEF DirectData, MainInOrder, On, n
    <2> QED BY <2>1, <1>5
  <1>11. main' = m /\ Len(main') = n + 1
    BY <1>1, <1>5 DEF m
  <1>12. MainInOrder'
    BY <1>2, <1>7, <1>8, <1>9, <1>10, <1>11 DEF MainInOrder, On
  <1>13. DirectData'
    BY <1>2, <1>3, <1>5, <1>11, <1>12 DEF DirectData, RowsInOrder, Active
  <1>14. DirectTasks' /\ (lives' => WorkersInOrder')
    BY <1>2, <1>3 DEF DirectTasks, WorkersInOrder, WorkerInOrder, RowOf
  <1> QED BY <1>13, <1>14, InvPartsNext

LEMMA CrashKeeps ==
    ASSUME DirectInv, DirectCrash PROVE DirectInv'
  <1>1. /\ rows' = rows /\ main' = main /\ lives' = FALSE
        /\ UNCHANGED <<worker, registered, booting>>
    BY DEF DirectCrash
  <1>2. DirectData /\ DirectTasks
    BY InvParts
  <1>3. DirectTasks'
    BY <1>1, <1>2 DEF DirectTasks
  <1> QED BY <1>1, <1>2, <1>3, DataKept, InvPartsNext

LEMMA RestartKeeps ==
    ASSUME DirectInv, DirectRestart PROVE DirectInv'
  <1>1. /\ rows' = rows /\ main' = main /\ lives' = TRUE
        /\ worker' = [t \in Worker |-> NoWorker] /\ registered' = [d \in DirectDelivery |-> 0]
        /\ booting' = {d \in DirectDelivery : rows[d].status # "absent"}
    BY DEF DirectRestart
  <1>2. DirectData
    BY InvParts
  <1>3. NoWorker \in WorkerRow
    BY DEF NoWorker, WorkerRow
  <1>4. DirectTasks'
    BY <1>1, <1>3 DEF DirectTasks
  <1>5. WorkersInOrder'
    BY <1>1 DEF WorkersInOrder, WorkerInOrder, NoWorker, Working, Tasks
  <1> QED BY <1>1, <1>2, <1>4, <1>5, DataKept, InvPartsNext

LEMMA RecoveryInOrder ==
    ASSUME DirectData, NEW d \in DirectDelivery PROVE Orderly(d, Recovery(d))
  <1> DEFINE r == rows[d]
  <1>1. r \in DirectRow /\ RowInOrder(r)
    BY DEF DirectData, RowsInOrder
  <1>2. CASE r.status = "cancelling"
    <2>1. Recovery(d) = CancelledRow(r)
      BY <1>2 DEF Recovery
    <2> QED BY <2>1, <1>1, <1>2, CancelledInOrder
  <1>3. CASE r.status \in {"planning", "executing", "verifying"}
    <2> DEFINE new == [r EXCEPT !.status = "failed", !.version = @ + 1]
               span == Span(<<Save(new, main)>>, "end")
    <2>1. Recovery(d) = span
      BY <1>3 DEF Recovery
    <2>2. r.version \in 1..2 /\ r.plan # "reject" /\ r.candidate # "reject"
      BY <1>1, <1>3 DEF RowInOrder, Unapproved, AtWork
    <2>3. PICK n \in 0..3 : n = r.version + 1
      BY <2>2
    <2>4. new = [r EXCEPT !.status = "failed", !.version = n]
      BY <2>3
    <2> HIDE DEF new
    <2>5. new \in DirectRow /\ new.status = "failed" /\ new.plan = r.plan /\ new.candidate = r.candidate
      BY <2>4, <1>1 DEF DirectRow, DirectStatus, Closed
    <2>6. RowInOrder(new)
      BY <2>2, <2>5 DEF RowInOrder, Unapproved, AtWork
    <2>7. CommitAllowed(d, Save(new, main))
      BY <2>5, <2>6, <1>3, RowOnly DEF Closed, GivenUpAs
    <2> QED BY <2>1, <2>7, OneSave
  <1>4. CASE r.status = "applying"
    <2>1. Recovery(d) = Applied(d, r)
      BY <1>4 DEF Recovery
    <2>2. Active(d) /\ ~GivenUpAs(rows[d])
      BY <1>4 DEF Active, Closed, GivenUpAs
    <2> QED BY <2>1, <2>2, <1>1, <1>4, AppliedInOrder
  <1>5. CASE r.status \notin {"cancelling", "planning", "executing", "verifying", "applying"}
    <2>1. Recovery(d) = NoSave
      BY <1>5 DEF Recovery
    <2> QED BY <2>1, NoSaves
  <1> QED BY <1>2, <1>3, <1>4, <1>5

LEMMA RecoverKeeps ==
    ASSUME DirectInv, NEW d \in DirectDelivery, RecoverRow(d) PROVE DirectInv'
  <1>1. lives /\ d \in booting
    BY DEF RecoverRow
  <1>2. DirectData /\ DirectTasks /\ WorkersInOrder
    BY <1>1, InvParts
  <1>3. \A t \in Worker : worker[t].pc = "free"
    BY <1>1, <1>2 DEF WorkersInOrder
  <1>4. Orderly(d, Recovery(d))
    BY <1>2, RecoveryInOrder
  <1>5. CASE DiesIn(d, Recovery(d))
    <2>1. DirectData'
      BY <1>2, <1>4, <1>5, SpanKeeps
    <2>2. DirectTasks' /\ lives' = FALSE
      BY <1>2, <1>5 DEF DiesIn, DirectTasks
    <2> QED BY <2>1, <2>2, InvPartsNext
  <1>6. CASE /\ CommitsAll(d, Recovery(d)) /\ booting' = booting \ {d}
             /\ UNCHANGED <<worker, registered, lives, deaths>>
    <2>1. DirectData'
      BY <1>2, <1>4, <1>6, SpanKeeps
    <2>2. DirectTasks'
      BY <1>2, <1>6 DEF DirectTasks
    <2>3. WorkersInOrder'
      BY <1>2, <1>3, <1>6 DEF WorkersInOrder, WorkerInOrder, Working
    <2> QED BY <2>1, <2>2, <2>3, InvPartsNext
  <1> QED BY <1>5, <1>6 DEF RecoverRow

-----------------------------------------------------------------------------
LEMMA DirectInitInOrder == DirectInit => DirectInv
  <1> SUFFICES ASSUME DirectInit PROVE DirectInv
    OBVIOUS
  <1>1. /\ rows = [d \in DirectDelivery |-> NoDelivery] /\ main = <<"seed">>
        /\ worker = [t \in Worker |-> NoWorker] /\ registered = [d \in DirectDelivery |-> 0]
        /\ lives = TRUE /\ booting = {}
    BY DEF DirectInit
  <1>2. NoDelivery \in DirectRow /\ NoDelivery.status = "absent" /\ RowInOrder(NoDelivery)
    BY DEF NoDelivery, DirectRow, DirectStatus, RowInOrder, Unapproved, AtWork
  <1>3. main \in Seq(MainRevision) /\ Len(main) = 1 /\ main[1] = "seed" /\ main # <<>>
    BY <1>1 DEF MainRevision
  <1>4. RowsInOrder
    BY <1>1, <1>2 DEF RowsInOrder, Active
  <1>5. MainInOrder
    BY <1>1, <1>2, <1>3 DEF MainInOrder
  <1>6. DirectData
    BY <1>1, <1>2, <1>3, <1>4, <1>5 DEF DirectData
  <1>7. DirectTasks
    BY <1>1, NoWorkerIs DEF DirectTasks
  <1>8. WorkersInOrder
    BY <1>1, NoWorkerIs DEF WorkersInOrder, WorkerInOrder, Working, Tasks
  <1> QED BY <1>6, <1>7, <1>8, InvParts

LEMMA DirectKeeps == DirectInv /\ [DirectNext]_directVars => DirectInv'
  <1> SUFFICES ASSUME DirectInv, [DirectNext]_directVars PROVE DirectInv'
    OBVIOUS
  <1>1. CASE UNCHANGED directVars
    BY <1>1 DEF directVars, DirectInv, LinearTypeOK, RowsInOrder, MainInOrder, WorkersInOrder,
       WorkerInOrder, RowOf, Active, On
  <1>2. ASSUME NEW t \in Worker, NEW d \in DirectDelivery, Create(t, d) \/ AskCancel(t, d)
        PROVE  DirectInv'
    BY <1>2, CreateKeeps, AskCancelKeeps
  <1>3. ASSUME NEW t \in Worker, NEW d \in DirectDelivery, NEW g \in DirectGate,
               NEW decision \in {"approve", "reject"}, AskDecision(t, d, g, decision)
        PROVE  DirectInv'
    BY <1>3, AskDecisionKeeps
  <1>4. ASSUME NEW t \in Worker, BeginPlan(t) \/ PlanReturns(t) \/ AgentFails(t) \/ WorkReturns(t)
        PROVE  DirectInv'
    BY <1>4, BeginPlanKeeps, PlanReturnsKeeps, AgentFailsKeeps, WorkReturnsKeeps
  <1>5. ASSUME NEW t \in Worker, WorkerStep(t) PROVE DirectInv'
    BY <1>5, StopsKeeps, DoneKeeps, CancelEndsKeeps, JudgePlanKeeps, JudgeCandidateKeeps DEF WorkerStep
  <1>6. ASSUME NEW d \in DirectDelivery, RecoverRow(d) PROVE DirectInv'
    BY <1>6, RecoverKeeps
  <1> QED BY <1>1, <1>2, <1>3, <1>4, <1>5, <1>6, PushKeeps, CrashKeeps, RestartKeeps DEF DirectNext

(* Rows, tasks and the main branch hold values the code can write; a row is
   saved by compare-and-set three times at most. *)
THEOREM DirectTypeCorrect == DirectSpec => []LinearTypeOK
  <1>1. DirectInv => LinearTypeOK
    BY DEF DirectInv
  <1> QED BY <1>1, DirectInitInOrder, DirectKeeps, PTL DEF DirectSpec

LEMMA InvIsReviewed == DirectInv => AppliedAsReviewed
  <1> SUFFICES ASSUME DirectInv PROVE AppliedAsReviewed
    OBVIOUS
  <1>1. DirectData
    BY InvParts
  <1>2. ASSUME NEW k \in 2..Len(main), main[k] \in DirectDelivery
        PROVE  LET r == rows[main[k]] IN
               /\ r.plan = "approve" /\ r.candidate = "approve" /\ r.verified
               /\ main[k - 1] = r.base
               /\ \A j \in 1..(k - 1) : main[j] # main[k]
    <2>1. /\ rows[main[k]].status \in {"applying", "completed"}
          /\ main[k - 1] = rows[main[k]].base
      BY <1>1, <1>2 DEF DirectData, MainInOrder
    <2>2. RowInOrder(rows[main[k]])
      BY <1>1, <1>2 DEF DirectData, RowsInOrder
    <2>3. Taken(rows[main[k]])
      BY <2>1, <2>2 DEF RowInOrder
    <2>4. \A j \in 1..(k - 1) : main[j] # main[k]
      <3>1. Len(main) \in Nat
        BY <1>1 DEF DirectData
      <3>2. \A j \in 1..(k - 1) : j \in 1..Len(main) /\ j # k
        BY <3>1
      <3>3. k \in 1..Len(main)
        BY <3>1
      <3> QED BY <3>2, <3>3, <1>1 DEF DirectData, MainInOrder
    <2> QED BY <2>1, <2>3, <2>4 DEF Taken
  <1>3. ASSUME NEW d \in DirectDelivery, rows[d].status = "completed"
        PROVE  rows[d].receipt /\ d \in ToSet(main)
    <2>1. rows[d].receipt /\ On(d)
      BY <1>1, <1>3 DEF DirectData, RowsInOrder, RowInOrder, MainInOrder
    <2>2. DOMAIN main = 1..Len(main)
      BY <1>1 DEF DirectData
    <2> QED BY <2>1, <2>2 DEF On, ToSet
  <1> QED BY <1>2, <1>3 DEF AppliedAsReviewed

LEMMA InvIsAlone == DirectInv => OneAtATime
  <1> SUFFICES ASSUME DirectInv PROVE OneAtATime
    OBVIOUS
  <1> DEFINE A == {d \in DirectDelivery : Active(d)}
  <1>1. \A d, e \in A : d = e
    BY InvParts DEF DirectData, RowsInOrder
  <1>2. CASE A = {}
    BY <1>2, FS_EmptySet DEF OneAtATime
  <1>3. CASE A # {}
    <2>1. PICK d \in A : TRUE
      BY <1>3
    <2>2. A = {d}
      BY <1>1, <2>1
    <2>3. Cardinality({d}) = 1
      BY FS_Singleton
    <2>4. Cardinality(A) = 1
      BY <2>2, <2>3
    <2> QED BY <2>4 DEF OneAtATime
  <1> QED BY <1>2, <1>3

LEMMA InvRefuses == DirectInv => RefusalsHold
  <1> SUFFICES ASSUME DirectInv, NEW d \in DirectDelivery
               PROVE  /\ "reject" \in {rows[d].plan, rows[d].candidate} =>
                           rows[d].status \in {"cancelling", "rejected"}
                      /\ rows[d].status \in {"cancelling", "cancelled", "rejected"} =>
                           d \notin ToSet(main)
    BY DEF RefusalsHold
  <1>1. DirectData
    BY InvParts
  <1>2. RowInOrder(rows[d])
    BY <1>1 DEF DirectData, RowsInOrder
  <1>3. d \in ToSet(main) => On(d)
    <2>1. DOMAIN main = 1..Len(main)
      BY <1>1 DEF DirectData
    <2> QED BY <2>1 DEF ToSet, On
  <1> QED BY <1>1, <1>2, <1>3, OnMain DEF RowInOrder

(* LocalGitSandbox and the deliveries without a pipeline: whatever is pushed or
   dies meanwhile, main takes a candidate once, from the base it was reviewed on,
   with both approvals and its verification; what is completed was taken; one
   delivery at a time works; a rejection ends as one, and what was given up is
   not on main. *)
THEOREM DirectStaysInOrder == DirectSpec => []DirectInOrder
  <1>1. DirectInv => DirectInOrder
    BY InvIsReviewed, InvIsAlone, InvRefuses DEF DirectInOrder
  <1> QED BY <1>1, DirectInitInOrder, DirectKeeps, PTL DEF DirectSpec
=============================================================================
