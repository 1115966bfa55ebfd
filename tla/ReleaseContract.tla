-------------------------- MODULE ReleaseContract --------------------------
(***************************************************************************)
(* What an external forward-only release promises to a project, without    *)
(* the attempts, leases, pushes and threads that keep the promise: the     *)
(* repositories of a bundle receive their receipts one after the other in  *)
(* the frozen order, one bundle at a time, and a release that is finished  *)
(* covered every repository and stays as it is.                            *)
(***************************************************************************)
EXTENDS Naturals

CONSTANTS
    Delivery,    \* deliveries of one project
    N            \* repositories of the release contract

VARIABLES
    applied,     \* per delivery: ordinals with a persisted receipt
    finished     \* deliveries whose release is over

release == <<applied, finished>>

Repo == 1..N

Init == applied = [d \in Delivery |-> {}] /\ finished = {}

(* The next repository of d: nobody else has a release under way. *)
Land(d) ==
    /\ d \notin finished
    /\ \A e \in Delivery \ {d} : e \in finished \/ applied[e] = {}
    /\ \E r \in Repo : applied[d] = 1..(r - 1) /\ applied' = [applied EXCEPT ![d] = 1..r]
    /\ UNCHANGED finished

Finish(d) ==
    /\ d \notin finished /\ applied[d] = Repo
    /\ finished' = finished \cup {d}
    /\ UNCHANGED applied

Next == \E d \in Delivery : Land(d) \/ Finish(d)

Spec == Init /\ [][Next]_release
=============================================================================
