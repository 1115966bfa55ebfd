-------------------------- MODULE WorkcellContract --------------------------
(***************************************************************************)
(* What a WorkcellRun promises the pipeline that started it: one outcome,  *)
(* never revised between accepted and refused, with independent evidence.  *)
(* A candidate is reviewed only after machine verification passed it, a    *)
(* failed verification or a blocking review refuses the run in the same    *)
(* step, and acceptance needs the verification of a writing team and a     *)
(* clean review from each of its reviewers.                                *)
(***************************************************************************)
CONSTANTS Slot, Purpose

VARIABLES
    outcome,   \* "open", "accepted" or "refused"
    team,      \* slots of the delegation plan
    verified,  \* machine verification of the candidate
    clean,     \* reviewers whose review has no blocking finding
    blocking   \* reviewers whose review blocks

contract == <<outcome, team, verified, clean, blocking>>

Init ==
    /\ outcome = "open" /\ team = {} /\ verified = "none"
    /\ clean = {} /\ blocking = {}

Delegate ==
    /\ outcome = "open" /\ team = {}
    /\ team' \in SUBSET Slot
    /\ UNCHANGED <<outcome, verified, clean, blocking>>

Verify ==
    /\ outcome = "open" /\ verified = "none"
    /\ \E s \in team : Purpose[s] = "workspace_write"
    /\ \/ verified' = "passed" /\ outcome' = "open"
       \/ verified' = "failed" /\ outcome' = "refused"
    /\ UNCHANGED <<team, clean, blocking>>

(* The other reviews of a batch are still collected after one has refused. *)
Review(s) ==
    /\ outcome \in {"open", "refused"} /\ verified = "passed"
    /\ s \in team \ (clean \cup blocking) /\ Purpose[s] = "review"
    /\ \/ clean' = clean \cup {s} /\ UNCHANGED <<outcome, blocking>>
       \/ blocking' = blocking \cup {s} /\ outcome' = "refused" /\ UNCHANGED clean
    /\ UNCHANGED <<team, verified>>

Accept ==
    /\ outcome = "open" /\ blocking = {} /\ verified # "failed"
    /\ (\E s \in team : Purpose[s] = "workspace_write") => verified = "passed"
    /\ clean = {s \in team : Purpose[s] = "review"}
    /\ outcome' = "accepted"
    /\ UNCHANGED <<team, verified, clean, blocking>>

Refuse ==
    /\ outcome = "open" /\ outcome' = "refused"
    /\ UNCHANGED <<team, verified, clean, blocking>>

Next == Delegate \/ Verify \/ (\E s \in Slot : Review(s)) \/ Accept \/ Refuse

Spec == Init /\ [][Next]_contract
=============================================================================
