-------------------------- MODULE MCWorkcellKernel --------------------------
(* A small instance of WorkcellKernel: the code workcells, with one Writer and
   two Reviewers. *)
EXTENDS WorkcellKernel, TLC

CONSTANTS w, r1, r2

CodePurpose == (w :> "workspace_write") @@ (r1 :> "review") @@ (r2 :> "review")
Symmetric == Permutations({r1, r2}) \cup Permutations(Client)
=============================================================================
