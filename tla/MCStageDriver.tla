--------------------------- MODULE MCStageDriver ---------------------------
(* Small instances of StageDriver: a code workcell (one Writer and two
   Reviewers) and the preparation workcell (two Artifact delegates). *)
EXTENDS StageDriver, TLC

CONSTANTS w, r1, r2, a1, a2

CodePurpose == (w :> "workspace_write") @@ (r1 :> "review") @@ (r2 :> "review")
ArtifactPurpose == (a1 :> "artifact") @@ (a2 :> "artifact")
=============================================================================
