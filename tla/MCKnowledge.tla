---------------------------- MODULE MCKnowledge ----------------------------
(* Small instances of the three knowledge components.  They share no variable
   here (each sees the others as an environment that does anything), so a
   behaviour is one of one component: KnowledgeInit picks it, the others stand
   still.  They are extended, so that the run checks the properties the theorems
   state. *)
EXTENDS KnowledgeSync, KnowledgeIndex, KnowledgeContext

VARIABLE part

everything == <<part, syncVars, indexVars, vars>>

KnowledgeInit == /\ part \in {"sync", "index", "context"}
                 /\ SyncInit /\ IndexInit /\ Init

SyncPart == part = "sync" /\ UNCHANGED <<part, indexVars, vars>>
IndexPart == part = "index" /\ UNCHANGED <<part, syncVars, vars>>
ContextPart == part = "context" /\ UNCHANGED <<part, syncVars, indexVars>>

KnowledgeNext ==
    \/ SyncPart /\ SyncNext
    \/ IndexPart /\ IndexNext
    \/ ContextPart /\ Next

(* The fairness of the component that was picked. *)
KnowledgeFairness ==
    WF_everything((SyncPart /\ Supervised) \/ (ContextPart /\ Prepares))

KnowledgeSpec == KnowledgeInit /\ [][KnowledgeNext]_everything /\ KnowledgeFairness

(* The rows, calls and threads of all three hold values the code can write, and no
   sync job has two owners. *)
KnowledgeTypeOK == SyncTypeOK /\ OneOwner /\ IndexTypeOK /\ ContextTypeOK

(* KnowledgeSync, KnowledgeContext: all sync jobs are over in the end, and no
   delivery prepares for ever. *)
KnowledgeSettles ==
    (part = "sync" => JobsSettle) /\ (part = "context" => PreparationReturns)
=============================================================================
