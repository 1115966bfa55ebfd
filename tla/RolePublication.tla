--------------------------- MODULE RolePublication ---------------------------
(***************************************************************************)
(* One role document of a delivery: the publication an agent's artifact is *)
(* registered for, the Wiki document it is published to, and the project   *)
(* and its space, which somebody may archive meanwhile.                    *)
(*                                                                         *)
(* Publishing is one transaction of the event loop.  People edit documents *)
(* and archive projects in requests that run in a thread pool: what such a *)
(* request has checked may be gone when it writes.                         *)
(***************************************************************************)
EXTENDS Naturals, Sequences

CONSTANTS
    Artifact,         \* what successive runs of the role's stage produce
    Editor,           \* edits of the document under way at once
    MaxRevision,      \* bound: revisions of the document
    MaxWikiRestarts   \* bound: restarts of the process

Nil == "none"

(* No artifact is the absence of one. *)
ASSUME PublicationAssumption ==
    Nil \notin Artifact /\ MaxRevision \in Nat

VARIABLES
    publication,      \* knowledge_publications: the row of one publication_key
    document,         \* wiki_revisions in order; the document's version is their number
    space,            \* wiki_spaces.lifecycle_status of the project's documents, or "none"
    projectStatus,    \* projects.lifecycle_status
    running,          \* the delivery has the project's lease
    edit,             \* per editor: the version the edit was made on, 0 for none
    retry,            \* a person's retry: none, made on the publication as it is, or stale
    hook,             \* statuses that requests have still to hand on to the space
    wikiRestarts

publicationVars ==
    <<publication, document, space, projectStatus, running, edit, retry, hook, wikiRestarts>>

Agent == "agent"
Human == "human"

(* The project was created; its space not yet, that is up to the request's hook. *)
PublicationInit ==
    /\ publication = [status |-> "absent", artifact |-> Nil, expected |-> 0, target |-> 0]
    /\ document = <<>>
    /\ space = Nil /\ projectStatus = "active" /\ running = TRUE
    /\ edit = [e \in Editor |-> 0]
    /\ retry = Nil
    /\ hook = {"active"}
    /\ wikiRestarts = 0

Version == Len(document)
AtHead == document # <<>> /\ document[Version].artifact = publication.artifact

(* Every write of the publication bumps its version. *)
Write(row) == publication' = row
Outdated == retry' = IF retry = Nil THEN Nil ELSE "stale"

-----------------------------------------------------------------------------
(* register_on, in the transaction that ends the agent's run: the same
   artifact again changes nothing, another one is pending where the last one
   was published. *)
Register(a) ==
    /\ running
    /\ publication.artifact # a
    /\ Write([publication EXCEPT !.status = "pending", !.artifact = a]) /\ Outdated
    /\ UNCHANGED <<document, space, projectStatus, running, edit, hook, wikiRestarts>>

(* _ensure_project_space: it exists and is active, or it can be created. *)
SpaceUsable == space = "active" \/ (space = Nil /\ projectStatus = "active")

(* Mutant: an agent's revision goes on top of whatever is there. *)
ExpectsAnything == TRUE

(* The document is as this publication left it. *)
ExpectsHead == publication.expected = Version

Revise(by, artifact, base) ==
    document' = Append(document, [by |-> by, artifact |-> artifact, base |-> base])

PublishedAt(revision) ==
    Write([publication EXCEPT !.status = "published", !.target = revision, !.expected = revision])

PublicationFails == Write([publication EXCEPT !.status = "failed"])

(* publish: one transaction; whatever goes wrong is recorded as a failure.  (No
   document yet is version 0, which is what nothing published expects.) *)
Publish ==
    \/ PublicationFails /\ UNCHANGED <<document, space>>       \* _load_artifact, _render
    \/ ~SpaceUsable /\ PublicationFails /\ UNCHANGED <<document, space>>
    \/ /\ SpaceUsable /\ space' = "active"
       /\ \/ AtHead /\ PublishedAt(Version) /\ UNCHANGED document
          \/ ~AtHead /\ ~ExpectsHead /\ PublicationFails /\ UNCHANGED document
          \/ /\ ~AtHead /\ ExpectsHead /\ Version < MaxRevision
             /\ Revise(Agent, publication.artifact, publication.expected)
             /\ PublishedAt(Version + 1)

(* publish_required: the barrier publishes what is pending, and what has failed
   only a person retries. *)
PublishRequired ==
    /\ publication.status = "pending" /\ running
    /\ Publish /\ Outdated
    /\ UNCHANGED <<projectStatus, running, edit, hook, wikiRestarts>>

(* retry_knowledge_publication: the project is writable when it comes in. *)
BeginRetry ==
    /\ retry = Nil
    /\ publication.status # "absent" /\ projectStatus = "active"
    /\ retry' = "current"
    /\ UNCHANGED <<publication, document, space, projectStatus, running, edit, hook, wikiRestarts>>

Retry ==
    /\ retry # Nil
    /\ IF retry = "current" /\ publication.status # "published"
       THEN Publish ELSE UNCHANGED <<publication, document, space>>
    /\ retry' = Nil
    /\ UNCHANGED <<projectStatus, running, edit, hook, wikiRestarts>>

(* The delivery is over, however. *)
DeliveryEnds ==
    /\ running /\ running' = FALSE
    /\ UNCHANGED <<publication, document, space, projectStatus, edit, retry, hook, wikiRestarts>>

-----------------------------------------------------------------------------
(* patch_document and restore_revision: by the version the editor has seen. *)
BeginEdit(e) ==
    /\ edit[e] = 0 /\ document # <<>> /\ projectStatus = "active"
    /\ edit' = [edit EXCEPT ![e] = Version]
    /\ UNCHANGED <<publication, document, space, projectStatus, running, retry, hook, wikiRestarts>>

(* Mutant: the version is compared when the request comes in, only. *)
IsCurrentAlways(e) == TRUE

IsCurrent(e) == edit[e] = Version

CommitEdit(e) ==
    /\ edit[e] # 0 /\ Version < MaxRevision
    /\ IF IsCurrent(e) THEN Revise(Human, Nil, edit[e]) ELSE UNCHANGED document
    /\ edit' = [edit EXCEPT ![e] = 0]
    /\ UNCHANGED <<publication, space, projectStatus, running, retry, hook, wikiRestarts>>

(* archive: without a lease; the space follows in the request's hook. *)
ArchiveProject ==
    /\ projectStatus = "active" /\ ~running
    /\ projectStatus' = "archived"
    /\ hook' = hook \cup {"archived"}
    /\ UNCHANGED <<publication, document, space, running, edit, retry, wikiRestarts>>

(* reconcile_project_space: the status the request has read, whatever it is now. *)
ReconcileSpace(status) ==
    /\ status \in hook /\ hook' = hook \ {status}
    /\ space' = status
    /\ UNCHANGED <<publication, document, projectStatus, running, edit, retry, wikiRestarts>>

(* The requests die; at startup the space gets the status of its project. *)
RestartWiki ==
    /\ wikiRestarts < MaxWikiRestarts /\ wikiRestarts' = wikiRestarts + 1
    /\ space' = projectStatus
    /\ edit' = [e \in Editor |-> 0] /\ retry' = Nil /\ hook' = {}
    /\ UNCHANGED <<publication, document, projectStatus, running>>

PublicationNext ==
    \/ \E a \in Artifact : Register(a)
    \/ PublishRequired \/ BeginRetry \/ Retry
    \/ DeliveryEnds \/ ArchiveProject
    \/ \E status \in {"active", "archived"} : ReconcileSpace(status)
    \/ \E e \in Editor : BeginEdit(e) \/ CommitEdit(e)
    \/ RestartWiki

PublicationSpec == PublicationInit /\ [][PublicationNext]_publicationVars

-----------------------------------------------------------------------------
(* The rows and requests hold values the code can write. *)
PublicationTypeOK ==
    /\ publication \in [status : {"absent", "pending", "failed", "published"},
                       artifact : Artifact \cup {Nil},
                       expected : 0..MaxRevision, target : 0..MaxRevision]
    /\ document \in Seq([by : {Agent, Human}, artifact : Artifact \cup {Nil},
                         base : 0..MaxRevision])
    /\ space \in {Nil, "active", "archived"} /\ projectStatus \in {"active", "archived"}
    /\ edit \in [Editor -> 0..MaxRevision]
    /\ retry \in {Nil, "current", "stale"}
    /\ hook \subseteq {"active", "archived"}

(* Nobody writes over a revision he has not seen: not one person over another's,
   and an agent never over a person's, however often its stage runs again or
   its publication is retried; and a publication that claims to be published
   names a revision with its very artifact. *)
DocumentInOrder ==
    /\ \A r \in 1..Version : document[r].base = r - 1
    /\ \A r \in 2..Version : document[r].by = Agent => document[r - 1].by = Agent
    /\ publication.status = "published" =>
         document[publication.target].artifact = publication.artifact
=============================================================================
