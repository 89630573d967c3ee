----------------------------- MODULE ArgoDomain -----------------------------
(***************************************************************************)
(* The domain layer, internal/argocd: what the tools read out of an        *)
(* Application, the guards they apply to it and the JSON merge patches     *)
(* they build from it.  Constant-level operators only, no state.           *)
(*                                                                         *)
(* A JSON object is flattened to a function from the paths of its leaves   *)
(* to their values: the merge of RFC 7386 over nested maps is then a       *)
(* point-wise override, and a key that was never written stays absent.     *)
(* Arrays are leaves, as they are for a merge patch.  "" and <<>> are Go's *)
(* zero values; initiators and reasons are tuples of their parts.          *)
(*                                                                         *)
(* In this and the other modules an operator introduced as a Fault is no   *)
(* part of the model: it is the slip in the operator after it that one of  *)
(* the properties is there to catch.                                       *)
(***************************************************************************)
EXTENDS Integers, Sequences

-----------------------------------------------------------------------------
(* Phases of status.operationState.  NoPhase: the state is absent.         *)

NoPhase    == "none"
Completed  == {"Succeeded", "Failed", "Error"}
Occupied   == {"Running", "Terminating"}
Phases     == {NoPhase} \cup Completed \cup Occupied

Running(phase) == phase \in Occupied

-----------------------------------------------------------------------------
(* The operation an Application carries, and merge patches of it.          *)

SourceFields == {"source.repoURL", "source.path", "source.chart"}

OperationFields ==
    {"revision", "prune", "dryRun", "syncOptions", "resources", "apply",
     "force", "hook", "sources", "initiatedBy", "info", "retry"}
        \cup SourceFields

Absent == [f \in {} |-> TRUE]

(* kube-apiserver: a leaf the patch names is replaced, every other one is  *)
(* kept, and PatchApp sends no resourceVersion that could refuse it.       *)
MergePatch(object, patch) ==
    [f \in DOMAIN object \cup DOMAIN patch |->
        IF f \in DOMAIN patch THEN patch[f] ELSE object[f]]

-----------------------------------------------------------------------------
(* Reading an Application.  An app is the projection AppFromUnstructured   *)
(* makes: [hasPendingOp, phase, autoSync, targetRevisions, history], where *)
(* targetRevisions has one entry per source and a history entry is         *)
(* [id, revision, source, sources].                                        *)

AppFromUnstructured(operation, phase, settings) ==
    [hasPendingOp    |-> operation # Absent,
     phase           |-> phase,
     autoSync        |-> settings.autoSync,
     targetRevisions |-> settings.targetRevisions,
     history         |-> settings.history]

(* Fault: an operation nobody has started yet is overlooked.               *)
OverlooksQueued(a) == Running(a.phase)

OperationInProgress(a) == Running(a.phase) \/ a.hasPendingOp

DefaultRevision(a) ==
    IF a.targetRevisions # <<>> /\ a.targetRevisions[1] # ""
    THEN a.targetRevisions[1]
    ELSE "HEAD"

(* The history is sorted by id, stably: the entry found is the first one   *)
(* recorded among those that carry the id.                                 *)
HasHistoryEntry(a, id) == \E n \in DOMAIN a.history : a.history[n].id = id

FindHistoryEntry(a, id) ==
    LET matches == {n \in DOMAIN a.history : a.history[n].id = id}
    IN  a.history[CHOOSE n \in matches : \A m \in matches : n <= m]

-----------------------------------------------------------------------------
(* Building the patch.  A request r has one field per member of Go's       *)
(* SyncRequest; source is itself a flattened object over SourceFields.     *)

SyncRequestIsValid(r) ==
    /\ r.strategy \in {"", "apply", "hook"}
    /\ r.force => r.strategy = "apply"
    /\ r.revision # ""
    /\ \A n \in DOMAIN r.resources : r.resources[n].kind # "" /\ r.resources[n].name # ""

Emits(r, f) ==
    \/ f \in {"revision", "initiatedBy"}
    \/ f \in {"prune", "dryRun"} /\ r[f]
    \/ f \in {"syncOptions", "resources", "sources"} /\ r[f] # <<>>
    \/ f \in {"apply", "hook"} /\ r.strategy = f
    \/ f = "force" /\ r.strategy = "apply" /\ r.force
    \/ f = "info" /\ r.reason # <<>>
    \/ f = "retry" /\ r.retryLimit > 0
    \/ f \in DOMAIN r.source

EmittedValue(r, f) ==
    CASE f \in {"apply", "hook"} -> TRUE
      [] f = "initiatedBy"  -> IF r.initiatedBy = <<>> THEN <<"argocd-mcp">> ELSE r.initiatedBy
      [] f = "info"         -> r.reason
      [] f = "retry"        -> r.retryLimit
      [] f \in SourceFields -> r.source[f]
      [] OTHER              -> r[f]

(* Fault: HEAD is what an absent revision means anyway, so it is left out. *)
OmitsHead(r) ==
    [f \in {g \in OperationFields : Emits(r, g) /\ (g = "revision" => r.revision # "HEAD")}
        |-> EmittedValue(r, f)]

SyncPatch(r) ==
    [f \in {g \in OperationFields : Emits(r, g)} |-> EmittedValue(r, f)]
=============================================================================
