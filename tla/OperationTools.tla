--------------------------- MODULE OperationTools ---------------------------
(***************************************************************************)
(* app_sync, app_rollback and app_terminate_operation                      *)
(* (internal/mcpserver/tools_write.go) called concurrently, against the    *)
(* Applications of the configured instances and the application controller *)
(* that executes what the tools queue.                                     *)
(*                                                                         *)
(* A call is two trips to the API server.  The first, prepareWrite, reads  *)
(* the Application; the guards and the patch are computed from that        *)
(* reading alone, so gates, GET and guards are one step.  The second sends *)
(* the patch, and by the time it is applied the Application may be another *)
(* one.  A patch may be applied, refused, or applied with its reply lost;  *)
(* a cancelled call may leave its patch on the wire.                       *)
(*                                                                         *)
(* There is one Application per instance, which stands for the one the     *)
(* arguments name; any other name is a GET that fails.                     *)
(***************************************************************************)
EXTENDS ArgoDomain, FiniteSets

CONSTANTS
    Calls,            \* one identity per tools/call request
    Instances,        \* the configured Argo CD instances
    DefaultInstance,  \* the one used when the caller names none
    Params,           \* arguments a caller may pass
    Settings,         \* spec and history an Application may have
    OtherOperations,  \* operations other clients of Argo CD queue
    MaxOther          \* how many of them: bounds the environment

Tools    == {"sync", "rollback", "terminate"}
Outcomes == {"ok", "error", "conflict"}
Reasons  == {"global_readonly", "instance_readonly"}

ASSUME ParamsAssumption == \A p \in Params : p.tool \in Tools

ASSUME DefaultAssumption == DefaultInstance \in Instances

(* An operation always says what to deploy and on whose behalf.            *)
IsAttributed(op) == {"revision", "initiatedBy"} \subseteq DOMAIN op

IsOperation(op) ==
    /\ DOMAIN op \subseteq OperationFields
    /\ op = [f \in DOMAIN op |-> op[f]]

ASSUME OthersAssumption ==
    /\ \A op \in OtherOperations : IsOperation(op) /\ IsAttributed(op)
    /\ MaxOther \in Nat

VARIABLES
    readOnly,          \* the global gate, from the configuration
    instanceReadOnly,  \* the gate of each instance, from the configuration
    settings,          \* what each Application's spec and history say
    operation,         \* each Application's .operation, Absent when unset
    phase,             \* each Application's .status.operationState.phase
    executing,         \* what the controller is executing on each Application
    others,            \* how many operations other clients have queued
    param,             \* the arguments of each call
    status,            \* how far each call is: "new", "patching" or its answer
    wire,              \* where the call's patch is
    patch,             \* the patch each call has sent
    operations,        \* amcp_operations_total
    writesBlocked      \* amcp_writes_blocked_total

config     == <<readOnly, instanceReadOnly, settings, param>>
cluster    == <<operation, phase, executing, others>>
calls      == <<status, wire, patch>>
counters   == <<operations, writesBlocked>>
vars       == <<config, cluster, calls, counters>>

Answers == Outcomes \cup {"blocked"}
NoPatch == [operation |-> Absent, phase |-> NoPhase]

-----------------------------------------------------------------------------
(* The call: who is asking for what, of which Application.                 *)

Target(c) == IF param[c].instance = "" THEN DefaultInstance ELSE param[c].instance

Known(c) == Target(c) \in Instances

Writable(i) == ~readOnly /\ ~instanceReadOnly[i]

Initiator(user) == IF user = "" THEN <<"argocd-mcp">> ELSE <<"argocd-mcp", user>>

SyncRequest(p, a) ==
    [revision    |-> IF p.revision = "" THEN DefaultRevision(a) ELSE p.revision,
     prune       |-> p.prune,
     dryRun      |-> p.dryRun,
     syncOptions |-> p.syncOptions,
     resources   |-> p.resources,
     strategy    |-> p.strategy,
     force       |-> p.force,
     retryLimit  |-> p.retryLimit,
     initiatedBy |-> Initiator(p.user),
     reason      |-> IF p.reason = <<>> THEN <<"requested">> ELSE p.reason,
     source      |-> Absent,
     sources     |-> <<>>]

RollbackRequest(p, entry) ==
    [revision    |-> entry.revision,
     prune       |-> p.prune,
     dryRun      |-> p.dryRun,
     syncOptions |-> <<>>,
     resources   |-> <<>>,
     strategy    |-> "",
     force       |-> FALSE,
     retryLimit  |-> 0,
     initiatedBy |-> Initiator(p.user),
     reason      |-> <<"rollback", entry.id>>,
     source      |-> entry.source,
     sources     |-> entry.sources]

-----------------------------------------------------------------------------
(* What a call does at each of its steps.                                  *)

Answer(c, a) == status' = [status EXCEPT ![c] = a]

RecordOperation(c, result) ==
    /\ operations' = [operations EXCEPT ![<<Target(c), param[c].tool, result>>] = @ + 1]
    /\ UNCHANGED writesBlocked

Refuse(c, result) ==
    /\ Answer(c, result)
    /\ RecordOperation(c, result)
    /\ UNCHANGED <<config, cluster, wire, patch>>

Send(c, p) ==
    /\ Answer(c, "patching")
    /\ wire' = [wire EXCEPT ![c] = "sent"]
    /\ patch' = [patch EXCEPT ![c] = p]
    /\ UNCHANGED <<config, cluster, counters>>

PatchOperation(c, r) == Send(c, [operation |-> SyncPatch(r), phase |-> NoPhase])

(* prepareWrite ends the call: no such instance, no name, or a failed GET. *)
CannotPrepare(c) ==
    /\ status[c] = "new"
    /\ Known(c) => Writable(Target(c))
    /\ Answer(c, "error")
    /\ UNCHANGED <<config, cluster, wire, patch, counters>>

AssertWritable(c) ==
    /\ status[c] = "new"
    /\ Known(c)
    /\ ~Writable(Target(c))
    /\ LET reason == IF readOnly THEN "global_readonly" ELSE "instance_readonly"
       IN  writesBlocked' = [writesBlocked EXCEPT ![<<Target(c), reason>>] = @ + 1]
    /\ Answer(c, "blocked")
    /\ UNCHANGED <<config, cluster, wire, patch, operations>>

(* Fault: the gate consulted is the default instance's.                    *)
AsksDefaultGate(c, tool) ==
    /\ status[c] = "new"
    /\ param[c].tool = tool
    /\ Known(c)
    /\ Writable(DefaultInstance)
    /\ param[c].name # ""

Prepared(c, tool) ==
    /\ status[c] = "new"
    /\ param[c].tool = tool
    /\ Known(c)
    /\ Writable(Target(c))
    /\ param[c].name # ""

ReadApp(c) ==
    LET i == Target(c) IN AppFromUnstructured(operation[i], phase[i], settings[i])

AppSync(c) ==
    LET a == ReadApp(c)
        r == SyncRequest(param[c], a)
    IN  /\ Prepared(c, "sync")
        /\ \/ OperationInProgress(a) /\ Refuse(c, "conflict")
           \/ ~OperationInProgress(a) /\ ~SyncRequestIsValid(r) /\ Refuse(c, "error")
           \/ ~OperationInProgress(a) /\ SyncRequestIsValid(r) /\ PatchOperation(c, r)

(* FindHistoryEntry is only consulted for an id that is there.             *)
RollbackAllowed(a, p) ==
    /\ HasHistoryEntry(a, p.id)
    /\ a.autoSync => p.force
    /\ SyncRequestIsValid(RollbackRequest(p, FindHistoryEntry(a, p.id)))

AppRollback(c) ==
    LET a == ReadApp(c)
        p == param[c]
    IN  /\ Prepared(c, "rollback")
        /\ \/ OperationInProgress(a) /\ Refuse(c, "conflict")
           \/ ~OperationInProgress(a) /\ ~RollbackAllowed(a, p) /\ Refuse(c, "error")
           \/ /\ ~OperationInProgress(a)
              /\ RollbackAllowed(a, p)
              /\ PatchOperation(c, RollbackRequest(p, FindHistoryEntry(a, p.id)))

(* Fault: the phase written is not one of Argo CD's.                       *)
WritesTerminated(c) ==
    /\ Prepared(c, "terminate")
    /\ Running(ReadApp(c).phase)
    /\ Send(c, [operation |-> Absent, phase |-> "Terminated"])

AppTerminateOperation(c) ==
    LET a == ReadApp(c)
    IN  /\ Prepared(c, "terminate")
        /\ \/ ~Running(a.phase) /\ Refuse(c, "error")
           \/ Running(a.phase) /\ Send(c, [operation |-> Absent, phase |-> "Terminating"])

(* Fault: the error PatchApp returns is not looked at.                     *)
AssumesSuccess(c) ==
    /\ status[c] = "patching"
    /\ Answer(c, "ok")
    /\ RecordOperation(c, "ok")
    /\ UNCHANGED <<config, cluster, wire, patch>>

PatchSucceeded(c) ==
    /\ status[c] = "patching"
    /\ wire[c] = "applied"
    /\ Answer(c, "ok")
    /\ RecordOperation(c, "ok")
    /\ UNCHANGED <<config, cluster, wire, patch>>

(* Fault: the error path returns without recording the operation.          *)
FailsUncounted(c) ==
    /\ status[c] = "patching"
    /\ Answer(c, "error")
    /\ UNCHANGED <<config, cluster, wire, patch, counters>>

(* The patch was refused, its reply was lost, or the call was cancelled.   *)
PatchFailed(c) ==
    /\ status[c] = "patching"
    /\ Answer(c, "error")
    /\ RecordOperation(c, "error")
    /\ UNCHANGED <<config, cluster, wire, patch>>

Handler(c) ==
    \/ CannotPrepare(c)
    \/ AssertWritable(c)
    \/ AppSync(c)
    \/ AppRollback(c)
    \/ AppTerminateOperation(c)
    \/ PatchSucceeded(c)
    \/ PatchFailed(c)

-----------------------------------------------------------------------------
(* The API server.                                                         *)

ApplyPatch(c) ==
    LET i == Target(c) IN
    /\ wire[c] = "sent"
    /\ wire' = [wire EXCEPT ![c] = "applied"]
    /\ operation' = [operation EXCEPT ![i] = MergePatch(@, patch[c].operation)]
    /\ phase' = [phase EXCEPT ![i] = IF patch[c].phase = NoPhase THEN @ ELSE patch[c].phase]
    /\ UNCHANGED <<config, executing, others, status, patch, counters>>

RefusePatch(c) ==
    /\ wire[c] = "sent"
    /\ wire' = [wire EXCEPT ![c] = "refused"]
    /\ UNCHANGED <<config, cluster, status, patch, counters>>

(* The application controller takes a queued operation off the Application,*)
(* reports that it runs, and later reports how it ended.                   *)
PickUp(i) ==
    /\ operation[i] # Absent
    /\ executing[i] = Absent
    /\ executing' = [executing EXCEPT ![i] = operation[i]]
    /\ operation' = [operation EXCEPT ![i] = Absent]
    /\ phase' = [phase EXCEPT ![i] = "Running"]
    /\ UNCHANGED <<config, others, calls, counters>>

Finish(i) ==
    /\ executing[i] # Absent
    /\ executing' = [executing EXCEPT ![i] = Absent]
    /\ \E p \in Completed : phase' = [phase EXCEPT ![i] = p]
    /\ UNCHANGED <<config, operation, others, calls, counters>>

Controller(i) == PickUp(i) \/ Finish(i)

(* Another client of Argo CD, which the API server serves only when idle.  *)
OtherClient(i) ==
    /\ others < MaxOther
    /\ operation[i] = Absent
    /\ ~Running(phase[i])
    /\ \E op \in OtherOperations : operation' = [operation EXCEPT ![i] = op]
    /\ others' = others + 1
    /\ UNCHANGED <<config, phase, executing, calls, counters>>

-----------------------------------------------------------------------------

Init ==
    /\ readOnly \in BOOLEAN
    /\ instanceReadOnly \in [Instances -> BOOLEAN]
    /\ settings \in [Instances -> Settings]
    /\ param \in [Calls -> Params]
    /\ operation = [i \in Instances |-> Absent]
    /\ phase \in [Instances -> {NoPhase, "Succeeded", "Failed"}]
    /\ executing = [i \in Instances |-> Absent]
    /\ others = 0
    /\ status = [c \in Calls |-> "new"]
    /\ wire = [c \in Calls |-> "none"]
    /\ patch = [c \in Calls |-> NoPatch]
    /\ operations = [l \in Instances \X Tools \X Outcomes |-> 0]
    /\ writesBlocked = [l \in Instances \X Reasons |-> 0]

Next ==
    \/ \E c \in Calls : Handler(c) \/ ApplyPatch(c) \/ RefusePatch(c)
    \/ \E i \in Instances : Controller(i) \/ OtherClient(i)

Spec == Init /\ [][Next]_vars

-----------------------------------------------------------------------------
(* Properties.                                                             *)

(* Every variable has the type its comment gives it.                       *)
TypeOK ==
    /\ readOnly \in BOOLEAN
    /\ instanceReadOnly \in [Instances -> BOOLEAN]
    /\ settings \in [Instances -> Settings]
    /\ param \in [Calls -> Params]
    /\ DOMAIN operation = Instances /\ DOMAIN executing = Instances
    /\ \A i \in Instances : IsOperation(operation[i]) /\ IsOperation(executing[i])
    /\ phase \in [Instances -> Phases]
    /\ others \in 0..MaxOther
    /\ status \in [Calls -> {"new", "patching"} \cup Answers]
    /\ wire \in [Calls -> {"none", "sent", "applied", "refused"}]
    /\ DOMAIN patch = Calls
    /\ \A c \in Calls : IsOperation(patch[c].operation) /\ patch[c].phase \in Phases
    /\ operations \in [Instances \X Tools \X Outcomes -> Nat]
    /\ writesBlocked \in [Instances \X Reasons -> Nat]

Applied(i) == {c \in Calls : wire[c] = "applied" /\ Known(c) /\ Target(c) = i}

(* What clients have asked for on instance i: this server's callers, whose *)
(* sync or rollback was applied, and the other clients of Argo CD.         *)
Requests(i) ==
    OtherOperations \cup
        {patch[c].operation : c \in {d \in Applied(i) : param[d].tool # "terminate"}}

Carried(i) == {operation[i], executing[i]} \ {Absent}

(* However the patches of concurrent calls are merged into one another,    *)
(* the operation an Application carries deploys the revision of the very   *)
(* request whose author it names: Argo CD never attributes one caller's    *)
(* revision to another.  It holds although nothing stops the merge,        *)
(* because SyncPatch always writes both leaves.                            *)
AttributionConsistent ==
    \A i \in Instances : \A op \in Carried(i) :
        /\ IsAttributed(op)
        /\ \E request \in {q \in Requests(i) : IsAttributed(q)} :
            /\ op.revision = request.revision
            /\ op.initiatedBy = request.initiatedBy

(* Nothing this server does shows on an Application of an instance that is *)
(* read-only, or of any instance when the server is: what it carries came  *)
(* from other clients, and nobody asked for its termination.               *)
ReadOnlyUntouched ==
    \A i \in Instances : ~Writable(i) =>
        /\ Carried(i) \subseteq OtherOperations
        /\ phase[i] # "Terminating"

InFlight(i, tool) ==
    {c \in Calls : status[c] = "patching" /\ param[c].tool = tool /\ Target(c) = i}

(* amcp_operations_total brackets what happened in the cluster: "ok" never *)
(* counts a write that did not take place, and every write is counted once *)
(* its call is over, under "error" when the reply was lost.                *)
OperationsMetricBracketsWrites ==
    \A i \in Instances, tool \in Tools :
        LET writes == Cardinality({c \in Applied(i) : param[c].tool = tool})
            ok     == operations[<<i, tool, "ok">>]
            failed == operations[<<i, tool, "error">>]
        IN  /\ ok <= writes
            /\ writes <= ok + failed + Cardinality(InFlight(i, tool))

(* What the caller of c was told, in the words of GatedCall.               *)
Told(c) ==
    IF status[c] \in {"new", "patching"} THEN "open"
    ELSE IF status[c] = "ok"             THEN "ok"
    ELSE IF wire[c] = "none"             THEN "refused"
    ELSE                                      "failed"

Promise == INSTANCE GatedCall WITH
    admitted <- {c \in Calls : Known(c) /\ Writable(Target(c))},
    answer   <- [c \in Calls |-> Told(c)],
    effect   <- {c \in Calls : wire[c] = "applied"}

(* The write tools keep the promise GatedCall states: a refusal is final,  *)
(* "ok" is only said of a write that took place, no write takes place      *)
(* twice, and none takes place for a call the gates did not let through.   *)
ImplementsPromise == Promise!Spec
=============================================================================
