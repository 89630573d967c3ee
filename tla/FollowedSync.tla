---------------------------- MODULE FollowedSync ----------------------------
(***************************************************************************)
(* The write tools, the controller and app_wait together: a caller whose   *)
(* app_sync or app_rollback was answered "ok" follows it with app_wait, as *)
(* the answer tells it to, while other callers and clients are at work.    *)
(***************************************************************************)
EXTENDS OperationTools

CONSTANTS
    Followers,   \* the calls that app_wait follows
    WaitParams,  \* arguments of app_wait
    MaxTime      \* bound of the clock

ASSUME FollowersAssumption == Followers \subseteq Calls

VARIABLES
    syncStatus,  \* status.sync.status of each Application
    health,      \* status.health.status of each Application
    fate,        \* history: what became of the operation each call queued
    overlapped,  \* history: the instances on which two writes were on their
                 \* way at once, or one while another client wrote
    now, waitParam, waiting, deadline, wake   \* those of WaitTool

watch == <<now, waitParam, waiting, deadline, wake>>
state == <<syncStatus, health>>
history == <<fate, overlapped>>
allVars == <<vars, state, history, watch>>

Watched(c) ==
    LET i == Target(c) IN
    [hasPendingOp |-> operation[i] # Absent, phase |-> phase[i],
     syncStatus |-> syncStatus[i], health |-> health[i]]

Wait == INSTANCE WaitTool WITH
    Waiters <- Followers,
    app     <- [c \in Followers |-> Watched(c)]

-----------------------------------------------------------------------------
(* What becomes of the operation of a call: "queued" once its patch is     *)
(* applied, "running" once the controller took it, alone or merged with    *)
(* another's, and then the phase it ended in.                              *)

Become(i, from, to) ==
    /\ fate' = [c \in Calls |-> IF Target(c) = i /\ fate[c] = from THEN to ELSE fate[c]]
    /\ UNCHANGED overlapped

(* The syncs and rollbacks on their way to instance i.                     *)
OnTheWire(i) ==
    {c \in Calls : wire[c] = "sent" /\ param[c].tool # "terminate" /\ Target(c) = i}

(* A step that sends a second write to instance i, or that is another      *)
(* client's while one is on its way.                                       *)
WritesOverlap(i) ==
    \/ Cardinality(OnTheWire(i)') > 1
    \/ OnTheWire(i) # {} /\ others' # others /\ operation'[i] # operation[i]

Queue(c) ==
    /\ ApplyPatch(c)
    /\ fate' = [fate EXCEPT ![c] = IF param[c].tool = "terminate" THEN @ ELSE "queued"]
    /\ UNCHANGED overlapped
    /\ UNCHANGED <<state, watch>>

Take(i) ==
    /\ PickUp(i)
    /\ Become(i, "queued", "running")
    /\ UNCHANGED <<state, watch>>

End(i) ==
    /\ Finish(i)
    /\ Become(i, "running", phase'[i])
    /\ UNCHANGED <<state, watch>>

OtherWork ==
    /\ \/ \E c \in Calls : Handler(c) \/ RefusePatch(c)
       \/ \E i \in Instances : OtherClient(i)
    /\ overlapped' = overlapped \cup {i \in Instances : WritesOverlap(i)}
    /\ UNCHANGED <<state, fate, watch>>

(* The controller compares the Application with its source, any time.      *)
Compare(i) ==
    /\ \E s \in {"Synced", "OutOfSync"} : syncStatus' = [syncStatus EXCEPT ![i] = s]
    /\ \E h \in {"Healthy", "Degraded"} : health' = [health EXCEPT ![i] = h]
    /\ UNCHANGED <<vars, history, watch>>

Follow(c) ==
    /\ status[c] = "ok" /\ param[c].tool # "terminate"
    /\ Wait!Waiter(c)
    /\ UNCHANGED <<vars, state, history>>

Passes == Wait!Tick /\ UNCHANGED <<vars, state, history>>

FollowedInit ==
    /\ Init
    /\ syncStatus \in [Instances -> {"Synced", "OutOfSync"}]
    /\ health = [i \in Instances |-> "Healthy"]
    /\ fate = [c \in Calls |-> "none"]
    /\ overlapped = {}
    /\ Wait!InitWait

FollowedNext ==
    \/ \E c \in Calls : Queue(c)
    \/ \E c \in Followers : Follow(c)
    \/ \E i \in Instances : Take(i) \/ End(i) \/ Compare(i)
    \/ OtherWork
    \/ Passes

FollowedSpec == FollowedInit /\ [][FollowedNext]_allVars

-----------------------------------------------------------------------------
(* Properties.                                                             *)

(* When app_wait reports that the Application reached its goal, the        *)
(* operation the caller had queued is over: the report is never about the  *)
(* state from before it, though patches are merged, operations of others   *)
(* run first and terminations come late.                                   *)
ReachedAfterTheOperation ==
    \A c \in Followers : waiting[c] = "reached" => fate[c] \in Completed

(* An Application carries one request, whole, no flag, option or source of *)
(* it another caller's, unless writes have overlapped: the guard against   *)
(* operations in progress is enough for callers that take turns, whatever  *)
(* is lost, terminated or waited for in between.                           *)
OperationIsOneRequest ==
    \A i \in Instances \ overlapped : Carried(i) \subseteq Requests(i)

(* tools_write.go:118, "use app_wait or app_get to follow it", and         *)
(* tools_read.go:270, "operation on %s/%s ended in phase %s": the failure  *)
(* reported to the caller is of the operation it follows.                  *)
FailureIsOfTheOperation ==
    \A c \in Followers : waiting[c] = "failed" => fate[c] \in {"Failed", "Error"}
=============================================================================
