---------------------------- MODULE RefreshTool -----------------------------
(***************************************************************************)
(* app_refresh (internal/mcpserver/tools_write.go) called concurrently on  *)
(* one Application: each call notes when the Application was last          *)
(* reconciled, patches the refresh annotation, and polls until the         *)
(* annotation is gone, a later reconcile shows, or its time is up.         *)
(*                                                                         *)
(* The clock counts seconds, which is all status.reconciledAt can tell:    *)
(* what happens between two ticks happens in the same second.  The patch   *)
(* may take any time.  A poll, GET and decision, is assumed to take less   *)
(* than a second: the client has no timeout that would see to it           *)
(* (tools_write.go:157).  Refreshes that others ask for, by the CLI or the *)
(* UI, are only the annotation that may be there at first.                 *)
(***************************************************************************)
EXTENDS ToolHelpers, FiniteSets

CONSTANTS
    Calls,    \* one identity per app_refresh request
    Params,   \* [hard, wait, timeoutSeconds] a caller may pass
    MaxTime   \* the clock stops here: bounds the model

ASSUME ParamsAssumption ==
    \A p \in Params : p.hard \in BOOLEAN /\ p.wait \in BOOLEAN /\ p.timeoutSeconds \in Int

ASSUME TimeAssumption == MaxTime \in Nat

Never == -1   \* status.reconciledAt is absent

VARIABLES
    now,           \* the clock
    writable,      \* both read-only gates are open, from the configuration
    annotation,    \* the refresh annotation, "none" when absent
    reconciledAt,  \* status.reconciledAt, in seconds
    param,         \* the arguments of each call
    status,        \* how far each call is, or its answer
    wire,          \* where the call's patch is
    before,        \* the reconcile each call noted
    deadline,      \* when each call stops waiting
    wake,          \* when each sleeping call polls again
    operations,    \* amcp_operations_total of refreshes, by result
    writesBlocked, \* amcp_writes_blocked_total
    since          \* history: what the controller has done since the call's
                   \* "read", since its "patch", and "hard" since its read

cluster == <<annotation, reconciledAt>>
timer   == <<before, deadline, wake>>
counts  == <<operations, writesBlocked>>
vars    == <<now, writable, cluster, param, status, wire, timer, counts, since>>

Answers == {"blocked", "requested", "completed", "pending", "error"}

Open(c) == status[c] \notin Answers

-----------------------------------------------------------------------------

(* Fault: the annotation is set to a value that is no kind of refresh.     *)
KindTrue(p) == IF p.hard THEN "hard" ELSE "true"

(* Fault: what is patched is the same for every request.                   *)
KindNormal(p) == "normal"

Kind(p) == IF p.hard THEN "hard" ELSE "normal"

Timeout(p) == Clamp(p.timeoutSeconds, 1, 300, 60)

(* Fault: the reconcile the call had noted counts as a later one.          *)
ReconciledSince(cur, bef) == cur # Never /\ (bef = Never \/ cur >= bef)

ReconciledAfter(cur, bef) == cur # Never /\ (bef = Never \/ cur > bef)

Answer(c, a) == status' = [status EXCEPT ![c] = a]

RecordOperation(result) ==
    /\ operations' = [operations EXCEPT ![result] = @ + 1]
    /\ UNCHANGED writesBlocked

Goes(c, a) ==
    /\ Answer(c, a)
    /\ UNCHANGED <<now, writable, cluster, param, wire, timer, since>>

(* Fault: the read-only gates are not asked.                               *)
RequestsAnyway(c) ==
    /\ status[c] = "new"
    /\ before' = [before EXCEPT ![c] = reconciledAt]
    /\ wire' = [wire EXCEPT ![c] = "sent"]
    /\ Answer(c, "patching")
    /\ UNCHANGED <<now, writable, cluster, param, deadline, wake, counts, since>>

(* prepareWrite, and the patch goes out.                                   *)
Request(c) ==
    /\ status[c] = "new"
    /\ writable
    /\ before' = [before EXCEPT ![c] = reconciledAt]
    /\ wire' = [wire EXCEPT ![c] = "sent"]
    /\ Answer(c, "patching")
    /\ UNCHANGED <<now, writable, cluster, param, deadline, wake, counts, since>>

AssertWritable(c) ==
    /\ status[c] = "new"
    /\ ~writable
    /\ Goes(c, "blocked")
    /\ writesBlocked' = writesBlocked + 1
    /\ UNCHANGED operations

(* The arguments are no good, or the Application cannot be read.           *)
CannotPrepare(c) ==
    /\ status[c] = "new"
    /\ Goes(c, "error")
    /\ UNCHANGED counts

(* The patch was refused, its reply was lost, or the call was cancelled.   *)
PatchFailed(c) ==
    /\ status[c] = "patching"
    /\ Goes(c, "error")
    /\ RecordOperation("error")

(* Fault: the operation is counted once the wait has succeeded.            *)
CountsNoRequest(c) ==
    /\ now + Timeout(param[c]) < MaxTime
    /\ status[c] = "patching"
    /\ wire[c] = "applied"
    /\ \/ ~param[c].wait /\ Answer(c, "requested") /\ RecordOperation("ok") /\ UNCHANGED deadline
       \/ /\ param[c].wait
          /\ deadline' = [deadline EXCEPT ![c] = now + Timeout(param[c])]
          /\ Answer(c, "polling")
          /\ UNCHANGED counts
    /\ UNCHANGED <<now, writable, cluster, param, wire, before, wake, since>>

(* MaxTime bounds the model: it leaves room for the wait to end.           *)
Patched(c) ==
    /\ now + Timeout(param[c]) < MaxTime
    /\ status[c] = "patching"
    /\ wire[c] = "applied"
    /\ RecordOperation("ok")
    /\ \/ ~param[c].wait /\ Answer(c, "requested") /\ UNCHANGED deadline
       \/ /\ param[c].wait
          /\ deadline' = [deadline EXCEPT ![c] = now + Timeout(param[c])]
          /\ Answer(c, "polling")
    /\ UNCHANGED <<now, writable, cluster, param, wire, before, wake, since>>

(* Fault: only the timestamp is looked at, not the annotation.             *)
DoneByClock(c) == ReconciledAfter(reconciledAt, before[c])

Done(c) == annotation = "none" \/ ReconciledAfter(reconciledAt, before[c])

Sleep(c) ==
    /\ wake' = [wake EXCEPT ![c] = now + 2]
    /\ Answer(c, "sleeping")
    /\ UNCHANGED <<now, writable, cluster, param, wire, before, deadline, since>>

(* Fault: a sleep is begun as long as the time is not up already.          *)
PollsTooLong(c) ==
    /\ status[c] = "polling"
    /\ \/ Done(c) /\ Goes(c, "completed")
       \/ ~Done(c) /\ now > deadline[c] /\ Goes(c, "pending")
       \/ ~Done(c) /\ now <= deadline[c] /\ Sleep(c)
    /\ UNCHANGED counts

(* Fault: the wait has no end but a reconcile.                             *)
PollsForever(c) ==
    /\ status[c] = "polling"
    /\ \/ Done(c) /\ Goes(c, "completed")
       \/ ~Done(c) /\ Sleep(c)
    /\ UNCHANGED counts

Poll(c) ==
    /\ status[c] = "polling"
    /\ \/ Done(c) /\ Goes(c, "completed")
       \/ ~Done(c) /\ now + 1 > deadline[c] /\ Goes(c, "pending")
       \/ ~Done(c) /\ now + 1 <= deadline[c] /\ Sleep(c)
    /\ UNCHANGED counts

Awake(c) ==
    /\ status[c] = "sleeping"
    /\ now >= wake[c]
    /\ Goes(c, "polling")
    /\ UNCHANGED counts

(* A GET fails, or the request is cancelled, during a poll or a sleep.     *)
Interrupted(c) ==
    /\ status[c] \in {"polling", "sleeping"}
    /\ Goes(c, "error")
    /\ UNCHANGED counts

Handler(c) ==
    \/ Request(c)
    \/ AssertWritable(c)
    \/ CannotPrepare(c)
    \/ PatchFailed(c)
    \/ Patched(c)
    \/ Poll(c)
    \/ Awake(c)
    \/ Interrupted(c)

-----------------------------------------------------------------------------
(* The API server, the controller and the clock.                           *)

ApplyPatch(c) ==
    /\ wire[c] = "sent"
    /\ wire' = [wire EXCEPT ![c] = "applied"]
    /\ annotation' = Kind(param[c])
    /\ UNCHANGED <<now, writable, reconciledAt, param, status, timer, counts, since>>

RefusePatch(c) ==
    /\ wire[c] = "sent"
    /\ wire' = [wire EXCEPT ![c] = "refused"]
    /\ UNCHANGED <<now, writable, cluster, param, status, timer, counts, since>>

(* The controller reconciles when asked, and of its own accord, and takes  *)
(* the annotation off.                                                     *)
Reconcile ==
    /\ reconciledAt' = now
    /\ annotation' = "none"
    /\ since' = [c \in Calls |->
                   IF ~Open(c) \/ status[c] = "new" THEN since[c]
                   ELSE since[c] \cup {"read"}
                          \cup (IF wire[c] = "applied" THEN {"patch"} ELSE {})
                          \cup (IF annotation = "hard" THEN {"hard"} ELSE {})]
    /\ UNCHANGED <<now, writable, param, status, wire, timer, counts>>

Due(c) ==
    \/ status[c] = "polling"
    \/ status[c] = "sleeping" /\ now >= wake[c]

Tick ==
    /\ now < MaxTime
    /\ \A c \in Calls : ~Due(c)
    /\ now' = now + 1
    /\ UNCHANGED <<writable, cluster, param, status, wire, timer, counts, since>>

-----------------------------------------------------------------------------

Init ==
    /\ now = 0
    /\ writable \in BOOLEAN
    /\ annotation \in {"none", "normal"}
    /\ reconciledAt \in {Never, 0}
    /\ param \in [Calls -> Params]
    /\ status = [c \in Calls |-> "new"]
    /\ wire = [c \in Calls |-> "none"]
    /\ before = [c \in Calls |-> Never]
    /\ deadline = [c \in Calls |-> 0]
    /\ wake = [c \in Calls |-> 0]
    /\ operations = [result \in {"ok", "error"} |-> 0]
    /\ writesBlocked = 0
    /\ since = [c \in Calls |-> {}]

Next ==
    \/ \E c \in Calls : Handler(c) \/ ApplyPatch(c) \/ RefusePatch(c)
    \/ Reconcile
    \/ Tick

Spec == Init /\ [][Next]_vars

(* Time passes, a request that has begun is carried on with, and a patch   *)
(* that was sent is applied or lost.  The controller may never come.       *)
Progress(c) == Patched(c) \/ PatchFailed(c) \/ Poll(c) \/ Awake(c)

FairSpec ==
    /\ Spec
    /\ WF_vars(Tick)
    /\ \A c \in Calls : WF_vars(Progress(c)) /\ WF_vars(ApplyPatch(c) \/ RefusePatch(c))

-----------------------------------------------------------------------------
(* Properties.                                                             *)

(* Every variable has the type its comment gives it.                       *)
TypeOK ==
    /\ now \in 0..MaxTime
    /\ writable \in BOOLEAN
    /\ annotation \in {"none", "normal", "hard"}
    /\ reconciledAt \in {Never} \cup 0..MaxTime
    /\ param \in [Calls -> Params]
    /\ status \in [Calls -> {"new", "patching", "polling", "sleeping"} \cup Answers]
    /\ wire \in [Calls -> {"none", "sent", "applied", "refused"}]
    /\ before \in [Calls -> {Never} \cup 0..MaxTime]
    /\ deadline \in [Calls -> 0..MaxTime]
    /\ wake \in [Calls -> 0..(MaxTime + 2)]
    /\ operations \in [{"ok", "error"} -> Nat]
    /\ writesBlocked \in Nat
    /\ since \in [Calls -> SUBSET {"read", "patch", "hard"}]

(* A refresh is only reported completed when the controller reconciled     *)
(* while the call lasted, whatever the other calls and the clock's coarse  *)
(* seconds do.                                                             *)
CompletedSawReconcile ==
    \A c \in Calls : status[c] = "completed" => "read" \in since[c]

(* The wait never outlasts the time the caller gave it by more than the    *)
(* second the last sleep may add, as long as its GETs are quick.           *)
WaitsBarelyLonger ==
    \A c \in Calls : status[c] \in {"polling", "sleeping"} => now <= deadline[c] + 1

(* A caller is not told that the controller had not reconciled when it did *)
(* after the patch, not even in the second of the earlier reconcile the    *)
(* call had noted, unless another call has asked for a refresh since.      *)
PendingIsHonest ==
    \A c \in Calls :
        status[c] = "pending" /\ "patch" \in since[c]
            => \E d \in Calls \ {c} : wire[d] = "applied"

(* tools_write.go:124: a hard refresh also invalidates the manifest cache. *)
(* When a call that asked for it is completed after a reconcile that was   *)
(* not hard, it is because another call's normal refresh took its place.   *)
HardOnlyLostToNormal ==
    \A c \in Calls :
        status[c] = "completed" /\ param[c].hard /\ since[c] \cap {"patch", "hard"} = {"patch"}
            => \E d \in Calls : wire[d] = "applied" /\ ~param[d].hard

(* amcp_operations_total counts refreshes, not waits: "ok" says how many   *)
(* patches succeeded, however the polling after them ended, and "error"    *)
(* leaves room for the patches whose replies were lost.                    *)
OperationsCountPatches ==
    LET applied == {c \in Calls : wire[c] = "applied"}
    IN  /\ operations["ok"] <= Cardinality(applied)
        /\ Cardinality({c \in applied : status[c] # "patching"})
              <= operations["ok"] + operations["error"]

Told(c) ==
    IF Open(c)                            THEN "open"
    ELSE IF status[c] = "blocked"         THEN "refused"
    ELSE IF status[c] # "error"           THEN "ok"
    ELSE IF wire[c] = "none"              THEN "refused"
    ELSE                                       "failed"

Promise == INSTANCE GatedCall WITH
    admitted <- {c \in Calls : writable},
    answer   <- [c \in Calls |-> Told(c)],
    effect   <- {c \in Calls : wire[c] = "applied"}

(* app_refresh keeps the promise of GatedCall as well; a poll that fails   *)
(* after the patch took effect is one of its failures.                     *)
ImplementsPromise == Promise!Spec

(* A call whose patch is on its way ends, even if the controller never     *)
(* reconciles.                                                             *)
EveryRefreshAnswered == \A c \in Calls : status[c] = "patching" ~> ~Open(c)
=============================================================================
