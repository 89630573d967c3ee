------------------------------ MODULE WaitTool ------------------------------
(***************************************************************************)
(* app_wait (internal/mcpserver/tools_read.go): poll an Application until  *)
(* it is synced, its operation has failed, or the time is up.  The module  *)
(* only ever reads the Applications: Environment lets them become anything *)
(* for runs of this module alone, and FollowedSync puts the write tools    *)
(* and the controller in its place.                                        *)
(*                                                                         *)
(* The clock counts seconds; a poll, GET and decision, takes less than one.*)
(***************************************************************************)
EXTENDS ArgoDomain, ToolHelpers

CONSTANTS
    Waiters,     \* one identity per app_wait request
    WaitParams,  \* [timeoutSeconds, pollSeconds, forHealthy] a caller may pass
    MaxTime      \* the clock stops here: bounds the model

ASSUME WaitAssumption ==
    /\ \A p \in WaitParams : p.timeoutSeconds \in Int /\ p.pollSeconds \in Int
    /\ MaxTime \in Nat

VARIABLES
    app,       \* the Application each waiter watches
    now,       \* the clock
    waitParam, \* the arguments of each call
    waiting,   \* how far each call is, or its answer
    deadline,  \* when each call gives up
    wake       \* when each sleeping call polls again

waiters == <<waitParam, waiting, deadline, wake>>
vars    == <<app, now, waiters>>

Verdicts == {"reached", "failed", "timeout", "error"}

Apps == [hasPendingOp : BOOLEAN, phase : Phases,
         syncStatus : {"Synced", "OutOfSync"}, health : {"Healthy", "Degraded"}]

-----------------------------------------------------------------------------

(* Fault: what the caller gave is taken as it is.                          *)
TimeoutAsGiven(p) == p.timeoutSeconds

(* Fault: the same of the interval, so that leaving it out means none.     *)
IntervalAsGiven(p) == p.pollSeconds

Timeout(p)      == Clamp(p.timeoutSeconds, 1, 900, 300)
PollInterval(p) == Clamp(p.pollSeconds, 1, 30, 3)

OperationFailed(a) == a.phase \in {"Failed", "Error"}

(* Fault: a queued operation is not in the way.                            *)
SyncedUnlessRunning(a, forHealthy) ==
    /\ a.syncStatus = "Synced"
    /\ forHealthy => a.health = "Healthy"
    /\ ~Running(a.phase)

Synced(a, forHealthy) ==
    /\ a.syncStatus = "Synced"
    /\ forHealthy => a.health = "Healthy"
    /\ ~OperationInProgress(a)

Moves(w, to) ==
    /\ waiting' = [waiting EXCEPT ![w] = to]
    /\ UNCHANGED <<now, waitParam, deadline, wake>>

(* MaxTime bounds the model: it leaves room for the wait to end.           *)
BeginWait(w) ==
    /\ waiting[w] = "new"
    /\ now + Timeout(waitParam[w]) <= MaxTime
    /\ deadline' = [deadline EXCEPT ![w] = now + Timeout(waitParam[w])]
    /\ waiting' = [waiting EXCEPT ![w] = "polling"]
    /\ UNCHANGED <<now, waitParam, wake>>

Sleep(w, p) ==
    /\ wake' = [wake EXCEPT ![w] = now + PollInterval(p)]
    /\ waiting' = [waiting EXCEPT ![w] = "sleeping"]
    /\ UNCHANGED <<now, waitParam, deadline>>

(* Fault: the sleep ahead is not counted against the deadline.             *)
DecidesTooLate(w, a, p) ==
    \/ OperationFailed(a) /\ Moves(w, "failed")
    \/ ~OperationFailed(a) /\ Synced(a, p.forHealthy) /\ Moves(w, "reached")
    \/ /\ ~OperationFailed(a) /\ ~Synced(a, p.forHealthy)
       /\ \/ now > deadline[w] /\ Moves(w, "timeout")
          \/ now <= deadline[w] /\ Sleep(w, p)

Decide(w, a, p) ==
    \/ OperationFailed(a) /\ Moves(w, "failed")
    \/ ~OperationFailed(a) /\ Synced(a, p.forHealthy) /\ Moves(w, "reached")
    \/ /\ ~OperationFailed(a) /\ ~Synced(a, p.forHealthy)
       /\ \/ now + PollInterval(p) > deadline[w] /\ Moves(w, "timeout")
          \/ now + PollInterval(p) <= deadline[w] /\ Sleep(w, p)

Poll(w) ==
    /\ waiting[w] = "polling"
    /\ Decide(w, app[w], waitParam[w])

Awake(w) ==
    /\ waiting[w] = "sleeping"
    /\ now >= wake[w]
    /\ Moves(w, "polling")

(* The GET fails, or the request is cancelled.                             *)
Interrupted(w) ==
    /\ waiting[w] \in {"polling", "sleeping"}
    /\ Moves(w, "error")

Waiter(w) == BeginWait(w) \/ Poll(w) \/ Awake(w) \/ Interrupted(w)

Due(w) ==
    \/ waiting[w] = "polling"
    \/ waiting[w] = "sleeping" /\ now >= wake[w]

Tick ==
    /\ now < MaxTime
    /\ \A w \in Waiters : ~Due(w)
    /\ now' = now + 1
    /\ UNCHANGED waiters

Environment ==
    /\ \E w \in Waiters, a \in Apps : app' = [app EXCEPT ![w] = a]
    /\ UNCHANGED <<now, waiters>>

-----------------------------------------------------------------------------

InitWait ==
    /\ now = 0
    /\ waitParam \in [Waiters -> WaitParams]
    /\ waiting = [w \in Waiters |-> "new"]
    /\ deadline = [w \in Waiters |-> 0]
    /\ wake = [w \in Waiters |-> 0]

Init == app \in [Waiters -> Apps] /\ InitWait

Next ==
    \/ \E w \in Waiters : Waiter(w) /\ UNCHANGED app
    \/ Tick /\ UNCHANGED app
    \/ Environment

Spec == Init /\ [][Next]_vars

(* Time passes and a call is carried on with, whatever the Application     *)
(* does.                                                                   *)
FairSpec ==
    /\ Spec
    /\ WF_vars(Tick /\ UNCHANGED app)
    /\ \A w \in Waiters : WF_vars((Poll(w) \/ Awake(w)) /\ UNCHANGED app)

-----------------------------------------------------------------------------
(* Properties.                                                             *)

(* Every variable has the type its comment gives it.                       *)
TypeOK ==
    /\ app \in [Waiters -> Apps]
    /\ now \in 0..MaxTime
    /\ waitParam \in [Waiters -> WaitParams]
    /\ waiting \in [Waiters -> {"new", "polling", "sleeping"} \cup Verdicts]
    /\ deadline \in [Waiters -> 0..MaxTime]
    /\ wake \in [Waiters -> 0..(MaxTime + 30)]

(* No wait outlasts its timeout: a call that is not over has never slept   *)
(* past its deadline.                                                      *)
NeverOutlastsTimeout ==
    \A w \in Waiters : waiting[w] \in {"polling", "sleeping"} => now <= deadline[w]

(* Every wait comes to an end, also on an Application that never settles.  *)
EveryWaitEnds == \A w \in Waiters : waiting[w] = "polling" ~> waiting[w] \in Verdicts
=============================================================================
