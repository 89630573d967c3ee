------------------------------- MODULE Probes -------------------------------
(***************************************************************************)
(* The two background loops of main.go: probeInstances, which publishes    *)
(* amcp_instance_up, and probeWriteGuards, which publishes                 *)
(* amcp_write_guard_active.  Each goes through the instances one after the *)
(* other, again at every tick, while clusters come and go and their RBAC   *)
(* and admission policies change.                                          *)
(*                                                                         *)
(* An API server is "up" or "silent"; a silent one costs a probe its       *)
(* timeout, and one that refuses the connection is silent for no time.     *)
(*                                                                         *)
(* Both loops end with the signal that stops the server, which also        *)
(* cancels the probes that are being made.                                 *)
(***************************************************************************)
EXTENDS WriteGuard, FiniteSets

CONSTANTS
    Instances,   \* the configured instances
    Order,       \* the sequence of them that Registry.All returns
    Namespaces,  \* where an instance keeps Applications
    Primary      \* the one among them its probes look into

ASSUME OrderAssumption ==
    /\ Order \in Seq(Instances)
    /\ Len(Order) > 0
    /\ \A i \in Instances : \E n \in DOMAIN Order : Order[n] = i
    /\ Primary \in Namespaces
    /\ "nobody knows" \notin Namespaces

VARIABLES
    api,         \* each cluster's API server
    hasApp,      \* the clusters with an Application in the primary namespace
    enforced,    \* the clusters that enforce the admission policy
    patchable,   \* the namespaces of each in which RBAC grants patch
    stopped,     \* SIGINT or SIGTERM has cancelled the context
    pinging,     \* which instance probeInstances is at, 0 between ticks,
                 \* Gone after the loop
    guarding,    \* the same of probeWriteGuards
    step,        \* what its CheckWriteGuard is at, or has found
    up,          \* amcp_instance_up
    guard,       \* amcp_write_guard_active
    seen         \* history: where the API server would have let a spec
                 \* rewrite pass, when it answered the probe last published

clusters == <<api, hasApp, enforced, patchable>>
pings    == <<pinging, up>>
guards   == <<guarding, step, guard, seen>>
vars     == <<clusters, stopped, pings, guards>>

Gauge      == {"absent", "0", "1"}
States     == {"unknown", "active", "MISSING"}
Unverified == {"nobody knows"}
Gone       == -1

-----------------------------------------------------------------------------

App == [spec |-> "default", operation |-> Absent, history |-> <<>>]

Accepts(i, namespace) ==
    /\ namespace \in patchable[i]
    /\ i \in enforced => GuardAdmits(App, GuardProbePatch(App))

Rewritable(i) == {n \in Namespaces : Accepts(i, n)}

Answers(i) == api[i] = "up" /\ ~stopped

(* Fault: the loop runs one past the end.                                  *)
AfterPastEnd(k) == IF k > Len(Order) THEN 0 ELSE k + 1

After(k) == IF k = Len(Order) THEN 0 ELSE k + 1

TickPings ==
    /\ pinging = 0
    /\ pinging' = 1
    /\ UNCHANGED <<clusters, stopped, up, guards>>

LeavePings ==
    /\ pinging = 0
    /\ stopped
    /\ pinging' = Gone
    /\ UNCHANGED <<clusters, stopped, up, guards>>

(* Fault: the ping has no deadline of its own.                             *)
PingWaits ==
    /\ pinging > 0
    /\ Answers(Order[pinging])
    /\ up' = [up EXCEPT ![Order[pinging]] = "1"]
    /\ pinging' = After(pinging)
    /\ UNCHANGED <<clusters, stopped, guards>>

Ping ==
    /\ pinging > 0
    /\ LET i == Order[pinging]
       IN  up' = [up EXCEPT ![i] = IF Answers(i) THEN "1" ELSE "0"]
    /\ pinging' = After(pinging)
    /\ UNCHANGED <<clusters, stopped, guards>>

TickGuards ==
    /\ guarding = 0
    /\ guarding' = 1
    /\ step' = "list"
    /\ UNCHANGED <<clusters, stopped, pings, guard, seen>>

LeaveGuards ==
    /\ guarding = 0
    /\ stopped
    /\ guarding' = Gone
    /\ UNCHANGED <<clusters, stopped, pings, step, guard, seen>>

Found(state) == step' = state /\ UNCHANGED <<clusters, stopped, pings, guarding, guard>>

(* CheckWriteGuard needs an Application to try the forbidden patch on.     *)
ListApps ==
    /\ step = "list"
    /\ LET i == Order[guarding]
       IN  IF Answers(i) /\ i \in hasApp THEN Found("patch") ELSE Found("unknown")
    /\ UNCHANGED seen

TryPatch ==
    LET i        == Order[guarding]
        answered == Answers(i) /\ i \in hasApp
    IN
    /\ step = "patch"
    /\ \/ ~answered /\ Found("unknown")
       \/ answered /\ Primary \in Rewritable(i) /\ Found("MISSING")
       \/ answered /\ Primary \notin Rewritable(i) /\ Found("active")
    /\ seen' = [seen EXCEPT ![i] = IF answered THEN Rewritable(i) ELSE Unverified]

(* Fault: a probe that found out nothing leaves the gauge alone.           *)
PublishesNews ==
    /\ step \in States
    /\ LET i == Order[guarding]
       IN  /\ guard' = CASE step = "active"  -> [guard EXCEPT ![i] = "1"]
                         [] step = "MISSING" -> [guard EXCEPT ![i] = "0"]
                         [] OTHER            -> guard
           /\ seen' = IF step = "unknown" THEN [seen EXCEPT ![i] = Unverified] ELSE seen
    /\ guarding' = After(guarding)
    /\ step' = IF After(guarding) = 0 THEN "wait" ELSE "list"
    /\ UNCHANGED <<clusters, stopped, pings>>

(* Fault: the loop is over when an instance is not to be probed.           *)
StopsAtUnknown ==
    /\ step \in States
    /\ LET i == Order[guarding]
       IN  /\ guard' = [guard EXCEPT ![i] =
                 CASE step = "active"  -> "1"
                   [] step = "MISSING" -> "0"
                   [] OTHER            -> "absent"]
           /\ seen' = IF step = "unknown" THEN [seen EXCEPT ![i] = Unverified] ELSE seen
    /\ guarding' = IF step = "unknown" THEN 0 ELSE After(guarding)
    /\ step' = IF guarding' = 0 THEN "wait" ELSE "list"
    /\ UNCHANGED <<clusters, stopped, pings>>

Publish ==
    /\ step \in States
    /\ LET i == Order[guarding]
       IN  /\ guard' = [guard EXCEPT ![i] =
                 CASE step = "active"  -> "1"
                   [] step = "MISSING" -> "0"
                   [] OTHER            -> "absent"]
           /\ seen' = IF step = "unknown" THEN [seen EXCEPT ![i] = Unverified] ELSE seen
    /\ guarding' = After(guarding)
    /\ step' = IF After(guarding) = 0 THEN "wait" ELSE "list"
    /\ UNCHANGED <<clusters, stopped, pings>>

(* Where the tick and the signal are both there, select takes either.      *)
ProbeInstances   == TickPings \/ LeavePings \/ Ping
ProbeWriteGuards == TickGuards \/ LeaveGuards \/ ListApps \/ TryPatch \/ Publish

Stop ==
    /\ ~stopped
    /\ stopped' = TRUE
    /\ UNCHANGED <<clusters, pings, guards>>

-----------------------------------------------------------------------------
(* Whoever administers the clusters.                                       *)

Change ==
    /\ \/ /\ \E i \in Instances, s \in {"up", "silent"} : api' = [api EXCEPT ![i] = s]
          /\ UNCHANGED <<hasApp, enforced, patchable>>
       \/ /\ hasApp' \in SUBSET Instances
          /\ UNCHANGED <<api, enforced, patchable>>
       \/ /\ enforced' \in SUBSET Instances
          /\ UNCHANGED <<api, hasApp, patchable>>
       \/ /\ \E i \in Instances, n \in SUBSET Namespaces :
                patchable' = [patchable EXCEPT ![i] = n]
          /\ UNCHANGED <<api, hasApp, enforced>>
    /\ UNCHANGED <<stopped, pings, guards>>

-----------------------------------------------------------------------------

Init ==
    /\ api \in [Instances -> {"up", "silent"}]
    /\ hasApp \in SUBSET Instances
    /\ enforced \in SUBSET Instances
    /\ patchable \in [Instances -> SUBSET Namespaces]
    /\ stopped = FALSE
    /\ pinging = 1
    /\ guarding = 1
    /\ step = "list"
    /\ up = [i \in Instances |-> "absent"]
    /\ guard = [i \in Instances |-> "absent"]
    /\ seen = [i \in Instances |-> Unverified]

Next == ProbeInstances \/ ProbeWriteGuards \/ Stop \/ Change

Spec == Init /\ [][Next]_vars

(* The tickers tick and every request ends, in an answer or a timeout.     *)
FairSpec == Spec /\ WF_vars(ProbeInstances) /\ WF_vars(ProbeWriteGuards)

-----------------------------------------------------------------------------
(* Properties.                                                             *)

(* Every variable has the type its comment gives it.                       *)
TypeOK ==
    /\ api \in [Instances -> {"up", "silent"}]
    /\ hasApp \subseteq Instances
    /\ enforced \subseteq Instances
    /\ patchable \in [Instances -> SUBSET Namespaces]
    /\ stopped \in BOOLEAN
    /\ pinging \in Gone..Len(Order)
    /\ guarding \in Gone..Len(Order)
    /\ step \in {"wait", "list", "patch"} \cup States
    /\ guarding \in {Gone, 0} <=> step = "wait"
    /\ up \in [Instances -> Gauge]
    /\ guard \in [Instances -> Gauge]
    /\ seen \in [Instances -> {Unverified} \cup SUBSET Namespaces]

(* No unknown state is reported as safe: where the gauge says 1, the probe *)
(* it comes from is the last that ended, and that probe was answered with  *)
(* a rejection.  A probe that cannot be made takes an earlier 1 back.      *)
SafeOnlyIfRejected ==
    \A i \in Instances :
        guard[i] = "1" /\ ~(guarding > 0 /\ Order[guarding] = i)
            => seen[i] # Unverified /\ Primary \notin seen[i]

(* While the server runs, an instance that stays without a guard is        *)
(* reported as such, and stays reported, however the other instances' API  *)
(* servers behave.                                                         *)
MissingIsReported ==
    \A i \in Instances :
        <>[](Answers(i) /\ i \in hasApp /\ Primary \in Rewritable(i)) => <>[](guard[i] = "0")

(* While the server runs, an instance that stays unreachable is reported   *)
(* down, and one that stays reachable up, however the other instances' API *)
(* servers behave.                                                         *)
ReachabilityIsReported ==
    \A i \in Instances :
        /\ <>[](api[i] = "silent" /\ ~stopped) => <>[](up[i] = "0")
        /\ <>[]Answers(i) => <>[](up[i] = "1")
=============================================================================
