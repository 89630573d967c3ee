---------------------------- MODULE ProbesProofs ----------------------------
(***************************************************************************)
(* That amcp_write_guard_active never says safe of what is not known to be *)
(* safe, for any number of instances and namespaces, whatever becomes of   *)
(* clusters, RBAC and policies while they are probed.                      *)
(***************************************************************************)
EXTENDS Probes, TLAPS

Rejected(i) == seen[i] # Unverified /\ Primary \notin seen[i]

(* What has been found of the instance the loop is at, and is not yet      *)
(* published, is what was seen of it.                                      *)
FoundInv == step = "active" => Rejected(Order[guarding])

IndInv == TypeOK /\ FoundInv /\ SafeOnlyIfRejected

-----------------------------------------------------------------------------
(* The instances in their order.                                           *)

LEMMA OrderLen ==
    /\ Len(Order) \in Nat \ {0}
    /\ \A k \in 1..Len(Order) : Order[k] \in Instances
  <1>1. Order \in Seq(Instances) /\ Len(Order) > 0
    BY OrderAssumption
  <1>2. Len(Order) \in Nat /\ Order \in [1..Len(Order) -> Instances]
    BY <1>1
  <1>3. QED
    BY <1>1, <1>2

LEMMA AfterInRange ==
    ASSUME NEW k \in 1..Len(Order)
    PROVE  After(k) \in 0..Len(Order)
  BY OrderLen DEF After

(* Where the loop is when it is at an instance.                            *)
LEMMA AtInstance ==
    ASSUME TypeOK, step # "wait"
    PROVE  /\ guarding \in 1..Len(Order)
           /\ Order[guarding] \in Instances
  BY OrderLen DEF TypeOK, Gone

(* What the API server would let pass is a set of namespaces, and so never *)
(* mistaken for not knowing.                                               *)
LEMMA RewritableKnown ==
    ASSUME NEW i \in Instances
    PROVE  Rewritable(i) \in SUBSET Namespaces /\ Rewritable(i) # Unverified
  BY OrderAssumption DEF Rewritable, Unverified

-----------------------------------------------------------------------------

LEMMA InitInv == Init => IndInv
  <1> SUFFICES ASSUME Init PROVE IndInv
    OBVIOUS
  <1>1. pinging \in Gone..Len(Order) /\ guarding \in Gone..Len(Order)
    BY OrderLen DEF Init, Gone
  <1>2. guarding \notin {Gone, 0} /\ step = "list"
    BY DEF Init, Gone
  <1>3. up \in [Instances -> Gauge] /\ guard \in [Instances -> Gauge]
    BY DEF Init, Gauge
  <1>4. seen \in [Instances -> {Unverified} \cup SUBSET Namespaces]
    BY DEF Init
  <1>5. TypeOK
    BY <1>1, <1>2, <1>3, <1>4 DEF Init, TypeOK
  <1>6. FoundInv /\ SafeOnlyIfRejected
    BY DEF Init, FoundInv, SafeOnlyIfRejected
  <1>7. QED
    BY <1>5, <1>6 DEF IndInv

(* probeInstances touches nothing the other loop reads.                    *)
LEMMA ProbeInstancesInv == IndInv /\ ProbeInstances => IndInv'
  <1> SUFFICES ASSUME IndInv, ProbeInstances PROVE IndInv'
    OBVIOUS
  <1>1. UNCHANGED <<clusters, stopped, guards>>
    BY DEF ProbeInstances, TickPings, LeavePings, Ping
  <1>2. pinging' \in Gone..Len(Order)
    BY OrderLen, AfterInRange DEF IndInv, TypeOK, ProbeInstances, TickPings, LeavePings, Ping, Gone
  <1>3. up' \in [Instances -> Gauge]
    BY DEF IndInv, TypeOK, ProbeInstances, TickPings, LeavePings, Ping, Gauge
  <1>4. QED
    BY <1>1, <1>2, <1>3
    DEF IndInv, TypeOK, FoundInv, Rejected, SafeOnlyIfRejected, clusters, guards

LEMMA TickGuardsInv == IndInv /\ (TickGuards \/ LeaveGuards) => IndInv'
  <1> SUFFICES ASSUME IndInv, TickGuards \/ LeaveGuards PROVE IndInv'
    OBVIOUS
  <1>1. /\ guarding = 0
        /\ \/ guarding' = 1 /\ step' = "list"
           \/ guarding' = Gone /\ step' = step
        /\ UNCHANGED <<clusters, stopped, pings, guard, seen>>
    BY DEF TickGuards, LeaveGuards
  <1>2. TypeOK'
    BY <1>1, OrderLen DEF IndInv, TypeOK, clusters, pings, Gone, States
  <1>3. FoundInv'
    BY <1>1 DEF IndInv, TypeOK, FoundInv, States
  <1>4. SafeOnlyIfRejected'
    BY <1>1 DEF IndInv, SafeOnlyIfRejected
  <1>5. QED
    BY <1>2, <1>3, <1>4 DEF IndInv

LEMMA ListAppsInv == IndInv /\ ListApps => IndInv'
  <1> SUFFICES ASSUME IndInv, ListApps PROVE IndInv'
    OBVIOUS
  <1>1. /\ step = "list"
        /\ step' \in {"patch", "unknown"}
        /\ UNCHANGED <<clusters, stopped, pings, guarding, guard, seen>>
    BY DEF ListApps, Found
  <1>2. TypeOK'
    BY <1>1 DEF IndInv, TypeOK, clusters, pings, States
  <1>3. FoundInv' /\ SafeOnlyIfRejected'
    BY <1>1 DEF IndInv, FoundInv, SafeOnlyIfRejected
  <1>4. QED
    BY <1>2, <1>3 DEF IndInv

LEMMA TryPatchInv == IndInv /\ TryPatch => IndInv'
  <1> SUFFICES ASSUME IndInv, TryPatch PROVE IndInv'
    OBVIOUS
  <1> DEFINE i == Order[guarding]
  <1>1. step = "patch" /\ i \in Instances /\ guarding \in 1..Len(Order)
    BY AtInstance DEF IndInv, TryPatch
  <1>2. /\ step' \in States
        /\ step' = "active" => seen' = [seen EXCEPT ![i] = Rewritable(i)] /\ Primary \notin Rewritable(i)
        /\ \E s \in {Unverified, Rewritable(i)} : seen' = [seen EXCEPT ![i] = s]
        /\ UNCHANGED <<clusters, stopped, pings, guarding, guard>>
    BY DEF TryPatch, Found, States
  <1>3. seen' \in [Instances -> {Unverified} \cup SUBSET Namespaces]
    BY <1>1, <1>2, RewritableKnown DEF IndInv, TypeOK
  <1>4. TypeOK'
    BY <1>1, <1>2, <1>3 DEF IndInv, TypeOK, clusters, pings, States
  <1>5. FoundInv'
    BY <1>1, <1>2, RewritableKnown DEF IndInv, TypeOK, FoundInv, Rejected
  <1>6. \A j \in Instances \ {i} : seen'[j] = seen[j]
    BY <1>1, <1>2 DEF IndInv, TypeOK
  <1>7. SafeOnlyIfRejected'
    BY <1>1, <1>2, <1>6 DEF IndInv, SafeOnlyIfRejected
  <1>8. QED
    BY <1>4, <1>5, <1>7 DEF IndInv

LEMMA PublishInv == IndInv /\ Publish => IndInv'
  <1> SUFFICES ASSUME IndInv, Publish PROVE IndInv'
    OBVIOUS
  <1> DEFINE i == Order[guarding]
  <1>1. /\ step \in States
        /\ i \in Instances
        /\ guarding \in 1..Len(Order)
        /\ After(guarding) \in 0..Len(Order)
    BY AtInstance, AfterInRange DEF IndInv, Publish, States
  <1>2. /\ \E g \in Gauge : guard' = [guard EXCEPT ![i] = g] /\ (g = "1" => step = "active")
        /\ seen' = IF step = "unknown" THEN [seen EXCEPT ![i] = Unverified] ELSE seen
        /\ guarding' = After(guarding)
        /\ step' = IF After(guarding) = 0 THEN "wait" ELSE "list"
        /\ UNCHANGED <<clusters, stopped, pings>>
    BY DEF Publish, Gauge, States
  <1>3. seen' \in [Instances -> {Unverified} \cup SUBSET Namespaces]
    BY <1>1, <1>2 DEF IndInv, TypeOK
  <1>4. guard' \in [Instances -> Gauge]
    BY <1>1, <1>2 DEF IndInv, TypeOK
  <1>5. guarding' \in Gone..Len(Order) /\ (guarding' \in {Gone, 0} <=> step' = "wait")
    BY <1>1, <1>2, OrderLen DEF Gone
  <1>6. TypeOK'
    BY <1>2, <1>3, <1>4, <1>5 DEF IndInv, TypeOK, clusters, pings
  <1>7. FoundInv'
    BY <1>2 DEF FoundInv
  <1>8. ASSUME NEW j \in Instances, guard'[j] = "1"
        PROVE  Rejected(j)'
    <2>1. CASE j = i
      BY <1>1, <1>2, <1>8, <2>1 DEF IndInv, TypeOK, FoundInv, Rejected
    <2>2. CASE j # i
      BY <1>1, <1>2, <1>8, <2>2 DEF IndInv, TypeOK, SafeOnlyIfRejected, Rejected
    <2>3. QED
      BY <2>1, <2>2
  <1>9. SafeOnlyIfRejected'
    BY <1>8 DEF SafeOnlyIfRejected, Rejected
  <1>10. QED
    BY <1>6, <1>7, <1>9 DEF IndInv

(* Whatever happens to the clusters or the server touches no gauge.        *)
LEMMA WorldInv == IndInv /\ (Stop \/ Change) => IndInv'
  <1> SUFFICES ASSUME IndInv, Stop \/ Change PROVE IndInv'
    OBVIOUS
  <1>1. UNCHANGED <<pings, guards>>
    BY DEF Stop, Change
  <1>2. /\ api' \in [Instances -> {"up", "silent"}]
        /\ hasApp' \subseteq Instances
        /\ enforced' \subseteq Instances
        /\ patchable' \in [Instances -> SUBSET Namespaces]
        /\ stopped' \in BOOLEAN
    BY DEF IndInv, TypeOK, Stop, Change, clusters
  <1>3. QED
    BY <1>1, <1>2 DEF IndInv, TypeOK, FoundInv, Rejected, SafeOnlyIfRejected, pings, guards

-----------------------------------------------------------------------------

(* What the two theorems are consequences of.                              *)
LEMMA Inductive == Spec => []IndInv
  <1>1. IndInv /\ [Next]_vars => IndInv'
    <2> SUFFICES ASSUME IndInv, [Next]_vars PROVE IndInv'
      OBVIOUS
    <2>1. CASE ProbeInstances
      BY <2>1, ProbeInstancesInv
    <2>2. CASE ProbeWriteGuards
      BY <2>2, TickGuardsInv, ListAppsInv, TryPatchInv, PublishInv DEF ProbeWriteGuards
    <2>3. CASE Stop \/ Change
      BY <2>3, WorldInv
    <2>4. CASE UNCHANGED vars
      BY <2>4 DEF vars, clusters, pings, guards, IndInv, TypeOK, FoundInv, Rejected, SafeOnlyIfRejected
    <2>5. QED
      BY <2>1, <2>2, <2>3, <2>4 DEF Next
  <1>2. QED
    BY <1>1, InitInv, PTL DEF Spec

(* Every variable keeps its type: the loops never run past the instances   *)
(* there are, and the gauges have no values but those published.           *)
THEOREM TypeCorrect == Spec => []TypeOK
  BY Inductive, PTL DEF IndInv

(* amcp_write_guard_active is 1 only where the last probe that ended was   *)
(* answered with a rejection (main.go:203-214, instance.go:134-159).       *)
THEOREM SafeIsRejected == Spec => []SafeOnlyIfRejected
  BY Inductive, PTL DEF IndInv
=============================================================================
