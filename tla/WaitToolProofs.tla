--------------------------- MODULE WaitToolProofs ---------------------------
(***************************************************************************)
(* That app_wait keeps its deadline, for any number of calls, any          *)
(* arguments and any Application.                                          *)
(***************************************************************************)
EXTENDS WaitTool, TLAPS

(* No sleep is begun that would end after the deadline: that the wait is   *)
(* over by then follows from where each call is when time passes.          *)
SleepsInTime == \A w \in Waiters : waiting[w] = "sleeping" => wake[w] <= deadline[w]

IndInv == TypeOK /\ SleepsInTime /\ NeverOutlastsTimeout

-----------------------------------------------------------------------------
(* Whatever the caller passes, the intervals are within their limits.      *)

LEMMA Intervals ==
    ASSUME NEW p \in WaitParams
    PROVE  Timeout(p) \in 1..900 /\ PollInterval(p) \in 1..30
  BY WaitAssumption DEF Timeout, PollInterval, Clamp

LEMMA InitInv == Init => IndInv
  BY WaitAssumption DEF Init, InitWait, IndInv, TypeOK, SleepsInTime, NeverOutlastsTimeout

-----------------------------------------------------------------------------

LEMMA BeginWaitInv ==
    ASSUME IndInv, NEW w \in Waiters, BeginWait(w), UNCHANGED app
    PROVE  IndInv'
  <1>1. waitParam[w] \in WaitParams /\ Timeout(waitParam[w]) \in 1..900
    BY Intervals DEF IndInv, TypeOK
  <1>2. TypeOK'
    BY <1>1, WaitAssumption DEF IndInv, TypeOK, BeginWait
  <1>3. SleepsInTime'
    BY DEF IndInv, TypeOK, SleepsInTime, BeginWait
  <1>4. NeverOutlastsTimeout'
    BY <1>1 DEF IndInv, TypeOK, NeverOutlastsTimeout, BeginWait
  <1>5. QED
    BY <1>2, <1>3, <1>4 DEF IndInv

(* A call that ends, or polls again.                                       *)
LEMMA MovesInv ==
    ASSUME IndInv, NEW w \in Waiters, NEW to \in {"polling"} \cup Verdicts,
           waiting[w] \in {"polling", "sleeping"}, Moves(w, to), UNCHANGED app
    PROVE  IndInv'
  <1>1. TypeOK'
    BY DEF IndInv, TypeOK, Moves
  <1>2. SleepsInTime'
    BY DEF IndInv, TypeOK, SleepsInTime, Moves, Verdicts
  <1>3. NeverOutlastsTimeout'
    BY DEF IndInv, TypeOK, NeverOutlastsTimeout, Moves, Verdicts
  <1>4. QED
    BY <1>1, <1>2, <1>3 DEF IndInv

LEMMA SleepInv ==
    ASSUME IndInv, NEW w \in Waiters, waiting[w] = "polling",
           now + PollInterval(waitParam[w]) <= deadline[w],
           Sleep(w, waitParam[w]), UNCHANGED app
    PROVE  IndInv'
  <1>1. PollInterval(waitParam[w]) \in 1..30
    BY Intervals DEF IndInv, TypeOK
  <1>2. TypeOK'
    BY <1>1, WaitAssumption DEF IndInv, TypeOK, Sleep
  <1>3. SleepsInTime'
    BY <1>1 DEF IndInv, TypeOK, SleepsInTime, Sleep
  <1>4. NeverOutlastsTimeout'
    BY DEF IndInv, TypeOK, NeverOutlastsTimeout, Sleep
  <1>5. QED
    BY <1>2, <1>3, <1>4 DEF IndInv

LEMMA WaiterInv ==
    ASSUME IndInv, NEW w \in Waiters, Waiter(w), UNCHANGED app
    PROVE  IndInv'
  <1>1. CASE BeginWait(w)
    BY <1>1, BeginWaitInv
  <1>2. CASE Poll(w)
    <2>1. CASE \E to \in Verdicts : Moves(w, to)
      BY <1>2, <2>1, MovesInv DEF Poll
    <2>2. CASE /\ now + PollInterval(waitParam[w]) <= deadline[w]
               /\ Sleep(w, waitParam[w])
      BY <1>2, <2>2, SleepInv DEF Poll
    <2>3. QED
      BY <1>2, <2>1, <2>2 DEF Poll, Decide, Verdicts
  <1>3. CASE Awake(w)
    BY <1>3, MovesInv DEF Awake
  <1>4. CASE Interrupted(w)
    BY <1>4, MovesInv DEF Interrupted, Verdicts
  <1>5. QED
    BY <1>1, <1>2, <1>3, <1>4 DEF Waiter

(* Time only passes while every call that is not over sleeps on.           *)
LEMMA TickInv ==
    ASSUME IndInv, Tick, UNCHANGED app
    PROVE  IndInv'
  <1>1. TypeOK'
    BY WaitAssumption DEF IndInv, TypeOK, Tick, waiters
  <1>2. SleepsInTime'
    BY DEF IndInv, SleepsInTime, Tick, waiters
  <1>3. ASSUME NEW w \in Waiters, waiting[w] \in {"polling", "sleeping"}
        PROVE  now + 1 <= deadline[w]
    BY <1>3, WaitAssumption DEF IndInv, TypeOK, SleepsInTime, Tick, Due
  <1>4. NeverOutlastsTimeout'
    BY <1>3 DEF NeverOutlastsTimeout, Tick, waiters
  <1>5. QED
    BY <1>1, <1>2, <1>4 DEF IndInv

LEMMA EnvironmentInv == IndInv /\ Environment => IndInv'
  BY DEF IndInv, TypeOK, SleepsInTime, NeverOutlastsTimeout, Environment, waiters

-----------------------------------------------------------------------------

(* What the two theorems are consequences of.                              *)
LEMMA Inductive == Spec => []IndInv
  <1>1. IndInv /\ [Next]_vars => IndInv'
    <2> SUFFICES ASSUME IndInv, [Next]_vars PROVE IndInv'
      OBVIOUS
    <2>1. CASE UNCHANGED vars
      BY <2>1 DEF vars, waiters, IndInv, TypeOK, SleepsInTime, NeverOutlastsTimeout
    <2>2. QED
      BY <2>1, WaiterInv, TickInv, EnvironmentInv DEF Next
  <1>2. QED
    BY <1>1, InitInv, PTL DEF Spec

(* Every variable keeps its type: whatever the caller passes, deadline and *)
(* interval are within the limits of clamp (tools_read.go:253-254).        *)
THEOREM TypeCorrect == Spec => []TypeOK
  BY Inductive, PTL DEF IndInv

(* No call of app_wait sleeps past its deadline (tools_read.go:252-294).   *)
THEOREM DeadlineKept == Spec => []NeverOutlastsTimeout
  BY Inductive, PTL DEF IndInv
=============================================================================
