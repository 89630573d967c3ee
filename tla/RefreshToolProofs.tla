------------------------- MODULE RefreshToolProofs --------------------------
(***************************************************************************)
(* What app_refresh answers, for any number of concurrent calls, any       *)
(* arguments and any bound of the clock.                                   *)
(***************************************************************************)
EXTENDS RefreshTool, FiniteSetTheorems, TLAPS

Waiting == {"patching", "polling", "sleeping"}

(* Where a call and its patch can be.                                      *)
WireInv ==
    \A c \in Calls :
        /\ status[c] \in {"new", "blocked"} => wire[c] = "none"
        /\ status[c] = "patching" => wire[c] # "none"
        /\ status[c] \in {"polling", "sleeping", "requested", "completed", "pending"}
              => wire[c] = "applied"
        /\ wire[c] # "none" => writable

(* No sleep is begun that would end more than a second after the deadline. *)
SleepsInTime == \A c \in Calls : status[c] = "sleeping" => wake[c] <= deadline[c] + 1

NormalApplied == \E d \in Calls : wire[d] = "applied" /\ ~param[d].hard

(* What a waiting call sees of the Application tells what the controller   *)
(* has done since it began: a reconcile after the one it noted, or an      *)
(* annotation that is gone, is one it has made, and an annotation that is  *)
(* back after it reconciled is another call's.                             *)
SeenInv ==
    \A c \in Calls :
        /\ "patch" \in since[c] => wire[c] = "applied" /\ "read" \in since[c]
        /\ status[c] = "new" => since[c] = {}
        /\ status[c] \in Waiting =>
            /\ reconciledAt # before[c] => "read" \in since[c]
            /\ wire[c] = "applied" /\ annotation = "none" => "patch" \in since[c]
            /\ "patch" \in since[c] /\ annotation # "none"
                  => \E d \in Calls \ {c} : wire[d] = "applied"

(* A hard refresh that was applied can only be replaced by a normal one.   *)
HardInv ==
    /\ annotation = "normal" /\ (\E c \in Calls : wire[c] = "applied" /\ param[c].hard)
          => NormalApplied
    /\ \A c \in Calls :
        status[c] \in Waiting /\ param[c].hard /\ "patch" \in since[c] /\ "hard" \notin since[c]
          => NormalApplied

Answered == CompletedSawReconcile /\ PendingIsHonest /\ HardOnlyLostToNormal

IndInv == TypeOK /\ WireInv /\ SleepsInTime /\ WaitsBarelyLonger /\ SeenInv /\ HardInv /\ Answered

-----------------------------------------------------------------------------

LEMMA Timeouts == ASSUME NEW p \in Params PROVE Timeout(p) \in 1..300
  BY ParamsAssumption DEF Timeout, Clamp

LEMMA InitInv == Init => IndInv
<1> SUFFICES ASSUME Init PROVE IndInv
  OBVIOUS
<1>1. TypeOK
  BY TimeAssumption DEF Init, TypeOK, Never
<1>2. \A c \in Calls : status[c] = "new" /\ wire[c] = "none" /\ since[c] = {}
  BY DEF Init
<1> QED
  BY <1>1, <1>2
  DEF IndInv, WireInv, SleepsInTime, WaitsBarelyLonger, SeenInv, HardInv, Answered,
      CompletedSawReconcile, PendingIsHonest, HardOnlyLostToNormal, Waiting

LEMMA GoesType ==
    ASSUME TypeOK, NEW c \in Calls, NEW a \in Answers \cup {"polling"}, Goes(c, a),
           operations' \in [{"ok", "error"} -> Nat], writesBlocked' \in Nat
    PROVE  TypeOK'
<1>1. /\ now' = now /\ writable' = writable /\ annotation' = annotation
      /\ reconciledAt' = reconciledAt /\ param' = param /\ wire' = wire /\ before' = before
      /\ deadline' = deadline /\ wake' = wake /\ since' = since
  BY DEF Goes, cluster, timer
<1>2. status' \in [Calls -> {"new", "patching", "polling", "sleeping"} \cup Answers]
  BY DEF Goes, Answer, TypeOK
<1> QED
  BY <1>1, <1>2 DEF TypeOK

LEMMA CountType ==
    ASSUME TypeOK, NEW result \in {"ok", "error"}, RecordOperation(result)
    PROVE  operations' \in [{"ok", "error"} -> Nat] /\ writesBlocked' \in Nat
  BY DEF TypeOK, RecordOperation

LEMMA TypeStep == IndInv /\ [Next]_vars => TypeOK'
<1> SUFFICES ASSUME TypeOK, WireInv, [Next]_vars PROVE TypeOK'
  BY DEF IndInv
<1>1. ASSUME NEW c \in Calls, Request(c) PROVE TypeOK'
  BY <1>1 DEF TypeOK, Request, Answer, cluster, counts
<1>2. ASSUME UNCHANGED counts
      PROVE  operations' \in [{"ok", "error"} -> Nat] /\ writesBlocked' \in Nat
  BY <1>2 DEF TypeOK, counts
<1>3. ASSUME NEW c \in Calls, AssertWritable(c) PROVE TypeOK'
  <2>1. operations' \in [{"ok", "error"} -> Nat] /\ writesBlocked' \in Nat
    BY <1>3 DEF TypeOK, AssertWritable
  <2> QED
    BY <1>3, <2>1, GoesType DEF AssertWritable, Answers
<1>4. ASSUME NEW c \in Calls, PatchFailed(c) PROVE TypeOK'
  BY <1>4, GoesType, CountType DEF PatchFailed, Answers
<1>5. ASSUME NEW c \in Calls, Patched(c) PROVE TypeOK'
  <2>1. Timeout(param[c]) \in 1..300
    BY Timeouts DEF TypeOK
  <2>2. now + Timeout(param[c]) \in 0..MaxTime
    BY <1>5, <2>1, TimeAssumption DEF TypeOK, Patched
  <2>3. operations' \in [{"ok", "error"} -> Nat] /\ writesBlocked' \in Nat
    BY <1>5, CountType DEF Patched
  <2>4. deadline' \in [Calls -> 0..MaxTime]
    BY <1>5, <2>2 DEF Patched, TypeOK
  <2>5. status' \in [Calls -> {"new", "patching", "polling", "sleeping"} \cup Answers]
    BY <1>5 DEF Patched, TypeOK, Answer, Answers
  <2> QED
    BY <1>5, <2>3, <2>4, <2>5 DEF TypeOK, Patched, cluster
<1>6. ASSUME NEW c \in Calls, Sleep(c), UNCHANGED counts PROVE TypeOK'
  <2>1. now + 2 \in 0..(MaxTime + 2)
    BY TimeAssumption DEF TypeOK
  <2> QED
    BY <1>6, <2>1 DEF TypeOK, Sleep, Answer, cluster, counts
<1>7. ASSUME NEW c \in Calls, Poll(c) \/ Awake(c) \/ Interrupted(c) \/ CannotPrepare(c)
      PROVE  TypeOK'
  BY <1>2, <1>6, <1>7, GoesType DEF Poll, Awake, Interrupted, CannotPrepare, Answers
<1>8. ASSUME NEW c \in Calls, ApplyPatch(c) \/ RefusePatch(c) PROVE TypeOK'
  BY <1>8 DEF TypeOK, ApplyPatch, RefusePatch, Kind, cluster, timer, counts
<1>9. CASE Reconcile
  BY <1>9 DEF TypeOK, Reconcile, timer, counts
<1>10. CASE Tick
  BY <1>10, TimeAssumption DEF TypeOK, Tick, cluster, timer, counts
<1>11. CASE UNCHANGED vars
  BY <1>11 DEF TypeOK, vars, cluster, timer, counts
<1> QED
  BY <1>1, <1>3, <1>4, <1>5, <1>7, <1>8, <1>9, <1>10, <1>11 DEF Next, Handler

-----------------------------------------------------------------------------
(* The patch.                                                              *)

LEMMA WireStep == IndInv /\ [Next]_vars => WireInv'
<1> SUFFICES ASSUME TypeOK, WireInv, [Next]_vars PROVE WireInv'
  BY DEF IndInv
<1> USE DEF WireInv, TypeOK
<1>1. ASSUME NEW c \in Calls, Request(c) PROVE WireInv'
  BY <1>1 DEF Request, Answer
<1>2. ASSUME NEW c \in Calls, NEW a, status[c] = "new", a \in {"blocked", "error"}, Goes(c, a)
      PROVE  WireInv'
  BY <1>2 DEF Goes, Answer
<1>3. ASSUME NEW c \in Calls, NEW a, status[c] \in Waiting, Answer(c, a),
             a \in {"requested", "polling", "sleeping", "completed", "pending"} =>
                 wire[c] = "applied",
             a \notin {"new", "blocked", "patching"}, UNCHANGED <<writable, wire>>
      PROVE  WireInv'
  BY <1>3 DEF Answer, Waiting
<1>4. ASSUME NEW c \in Calls, AssertWritable(c) \/ CannotPrepare(c) PROVE WireInv'
  BY <1>2, <1>4 DEF AssertWritable, CannotPrepare
<1>5. ASSUME NEW c \in Calls, PatchFailed(c) \/ Awake(c) \/ Interrupted(c) PROVE WireInv'
  BY <1>3, <1>5 DEF PatchFailed, Awake, Interrupted, Goes, Waiting
<1>6. ASSUME NEW c \in Calls, Patched(c) PROVE WireInv'
  BY <1>3, <1>6 DEF Patched, Waiting
<1>7. ASSUME NEW c \in Calls, Poll(c) PROVE WireInv'
  BY <1>3, <1>7 DEF Poll, Sleep, Goes, Waiting
<1>8. ASSUME NEW c \in Calls, ApplyPatch(c) \/ RefusePatch(c) PROVE WireInv'
  BY <1>8 DEF ApplyPatch, RefusePatch
<1>9. ASSUME UNCHANGED <<status, wire, writable>> PROVE WireInv'
  BY <1>9
<1>10. CASE Reconcile \/ Tick \/ UNCHANGED vars
  BY <1>9, <1>10 DEF Reconcile, Tick, vars
<1> QED
  BY <1>1, <1>4, <1>5, <1>6, <1>7, <1>8, <1>10 DEF Next, Handler

-----------------------------------------------------------------------------
(* The clock.                                                              *)

TimeInv == SleepsInTime /\ WaitsBarelyLonger

LEMMA TimeStep == IndInv /\ [Next]_vars => TimeInv'
<1> SUFFICES ASSUME TypeOK, TimeInv, [Next]_vars PROVE TimeInv'
  BY DEF IndInv, TimeInv
<1> USE DEF TypeOK, TimeInv, SleepsInTime, WaitsBarelyLonger
<1>1. ASSUME NEW c \in Calls, NEW a, Answer(c, a), a \notin {"polling", "sleeping"},
             UNCHANGED <<now, wake, deadline>>
      PROVE  TimeInv'
  BY <1>1 DEF Answer
<1>2. ASSUME NEW c \in Calls, AssertWritable(c) \/ CannotPrepare(c) \/ Request(c)
      PROVE  TimeInv'
  BY <1>1, <1>2 DEF AssertWritable, CannotPrepare, Request, Goes, timer
<1>3. ASSUME NEW c \in Calls, PatchFailed(c) \/ Interrupted(c) PROVE TimeInv'
  BY <1>1, <1>3 DEF PatchFailed, Interrupted, Goes, timer
<1>4. ASSUME NEW c \in Calls, Patched(c) PROVE TimeInv'
  <2>1. CASE Answer(c, "requested") /\ UNCHANGED deadline
    BY <1>1, <1>4, <2>1 DEF Patched
  <2>2. CASE /\ Answer(c, "polling")
             /\ deadline' = [deadline EXCEPT ![c] = now + Timeout(param[c])]
    <3>1. Timeout(param[c]) \in 1..300
      BY Timeouts
    <3> QED
      BY <1>4, <2>2, <3>1 DEF Patched, Answer
  <2> QED
    BY <1>4, <2>1, <2>2 DEF Patched
<1>5. ASSUME NEW c \in Calls, Poll(c) PROVE TimeInv'
  <2>1. CASE Goes(c, "completed") \/ Goes(c, "pending")
    BY <1>1, <2>1 DEF Goes, timer
  <2>2. CASE now + 1 <= deadline[c] /\ Sleep(c)
    BY <2>2 DEF Sleep, Answer
  <2> QED
    BY <1>5, <2>1, <2>2 DEF Poll
<1>6. ASSUME NEW c \in Calls, Awake(c) PROVE TimeInv'
  BY <1>6 DEF Awake, Goes, Answer, timer
<1>7. CASE Tick
  BY <1>7 DEF Tick, Due, timer
<1>8. ASSUME UNCHANGED <<now, status, timer>> PROVE TimeInv'
  BY <1>8 DEF timer
<1>9. ASSUME NEW c \in Calls, ApplyPatch(c) \/ RefusePatch(c) PROVE TimeInv'
  BY <1>8, <1>9 DEF ApplyPatch, RefusePatch
<1>10. CASE Reconcile \/ UNCHANGED vars
  BY <1>8, <1>10 DEF Reconcile, vars
<1> QED
  BY <1>2, <1>3, <1>4, <1>5, <1>6, <1>7, <1>9, <1>10 DEF Next, Handler

-----------------------------------------------------------------------------
(* What is seen of the controller.                                         *)

(* A handler that goes on or ends leaves all that matters as it is.        *)
LEMMA MovesFrame ==
    ASSUME NEW c \in Calls,
           PatchFailed(c) \/ Patched(c) \/ Poll(c) \/ Awake(c) \/ Interrupted(c)
    PROVE  /\ UNCHANGED <<annotation, reconciledAt, before, wire, param, since>>
           /\ status[c] \in Waiting
           /\ \E a \in Waiting \cup {"requested", "completed", "pending", "error"} :
                 status' = [status EXCEPT ![c] = a]
<1>1. ASSUME NEW a, a \in {"completed", "pending", "error", "polling"}, Goes(c, a)
      PROVE  /\ UNCHANGED <<annotation, reconciledAt, before, wire, param, since>>
             /\ \E b \in Waiting \cup {"requested", "completed", "pending", "error"} :
                   status' = [status EXCEPT ![c] = b]
  BY <1>1 DEF Goes, Answer, cluster, timer, Waiting
<1>2. CASE Patched(c)
  BY <1>2 DEF Patched, Answer, cluster, Waiting
<1>3. CASE Poll(c)
  BY <1>1, <1>3 DEF Poll, Sleep, Answer, cluster, Waiting
<1>4. CASE PatchFailed(c) \/ Awake(c) \/ Interrupted(c)
  BY <1>1, <1>4 DEF PatchFailed, Awake, Interrupted, Waiting
<1> QED
  BY <1>2, <1>3, <1>4

LEMMA SeenStep == IndInv /\ [Next]_vars => SeenInv'
<1> SUFFICES ASSUME TypeOK, WireInv, SeenInv, [Next]_vars PROVE SeenInv'
  BY DEF IndInv
<1> USE DEF TypeOK, SeenInv, Waiting
<1>1. ASSUME NEW c \in Calls, Request(c) PROVE SeenInv'
  BY <1>1 DEF Request, Answer, WireInv, cluster
<1>2. ASSUME NEW c \in Calls, AssertWritable(c) \/ CannotPrepare(c) PROVE SeenInv'
  BY <1>2 DEF AssertWritable, CannotPrepare, Goes, Answer, cluster, timer
<1>3. ASSUME NEW c \in Calls,
             PatchFailed(c) \/ Patched(c) \/ Poll(c) \/ Awake(c) \/ Interrupted(c)
      PROVE  SeenInv'
  <2>1. /\ UNCHANGED <<annotation, reconciledAt, before, wire, param, since>>
        /\ status[c] \in Waiting
    BY <1>3, MovesFrame
  <2>2. PICK a \in Waiting \cup {"requested", "completed", "pending", "error"} :
            status' = [status EXCEPT ![c] = a]
    BY <1>3, MovesFrame
  <2> QED
    BY <2>1, <2>2
<1>4. ASSUME NEW c \in Calls, ApplyPatch(c) PROVE SeenInv'
  BY <1>4 DEF ApplyPatch, Kind, timer
<1>5. ASSUME NEW c \in Calls, RefusePatch(c) PROVE SeenInv'
  BY <1>5 DEF RefusePatch, cluster, timer
<1>6. CASE Reconcile
  BY <1>6 DEF Reconcile, Open, Answers, timer
<1>7. CASE Tick \/ UNCHANGED vars
  BY <1>7 DEF Tick, vars, cluster, timer
<1> QED
  BY <1>1, <1>2, <1>3, <1>4, <1>5, <1>6, <1>7 DEF Next, Handler

LEMMA HardStep == IndInv /\ [Next]_vars => HardInv'
<1> SUFFICES ASSUME TypeOK, WireInv, SeenInv, HardInv, [Next]_vars PROVE HardInv'
  BY DEF IndInv
<1> USE DEF TypeOK, HardInv, NormalApplied, Waiting
<1>1. ASSUME NEW c \in Calls, Request(c) PROVE HardInv'
  BY <1>1 DEF Request, Answer, WireInv, SeenInv, cluster
<1>2. ASSUME NEW c \in Calls, AssertWritable(c) \/ CannotPrepare(c) PROVE HardInv'
  BY <1>2 DEF AssertWritable, CannotPrepare, Goes, Answer, cluster
<1>3. ASSUME NEW c \in Calls,
             PatchFailed(c) \/ Patched(c) \/ Poll(c) \/ Awake(c) \/ Interrupted(c)
      PROVE  HardInv'
  <2>1. /\ UNCHANGED <<annotation, reconciledAt, before, wire, param, since>>
        /\ status[c] \in Waiting
    BY <1>3, MovesFrame
  <2>2. PICK a \in Waiting \cup {"requested", "completed", "pending", "error"} :
            status' = [status EXCEPT ![c] = a]
    BY <1>3, MovesFrame
  <2> QED
    BY <2>1, <2>2
<1>4. ASSUME NEW c \in Calls, ApplyPatch(c) PROVE HardInv'
  BY <1>4 DEF ApplyPatch, Kind
<1>5. ASSUME NEW c \in Calls, RefusePatch(c) PROVE HardInv'
  BY <1>5 DEF RefusePatch, cluster
<1>6. CASE Reconcile
  BY <1>6 DEF Reconcile, Open, Answers, SeenInv
<1>7. CASE Tick \/ UNCHANGED vars
  BY <1>7 DEF Tick, vars, cluster
<1> QED
  BY <1>1, <1>2, <1>3, <1>4, <1>5, <1>6, <1>7 DEF Next, Handler

-----------------------------------------------------------------------------
(* The answers.                                                            *)

(* A call that polls and is done has seen the controller.                  *)
LEMMA DoneSawReconcile ==
    ASSUME IndInv, NEW c \in Calls, status[c] = "polling", Done(c)
    PROVE  "read" \in since[c]
<1> USE DEF IndInv, TypeOK, WireInv, SeenInv, Waiting
<1>1. CASE annotation = "none"
  BY <1>1
<1>2. CASE ReconciledAfter(reconciledAt, before[c])
  <2>1. reconciledAt # before[c]
    BY <1>2 DEF ReconciledAfter, Never
  <2> QED
    BY <2>1
<1> QED
  BY <1>1, <1>2 DEF Done

LEMMA AnsweredStep == IndInv /\ [Next]_vars => Answered'
<1> SUFFICES ASSUME IndInv, [Next]_vars PROVE Answered'
  OBVIOUS
<1> USE DEF IndInv, TypeOK, Answered, CompletedSawReconcile, PendingIsHonest, HardOnlyLostToNormal
<1>1. ASSUME NEW c \in Calls, NEW a, a \notin {"completed", "pending"},
             status' = [status EXCEPT ![c] = a], UNCHANGED <<param, since>>,
             \A d \in Calls : wire[d] = "applied" => wire'[d] = "applied"
      PROVE  Answered'
  BY <1>1
<1>2. ASSUME NEW c \in Calls, Request(c) PROVE Answered'
  <2>1. wire[c] = "none"
    BY <1>2 DEF Request, WireInv
  <2> QED
    BY <1>1, <1>2, <2>1 DEF Request, Answer
<1>3. ASSUME NEW c \in Calls, AssertWritable(c) \/ CannotPrepare(c) PROVE Answered'
  BY <1>1, <1>3 DEF AssertWritable, CannotPrepare, Goes, Answer
<1>4. ASSUME NEW c \in Calls, PatchFailed(c) \/ Patched(c) \/ Awake(c) \/ Interrupted(c)
      PROVE  Answered'
  BY <1>1, <1>4 DEF PatchFailed, Patched, Awake, Interrupted, Goes, Answer
<1>5. ASSUME NEW c \in Calls, Poll(c) PROVE Answered'
  <2>1. UNCHANGED <<annotation, wire, param, since>>
    BY <1>5, MovesFrame
  <2>2. CASE Done(c) /\ Goes(c, "completed")
    <3>1. "read" \in since[c] /\ status' = [status EXCEPT ![c] = "completed"]
      BY <1>5, <2>2, DoneSawReconcile DEF Poll, Goes, Answer
    <3>2. status[c] \in Waiting
      BY <1>5, MovesFrame
    <3> QED
      BY <2>1, <3>1, <3>2 DEF HardInv, NormalApplied
  <2>3. CASE ~Done(c) /\ Goes(c, "pending")
    <3>1. annotation # "none" /\ status' = [status EXCEPT ![c] = "pending"]
      BY <2>3 DEF Done, Goes, Answer
    <3>2. status[c] \in Waiting
      BY <1>5, MovesFrame
    <3> QED
      BY <2>1, <3>1, <3>2 DEF SeenInv
  <2>4. CASE Sleep(c)
    BY <1>1, <2>1, <2>4 DEF Sleep, Answer
  <2> QED
    BY <1>5, <2>2, <2>3, <2>4 DEF Poll
<1>6. ASSUME NEW c \in Calls, ApplyPatch(c) \/ RefusePatch(c) PROVE Answered'
  BY <1>6 DEF ApplyPatch, RefusePatch
<1>7. CASE Reconcile
  BY <1>7 DEF Reconcile, Open, Answers
<1>8. CASE Tick \/ UNCHANGED vars
  BY <1>8 DEF Tick, vars
<1> QED
  BY <1>2, <1>3, <1>4, <1>5, <1>6, <1>7, <1>8 DEF Next, Handler

LEMMA Inductive == Spec => []IndInv
<1>1. IndInv /\ [Next]_vars => IndInv'
  BY TypeStep, WireStep, TimeStep, SeenStep, HardStep, AnsweredStep DEF IndInv, TimeInv
<1> QED
  BY <1>1, InitInv, PTL DEF Spec

(* Every variable of RefreshTool keeps its type.                           *)
THEOREM TypeCorrect == Spec => []TypeOK
  BY Inductive, PTL DEF IndInv

(* "completed" is never said without a reconcile of the controller's while *)
(* the call lasted (tools_write.go:156-164).                               *)
THEOREM CompletedIsTrue == Spec => []CompletedSawReconcile
  BY Inductive, PTL DEF IndInv, Answered

(* "pending" is never said of a refresh the controller has seen to, unless *)
(* another one has been asked for (tools_write.go:166-171).                *)
THEOREM PendingIsTrue == Spec => []PendingIsHonest
  BY Inductive, PTL DEF IndInv, Answered

(* A hard refresh is lost only to another call's normal one                *)
(* (operation.go:132, tools_write.go:136).                                 *)
THEOREM HardIsKept == Spec => []HardOnlyLostToNormal
  BY Inductive, PTL DEF IndInv, Answered

(* No wait outlasts its deadline by more than a second                     *)
(* (tools_write.go:154-177).                                               *)
THEOREM DeadlineKept == Spec => []WaitsBarelyLonger
  BY Inductive, PTL DEF IndInv

-----------------------------------------------------------------------------
(* The counter.  A request that was sent is counted once, when its reply   *)
(* is there or given up; a lost reply's patch may be applied later.        *)

Replied == {c \in Calls : wire[c] # "none" /\ status[c] # "patching"}

Succeeded == {c \in Replied : wire[c] = "applied"}

CountInv ==
    /\ operations["ok"] <= Cardinality(Succeeded)
    /\ Cardinality(Replied) = operations["ok"] + operations["error"]

LEMMA CountsFinite ==
    ASSUME IsFiniteSet(Calls)
    PROVE  /\ IsFiniteSet(Replied) /\ Cardinality(Replied) \in Nat
           /\ IsFiniteSet(Succeeded) /\ Cardinality(Succeeded) \in Nat
  BY FS_Subset, FS_CardinalityType DEF Replied, Succeeded

LEMMA CountStays ==
    ASSUME IsFiniteSet(Calls), IndInv, CountInv, IsFiniteSet(Succeeded'),
           Replied' = Replied, Succeeded \subseteq Succeeded', operations' = operations
    PROVE  CountInv'
<1>1. Cardinality(Succeeded) <= Cardinality(Succeeded')
  BY FS_Subset
<1>2. Cardinality(Succeeded) \in Nat /\ Cardinality(Succeeded') \in Nat
  BY CountsFinite, FS_CardinalityType
<1>3. operations["ok"] \in Nat
  BY DEF IndInv, TypeOK
<1> QED
  BY <1>1, <1>2, <1>3 DEF CountInv

LEMMA CountGrows ==
    ASSUME IsFiniteSet(Calls), IndInv, CountInv, NEW c \in Calls, status[c] = "patching",
           NEW a, a # "patching", Answer(c, a), UNCHANGED wire,
           NEW result \in {"ok", "error"}, RecordOperation(result),
           result = "ok" => wire[c] = "applied"
    PROVE  CountInv'
<1>1. c \notin Replied /\ c \notin Succeeded /\ wire[c] # "none"
  BY DEF Replied, Succeeded, IndInv, WireInv
<1>2. Replied' = Replied \cup {c}
  BY <1>1 DEF Replied, Answer, IndInv, TypeOK
<1>3. Succeeded' = IF wire[c] = "applied" THEN Succeeded \cup {c} ELSE Succeeded
  BY <1>2 DEF Succeeded
<1>4. Cardinality(Replied') = Cardinality(Replied) + 1
  BY <1>1, <1>2, CountsFinite, FS_AddElement
<1>5. Cardinality(Succeeded')
        = IF wire[c] = "applied" THEN Cardinality(Succeeded) + 1 ELSE Cardinality(Succeeded)
  BY <1>1, <1>3, CountsFinite, FS_AddElement
<1>6. /\ operations["ok"] \in Nat /\ operations["error"] \in Nat
      /\ operations'["ok"] = IF result = "ok" THEN operations["ok"] + 1 ELSE operations["ok"]
      /\ operations'["error"] = IF result = "error" THEN operations["error"] + 1
                                ELSE operations["error"]
  BY DEF RecordOperation, IndInv, TypeOK
<1> QED
  BY <1>4, <1>5, <1>6, CountsFinite DEF CountInv

LEMMA CountStep ==
    ASSUME IsFiniteSet(Calls)
    PROVE  IndInv /\ CountInv /\ [Next]_vars => CountInv'
<1> SUFFICES ASSUME IndInv, CountInv, [Next]_vars PROVE CountInv'
  OBVIOUS
<1>1. IsFiniteSet(Succeeded')
  BY FS_Subset DEF Succeeded, Replied
<1>2. ASSUME NEW c \in Calls, NEW a, status[c] # "patching", a # "patching", Answer(c, a),
             UNCHANGED <<wire, operations>>
      PROVE  CountInv'
  <2>1. Replied' = Replied /\ Succeeded' = Succeeded
    BY <1>2 DEF Replied, Succeeded, Answer, IndInv, TypeOK
  <2> QED
    BY <1>1, <1>2, <2>1, CountStays
<1>3. ASSUME NEW c \in Calls,
             AssertWritable(c) \/ CannotPrepare(c) \/ Poll(c) \/ Awake(c) \/ Interrupted(c)
      PROVE  CountInv'
  <2>1. status[c] # "patching" /\ UNCHANGED <<wire, operations>>
    BY <1>3 DEF AssertWritable, CannotPrepare, Poll, Awake, Interrupted, Goes, Sleep, counts
  <2>2. PICK a \in {"blocked", "error", "completed", "pending", "sleeping", "polling"} :
            Answer(c, a)
    BY <1>3 DEF AssertWritable, CannotPrepare, Poll, Awake, Interrupted, Goes, Sleep
  <2> QED
    BY <1>2, <2>1, <2>2
<1>4. ASSUME NEW c \in Calls, Request(c) PROVE CountInv'
  <2>1. wire[c] = "none"
    BY <1>4 DEF Request, IndInv, WireInv
  <2>2. Replied' = Replied /\ Succeeded' = Succeeded /\ operations' = operations
    BY <1>4, <2>1 DEF Request, Answer, Replied, Succeeded, counts, IndInv, TypeOK
  <2> QED
    BY <1>1, <2>2, CountStays
<1>5. ASSUME NEW c \in Calls, PatchFailed(c) PROVE CountInv'
  BY <1>5, CountGrows DEF PatchFailed, Goes
<1>6. ASSUME NEW c \in Calls, Patched(c) PROVE CountInv'
  BY <1>6, CountGrows DEF Patched
<1>7. ASSUME NEW c \in Calls, ApplyPatch(c) \/ RefusePatch(c) PROVE CountInv'
  <2>1. Replied' = Replied /\ Succeeded \subseteq Succeeded' /\ operations' = operations
    BY <1>7 DEF ApplyPatch, RefusePatch, Replied, Succeeded, counts, IndInv, TypeOK
  <2> QED
    BY <1>1, <2>1, CountStays
<1>8. CASE Reconcile \/ Tick \/ UNCHANGED vars
  BY <1>8 DEF Reconcile, Tick, vars, counts, CountInv, Replied, Succeeded
<1> QED
  BY <1>3, <1>4, <1>5, <1>6, <1>7, <1>8 DEF Next, Handler

(* amcp_operations_total counts refreshes by their patches, whatever       *)
(* becomes of the waits (tools_write.go:136-140).                          *)
THEOREM PatchesCounted ==
    ASSUME IsFiniteSet(Calls)
    PROVE  Spec => []OperationsCountPatches
<1>1. Init => CountInv
  <2> SUFFICES ASSUME Init PROVE CountInv
    OBVIOUS
  <2>1. Replied = {} /\ Succeeded = {}
    BY DEF Init, Replied, Succeeded
  <2> QED
    BY <2>1, FS_EmptySet DEF Init, CountInv
<1>2. IndInv /\ CountInv => OperationsCountPatches
  <2> SUFFICES ASSUME IndInv, CountInv PROVE OperationsCountPatches
    OBVIOUS
  <2> DEFINE applied == {c \in Calls : wire[c] = "applied"}
  <2>1. IsFiniteSet(applied) /\ Succeeded \subseteq applied
    BY FS_Subset DEF Succeeded, Replied
  <2>2. {c \in applied : status[c] # "patching"} \subseteq Replied
    BY DEF Replied
  <2>3. /\ Cardinality(Succeeded) <= Cardinality(applied) /\ Cardinality(applied) \in Nat
        /\ Cardinality({c \in applied : status[c] # "patching"}) <= Cardinality(Replied)
    BY <2>1, <2>2, CountsFinite, FS_Subset, FS_CardinalityType
  <2>4. operations["ok"] <= Cardinality(applied)
    BY <2>3, CountsFinite DEF CountInv, IndInv, TypeOK
  <2>5. Cardinality({c \in applied : status[c] # "patching"})
            <= operations["ok"] + operations["error"]
    BY <2>3 DEF CountInv
  <2> QED
    BY <2>4, <2>5 DEF OperationsCountPatches
<1> QED
  BY <1>1, <1>2, CountStep, Inductive, PTL DEF Spec

-----------------------------------------------------------------------------
(* app_refresh implements GatedCall.                                       *)

LEMMA PromiseInit == Init => Promise!Init
  BY DEF Init, Promise!Init, Told, Open, Answers

(* A step of a call that sends nothing tells its caller at most once.      *)
LEMMA CallSteps ==
    ASSUME IndInv, NEW c \in Calls, NEW a, Open(c), Answer(c, a), UNCHANGED <<writable, wire>>
    PROVE  /\ a \notin Answers => UNCHANGED Promise!vars
           /\ a \in {"requested", "completed", "pending"} /\ wire[c] = "applied"
                 => Promise!Succeed(c)
           /\ a = "error" /\ wire[c] # "none" => Promise!Fail(c)
           /\ a \in {"error", "blocked"} /\ wire[c] = "none" => Promise!Refuse(c)
<1>1. Told(c) = "open" /\ (wire[c] # "none" => writable)
  BY DEF Told, IndInv, WireInv
<1>2. [d \in Calls |-> Told(d)]' = [[d \in Calls |-> Told(d)] EXCEPT ![c] = Told(c)']
  BY DEF Answer, Told, Open, IndInv, TypeOK
<1>3. status'[c] = a
  BY DEF Answer, IndInv, TypeOK
<1>4. UNCHANGED {d \in Calls : wire[d] = "applied"} /\ UNCHANGED {d \in Calls : writable}
  OBVIOUS
<1>5. ASSUME a \notin Answers PROVE UNCHANGED Promise!vars
  <2>1. Told(c)' = "open"
    BY <1>3, <1>5 DEF Told, Open
  <2> QED
    BY <1>1, <1>2, <1>4, <2>1 DEF Promise!vars
<1>6. ASSUME a \in {"requested", "completed", "pending"}, wire[c] = "applied"
      PROVE  Promise!Succeed(c)
  <2>1. Told(c)' = "ok"
    BY <1>3, <1>6 DEF Told, Open, Answers
  <2> QED
    BY <1>1, <1>2, <1>4, <1>6, <2>1 DEF Promise!Succeed, Promise!Tell
<1>7. ASSUME a = "error", wire[c] # "none" PROVE Promise!Fail(c)
  <2>1. Told(c)' = "failed"
    BY <1>3, <1>7 DEF Told, Open, Answers
  <2> QED
    BY <1>1, <1>2, <1>4, <1>7, <2>1 DEF Promise!Fail, Promise!Tell
<1>8. ASSUME a \in {"error", "blocked"}, wire[c] = "none" PROVE Promise!Refuse(c)
  <2>1. Told(c)' = "refused"
    BY <1>3, <1>8 DEF Told, Open, Answers
  <2> QED
    BY <1>1, <1>2, <1>4, <1>8, <2>1 DEF Promise!Refuse, Promise!Tell
<1> QED
  BY <1>5, <1>6, <1>7, <1>8

(* Sending the patch is nobody's business but the call's.                  *)
LEMMA RequestStutters ==
    ASSUME IndInv, NEW c \in Calls, Request(c) PROVE UNCHANGED Promise!vars
<1>1. wire[c] = "none" /\ status[c] = "new"
  BY DEF Request, IndInv, WireInv
<1>2. UNCHANGED [d \in Calls |-> Told(d)]
  BY <1>1 DEF Request, Answer, Told, Open, Answers, IndInv, TypeOK
<1>3. UNCHANGED {d \in Calls : wire[d] = "applied"} /\ UNCHANGED {d \in Calls : writable}
  BY <1>1 DEF Request, IndInv, TypeOK
<1> QED
  BY <1>2, <1>3 DEF Promise!vars

(* The API server's step is the one that takes effect, and it may come     *)
(* after the caller was told that the call failed.                         *)
LEMMA ApplyCommits ==
    ASSUME IndInv, NEW c \in Calls, ApplyPatch(c) PROVE Promise!Commit(c)
<1>1. wire[c] = "sent" /\ writable /\ status[c] \in {"patching", "error"}
  BY DEF ApplyPatch, IndInv, WireInv, TypeOK, Answers
<1>2. {d \in Calls : wire[d] = "applied"}' = {d \in Calls : wire[d] = "applied"} \cup {c}
  BY <1>1 DEF ApplyPatch, IndInv, TypeOK
<1>3. UNCHANGED {d \in Calls : writable}
  BY DEF ApplyPatch
<1>4. UNCHANGED [d \in Calls |-> Told(d)]
  BY <1>1 DEF ApplyPatch, Told, Open, IndInv, TypeOK
<1>5. Told(c) \in {"open", "failed"}
  BY <1>1 DEF Told, Open, Answers
<1> QED
  BY <1>1, <1>2, <1>3, <1>4, <1>5 DEF Promise!Commit

LEMMA PromiseStep == IndInv /\ [Next]_vars => [Promise!Next]_(Promise!vars)
<1> SUFFICES ASSUME IndInv, [Next]_vars PROVE [Promise!Next]_(Promise!vars)
  OBVIOUS
<1> USE DEF Promise!Next
<1>1. ASSUME NEW c \in Calls, Request(c) PROVE [Promise!Next]_(Promise!vars)
  BY <1>1, RequestStutters
<1>2. ASSUME NEW c \in Calls, AssertWritable(c) \/ CannotPrepare(c) PROVE Promise!Next
  <2>1. wire[c] = "none" /\ Open(c)
    BY <1>2 DEF AssertWritable, CannotPrepare, IndInv, WireInv, Open, Answers
  <2> QED
    BY <1>2, <2>1, CallSteps DEF AssertWritable, CannotPrepare, Goes
<1>3. ASSUME NEW c \in Calls, PatchFailed(c) \/ Interrupted(c) PROVE Promise!Next
  <2>1. wire[c] # "none" /\ Open(c)
    BY <1>3 DEF PatchFailed, Interrupted, IndInv, WireInv, Open, Answers
  <2> QED
    BY <1>3, <2>1, CallSteps DEF PatchFailed, Interrupted, Goes
<1>4. ASSUME NEW c \in Calls, Patched(c) \/ Poll(c) \/ Awake(c)
      PROVE  [Promise!Next]_(Promise!vars)
  <2>1. wire[c] = "applied" /\ Open(c)
    BY <1>4 DEF Patched, Poll, Awake, IndInv, WireInv, Open, Answers
  <2>2. PICK a \in {"requested", "completed", "pending", "polling", "sleeping"} :
            Answer(c, a) /\ UNCHANGED <<writable, wire>>
    BY <1>4 DEF Patched, Poll, Awake, Goes, Sleep
  <2>3. a \notin Answers \/ a \in {"requested", "completed", "pending"}
    BY DEF Answers
  <2> QED
    BY <2>1, <2>2, <2>3, CallSteps
<1>5. ASSUME NEW c \in Calls, ApplyPatch(c) PROVE Promise!Next
  BY <1>5, ApplyCommits
<1>6. ASSUME NEW c \in Calls, RefusePatch(c) PROVE UNCHANGED Promise!vars
  BY <1>6 DEF RefusePatch, Promise!vars, Told, Open, IndInv, TypeOK
<1>7. CASE Reconcile \/ Tick \/ UNCHANGED vars
  BY <1>7 DEF Reconcile, Tick, vars, Promise!vars, Told, Open
<1> QED
  BY <1>1, <1>2, <1>3, <1>4, <1>5, <1>6, <1>7 DEF Next, Handler

(* Every behaviour of app_refresh is one GatedCall allows                  *)
(* (tools_write.go:129-178).                                               *)
THEOREM PromiseKept == Spec => ImplementsPromise
  BY PromiseInit, PromiseStep, Inductive, PTL DEF Spec, ImplementsPromise, Promise!Spec
=============================================================================
