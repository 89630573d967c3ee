------------------------ MODULE OperationToolsProofs ------------------------
(***************************************************************************)
(* Proofs about OperationTools, for any number of calls, instances and     *)
(* other clients, and any arguments, settings and operations of theirs.    *)
(***************************************************************************)
EXTENDS OperationTools, FiniteSetTheorems, TLAPS

-----------------------------------------------------------------------------
(* The patch builder and the merge.                                        *)

(* Every patch SyncPatch builds is an operation that names its revision    *)
(* and its author, whatever the request.                                   *)
LEMMA SyncPatchAttributed ==
    ASSUME NEW r
    PROVE  IsOperation(SyncPatch(r)) /\ IsAttributed(SyncPatch(r))
<1>1. Emits(r, "revision") /\ Emits(r, "initiatedBy")
  BY DEF Emits
<1> QED
  BY <1>1 DEF SyncPatch, IsOperation, IsAttributed, OperationFields

(* Nothing but operations comes out of merging operations.                 *)
LEMMA MergeType ==
    ASSUME NEW a, NEW b, IsOperation(a), IsOperation(b)
    PROVE  IsOperation(MergePatch(a, b))
  BY DEF MergePatch, IsOperation

(* A patch that names a revision and an author imposes both.               *)
LEMMA MergeAttributes ==
    ASSUME NEW a, NEW b, IsAttributed(b)
    PROVE  /\ IsAttributed(MergePatch(a, b))
           /\ MergePatch(a, b).revision = b.revision
           /\ MergePatch(a, b).initiatedBy = b.initiatedBy
           /\ MergePatch(a, b) # Absent
  BY DEF MergePatch, IsAttributed, Absent

(* A patch with nothing to say about the operation leaves it as it was.    *)
LEMMA MergeAbsent ==
    ASSUME NEW a, IsOperation(a)
    PROVE  MergePatch(a, Absent) = a
  BY DEF MergePatch, IsOperation, Absent

LEMMA AbsentType == IsOperation(Absent)
  BY DEF IsOperation, Absent, OperationFields

-----------------------------------------------------------------------------
(* Where a call and its patch can be.  A patch on the wire was let through *)
(* by the gates of a known instance, and says what its tool says.          *)
IsToolPatch(p, tool) ==
    IF tool = "terminate" THEN p.operation = Absent /\ p.phase = "Terminating"
    ELSE IsAttributed(p.operation) /\ p.phase = NoPhase

CallInv ==
    \A c \in Calls :
        /\ status[c] \in {"new", "blocked", "conflict"} => wire[c] = "none"
        /\ status[c] = "patching" => wire[c] # "none"
        /\ status[c] = "ok" => wire[c] = "applied"
        /\ wire[c] # "none" =>
              Known(c) /\ Writable(Target(c)) /\ IsToolPatch(patch[c], param[c].tool)

IndInv == TypeOK /\ CallInv

-----------------------------------------------------------------------------
(* Types.                                                                  *)

LEMMA TypeInit == Init => TypeOK
  BY AbsentType, OthersAssumption
  DEF Init, TypeOK, NoPatch, Phases, NoPhase, Completed, Occupied

LEMMA RecordType ==
    ASSUME TypeOK, NEW c \in Calls, Known(c), NEW result \in Outcomes,
           RecordOperation(c, result)
    PROVE  /\ operations' \in [Instances \X Tools \X Outcomes -> Nat]
           /\ writesBlocked' \in [Instances \X Reasons -> Nat]
  BY ParamsAssumption DEF TypeOK, RecordOperation, Known

LEMMA RefuseType ==
    ASSUME TypeOK, NEW c \in Calls, Known(c), NEW result \in Outcomes,
           Refuse(c, result)
    PROVE  TypeOK'
<1>1. /\ operations' \in [Instances \X Tools \X Outcomes -> Nat]
      /\ writesBlocked' \in [Instances \X Reasons -> Nat]
  BY RecordType DEF Refuse
<1> QED
  BY <1>1 DEF TypeOK, Refuse, Answer, Answers, config, cluster

LEMMA SendType ==
    ASSUME TypeOK, NEW c \in Calls, NEW p, Send(c, p),
           IsOperation(p.operation), p.phase \in Phases
    PROVE  TypeOK'
  BY DEF TypeOK, Send, Answer, config, cluster, counters

LEMMA PatchOperationType ==
    ASSUME TypeOK, NEW c \in Calls, NEW r, PatchOperation(c, r)
    PROVE  TypeOK'
  BY SendType, SyncPatchAttributed DEF PatchOperation, Phases

LEMMA TypeStep == IndInv /\ [Next]_vars => TypeOK'
<1> SUFFICES ASSUME TypeOK, CallInv, [Next]_vars PROVE TypeOK'
  BY DEF IndInv
<1>1. ASSUME NEW c \in Calls, CannotPrepare(c) PROVE TypeOK'
  BY <1>1 DEF TypeOK, CannotPrepare, Answer, Answers, Outcomes, config, cluster, counters
<1>2. ASSUME NEW c \in Calls, AssertWritable(c) PROVE TypeOK'
  BY <1>2 DEF TypeOK, AssertWritable, Answer, Answers, Reasons, Known, config, cluster
<1>3. ASSUME NEW c \in Calls, AppSync(c) PROVE TypeOK'
  BY <1>3, RefuseType, PatchOperationType DEF AppSync, Prepared, Outcomes
<1>4. ASSUME NEW c \in Calls, AppRollback(c) PROVE TypeOK'
  BY <1>4, RefuseType, PatchOperationType DEF AppRollback, Prepared, Outcomes
<1>5. ASSUME NEW c \in Calls, AppTerminateOperation(c) PROVE TypeOK'
  BY <1>5, RefuseType, SendType, AbsentType
  DEF AppTerminateOperation, Prepared, Outcomes, Phases, Occupied
<1>6. ASSUME NEW c \in Calls, PatchSucceeded(c) PROVE TypeOK'
  BY <1>6, RefuseType DEF PatchSucceeded, Refuse, CallInv, Outcomes
<1>7. ASSUME NEW c \in Calls, PatchFailed(c) PROVE TypeOK'
  BY <1>7, RefuseType DEF PatchFailed, Refuse, CallInv, Outcomes
<1>8. ASSUME NEW c \in Calls, ApplyPatch(c) PROVE TypeOK'
  BY <1>8, MergeType DEF TypeOK, ApplyPatch, config, counters
<1>9. ASSUME NEW c \in Calls, RefusePatch(c) PROVE TypeOK'
  BY <1>9 DEF TypeOK, RefusePatch, config, cluster, counters
<1>10. ASSUME NEW i \in Instances, PickUp(i) PROVE TypeOK'
  BY <1>10, AbsentType DEF TypeOK, PickUp, Phases, Occupied, config, calls, counters
<1>11. ASSUME NEW i \in Instances, Finish(i) PROVE TypeOK'
  BY <1>11, AbsentType DEF TypeOK, Finish, Phases, config, calls, counters
<1>12. ASSUME NEW i \in Instances, OtherClient(i) PROVE TypeOK'
  BY <1>12, OthersAssumption DEF TypeOK, OtherClient, config, calls, counters
<1>13. CASE UNCHANGED vars
  BY <1>13 DEF TypeOK, vars, config, cluster, calls, counters
<1> QED
  BY <1>1, <1>2, <1>3, <1>4, <1>5, <1>6, <1>7, <1>8, <1>9, <1>10, <1>11, <1>12, <1>13
  DEF Next, Handler, Controller

(* Gates, patches and answers hang together at every step.                 *)
LEMMA CallInvStep == IndInv /\ [Next]_vars => CallInv'
<1> SUFFICES ASSUME TypeOK, CallInv, [Next]_vars PROVE CallInv'
  BY DEF IndInv
<1> USE DEF CallInv, IsToolPatch, Known, Target, Writable
<1>0. ASSUME NEW c \in Calls, NEW p, Known(c), Writable(Target(c)), Send(c, p),
             IsToolPatch(p, param[c].tool)
      PROVE  CallInv'
  BY <1>0 DEF TypeOK, Send, Answer, config
<1>00. ASSUME NEW c \in Calls, NEW r \in {"error", "conflict"}, status[c] = "new",
              Refuse(c, r)
       PROVE  CallInv'
  BY <1>00 DEF TypeOK, Refuse, Answer, config
<1>1. ASSUME NEW c \in Calls, CannotPrepare(c) PROVE CallInv'
  BY <1>1 DEF TypeOK, CannotPrepare, Answer, config
<1>2. ASSUME NEW c \in Calls, AssertWritable(c) PROVE CallInv'
  BY <1>2 DEF TypeOK, AssertWritable, Answer, config
<1>3. ASSUME NEW c \in Calls, NEW r, PatchOperation(c, r),
             Known(c), Writable(Target(c)), param[c].tool # "terminate"
      PROVE  CallInv'
  BY <1>3, <1>0, SyncPatchAttributed DEF PatchOperation
<1>4. ASSUME NEW c \in Calls, AppSync(c) PROVE CallInv'
  BY <1>4, <1>00, <1>3 DEF AppSync, Prepared
<1>5. ASSUME NEW c \in Calls, AppRollback(c) PROVE CallInv'
  BY <1>5, <1>00, <1>3 DEF AppRollback, Prepared
<1>6. ASSUME NEW c \in Calls, AppTerminateOperation(c) PROVE CallInv'
  BY <1>6, <1>00, <1>0 DEF AppTerminateOperation, Prepared
<1>7. ASSUME NEW c \in Calls, NEW r \in {"ok", "error"}, status[c] = "patching",
             r = "ok" => wire[c] = "applied",
             Answer(c, r), UNCHANGED <<config, wire, patch>>
      PROVE  CallInv'
  BY <1>7 DEF TypeOK, Answer, config
<1>7a. ASSUME NEW c \in Calls, PatchSucceeded(c) PROVE CallInv'
  BY <1>7a, <1>7 DEF PatchSucceeded
<1>7b. ASSUME NEW c \in Calls, PatchFailed(c) PROVE CallInv'
  BY <1>7b, <1>7 DEF PatchFailed
<1>8. ASSUME NEW c \in Calls, NEW w \in {"applied", "refused"}, wire[c] = "sent",
             wire' = [wire EXCEPT ![c] = w], UNCHANGED <<config, status, patch>>
      PROVE  CallInv'
  BY <1>8 DEF TypeOK, config
<1>8a. ASSUME NEW c \in Calls, ApplyPatch(c) \/ RefusePatch(c) PROVE CallInv'
  BY <1>8a, <1>8 DEF ApplyPatch, RefusePatch
<1>9. CASE UNCHANGED <<config, calls>>
  BY <1>9 DEF config, calls
<1>10. ASSUME NEW i \in Instances, Controller(i) \/ OtherClient(i) PROVE CallInv'
  BY <1>10, <1>9 DEF Controller, PickUp, Finish, OtherClient
<1>11. CASE UNCHANGED vars
  BY <1>11, <1>9 DEF vars
<1> QED
  BY <1>1, <1>2, <1>4, <1>5, <1>6, <1>7a, <1>7b, <1>8a, <1>10, <1>11 DEF Next, Handler

LEMMA Inductive == Spec => []IndInv
<1>1. Init => IndInv
  BY TypeInit DEF Init, IndInv, CallInv
<1>2. IndInv /\ [Next]_vars => IndInv'
  BY TypeStep, CallInvStep DEF IndInv
<1> QED
  BY <1>1, <1>2, PTL DEF Spec

(* Every variable of OperationTools keeps its type.                        *)
THEOREM TypeCorrect == Spec => []TypeOK
<1>1. IndInv => TypeOK
  BY DEF IndInv
<1> QED
  BY <1>1, Inductive, PTL

-----------------------------------------------------------------------------
(* What no step does.                                                      *)

(* A handler touches neither the cluster nor a patch that is on its way.   *)
LEMMA HandlerFrame ==
    ASSUME TypeOK, NEW c \in Calls, Handler(c)
    PROVE  /\ UNCHANGED <<config, cluster>>
           /\ \A d \in Calls : status[d] # "new" =>
                 wire'[d] = wire[d] /\ patch'[d] = patch[d]
           /\ \A d \in Calls : wire'[d] # "applied" \/ wire[d] = "applied"
<1> USE DEF TypeOK, config, cluster
<1>1. ASSUME NEW r, Refuse(c, r) PROVE UNCHANGED <<config, cluster, wire, patch>>
  BY <1>1 DEF Refuse
<1>2. ASSUME NEW p, Send(c, p)
      PROVE  /\ UNCHANGED <<config, cluster>>
             /\ wire' = [wire EXCEPT ![c] = "sent"]
             /\ patch' = [patch EXCEPT ![c] = p]
  BY <1>2 DEF Send
<1>3. CASE UNCHANGED <<config, cluster, wire, patch>>
  BY <1>3
<1>4. ASSUME NEW p, Send(c, p), status[c] = "new"
      PROVE  /\ UNCHANGED <<config, cluster>>
             /\ \A d \in Calls : status[d] # "new" =>
                   wire'[d] = wire[d] /\ patch'[d] = patch[d]
             /\ \A d \in Calls : wire'[d] # "applied" \/ wire[d] = "applied"
  BY <1>4, <1>2
<1>5. CASE CannotPrepare(c) \/ AssertWritable(c)
  BY <1>5, <1>3 DEF CannotPrepare, AssertWritable
<1>6. CASE AppSync(c)
  BY <1>6, <1>1, <1>3, <1>4 DEF AppSync, Prepared, PatchOperation
<1>7. CASE AppRollback(c)
  BY <1>7, <1>1, <1>3, <1>4 DEF AppRollback, Prepared, PatchOperation
<1>8. CASE AppTerminateOperation(c)
  BY <1>8, <1>1, <1>3, <1>4 DEF AppTerminateOperation, Prepared
<1>9. CASE PatchSucceeded(c) \/ PatchFailed(c)
  BY <1>9, <1>3 DEF PatchSucceeded, PatchFailed
<1> QED
  BY <1>5, <1>6, <1>7, <1>8, <1>9 DEF Handler

(* The configuration never changes, and what was asked for and applied     *)
(* stays asked for.                                                        *)
LEMMA RequestsGrow ==
    ASSUME IndInv, [Next]_vars
    PROVE  /\ UNCHANGED config
           /\ \A c \in Calls : wire[c] = "applied" =>
                 wire'[c] = "applied" /\ patch'[c] = patch[c]
           /\ \A i \in Instances : Requests(i) \subseteq Requests(i)'
<1> DEFINE Kept ==
      /\ UNCHANGED config
      /\ \A c \in Calls : wire[c] = "applied" =>
            wire'[c] = "applied" /\ patch'[c] = patch[c]
<1> USE DEF IndInv
<1>1. ASSUME NEW c \in Calls, Handler(c) PROVE Kept
  BY <1>1, HandlerFrame DEF CallInv
<1>2. ASSUME NEW c \in Calls, ApplyPatch(c) \/ RefusePatch(c) PROVE Kept
  BY <1>2 DEF ApplyPatch, RefusePatch, TypeOK
<1>3. ASSUME NEW i \in Instances, Controller(i) \/ OtherClient(i) PROVE Kept
  BY <1>3 DEF Controller, PickUp, Finish, OtherClient, calls
<1>4. ASSUME UNCHANGED vars PROVE Kept
  BY <1>4 DEF vars, calls
<1>5. Kept
  BY <1>1, <1>2, <1>3, <1>4 DEF Next
<1> QED
  BY <1>5 DEF Requests, Applied, Known, Target, config

-----------------------------------------------------------------------------
(* Attribution.                                                            *)

Attributed(i, op) ==
    op # Absent =>
        /\ IsAttributed(op)
        /\ \E request \in {q \in Requests(i) : IsAttributed(q)} :
              op.revision = request.revision /\ op.initiatedBy = request.initiatedBy

AttributionInv ==
    \A i \in Instances : Attributed(i, operation[i]) /\ Attributed(i, executing[i])

(* Applying the patch of c leaves an operation attributed to the caller of *)
(* c if the patch is one, and as attributed as it was if it is not.        *)
LEMMA ApplyAttributes ==
    ASSUME IndInv, AttributionInv, NEW c \in Calls, ApplyPatch(c), NEW i \in Instances
    PROVE  Attributed(i, operation[i])'
<1> DEFINE merged == MergePatch(operation[i], patch[c].operation)
<1>1. Requests(i) \subseteq Requests(i)'
  BY RequestsGrow DEF Next
<1>2. CASE i # Target(c)
  <2>1. operation'[i] = operation[i]
    BY <1>2 DEF ApplyPatch, IndInv, TypeOK
  <2> QED
    BY <2>1, <1>1 DEF AttributionInv, Attributed
<1>3. CASE i = Target(c) /\ param[c].tool = "terminate"
  <2>1. operation'[i] = operation[i]
    BY <1>3, MergeAbsent DEF ApplyPatch, IndInv, TypeOK, CallInv, IsToolPatch
  <2> QED
    BY <2>1, <1>1 DEF AttributionInv, Attributed
<1>4. CASE i = Target(c) /\ param[c].tool # "terminate"
  <2>1. operation'[i] = merged
    BY <1>4 DEF ApplyPatch, IndInv, TypeOK
  <2>2. IsAttributed(patch[c].operation)
    BY <1>4 DEF ApplyPatch, IndInv, CallInv, IsToolPatch
  <2>3. /\ IsAttributed(merged)
        /\ merged.revision = patch[c].operation.revision
        /\ merged.initiatedBy = patch[c].operation.initiatedBy
    BY <2>2, MergeAttributes
  <2>4. patch[c].operation \in Requests(i)'
    BY <1>4 DEF ApplyPatch, IndInv, TypeOK, Requests, Applied, Known, Target, config
  <2> QED
    BY <2>1, <2>2, <2>3, <2>4, <1>4 DEF Attributed, ApplyPatch
<1> QED
  BY <1>2, <1>3, <1>4

LEMMA AttributionStep == IndInv /\ AttributionInv /\ [Next]_vars => AttributionInv'
<1> SUFFICES ASSUME IndInv, AttributionInv, [Next]_vars, NEW i \in Instances
             PROVE  Attributed(i, operation[i])' /\ Attributed(i, executing[i])'
  BY DEF AttributionInv
<1>0. Requests(i) \subseteq Requests(i)'
  BY RequestsGrow
<1>1. CASE UNCHANGED <<operation, executing>>
  BY <1>0, <1>1 DEF AttributionInv, Attributed
<1>2. ASSUME NEW c \in Calls, Handler(c) \/ RefusePatch(c)
      PROVE  UNCHANGED <<operation, executing>>
  BY <1>2, HandlerFrame DEF RefusePatch, cluster, IndInv
<1>3. ASSUME NEW c \in Calls, ApplyPatch(c)
      PROVE  Attributed(i, operation[i])' /\ Attributed(i, executing[i])'
  <2>1. Attributed(i, operation[i])'
    BY <1>3, ApplyAttributes
  <2>2. UNCHANGED executing
    BY <1>3 DEF ApplyPatch
  <2> QED
    BY <2>1, <2>2, <1>0 DEF AttributionInv, Attributed
<1>4. ASSUME NEW j \in Instances, PickUp(j)
      PROVE  Attributed(i, operation[i])' /\ Attributed(i, executing[i])'
  BY <1>4, <1>0 DEF PickUp, AttributionInv, Attributed, IndInv, TypeOK
<1>5. ASSUME NEW j \in Instances, Finish(j)
      PROVE  Attributed(i, operation[i])' /\ Attributed(i, executing[i])'
  BY <1>5, <1>0 DEF Finish, AttributionInv, Attributed, IndInv, TypeOK
<1>6. ASSUME NEW j \in Instances, OtherClient(j)
      PROVE  Attributed(i, operation[i])' /\ Attributed(i, executing[i])'
  <2>1. PICK op \in OtherOperations : operation' = [operation EXCEPT ![j] = op]
    BY <1>6 DEF OtherClient
  <2>2. IsAttributed(op) /\ op \in Requests(i)'
    BY OthersAssumption DEF Requests
  <2>3. UNCHANGED executing
    BY <1>6 DEF OtherClient
  <2> QED
    BY <2>1, <2>2, <2>3, <1>0 DEF AttributionInv, Attributed, IndInv, TypeOK
<1>7. CASE UNCHANGED vars
  BY <1>7, <1>1 DEF vars, cluster
<1> QED
  BY <1>1, <1>2, <1>3, <1>4, <1>5, <1>6, <1>7 DEF Next, Controller

(* However many calls are merged into one another, in whatever order, the  *)
(* revision an operation deploys and the author it names are of one        *)
(* request.                                                                *)
THEOREM AttributionHolds == Spec => []AttributionConsistent
<1>1. Init => AttributionInv
  BY DEF Init, AttributionInv, Attributed
<1>2. AttributionInv => AttributionConsistent
  BY DEF AttributionInv, Attributed, AttributionConsistent, Carried
<1> QED
  BY <1>1, <1>2, AttributionStep, Inductive, PTL DEF Spec

-----------------------------------------------------------------------------
(* The read-only gates.                                                    *)

UntouchedInv ==
    \A i \in Instances : ~Writable(i) =>
        /\ operation[i] \in OtherOperations \cup {Absent}
        /\ executing[i] \in OtherOperations \cup {Absent}
        /\ phase[i] # "Terminating"

LEMMA UntouchedStep == IndInv /\ UntouchedInv /\ [Next]_vars => UntouchedInv'
<1> SUFFICES ASSUME IndInv, UntouchedInv, [Next]_vars PROVE UntouchedInv'
  OBVIOUS
<1>0. UNCHANGED config
  BY RequestsGrow
<1> USE <1>0 DEF UntouchedInv, Writable, config
<1>1. CASE UNCHANGED <<operation, executing, phase>>
  BY <1>1
<1>2. ASSUME NEW c \in Calls, Handler(c) \/ RefusePatch(c)
      PROVE  UNCHANGED <<operation, executing, phase>>
  BY <1>2, HandlerFrame DEF RefusePatch, cluster, IndInv
<1>3. ASSUME NEW c \in Calls, ApplyPatch(c) PROVE UntouchedInv'
  <2>1. Writable(Target(c))
    BY <1>3 DEF ApplyPatch, IndInv, CallInv
  <2> QED
    BY <1>3, <2>1 DEF ApplyPatch, IndInv, TypeOK
<1>4. ASSUME NEW i \in Instances, PickUp(i) \/ Finish(i) PROVE UntouchedInv'
  BY <1>4 DEF PickUp, Finish, Completed, IndInv, TypeOK
<1>5. ASSUME NEW i \in Instances, OtherClient(i) PROVE UntouchedInv'
  BY <1>5 DEF OtherClient, IndInv, TypeOK
<1>6. CASE UNCHANGED vars
  BY <1>6, <1>1 DEF vars, cluster
<1> QED
  BY <1>1, <1>2, <1>3, <1>4, <1>5, <1>6 DEF Next, Controller

(* No call leaves a trace on an Application of a read-only instance.       *)
THEOREM ReadOnlyHolds == Spec => []ReadOnlyUntouched
<1>1. Init => UntouchedInv
  BY DEF Init, UntouchedInv, NoPhase
<1>2. UntouchedInv => ReadOnlyUntouched
  BY DEF UntouchedInv, ReadOnlyUntouched, Carried
<1> QED
  BY <1>1, <1>2, UntouchedStep, Inductive, PTL DEF Spec

-----------------------------------------------------------------------------
(* The counter.  A call whose patch was sent is counted once, when its     *)
(* reply is there or given up; a lost reply's patch may be applied later.  *)

Of(c, i, tool) == Known(c) /\ Target(c) = i /\ param[c].tool = tool

Replied(i, tool) == {c \in Calls : wire[c] # "none" /\ status[c] # "patching" /\ Of(c, i, tool)}

Succeeded(i, tool) == {c \in Replied(i, tool) : wire[c] = "applied"}

Counted(i, tool) ==
    /\ operations[<<i, tool, "ok">>] <= Cardinality(Succeeded(i, tool))
    /\ Cardinality(Replied(i, tool))
           <= operations[<<i, tool, "ok">>] + operations[<<i, tool, "error">>]

CountInv == \A i \in Instances, tool \in Tools : Counted(i, tool)

LEMMA CountsFinite ==
    ASSUME IsFiniteSet(Calls), NEW i, NEW tool
    PROVE  /\ IsFiniteSet(Replied(i, tool)) /\ Cardinality(Replied(i, tool)) \in Nat
           /\ IsFiniteSet(Succeeded(i, tool)) /\ Cardinality(Succeeded(i, tool)) \in Nat
           /\ IsFiniteSet(Succeeded(i, tool)')
  BY FS_Subset, FS_CardinalityType DEF Replied, Succeeded

LEMMA CountsTyped ==
    ASSUME TypeOK, NEW i \in Instances, NEW tool \in Tools
    PROVE  /\ operations[<<i, tool, "ok">>] \in Nat
           /\ operations[<<i, tool, "error">>] \in Nat
<1>1. \A r \in Outcomes : <<i, tool, r>> \in Instances \X Tools \X Outcomes
  OBVIOUS
<1> QED
  BY <1>1 DEF TypeOK, Outcomes

(* A step that ends no call after its patch, counted or not.               *)
LEMMA CountStays ==
    ASSUME IsFiniteSet(Calls), TypeOK, NEW i \in Instances, NEW tool \in Tools,
           Counted(i, tool), operations'[<<i, tool, "ok">>] = operations[<<i, tool, "ok">>],
           operations'[<<i, tool, "error">>] \in Nat,
           operations[<<i, tool, "error">>] <= operations'[<<i, tool, "error">>],
           Replied(i, tool)' = Replied(i, tool),
           Succeeded(i, tool) \subseteq Succeeded(i, tool)'
    PROVE  Counted(i, tool)'
<1>1. Cardinality(Succeeded(i, tool)) <= Cardinality(Succeeded(i, tool)')
  BY CountsFinite, FS_Subset
<1>2. Cardinality(Succeeded(i, tool)) \in Nat /\ Cardinality(Succeeded(i, tool)') \in Nat
  BY CountsFinite, FS_CardinalityType
<1> QED
  BY <1>1, <1>2, CountsTyped, CountsFinite DEF Counted

(* A call ends before its patch was sent.                                  *)
LEMMA RefusalCounts ==
    ASSUME IsFiniteSet(Calls), IndInv, CountInv, NEW c \in Calls, status[c] = "new",
           Known(c), NEW r \in {"error", "conflict"}, Refuse(c, r)
    PROVE  CountInv'
<1> SUFFICES ASSUME NEW i \in Instances, NEW tool \in Tools PROVE Counted(i, tool)'
  BY DEF CountInv
<1>1. wire[c] = "none"
  BY DEF IndInv, CallInv
<1>2. \A d \in Calls : Of(d, i, tool)' = Of(d, i, tool)
  BY DEF Refuse, Of, Known, Target, config
<1>3. Replied(i, tool)' = Replied(i, tool) /\ Succeeded(i, tool)' = Succeeded(i, tool)
  BY <1>1, <1>2 DEF Refuse, Answer, Replied, Succeeded, IndInv, TypeOK
<1>4. <<i, tool, "ok">> \in DOMAIN operations /\ <<i, tool, "error">> \in DOMAIN operations
  BY DEF IndInv, TypeOK, Outcomes
<1>5. operations'[<<i, tool, "ok">>] = operations[<<i, tool, "ok">>]
  BY <1>4 DEF Refuse, RecordOperation
<1>6. \/ operations'[<<i, tool, "error">>] = operations[<<i, tool, "error">>]
      \/ operations'[<<i, tool, "error">>] = operations[<<i, tool, "error">>] + 1
  BY <1>4 DEF Refuse, RecordOperation
<1> QED
  BY <1>3, <1>5, <1>6, CountStays, CountsTyped DEF IndInv, CountInv

(* A call ends after its patch was sent.                                   *)
LEMMA EndCounts ==
    ASSUME IsFiniteSet(Calls), IndInv, CountInv, NEW c \in Calls,
           PatchSucceeded(c) \/ PatchFailed(c)
    PROVE  CountInv'
<1> SUFFICES ASSUME NEW i \in Instances, NEW tool \in Tools PROVE Counted(i, tool)'
  BY DEF CountInv
<1>1. PICK r \in {"ok", "error"} :
          /\ status[c] = "patching" /\ Answer(c, r) /\ RecordOperation(c, r)
          /\ UNCHANGED <<config, wire>>
          /\ r = "ok" => wire[c] = "applied"
  BY DEF PatchSucceeded, PatchFailed
<1>2. wire[c] # "none" /\ Known(c)
  BY <1>1 DEF IndInv, CallInv
<1>3. \A d \in Calls : Of(d, i, tool)' = Of(d, i, tool)
  BY <1>1 DEF Of, Known, Target, config
<1>4. <<i, tool, "ok">> \in DOMAIN operations /\ <<i, tool, "error">> \in DOMAIN operations
  BY DEF IndInv, TypeOK, Outcomes
<1>5. CASE Of(c, i, tool)
  <2>1. c \notin Replied(i, tool) /\ c \notin Succeeded(i, tool)
    BY <1>1 DEF Replied, Succeeded
  <2>2. Replied(i, tool)' = Replied(i, tool) \cup {c}
    BY <1>1, <1>2, <1>3, <1>5 DEF Replied, Answer, IndInv, TypeOK
  <2>3. Succeeded(i, tool)'
          = IF wire[c] = "applied" THEN Succeeded(i, tool) \cup {c} ELSE Succeeded(i, tool)
    BY <1>1, <2>2 DEF Succeeded
  <2>4. Cardinality(Replied(i, tool)') = Cardinality(Replied(i, tool)) + 1
    BY <2>1, <2>2, CountsFinite, FS_AddElement
  <2>5. Cardinality(Succeeded(i, tool)')
          = IF wire[c] = "applied" THEN Cardinality(Succeeded(i, tool)) + 1
            ELSE Cardinality(Succeeded(i, tool))
    BY <2>1, <2>3, CountsFinite, FS_AddElement
  <2>6. operations' = [operations EXCEPT ![<<i, tool, r>>] = @ + 1]
    BY <1>1, <1>5 DEF RecordOperation, Of
  <2>7. /\ operations'[<<i, tool, "ok">>] = IF r = "ok" THEN operations[<<i, tool, "ok">>] + 1
                                            ELSE operations[<<i, tool, "ok">>]
        /\ operations'[<<i, tool, "error">>]
             = IF r = "error" THEN operations[<<i, tool, "error">>] + 1
               ELSE operations[<<i, tool, "error">>]
    BY <1>4, <2>6
  <2>8. Counted(i, tool)
    BY DEF CountInv
  <2> QED
    BY <1>1, <2>4, <2>5, <2>7, <2>8, CountsFinite, CountsTyped DEF Counted, IndInv
<1>6. CASE ~Of(c, i, tool)
  <2>1. Replied(i, tool)' = Replied(i, tool) /\ Succeeded(i, tool)' = Succeeded(i, tool)
    BY <1>1, <1>3, <1>6 DEF Replied, Succeeded, Answer, IndInv, TypeOK
  <2>2. /\ operations'[<<i, tool, "ok">>] = operations[<<i, tool, "ok">>]
        /\ operations'[<<i, tool, "error">>] = operations[<<i, tool, "error">>]
    BY <1>1, <1>2, <1>4, <1>6 DEF RecordOperation, Of
  <2> QED
    BY <2>1, <2>2, CountStays, CountsTyped DEF IndInv, CountInv
<1> QED
  BY <1>5, <1>6

LEMMA CountStep ==
    ASSUME IsFiniteSet(Calls)
    PROVE  IndInv /\ CountInv /\ [Next]_vars => CountInv'
<1> SUFFICES ASSUME IndInv, CountInv, [Next]_vars PROVE CountInv'
  OBVIOUS
<1>1. ASSUME UNCHANGED <<config, operations>>,
             \A c \in Calls : wire'[c] # "none" /\ status'[c] # "patching"
                                  <=> wire[c] # "none" /\ status[c] # "patching",
             \A c \in Calls : wire[c] = "applied" => wire'[c] = "applied"
      PROVE  CountInv'
  <2> SUFFICES ASSUME NEW i \in Instances, NEW tool \in Tools PROVE Counted(i, tool)'
    BY DEF CountInv
  <2>1. \A c \in Calls : Of(c, i, tool)' = Of(c, i, tool)
    BY <1>1 DEF Of, Known, Target, config
  <2>2. Replied(i, tool)' = Replied(i, tool)
    BY <1>1, <2>1 DEF Replied
  <2>3. Succeeded(i, tool) \subseteq Succeeded(i, tool)'
    BY <1>1, <2>2 DEF Succeeded, Replied
  <2>4. operations' = operations /\ operations[<<i, tool, "error">>] \in Nat
    BY <1>1, CountsTyped DEF IndInv
  <2>5. operations[<<i, tool, "error">>] <= operations[<<i, tool, "error">>]
    BY <2>4
  <2> QED
    BY <2>2, <2>3, <2>4, <2>5, CountStays DEF IndInv, CountInv
<1>2. ASSUME NEW c \in Calls, CannotPrepare(c) \/ AssertWritable(c) PROVE CountInv'
  <2>1. wire[c] = "none" /\ UNCHANGED <<config, operations, wire>>
    BY <1>2 DEF CannotPrepare, AssertWritable, counters, IndInv, CallInv
  <2>2. \A d \in Calls \ {c} : status'[d] = status[d]
    BY <1>2 DEF CannotPrepare, AssertWritable, Answer, IndInv, TypeOK
  <2> QED
    BY <1>1, <2>1, <2>2
<1>3. ASSUME NEW c \in Calls, NEW p, status[c] = "new", Send(c, p) PROVE CountInv'
  <2>1. wire[c] = "none"
    BY <1>3 DEF IndInv, CallInv
  <2>2. UNCHANGED <<config, operations>> /\ status'[c] = "patching"
    BY <1>3 DEF Send, Answer, counters, IndInv, TypeOK
  <2>3. \A d \in Calls \ {c} : status'[d] = status[d] /\ wire'[d] = wire[d]
    BY <1>3 DEF Send, Answer, IndInv, TypeOK
  <2> QED
    BY <1>1, <2>1, <2>2, <2>3
<1>4. ASSUME NEW c \in Calls, AppSync(c) \/ AppRollback(c) \/ AppTerminateOperation(c)
      PROVE  CountInv'
  BY <1>3, <1>4, RefusalCounts
  DEF AppSync, AppRollback, AppTerminateOperation, Prepared, PatchOperation
<1>5. ASSUME NEW c \in Calls, PatchSucceeded(c) \/ PatchFailed(c) PROVE CountInv'
  BY <1>5, EndCounts
<1>6. ASSUME NEW c \in Calls, ApplyPatch(c) \/ RefusePatch(c) PROVE CountInv'
  <2>1. UNCHANGED <<config, operations, status>> /\ wire[c] = "sent" /\ wire'[c] # "none"
    BY <1>6 DEF ApplyPatch, RefusePatch, counters, IndInv, TypeOK
  <2>2. \A d \in Calls \ {c} : wire'[d] = wire[d]
    BY <1>6 DEF ApplyPatch, RefusePatch, IndInv, TypeOK
  <2> QED
    BY <1>1, <2>1, <2>2
<1>7. CASE UNCHANGED <<config, calls, counters>>
  BY <1>1, <1>7 DEF calls, counters
<1>8. ASSUME NEW i \in Instances, Controller(i) \/ OtherClient(i)
      PROVE  UNCHANGED <<config, calls, counters>>
  BY <1>8 DEF Controller, PickUp, Finish, OtherClient
<1>9. CASE UNCHANGED vars
  BY <1>7, <1>9 DEF vars
<1> QED
  BY <1>2, <1>4, <1>5, <1>6, <1>7, <1>8, <1>9 DEF Next, Handler

(* amcp_operations_total brackets the writes that took place, whatever     *)
(* replies are lost (tools_write.go:97-105, 228-236, 254-258).             *)
THEOREM MetricBrackets ==
    ASSUME IsFiniteSet(Calls)
    PROVE  Spec => []OperationsMetricBracketsWrites
<1>1. Init => CountInv
  <2> SUFFICES ASSUME Init, NEW i \in Instances, NEW tool \in Tools PROVE Counted(i, tool)
    BY DEF CountInv
  <2>1. Replied(i, tool) = {} /\ Succeeded(i, tool) = {}
    BY DEF Init, Replied, Succeeded
  <2>2. operations[<<i, tool, "ok">>] = 0 /\ operations[<<i, tool, "error">>] = 0
    BY DEF Init, Outcomes
  <2> QED
    BY <2>1, <2>2, FS_EmptySet DEF Counted
<1>2. IndInv /\ CountInv => OperationsMetricBracketsWrites
  <2> SUFFICES ASSUME IndInv, CountInv, NEW i \in Instances, NEW tool \in Tools
               PROVE  LET writes == Cardinality({c \in Applied(i) : param[c].tool = tool})
                          ok     == operations[<<i, tool, "ok">>]
                          failed == operations[<<i, tool, "error">>]
                      IN  /\ ok <= writes
                          /\ writes <= ok + failed + Cardinality(InFlight(i, tool))
    BY DEF OperationsMetricBracketsWrites
  <2> DEFINE writes == {c \in Applied(i) : param[c].tool = tool}
             both   == Replied(i, tool) \cup InFlight(i, tool)
  <2>1. Succeeded(i, tool) \subseteq writes /\ writes \subseteq both
    BY DEF Succeeded, Replied, Applied, InFlight, Of
  <2>2. IsFiniteSet(writes) /\ IsFiniteSet(InFlight(i, tool))
    BY FS_Subset DEF Applied, InFlight
  <2>3. /\ Cardinality(Succeeded(i, tool)) <= Cardinality(writes)
        /\ Cardinality(writes) \in Nat /\ Cardinality(InFlight(i, tool)) \in Nat
    BY <2>1, <2>2, FS_Subset, FS_CardinalityType
  <2>4. /\ IsFiniteSet(both)
        /\ Cardinality(both) <= Cardinality(Replied(i, tool)) + Cardinality(InFlight(i, tool))
    <3>1. IsFiniteSet(Replied(i, tool) \cap InFlight(i, tool))
      BY <2>2, FS_Subset
    <3>2. Cardinality(Replied(i, tool) \cap InFlight(i, tool)) \in Nat
      BY <3>1, FS_CardinalityType
    <3>3. IsFiniteSet(Replied(i, tool)) /\ Cardinality(Replied(i, tool)) \in Nat
      BY CountsFinite
    <3>4. /\ IsFiniteSet(both)
          /\ Cardinality(both) = Cardinality(Replied(i, tool)) + Cardinality(InFlight(i, tool))
                                   - Cardinality(Replied(i, tool) \cap InFlight(i, tool))
      BY <2>2, <3>3, FS_Union
    <3> QED
      BY <2>3, <3>2, <3>3, <3>4
  <2>5. Cardinality(both) \in Nat /\ Cardinality(writes) <= Cardinality(both)
    BY <2>1, <2>4, FS_Subset, FS_CardinalityType
  <2>6. Counted(i, tool)
    BY DEF CountInv
  <2> HIDE DEF writes, both
  <2>7. operations[<<i, tool, "ok">>] <= Cardinality(writes)
    BY <2>3, <2>6, CountsFinite, CountsTyped DEF Counted, IndInv
  <2>8. Cardinality(writes) <= operations[<<i, tool, "ok">>] + operations[<<i, tool, "error">>]
                                 + Cardinality(InFlight(i, tool))
    BY <2>3, <2>4, <2>5, <2>6, CountsFinite, CountsTyped DEF Counted, IndInv
  <2> QED
    BY <2>7, <2>8 DEF writes
<1> QED
  BY <1>1, <1>2, CountStep, Inductive, PTL DEF Spec

-----------------------------------------------------------------------------
(* The tools implement GatedCall.                                          *)

LEMMA PromiseInit == Init => Promise!Init
  BY DEF Init, Promise!Init, Told

(* Before its patch is sent, a call that ends is refused.                  *)
LEMMA RefusalIsRefuse ==
    ASSUME IndInv, NEW c \in Calls, NEW a \in {"error", "conflict", "blocked"},
           status[c] = "new", Answer(c, a), UNCHANGED <<config, wire>>
    PROVE  Promise!Refuse(c)
<1>1. wire[c] = "none"
  BY DEF IndInv, CallInv
<1>2. [d \in Calls |-> Told(d)]' = [[d \in Calls |-> Told(d)] EXCEPT ![c] = "refused"]
  BY <1>1 DEF Answer, Told, IndInv, TypeOK
<1>3. UNCHANGED {d \in Calls : wire[d] = "applied"}
  OBVIOUS
<1>4. UNCHANGED {d \in Calls : Known(d) /\ Writable(Target(d))}
  BY DEF Known, Target, Writable, config
<1> QED
  BY <1>1, <1>2, <1>3, <1>4 DEF Promise!Refuse, Promise!Tell, Told

(* Sending the patch is nobody's business but the call's.                  *)
LEMMA SendStutters ==
    ASSUME IndInv, NEW c \in Calls, NEW p, status[c] = "new", Send(c, p)
    PROVE  UNCHANGED Promise!vars
<1>1. wire[c] = "none"
  BY DEF IndInv, CallInv
<1>2. UNCHANGED [d \in Calls |-> Told(d)]
  BY <1>1 DEF Send, Answer, Told, IndInv, TypeOK
<1>3. UNCHANGED {d \in Calls : wire[d] = "applied"}
  BY <1>1 DEF Send, IndInv, TypeOK
<1>4. UNCHANGED {d \in Calls : Known(d) /\ Writable(Target(d))}
  BY DEF Send, Known, Target, Writable, config
<1> QED
  BY <1>2, <1>3, <1>4 DEF Promise!vars

(* The end of a call whose patch was sent.                                 *)
LEMMA PatchingEnds ==
    ASSUME IndInv, NEW c \in Calls, PatchSucceeded(c) \/ PatchFailed(c)
    PROVE  Promise!Succeed(c) \/ Promise!Fail(c)
<1>1. wire[c] # "none" /\ Known(c) /\ Writable(Target(c))
  BY DEF PatchSucceeded, PatchFailed, IndInv, CallInv
<1>2. UNCHANGED {d \in Calls : wire[d] = "applied"}
  BY DEF PatchSucceeded, PatchFailed
<1>3. UNCHANGED {d \in Calls : Known(d) /\ Writable(Target(d))}
  <2>1. UNCHANGED config
    BY DEF PatchSucceeded, PatchFailed
  <2> QED
    BY <2>1 DEF Known, Target, Writable, config
<1>4. CASE PatchSucceeded(c)
  <2>1. [d \in Calls |-> Told(d)]' = [[d \in Calls |-> Told(d)] EXCEPT ![c] = "ok"]
    BY <1>4 DEF PatchSucceeded, Answer, Told, IndInv, TypeOK
  <2> QED
    BY <1>2, <1>3, <1>4, <2>1 DEF PatchSucceeded, Promise!Succeed, Promise!Tell, Told
<1>5. CASE PatchFailed(c)
  <2>1. [d \in Calls |-> Told(d)]' = [[d \in Calls |-> Told(d)] EXCEPT ![c] = "failed"]
    BY <1>1, <1>5 DEF PatchFailed, Answer, Told, IndInv, TypeOK
  <2> QED
    BY <1>1, <1>2, <1>3, <1>5, <2>1 DEF PatchFailed, Promise!Fail, Promise!Tell, Told
<1> QED
  BY <1>4, <1>5

(* The API server's step is the one that takes effect, and it may come     *)
(* after the caller was told that the call failed.                         *)
LEMMA ApplyCommits ==
    ASSUME IndInv, NEW c \in Calls, ApplyPatch(c)
    PROVE  Promise!Commit(c)
<1>1. /\ wire[c] = "sent" /\ Known(c) /\ Writable(Target(c))
      /\ status[c] \in {"patching", "error"}
  BY DEF ApplyPatch, IndInv, CallInv, TypeOK, Answers, Outcomes
<1>2. {d \in Calls : wire[d] = "applied"}' = {d \in Calls : wire[d] = "applied"} \cup {c}
  BY <1>1 DEF ApplyPatch, IndInv, TypeOK
<1>3. UNCHANGED {d \in Calls : Known(d) /\ Writable(Target(d))}
  BY DEF ApplyPatch, Known, Target, Writable, config
<1>4. UNCHANGED [d \in Calls |-> Told(d)]
  BY <1>1 DEF ApplyPatch, Told, IndInv, TypeOK
<1>5. Told(c) \in {"open", "failed"}
  BY <1>1 DEF Told
<1> QED
  BY <1>1, <1>2, <1>3, <1>4, <1>5 DEF Promise!Commit

LEMMA PromiseStep == IndInv /\ [Next]_vars => [Promise!Next]_(Promise!vars)
<1> SUFFICES ASSUME IndInv, [Next]_vars PROVE [Promise!Next]_(Promise!vars)
  OBVIOUS
<1> USE DEF Promise!Next
<1>1. ASSUME NEW c \in Calls, CannotPrepare(c) PROVE Promise!Next
  BY <1>1, RefusalIsRefuse DEF CannotPrepare
<1>2. ASSUME NEW c \in Calls, AssertWritable(c) PROVE Promise!Next
  BY <1>2, RefusalIsRefuse DEF AssertWritable
<1>3. ASSUME NEW c \in Calls, NEW r \in {"error", "conflict"}, status[c] = "new",
             Refuse(c, r)
      PROVE  Promise!Next
  BY <1>3, RefusalIsRefuse DEF Refuse
<1>4. ASSUME NEW c \in Calls, AppSync(c) PROVE [Promise!Next]_(Promise!vars)
  BY <1>4, <1>3, SendStutters DEF AppSync, Prepared, PatchOperation
<1>5. ASSUME NEW c \in Calls, AppRollback(c) PROVE [Promise!Next]_(Promise!vars)
  BY <1>5, <1>3, SendStutters DEF AppRollback, Prepared, PatchOperation
<1>6. ASSUME NEW c \in Calls, AppTerminateOperation(c)
      PROVE  [Promise!Next]_(Promise!vars)
  BY <1>6, <1>3, SendStutters DEF AppTerminateOperation, Prepared
<1>7. ASSUME NEW c \in Calls, PatchSucceeded(c) \/ PatchFailed(c) PROVE Promise!Next
  BY <1>7, PatchingEnds
<1>8. ASSUME NEW c \in Calls, ApplyPatch(c) PROVE Promise!Next
  BY <1>8, ApplyCommits
<1>9. CASE UNCHANGED <<config, calls>>
  BY <1>9 DEF Promise!vars, Told, Known, Target, Writable, config, calls
<1>10. ASSUME NEW c \in Calls, RefusePatch(c) PROVE UNCHANGED Promise!vars
  BY <1>10 DEF RefusePatch, Promise!vars, Told, Known, Target, Writable, config,
              IndInv, TypeOK
<1>11. ASSUME NEW i \in Instances, Controller(i) \/ OtherClient(i)
       PROVE  UNCHANGED <<config, calls>>
  BY <1>11 DEF Controller, PickUp, Finish, OtherClient
<1>12. CASE UNCHANGED vars
  BY <1>9, <1>12 DEF vars
<1> QED
  BY <1>1, <1>2, <1>4, <1>5, <1>6, <1>7, <1>8, <1>9, <1>10, <1>11, <1>12
  DEF Next, Handler

(* Every behaviour of the write tools is one GatedCall allows.             *)
THEOREM PromiseKept == Spec => ImplementsPromise
  BY PromiseInit, PromiseStep, Inductive, PTL DEF Spec, ImplementsPromise, Promise!Spec
=============================================================================
