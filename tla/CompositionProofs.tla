-------------------------- MODULE CompositionProofs -------------------------
(***************************************************************************)
(* What the parts that surround the write tools add to them: the write     *)
(* guard, the counting of calls, and app_wait after a write.  For any      *)
(* number of calls and instances, whichever enforce the policy, whatever   *)
(* names are mistaken for, whoever follows what.                           *)
(***************************************************************************)
EXTENDS ToolMetrics, FollowedSync, OperationToolsProofs

-----------------------------------------------------------------------------
(* The policy and the wrapper only watch: without them, the behaviours are *)
(* those of OperationTools.                                                *)

LEMMA GuardedStep == [GuardedNext]_guardVars => [Next]_vars
  BY DEF GuardedNext, Apply, Deny, OtherSteps, Next, guardVars

LEMMA MeteredStep == [MeteredNext]_meteredVars => [GuardedNext]_guardVars
  BY DEF MeteredNext, meteredVars

(* The policy turns patches away, which the network may do as well: under  *)
(* it the tools do nothing they would not do without it, so that what is   *)
(* proved of OperationTools holds of them (guard.go, tools_write.go).      *)
THEOREM GuardedIsTools == GuardedSpec => Spec
  BY GuardedStep, PTL DEF GuardedSpec, GuardedInit, Spec

(* Counting a call changes nothing for it (instrument.go).                 *)
THEOREM MeteredIsGuarded == MeteredSpec => GuardedSpec
  BY MeteredStep, PTL DEF MeteredSpec, MeteredInit, GuardedSpec

-----------------------------------------------------------------------------
(* Sources under the policy.                                               *)

FromOthers(op) == OverridesSource(op) => op \in OtherOperations

SourceInv ==
    /\ enforced \subseteq Instances
    /\ \A i \in enforced : FromOthers(operation[i]) /\ FromOthers(executing[i])

LEMMA AbsentIsHarmless == FromOthers(Absent)
  BY DEF FromOthers, OverridesSource, Absent

LEMMA SourceStep == IndInv /\ SourceInv /\ [GuardedNext]_guardVars => SourceInv'
<1> SUFFICES ASSUME IndInv, SourceInv, [GuardedNext]_guardVars PROVE SourceInv'
  OBVIOUS
<1> USE DEF SourceInv
<1>1. CASE UNCHANGED <<operation, executing, enforced>>
  BY <1>1
<1>2. ASSUME NEW c \in Calls, Handler(c) \/ RefusePatch(c), UNCHANGED enforced
      PROVE  UNCHANGED <<operation, executing, enforced>>
  BY <1>2, HandlerFrame DEF RefusePatch, cluster, IndInv
<1>3. ASSUME NEW c \in Calls, Apply(c) PROVE SourceInv'
  <2> DEFINE merged == MergePatch(operation[Target(c)], patch[c].operation)
  <2>1. /\ ApplyPatch(c) /\ UNCHANGED <<executing, enforced>>
        /\ operation' = [operation EXCEPT ![Target(c)] = merged]
    BY <1>3 DEF Apply, ApplyPatch
  <2>2. Target(c) \in enforced => ~OverridesSource(merged)
    BY <1>3 DEF Apply, Admitted, GuardAdmits, Application
  <2> QED
    BY <2>1, <2>2 DEF FromOthers, IndInv, TypeOK
<1>4. ASSUME NEW i \in Instances, PickUp(i) \/ Finish(i), UNCHANGED enforced
      PROVE  SourceInv'
  BY <1>4, AbsentIsHarmless DEF PickUp, Finish, IndInv, TypeOK
<1>5. ASSUME NEW i \in Instances, OtherClient(i), UNCHANGED enforced PROVE SourceInv'
  <2>1. PICK op \in OtherOperations : operation' = [operation EXCEPT ![i] = op]
    BY <1>5 DEF OtherClient
  <2> QED
    BY <1>5, <2>1 DEF OtherClient, FromOthers, IndInv, TypeOK
<1>6. CASE UNCHANGED guardVars
  BY <1>6, <1>1 DEF guardVars, vars, cluster
<1> QED
  BY <1>1, <1>2, <1>3, <1>4, <1>5, <1>6
  DEF GuardedNext, OtherSteps, Deny, Controller

(* Whatever this server's patches are merged into, an instance under the   *)
(* policy carries no source override but another client's.                 *)
THEOREM OverridesAreOthers == GuardedSpec => []SourceOverridesAreOthers
<1>1. GuardedInit => SourceInv
  BY AbsentIsHarmless DEF GuardedInit, Init, SourceInv
<1>2. SourceInv => SourceOverridesAreOthers
  BY DEF SourceInv, FromOthers, SourceOverridesAreOthers, Carried
<1>3. GuardedSpec => []IndInv
  BY GuardedIsTools, Inductive, PTL
<1> QED
  BY <1>1, <1>2, <1>3, SourceStep, PTL DEF GuardedSpec

-----------------------------------------------------------------------------
(* Labels and counters.                                                    *)

BagInv == toolCalls \in [DOMAIN toolCalls -> Nat]

(* LabelsAgreeWithCounters, taken apart.                                   *)
Unquoted(i) == \A c \in Calls : Target(c) = i => ~Quotes(c)

Agree(i, tool) ==
    /\ Called(i, tool, "ok") = operations[<<i, tool, "ok">>]
    /\ Called(i, tool, "conflict") = operations[<<i, tool, "conflict">>]
    /\ operations[<<i, tool, "error">>]
            <= Called(i, tool, "error") + Called(i, tool, "forbidden")

BlockedAgree(i) ==
    Called(i, "sync", "blocked") + Called(i, "rollback", "blocked")
            + Called(i, "terminate", "blocked")
        = writesBlocked[<<i, "global_readonly">>] + writesBlocked[<<i, "instance_readonly">>]

LabelInv ==
    /\ BagInv
    /\ \A i \in Instances :
        Unquoted(i) => BlockedAgree(i) /\ \A tool \in Tools : Agree(i, tool)

LEMMA LabelInvImplies == LabelInv => LabelsAgreeWithCounters
  BY DEF LabelInv, Unquoted, BlockedAgree, Agree, LabelsAgreeWithCounters

LEMMA BagStays ==
    ASSUME BagInv, NEW label, toolCalls' = toolCalls (+) SetToBag({label})
    PROVE  BagInv'
  BY DEF BagInv, SetToBag, (+)

LEMMA CalledType ==
    ASSUME BagInv, NEW i, NEW tool, NEW result
    PROVE  Called(i, tool, result) \in Nat
  BY DEF BagInv, Called, BagIn, BagToSet

(* How a step of a call's handler ends it, and what it counts then.        *)
LEMMA HandlerCounts ==
    ASSUME IndInv, NEW c \in Calls, Handler(c)
    PROVE  /\ UNCHANGED config
           /\ \A d \in Calls : d # c => status'[d] = status[d]
           /\ \/ ~Answered(c) /\ UNCHANGED counters
              \/ /\ status'[c] \in Outcomes
                 /\ Known(c)
                 /\ RecordOperation(c, status'[c])
              \/ AssertWritable(c)
              \/ CannotPrepare(c)
<1> USE DEF IndInv, TypeOK, Answer
<1>0. UNCHANGED config
  BY HandlerFrame
<1>1. ASSUME NEW r \in Outcomes, Known(c), Answer(c, r), RecordOperation(c, r)
      PROVE  /\ \A d \in Calls : d # c => status'[d] = status[d]
             /\ status'[c] \in Outcomes /\ RecordOperation(c, status'[c])
  BY <1>1
<1>2. ASSUME NEW p, Send(c, p)
      PROVE  /\ \A d \in Calls : d # c => status'[d] = status[d]
             /\ ~Answered(c) /\ UNCHANGED counters
  BY <1>2 DEF Send, Answered, Answers, Outcomes
<1>3. CASE CannotPrepare(c)
  BY <1>0, <1>3 DEF CannotPrepare
<1>4. CASE AssertWritable(c)
  BY <1>0, <1>4 DEF AssertWritable
<1>5. CASE AppSync(c)
  BY <1>0, <1>1, <1>2, <1>5 DEF AppSync, Prepared, Refuse, PatchOperation, Outcomes
<1>6. CASE AppRollback(c)
  BY <1>0, <1>1, <1>2, <1>6 DEF AppRollback, Prepared, Refuse, PatchOperation, Outcomes
<1>7. CASE AppTerminateOperation(c)
  BY <1>0, <1>1, <1>2, <1>7 DEF AppTerminateOperation, Prepared, Refuse, Outcomes
<1>8. CASE PatchSucceeded(c) \/ PatchFailed(c)
  BY <1>0, <1>1, <1>8 DEF PatchSucceeded, PatchFailed, CallInv, Outcomes
<1> QED
  BY <1>3, <1>4, <1>5, <1>6, <1>7, <1>8 DEF Handler

(* Nobody but its own handler answers a call, and nobody counts without    *)
(* answering one.                                                          *)
LEMMA AnswersAndCounts ==
    ASSUME IndInv, GuardedNext
    PROVE  /\ UNCHANGED param
           /\ \A c \in Calls : Answered(c) => Handler(c)
           /\ (\A c \in Calls : ~Answered(c)) => UNCHANGED counters
<1>1. ASSUME NEW c \in Calls, Handler(c)
      PROVE  /\ UNCHANGED param
             /\ \A d \in Calls : Answered(d) => Handler(d)
             /\ ~Answered(c) => UNCHANGED counters
  <2>1. UNCHANGED param
    BY <1>1, HandlerCounts DEF config
  <2>2. \A d \in Calls : Answered(d) => d = c
    BY <1>1, HandlerCounts DEF Answered
  <2>3. AssertWritable(c) \/ CannotPrepare(c) => Answered(c)
    BY DEF AssertWritable, CannotPrepare, Answer, Answered, Answers, Outcomes, IndInv, TypeOK
  <2>4. status'[c] \in Outcomes /\ status[c] \notin Answers => Answered(c)
    BY DEF Answered, Answers
  <2>5. status[c] \notin Answers
    BY <1>1 DEF Handler, CannotPrepare, AssertWritable, AppSync, AppRollback,
               AppTerminateOperation, Prepared, PatchSucceeded, PatchFailed, Answers, Outcomes
  <2> QED
    BY <1>1, <2>1, <2>2, <2>3, <2>4, <2>5, HandlerCounts
<1>2. ASSUME UNCHANGED <<config, status, counters>>
      PROVE  /\ UNCHANGED param
             /\ \A d \in Calls : Answered(d) => Handler(d)
             /\ UNCHANGED counters
  BY <1>2 DEF Answered, config
<1>3. ASSUME NEW c \in Calls, ApplyPatch(c) \/ RefusePatch(c)
      PROVE  UNCHANGED <<config, status, counters>>
  BY <1>3 DEF ApplyPatch, RefusePatch
<1>4. ASSUME NEW i \in Instances, Controller(i) \/ OtherClient(i)
      PROVE  UNCHANGED <<config, status, counters>>
  BY <1>4 DEF Controller, PickUp, Finish, OtherClient, calls
<1> QED
  BY <1>1, <1>2, <1>3, <1>4 DEF GuardedNext, Apply, Deny, OtherSteps

(* Where no name is mistaken for a word, an answer is labelled as what it  *)
(* is; an error may be labelled as a refusal by RBAC or the policy.        *)
LEMMA LabelIsRight ==
    ASSUME IndInv, NEW c \in Calls, Known(c), ~Quotes(c), NEW text \in Texts(c),
           param[c].tool \in Tools
    PROVE  LET label == classifyResult(status'[c], text)
           IN  /\ status'[c] \in {"ok", "conflict", "blocked"} => label = status'[c]
               /\ status'[c] = "error" => label \in {"error", "forbidden"}
<1>1. WordsIn(param[c].name) = {} /\ WordsIn(Target(c)) = {} /\ WordsIn(param[c].strategy) = {}
  BY DEF Quotes
<1>2. status'[c] = "ok" => classifyResult(status'[c], text) = "ok"
  BY DEF classifyResult
<1>3. status'[c] = "conflict" => text = {"already in progress"}
  BY <1>1 DEF Texts
<1>4. status'[c] = "blocked" => text \in {{"read-only"}, {"readonly"}}
  BY <1>1 DEF Texts
<1>5. status'[c] = "error" => text \in {{}, {"forbidden"}}
  <2>1. RefusalTexts(c) = {{}}
    BY <1>1, Zenon DEF RefusalTexts, Tools
  <2>2. ErrorTexts(c) = RefusalTexts(c) \/ ErrorTexts(c) = ApiErrors(c)
    BY DEF ErrorTexts
  <2>3. status'[c] = "error" => text \in ErrorTexts(c)
    BY DEF Texts
  <2> QED
    BY <1>1, <2>1, <2>2, <2>3 DEF ApiErrors
<1>6. status'[c] = "conflict" => classifyResult(status'[c], text) = "conflict"
  BY <1>3 DEF classifyResult
<1>7. status'[c] = "blocked" => classifyResult(status'[c], text) = "blocked"
  <2>1. CASE text \in {{"read-only"}, {"readonly"}}
    <3>1. "forbidden" \notin text /\ "already in progress" \notin text
      BY <2>1
    <3>2. text \cap {"read-only", "readonly"} # {}
      BY <2>1
    <3>3. status'[c] = "blocked" => status'[c] # "ok"
      OBVIOUS
    <3> QED
      BY <3>1, <3>2, <3>3, Zenon DEF classifyResult
  <2> QED
    BY <1>4, <2>1
<1>8. status'[c] = "error" => classifyResult(status'[c], text) \in {"error", "forbidden"}
  BY <1>5 DEF classifyResult
<1> QED
  BY <1>2, <1>6, <1>7, <1>8

(* The call that is answered is counted by its handler as its label says.  *)
LEMMA LabelStep ==
    ASSUME IndInv, LabelInv, GuardedNext, NEW c \in Calls, Answered(c), RecordTool(c)
    PROVE  LabelInv'
<1> USE DEF IndInv
<1>1. Handler(c) /\ UNCHANGED param
  BY AnswersAndCounts
<1>2. PICK text \in Texts(c) :
          toolCalls' = toolCalls (+)
              SetToBag({<<Target(c), param[c].tool, classifyResult(status'[c], text)>>})
  BY DEF RecordTool, instanceLabel
<1> DEFINE label == classifyResult(status'[c], text)
<1>3. BagInv'
  BY <1>2, BagStays DEF LabelInv
<1>4. ASSUME NEW j, NEW t, NEW r
      PROVE  /\ Called(j, t, r) \in Nat
             /\ Called(j, t, r)' =
                  IF <<j, t, r>> = <<Target(c), param[c].tool, label>>
                  THEN Called(j, t, r) + 1
                  ELSE Called(j, t, r)
  <2>1. BagInv
    BY DEF LabelInv
  <2>2. Called(j, t, r) \in Nat
    BY <2>1, CalledType
  <2> HIDE DEF label
  <2>3. toolCalls' = toolCalls (+) SetToBag({<<Target(c), param[c].tool, label>>})
    BY <1>2 DEF label
  <2>4. Called(j, t, r)' =
                  IF <<j, t, r>> = <<Target(c), param[c].tool, label>>
                  THEN Called(j, t, r) + 1
                  ELSE Called(j, t, r)
    BY <2>1, <2>3 DEF BagInv, Called, BagIn, BagToSet, SetToBag, (+)
  <2> QED
    BY <2>2, <2>4
<1>5. param[c].tool \in Tools
  BY ParamsAssumption DEF TypeOK
<1>6. SUFFICES ASSUME NEW i \in Instances, Unquoted(i)
               PROVE  BlockedAgree(i)' /\ \A t \in Tools : Agree(i, t)'
  <2>1. \A i \in Instances : Unquoted(i)' => Unquoted(i)
    BY <1>1 DEF Unquoted, Quotes, Target
  <2> QED
    BY <1>3, <2>1 DEF LabelInv
<1>7. /\ BlockedAgree(i)
      /\ \A t \in Tools : Agree(i, t)
      /\ \A t \in Tools, r \in Outcomes : operations[<<i, t, r>>] \in Nat
      /\ \A r \in Reasons : writesBlocked[<<i, r>>] \in Nat
  BY <1>6 DEF LabelInv, TypeOK
<1>8. \/ status'[c] \in Outcomes /\ Known(c) /\ RecordOperation(c, status'[c])
      \/ AssertWritable(c)
      \/ CannotPrepare(c)
  BY <1>1, HandlerCounts
<1> HIDE DEF label
<1> USE DEF BlockedAgree, Agree
<1>9. CASE i # Target(c)
  <2>1. \A t \in Tools, r \in Outcomes : operations'[<<i, t, r>>] = operations[<<i, t, r>>]
    BY <1>8, <1>9
    DEF RecordOperation, AssertWritable, CannotPrepare, counters, TypeOK
  <2>2. \A r \in Reasons : writesBlocked'[<<i, r>>] = writesBlocked[<<i, r>>]
    BY <1>8, <1>9
    DEF RecordOperation, AssertWritable, CannotPrepare, counters, TypeOK
  <2> QED
    BY <2>1, <2>2, <1>4, <1>7, <1>9 DEF Outcomes, Reasons
<1>10. CASE i = Target(c)
  <2>1. Known(c) /\ ~Quotes(c)
    BY <1>6, <1>10 DEF Known, Unquoted
  <2>2. /\ status'[c] \in {"ok", "conflict", "blocked"} => label = status'[c]
        /\ status'[c] = "error" => label \in {"error", "forbidden"}
    BY <2>1, <1>5, LabelIsRight DEF label
  <2>3. CASE status'[c] \in Outcomes /\ RecordOperation(c, status'[c])
    <3>1. /\ UNCHANGED writesBlocked
          /\ \A t \in Tools, r \in Outcomes :
               operations'[<<i, t, r>>] =
                   IF t = param[c].tool /\ r = status'[c]
                   THEN operations[<<i, t, r>>] + 1 ELSE operations[<<i, t, r>>]
      BY <2>3, <1>10 DEF RecordOperation, TypeOK
    <3>2. label \in {"ok", "conflict", "error", "forbidden"}
      BY <2>2, <2>3 DEF Outcomes
    <3>3. BlockedAgree(i)'
      BY <3>1, <3>2, <1>4, <1>7
    <3>4. ASSUME NEW t \in Tools PROVE Agree(i, t)'
      BY <3>1, <3>2, <2>2, <2>3, <1>4, <1>7, <1>10 DEF Outcomes
    <3> QED
      BY <3>3, <3>4
  <2>4. CASE AssertWritable(c)
    <3>1. status'[c] = "blocked" /\ UNCHANGED operations
      BY <2>4 DEF AssertWritable, Answer, TypeOK
    <3>2. writesBlocked'[<<i, "global_readonly">>] + writesBlocked'[<<i, "instance_readonly">>]
            = writesBlocked[<<i, "global_readonly">>] + writesBlocked[<<i, "instance_readonly">>] + 1
      <4>1. CASE readOnly
        BY <2>4, <4>1, <1>7, <1>10 DEF AssertWritable, TypeOK, Reasons
      <4>2. CASE ~readOnly
        BY <2>4, <4>2, <1>7, <1>10 DEF AssertWritable, TypeOK, Reasons
      <4> QED
        BY <4>1, <4>2
    <3>3. ASSUME NEW t \in Tools PROVE Agree(i, t)'
      BY <3>1, <2>2, <1>4, <1>7
    <3>4. BlockedAgree(i)'
      BY <3>1, <3>2, <2>2, <1>4, <1>5, <1>7, <1>10 DEF Tools
    <3> QED
      BY <3>3, <3>4
  <2>5. CASE CannotPrepare(c)
    <3>1. status'[c] = "error" /\ UNCHANGED <<operations, writesBlocked>>
      BY <2>5 DEF CannotPrepare, Answer, TypeOK, counters
    <3>2. label \in {"error", "forbidden"}
      BY <3>1, <2>2
    <3>3. BlockedAgree(i)'
      BY <3>1, <3>2, <1>4, <1>7
    <3>4. ASSUME NEW t \in Tools PROVE Agree(i, t)'
      BY <3>1, <3>2, <1>4, <1>7 DEF Outcomes
    <3> QED
      BY <3>3, <3>4
  <2> QED
    BY <2>3, <2>4, <2>5, <1>8
<1> QED
  BY <1>9, <1>10

(* The labels read off the answers never tell another story than the       *)
(* counters, on any instance where no name and no strategy is mistaken for *)
(* a word (instrument.go:38-57, tools_write.go, operation.go:44-48,        *)
(* params.go:52-62).                                                       *)
THEOREM LabelsAgree == MeteredSpec => []LabelsAgreeWithCounters
<1>1. MeteredInit => LabelInv
  <2> SUFFICES ASSUME MeteredInit PROVE LabelInv
    OBVIOUS
  <2>1. BagInv /\ \A i, t, r : Called(i, t, r) = 0
    BY DEF MeteredInit, BagInv, Called, BagIn, BagToSet, EmptyBag, SetToBag
  <2>2. /\ \A l \in Instances \X Tools \X Outcomes : operations[l] = 0
        /\ \A l \in Instances \X Reasons : writesBlocked[l] = 0
    BY DEF MeteredInit, GuardedInit, Init
  <2> QED
    BY <2>1, <2>2 DEF LabelInv, BlockedAgree, Agree, Outcomes, Reasons
<1>2. IndInv /\ LabelInv /\ [MeteredNext]_meteredVars => LabelInv'
  <2> SUFFICES ASSUME IndInv, LabelInv, [MeteredNext]_meteredVars PROVE LabelInv'
    OBVIOUS
  <2>1. ASSUME UNCHANGED <<param, operations, writesBlocked, toolCalls>> PROVE LabelInv'
    BY <2>1 DEF LabelInv, BagInv, BlockedAgree, Agree, Called, Unquoted, Quotes, Target
  <2>2. ASSUME NEW c \in Calls, GuardedNext, Answered(c), RecordTool(c) PROVE LabelInv'
    BY <2>2, LabelStep
  <2>3. ASSUME GuardedNext, \A c \in Calls : ~Answered(c), UNCHANGED toolCalls
        PROVE  LabelInv'
    BY <2>1, <2>3, AnswersAndCounts DEF counters
  <2>4. CASE UNCHANGED meteredVars
    BY <2>1, <2>4 DEF meteredVars, guardVars, vars, config, counters
  <2> QED
    BY <2>2, <2>3, <2>4 DEF MeteredNext
<1>3. MeteredSpec => []IndInv
  BY MeteredIsGuarded, GuardedIsTools, Inductive, PTL
<1> QED
  BY <1>1, <1>2, <1>3, LabelInvImplies, PTL DEF MeteredSpec

(* The tools as they are deployed, under whatever policies and in the      *)
(* wrapper that counts their calls, keep what was proved of them alone     *)
(* (tools_write.go, instrument.go:22-40, guard.go).                        *)
THEOREM DeployedToolsKeep ==
    MeteredSpec => ImplementsPromise /\ []AttributionConsistent /\ []ReadOnlyUntouched
  BY MeteredIsGuarded, GuardedIsTools, PromiseKept, AttributionHolds, ReadOnlyHolds, PTL

-----------------------------------------------------------------------------
(* A write followed with app_wait.                                         *)

LEMMA FollowedStep == [FollowedNext]_allVars => [Next]_vars
  BY DEF FollowedNext, Queue, Follow, Take, End, Compare, OtherWork, Passes,
         Next, Controller, allVars

(* Following a call changes nothing for it, and what is proved of          *)
(* OperationTools holds while its calls are followed (tools_read.go).      *)
THEOREM FollowedIsTools == FollowedSpec => Spec
  BY FollowedStep, PTL DEF FollowedSpec, FollowedInit, Spec

(* Where the operation of a call is, in terms of the cluster.              *)
FateOf(c) ==
    /\ fate[c] # "none" => wire[c] = "applied"
    /\ wire[c] = "applied" /\ param[c].tool # "terminate" => fate[c] # "none"
    /\ fate[c] = "queued" => operation[Target(c)] # Absent
    /\ fate[c] = "running" => executing[Target(c)] # Absent /\ Running(phase[Target(c)])

Followed(c) ==
    /\ waiting[c] # "new" => status[c] = "ok" /\ param[c].tool # "terminate"
    /\ waiting[c] = "reached" => fate[c] \in Completed

FateInv ==
    /\ fate \in [Calls -> {"none", "queued", "running"} \cup Completed]
    /\ waitParam \in [Followers -> WaitParams]
    /\ DOMAIN waiting = Followers
    /\ \A c \in Calls : FateOf(c)
    /\ \A c \in Followers : Followed(c)

(* The handlers leave a patch that was applied, and a call that was        *)
(* answered, as they are.                                                  *)
LEMMA HandlerKeeps ==
    ASSUME IndInv, NEW c \in Calls, Handler(c)
    PROVE  /\ UNCHANGED <<config, cluster>>
           /\ \A d \in Calls : wire'[d] = "applied" <=> wire[d] = "applied"
           /\ \A d \in Calls : status[d] = "ok" => status'[d] = "ok"
<1>1. /\ UNCHANGED <<config, cluster>>
      /\ \A d \in Calls : wire'[d] = "applied" <=> wire[d] = "applied"
  BY HandlerFrame DEF IndInv, CallInv
<1>2. \A d \in Calls : d # c => status'[d] = status[d]
  BY HandlerCounts
<1>3. status[c] # "ok"
  BY DEF Handler, CannotPrepare, AssertWritable, AppSync, AppRollback,
         AppTerminateOperation, Prepared, PatchSucceeded, PatchFailed
<1> QED
  BY <1>1, <1>2, <1>3

LEMMA QueueFate ==
    ASSUME IndInv, FateInv, NEW c \in Calls, Queue(c)
    PROVE  FateInv'
<1> USE DEF IndInv, TypeOK
<1>1. /\ UNCHANGED <<config, executing, status, watch>>
      /\ wire[c] = "sent" /\ wire' = [wire EXCEPT ![c] = "applied"]
      /\ Known(c) /\ IsToolPatch(patch[c], param[c].tool)
  BY DEF Queue, ApplyPatch, CallInv
<1>2. /\ fate' = [fate EXCEPT ![c] = IF param[c].tool = "terminate" THEN @ ELSE "queued"]
      /\ operation' = [operation EXCEPT ![Target(c)] = MergePatch(@, patch[c].operation)]
      /\ phase' = [phase EXCEPT ![Target(c)] =
                     IF patch[c].phase = NoPhase THEN @ ELSE patch[c].phase]
  BY DEF Queue, ApplyPatch
<1>3. \A i \in Instances : operation[i] # Absent => operation'[i] # Absent
  BY <1>1, <1>2, MergeAbsent, MergeAttributes DEF IsToolPatch
<1>4. param[c].tool # "terminate" => operation'[Target(c)] # Absent
  BY <1>1, <1>2, MergeAttributes DEF IsToolPatch, Known
<1>5. \A i \in Instances : Running(phase[i]) => Running(phase'[i])
  BY <1>1, <1>2 DEF IsToolPatch, Running, Occupied
<1>6. fate[c] = "none"
  BY <1>1 DEF FateInv, FateOf
<1>7. ASSUME NEW d \in Calls PROVE FateOf(d)'
  <2>1. Target(d)' = Target(d) /\ (wire[d] = "applied" => Target(d) \in Instances)
    BY <1>1 DEF CallInv, Known, Target, config
  <2> QED
    BY <1>1, <1>2, <1>3, <1>4, <1>5, <1>6, <2>1 DEF FateInv, FateOf, Known, config
<1>8. ASSUME NEW d \in Followers PROVE Followed(d)'
  <2>1. d \in Calls /\ Followed(d) /\ (status[d] = "ok" => d # c)
    BY <1>1, FollowersAssumption DEF FateInv, CallInv
  <2> QED
    BY <1>1, <1>2, <2>1 DEF FateInv, Followed, config, watch, CallInv
<1> QED
  BY <1>1, <1>2, <1>7, <1>8 DEF FateInv, watch

(* The controller's two steps.                                             *)
LEMMA BecomeKeeps ==
    ASSUME IndInv, FateInv, NEW i, NEW from \in {"queued", "running"},
           NEW to \in {"running"} \cup Completed, Become(i, from, to),
           UNCHANGED <<config, calls, watch>>
    PROVE  /\ fate' \in [Calls -> {"none", "queued", "running"} \cup Completed]
           /\ waitParam' \in [Followers -> WaitParams] /\ DOMAIN waiting' = Followers
           /\ \A c \in Calls : fate'[c] = "none" <=> fate[c] = "none"
           /\ \A c \in Followers : Followed(c)'
<1>1. /\ fate' \in [Calls -> {"none", "queued", "running"} \cup Completed]
      /\ \A c \in Calls : fate'[c] = "none" <=> fate[c] = "none"
      /\ \A c \in Calls : fate[c] \in Completed => fate'[c] = fate[c]
  BY DEF Become, FateInv, Completed
<1> QED
  BY <1>1, FollowersAssumption DEF FateInv, Followed, config, calls, watch

LEMMA TakeFate ==
    ASSUME IndInv, FateInv, NEW i \in Instances, Take(i)
    PROVE  FateInv'
<1>1. Become(i, "queued", "running") /\ UNCHANGED <<config, calls, watch>>
  BY DEF Take, PickUp
<1>2. ASSUME NEW c \in Calls PROVE FateOf(c)'
  <2>1. Target(c)' = Target(c) /\ (wire[c] = "applied" => Target(c) \in Instances)
    BY <1>1 DEF IndInv, CallInv, Known, Target, config
  <2>2. /\ executing[i] = Absent /\ executing'[i] # Absent /\ Running(phase'[i])
        /\ \A j \in Instances \ {i} :
              operation'[j] = operation[j] /\ executing'[j] = executing[j] /\ phase'[j] = phase[j]
    BY DEF Take, PickUp, IndInv, TypeOK, Running, Occupied
  <2>3. /\ fate'[c] = IF Target(c) = i /\ fate[c] = "queued" THEN "running" ELSE fate[c]
        /\ wire'[c] = wire[c] /\ param'[c] = param[c]
    BY <1>1 DEF Become, config, calls
  <2> QED
    BY <2>1, <2>2, <2>3 DEF FateInv, FateOf
<1> QED
  BY <1>1, <1>2, BecomeKeeps DEF FateInv

LEMMA EndFate ==
    ASSUME IndInv, FateInv, NEW i \in Instances, End(i)
    PROVE  FateInv'
<1>1. PICK p \in Completed :
          /\ phase' = [phase EXCEPT ![i] = p]
          /\ Become(i, "running", p)
          /\ UNCHANGED <<config, calls, watch>>
  BY DEF End, Finish, IndInv, TypeOK
<1>2. ASSUME NEW c \in Calls PROVE FateOf(c)'
  <2>1. Target(c)' = Target(c) /\ (wire[c] = "applied" => Target(c) \in Instances)
    BY <1>1 DEF IndInv, CallInv, Known, Target, config
  <2>2. /\ UNCHANGED operation
        /\ \A j \in Instances \ {i} : executing'[j] = executing[j] /\ phase'[j] = phase[j]
    BY <1>1 DEF End, Finish, IndInv, TypeOK
  <2>3. /\ fate'[c] = IF Target(c) = i /\ fate[c] = "running" THEN p ELSE fate[c]
        /\ wire'[c] = wire[c] /\ param'[c] = param[c]
    BY <1>1 DEF Become, config, calls
  <2> QED
    BY <2>1, <2>2, <2>3 DEF FateInv, FateOf, Completed
<1> QED
  BY <1>1, <1>2, BecomeKeeps DEF FateInv

LEMMA FollowFate ==
    ASSUME IndInv, FateInv, NEW w \in Followers, Follow(w)
    PROVE  FateInv'
<1>1. /\ w \in Calls /\ status[w] = "ok" /\ param[w].tool # "terminate"
      /\ UNCHANGED <<vars, fate>>
  BY FollowersAssumption DEF Follow, history
<1>2. UNCHANGED waitParam /\ \E to : waiting' = [waiting EXCEPT ![w] = to]
  BY DEF Follow, Wait!Waiter, Wait!BeginWait, Wait!Poll, Wait!Decide, Wait!Awake,
         Wait!Interrupted, Wait!Moves, Wait!Sleep
<1>3. waiting[w] # "reached" /\ (waiting'[w] = "reached" => Wait!Poll(w))
  BY <1>2 DEF Follow, Wait!Waiter, Wait!BeginWait, Wait!Poll, Wait!Awake,
         Wait!Interrupted, Wait!Moves, FateInv
<1>4. ASSUME waiting'[w] = "reached" PROVE fate[w] \in Completed
  <2>1. Wait!Synced([c \in Followers |-> Watched(c)][w], waitParam[w].forHealthy)
    BY <1>2, <1>3, <1>4 DEF Wait!Poll, Wait!Decide, Wait!Moves, Wait!Sleep, FateInv
  <2>2. operation[Target(w)] = Absent /\ ~Running(phase[Target(w)])
    BY <2>1 DEF Wait!Synced, Wait!OperationInProgress, Wait!Running, Wait!Occupied,
                Watched, Running, Occupied
  <2>3. wire[w] = "applied"
    BY <1>1 DEF IndInv, CallInv
  <2> QED
    BY <1>1, <2>2, <2>3 DEF FateInv, FateOf
<1>5. \A c \in Calls : FateOf(c)'
  BY <1>1 DEF FateInv, FateOf, Target, vars, config, cluster, calls
<1>6. \A c \in Followers : Followed(c)'
  BY <1>1, <1>2, <1>4 DEF FateInv, Followed, vars, config, calls
<1> QED
  BY <1>1, <1>2, <1>5, <1>6 DEF FateInv

LEMMA FateStep == IndInv /\ FateInv /\ [FollowedNext]_allVars => FateInv'
<1> SUFFICES ASSUME IndInv, FateInv, [FollowedNext]_allVars PROVE FateInv'
  OBVIOUS
<1>1. ASSUME UNCHANGED <<config, cluster, fate, watch>>,
             \A c \in Calls : wire'[c] = "applied" <=> wire[c] = "applied",
             \A c \in Calls : status[c] = "ok" => status'[c] = "ok"
      PROVE  FateInv'
  <2>1. \A c \in Calls : FateOf(c)'
    BY <1>1 DEF FateInv, FateOf, Target, config, cluster
  <2>2. \A c \in Followers : Followed(c)'
    BY <1>1, FollowersAssumption DEF FateInv, Followed, config, watch
  <2> QED
    BY <1>1, <2>1, <2>2 DEF FateInv, watch
<1>2. ASSUME NEW c \in Calls, Handler(c), UNCHANGED <<fate, watch>> PROVE FateInv'
  BY <1>1, <1>2, HandlerKeeps
<1>3. ASSUME NEW c \in Calls, RefusePatch(c), UNCHANGED <<fate, watch>> PROVE FateInv'
  <2>1. /\ UNCHANGED <<config, cluster, status>>
        /\ \A d \in Calls : wire'[d] = "applied" <=> wire[d] = "applied"
    BY <1>3 DEF RefusePatch, IndInv, TypeOK
  <2> QED
    BY <1>1, <1>3, <2>1
<1>4. ASSUME NEW i \in Instances, OtherClient(i), UNCHANGED <<fate, watch>> PROVE FateInv'
  <2>1. UNCHANGED <<config, calls, phase, executing>>
    BY <1>4 DEF OtherClient
  <2>2. \A j \in Instances : operation[j] # Absent => operation'[j] # Absent
    BY <1>4 DEF OtherClient, IndInv, TypeOK
  <2>3. \A c \in Calls : FateOf(c)'
    <3>1. \A c \in Calls : wire[c] = "applied" => Target(c) \in Instances
      BY DEF IndInv, CallInv, Known
    <3> QED
      BY <1>4, <2>1, <2>2, <3>1 DEF FateInv, FateOf, Target, config, calls
  <2>4. \A c \in Followers : Followed(c)'
    BY <1>4, <2>1 DEF FateInv, Followed, config, calls, watch
  <2> QED
    BY <1>4, <2>3, <2>4 DEF FateInv, watch
<1>5. ASSUME NEW c \in Calls, Queue(c) PROVE FateInv'
  BY <1>5, QueueFate
<1>6. ASSUME NEW i \in Instances, Take(i) \/ End(i) PROVE FateInv'
  BY <1>6, TakeFate, EndFate
<1>7. ASSUME NEW i \in Instances, Compare(i) PROVE FateInv'
  BY <1>1, <1>7 DEF Compare, vars, history, calls
<1>8. ASSUME NEW w \in Followers, Follow(w) PROVE FateInv'
  BY <1>8, FollowFate
<1>9. CASE Passes
  <2>1. UNCHANGED <<waitParam, waiting, vars, fate>>
    BY <1>9 DEF Passes, Wait!Tick, Wait!waiters, history
  <2>2. \A c \in Calls : FateOf(c)'
    BY <2>1 DEF FateInv, FateOf, Target, vars, config, cluster, calls
  <2>3. \A c \in Followers : Followed(c)'
    BY <2>1 DEF FateInv, Followed, vars, config, calls
  <2> QED
    BY <2>1, <2>2, <2>3 DEF FateInv
<1>10. CASE UNCHANGED allVars
  BY <1>1, <1>10 DEF allVars, vars, history, calls
<1> QED
  BY <1>2, <1>3, <1>4, <1>5, <1>6, <1>7, <1>8, <1>9, <1>10 DEF FollowedNext, OtherWork

(* "reached" is never said of the state from before the caller's own       *)
(* operation, whatever is merged with it, runs before it or terminates it  *)
(* (tools_read.go:262-285, tools_write.go:118).                            *)
THEOREM ReachedIsAfter == FollowedSpec => []ReachedAfterTheOperation
<1>1. FollowedInit => FateInv
  BY FollowersAssumption
  DEF FollowedInit, Init, Wait!InitWait, FateInv, FateOf, Followed
<1>2. FateInv => ReachedAfterTheOperation
  BY DEF FateInv, Followed, ReachedAfterTheOperation
<1>3. FollowedSpec => []IndInv
  BY FollowedIsTools, Inductive, PTL
<1> QED
  BY <1>1, <1>2, <1>3, FateStep, PTL DEF FollowedSpec

-----------------------------------------------------------------------------
(* Requests are whole where writes have not overlapped.                    *)

WholeOn(i) ==
    /\ operation[i] # Absent => operation[i] \in Requests(i)
    /\ executing[i] # Absent => executing[i] \in Requests(i)
    /\ OnTheWire(i) # {} => operation[i] = Absent
    /\ \A c, d \in OnTheWire(i) : c = d

WholeInv == \A i \in Instances \ overlapped : WholeOn(i)

(* A patch merged into no operation is the operation.                      *)
LEMMA MergeIntoAbsent ==
    ASSUME NEW p, IsOperation(p)
    PROVE  MergePatch(Absent, p) = p
  BY DEF MergePatch, IsOperation, Absent

(* A handler sends a sync or a rollback only where it has read that no     *)
(* operation is queued, and nobody's but its own.                          *)
LEMMA HandlerSends ==
    ASSUME IndInv, NEW c \in Calls, Handler(c)
    PROVE  /\ UNCHANGED <<config, cluster>>
           /\ \A d \in Calls \ {c} : wire'[d] = wire[d]
           /\ \/ wire'[c] = wire[c]
              \/ param[c].tool # "terminate" => operation[Target(c)] = Absent
<1> USE DEF IndInv, TypeOK
<1>0. UNCHANGED <<config, cluster>>
  BY HandlerFrame
<1>1. ASSUME NEW r, Refuse(c, r) PROVE UNCHANGED wire
  BY <1>1 DEF Refuse
<1>2. ASSUME NEW p, Send(c, p) PROVE \A d \in Calls \ {c} : wire'[d] = wire[d]
  BY <1>2 DEF Send
<1>3. ~OperationInProgress(ReadApp(c)) => operation[Target(c)] = Absent
  BY DEF OperationInProgress, ReadApp, AppFromUnstructured
<1>4. CASE CannotPrepare(c) \/ AssertWritable(c) \/ PatchSucceeded(c) \/ PatchFailed(c)
  BY <1>0, <1>4 DEF CannotPrepare, AssertWritable, PatchSucceeded, PatchFailed
<1>5. CASE AppSync(c)
  BY <1>0, <1>1, <1>2, <1>3, <1>5 DEF AppSync, PatchOperation
<1>6. CASE AppRollback(c)
  BY <1>0, <1>1, <1>2, <1>3, <1>6 DEF AppRollback, PatchOperation
<1>7. CASE AppTerminateOperation(c)
  BY <1>0, <1>1, <1>2, <1>7 DEF AppTerminateOperation, Prepared
<1> QED
  BY <1>4, <1>5, <1>6, <1>7 DEF Handler

LEMMA RequestsStay ==
    ASSUME IndInv, [FollowedNext]_allVars
    PROVE  \A i : Requests(i) \subseteq Requests(i)'
<1>1. UNCHANGED config /\ \A c \in Calls : wire[c] = "applied" =>
                                 wire'[c] = "applied" /\ patch'[c] = patch[c]
  BY FollowedStep, RequestsGrow
<1> QED
  BY <1>1 DEF Requests, Applied, Known, Target, config

LEMMA OnTheWireFrame ==
    ASSUME UNCHANGED config, NEW i
    PROVE  OnTheWire(i)' =
               {c \in Calls : wire'[c] = "sent" /\ param[c].tool # "terminate" /\ Target(c) = i}
  BY DEF OnTheWire, Target, config

LEMMA QueueWhole ==
    ASSUME IndInv, WholeInv, [FollowedNext]_allVars, NEW c \in Calls, Queue(c),
           NEW i \in Instances \ overlapped
    PROVE  WholeOn(i)'
<1> USE DEF IndInv, TypeOK
<1>1. /\ UNCHANGED <<config, executing, patch>>
      /\ wire[c] = "sent" /\ wire' = [wire EXCEPT ![c] = "applied"]
      /\ operation' = [operation EXCEPT ![Target(c)] = MergePatch(@, patch[c].operation)]
      /\ Known(c) /\ IsToolPatch(patch[c], param[c].tool)
  BY DEF Queue, ApplyPatch, CallInv
<1>2. /\ WholeOn(i)
      /\ \A j : Requests(j) \subseteq Requests(j)'
  BY RequestsStay DEF WholeInv
<1>3. OnTheWire(i)' = OnTheWire(i) \ {c}
  BY <1>1, OnTheWireFrame DEF OnTheWire
<1>4. CASE Target(c) # i \/ param[c].tool = "terminate"
  <2>1. operation'[i] = operation[i]
    BY <1>1, <1>4, MergeAbsent DEF IsToolPatch
  <2> QED
    BY <1>1, <1>2, <1>3, <2>1 DEF WholeOn
<1>5. CASE Target(c) = i /\ param[c].tool # "terminate"
  <2>1. c \in OnTheWire(i)
    BY <1>1, <1>5 DEF OnTheWire
  <2>2. operation[i] = Absent /\ OnTheWire(i)' = {}
    BY <1>2, <1>3, <2>1 DEF WholeOn
  <2>3. operation'[i] = patch[c].operation
    BY <1>1, <1>5, <2>2, MergeIntoAbsent
  <2>4. Target(c)' = i /\ Known(c)' /\ wire'[c] = "applied" /\ param'[c] = param[c]
    BY <1>1, <1>5 DEF Target, Known, config
  <2>5. patch[c].operation \in Requests(i)'
    BY <1>1, <1>5, <2>4 DEF Requests, Applied
  <2> QED
    BY <1>1, <1>2, <2>2, <2>3, <2>5 DEF WholeOn
<1> QED
  BY <1>4, <1>5

(* A set that holds, at most, the member of another that holds at most one,*)
(* and one more, has a single member if it does not count more.            *)
LEMMA AtMostOne ==
    ASSUME NEW S, \A x, y \in S : x = y, NEW e, NEW T, T \subseteq S \cup {e},
           ~(Cardinality(T) > 1)
    PROVE  \A x, y \in T : x = y
<1> SUFFICES ASSUME NEW x \in T, NEW y \in T, x # y PROVE FALSE
  OBVIOUS
<1>1. T = {x, y}
  OBVIOUS
<1>2. IsFiniteSet({x}) /\ Cardinality({x}) = 1
  BY FS_Singleton
<1>3. Cardinality({x} \cup {y}) = 1 + 1
  BY <1>2, FS_AddElement
<1>4. T = {x} \cup {y}
  BY <1>1
<1>5. Cardinality(T) = 2
  BY <1>3, <1>4
<1> QED
  BY <1>5

LEMMA HandlerWhole ==
    ASSUME IndInv, WholeInv, [FollowedNext]_allVars, NEW c \in Calls, Handler(c),
           NEW i \in Instances \ overlapped, ~WritesOverlap(i)
    PROVE  WholeOn(i)'
<1>1. /\ UNCHANGED <<config, operation, executing>>
      /\ \A d \in Calls \ {c} : wire'[d] = wire[d]
      /\ \/ wire'[c] = wire[c]
         \/ param[c].tool # "terminate" => operation[Target(c)] = Absent
  BY HandlerSends DEF cluster
<1>2. /\ WholeOn(i)
      /\ Requests(i) \subseteq Requests(i)'
  BY RequestsStay DEF WholeInv
<1>3. OnTheWire(i)' \subseteq OnTheWire(i) \cup {c}
  BY <1>1, OnTheWireFrame DEF OnTheWire
<1>4. \A x, y \in OnTheWire(i)' : x = y
  BY <1>2, <1>3, AtMostOne DEF WritesOverlap, WholeOn
<1>5. ASSUME OnTheWire(i)' # {} PROVE operation[i] = Absent
  <2>1. CASE OnTheWire(i) # {}
    BY <1>2, <2>1 DEF WholeOn
  <2>2. CASE OnTheWire(i) = {}
    <3>1. c \in OnTheWire(i)' /\ c \notin OnTheWire(i)
      BY <1>3, <1>5, <2>2
    <3>2. /\ wire'[c] = "sent" /\ param[c].tool # "terminate" /\ Target(c) = i
          /\ wire[c] # "sent"
      BY <1>1, <3>1, OnTheWireFrame DEF OnTheWire
    <3> QED
      BY <1>1, <3>2
  <2> QED
    BY <2>1, <2>2
<1> QED
  BY <1>1, <1>2, <1>4, <1>5 DEF WholeOn

LEMMA OtherClientWhole ==
    ASSUME IndInv, WholeInv, [FollowedNext]_allVars, NEW j \in Instances, OtherClient(j),
           NEW i \in Instances \ overlapped, ~WritesOverlap(i)
    PROVE  WholeOn(i)'
<1>1. PICK op \in OtherOperations : operation' = [operation EXCEPT ![j] = op]
  BY DEF OtherClient
<1>2. /\ operation[j] = Absent /\ others' # others
      /\ UNCHANGED <<config, calls, executing>>
  BY OthersAssumption DEF OtherClient, IndInv, TypeOK
<1>3. op # Absent /\ op \in Requests(i)'
  BY OthersAssumption DEF IsAttributed, Absent, Requests
<1>4. WholeOn(i) /\ Requests(i) \subseteq Requests(i)'
  BY RequestsStay DEF WholeInv
<1>5. OnTheWire(i)' = OnTheWire(i)
  BY <1>2 DEF OnTheWire, Target, config, calls
<1>6. CASE i # j
  <2>1. operation'[i] = operation[i]
    BY <1>1, <1>6 DEF IndInv, TypeOK
  <2> QED
    BY <1>2, <1>4, <1>5, <2>1 DEF WholeOn
<1>7. CASE i = j
  <2>1. operation'[i] = op
    BY <1>1, <1>7 DEF IndInv, TypeOK
  <2>2. OnTheWire(i) = {}
    BY <1>2, <1>3, <1>7, <2>1 DEF WritesOverlap
  <2> QED
    BY <1>2, <1>3, <1>4, <1>5, <2>1, <2>2 DEF WholeOn
<1> QED
  BY <1>6, <1>7

LEMMA WholeStep == IndInv /\ WholeInv /\ [FollowedNext]_allVars => WholeInv'
<1> SUFFICES ASSUME IndInv, WholeInv, [FollowedNext]_allVars,
                    NEW i \in Instances, i \notin overlapped'
             PROVE  WholeOn(i)'
  BY DEF WholeInv
<1>0. /\ i \notin overlapped
      /\ OtherWork => ~WritesOverlap(i)
  BY DEF FollowedNext, Queue, Take, End, Become, OtherWork, Compare, Follow, Passes,
         history, allVars
<1>1. WholeOn(i) /\ Requests(i) \subseteq Requests(i)'
  BY <1>0, RequestsStay DEF WholeInv
<1>2. ASSUME NEW c \in Calls, Queue(c) PROVE WholeOn(i)'
  BY <1>0, <1>2, QueueWhole
<1>3. ASSUME NEW j \in Instances, Take(j) \/ End(j) PROVE WholeOn(i)'
  <2>1. UNCHANGED <<config, wire>>
    BY <1>3 DEF Take, End, PickUp, Finish, calls
  <2>2. OnTheWire(i)' = OnTheWire(i)
    BY <2>1 DEF OnTheWire, Target, config
  <2>3. /\ operation'[i] \in {Absent, operation[i]}
        /\ executing'[i] \in {Absent, operation[i], executing[i]}
    <3> USE DEF IndInv, TypeOK
    <3>1. CASE Take(j)
      BY <3>1 DEF Take, PickUp
    <3>2. CASE End(j)
      BY <3>2 DEF End, Finish
    <3> QED
      BY <1>3, <3>1, <3>2
  <2> QED
    BY <1>1, <2>2, <2>3 DEF WholeOn
<1>4. ASSUME NEW c \in Calls, Handler(c), OtherWork PROVE WholeOn(i)'
  BY <1>0, <1>4, HandlerWhole
<1>5. ASSUME NEW c \in Calls, RefusePatch(c) PROVE WholeOn(i)'
  <2>1. /\ UNCHANGED <<config, operation, executing>>
        /\ wire' = [wire EXCEPT ![c] = "refused"]
    BY <1>5 DEF RefusePatch, cluster
  <2>2. \A d \in Calls : wire'[d] = "sent" => wire[d] = "sent"
    BY <2>1 DEF IndInv, TypeOK
  <2>3. OnTheWire(i)' \subseteq OnTheWire(i)
    BY <2>1, <2>2, OnTheWireFrame DEF OnTheWire
  <2> QED
    BY <1>1, <2>1, <2>3 DEF WholeOn
<1>6. ASSUME NEW j \in Instances, OtherClient(j), OtherWork PROVE WholeOn(i)'
  BY <1>0, <1>6, OtherClientWhole
<1>7. CASE UNCHANGED vars
  <2>1. UNCHANGED <<config, operation, executing, wire>>
    BY <1>7 DEF vars, cluster, calls
  <2>2. OnTheWire(i)' = OnTheWire(i)
    BY <2>1 DEF OnTheWire, Target, config
  <2> QED
    BY <1>1, <2>1, <2>2 DEF WholeOn
<1> QED
  BY <1>2, <1>3, <1>4, <1>5, <1>6, <1>7
  DEF FollowedNext, OtherWork, Compare, Follow, Passes, allVars

(* Callers who take turns never find their requests mixed: what an         *)
(* Application carries is one request, whole, unless writes overlapped     *)
(* (operation.go:145-158, tools_write.go:72).                              *)
THEOREM OneRequest == FollowedSpec => []OperationIsOneRequest
<1>1. FollowedInit => WholeInv
  BY DEF FollowedInit, Init, WholeInv, WholeOn, OnTheWire
<1>2. WholeInv => OperationIsOneRequest
  BY DEF WholeInv, WholeOn, OperationIsOneRequest, Carried
<1>3. FollowedSpec => []IndInv
  BY FollowedIsTools, Inductive, PTL
<1> QED
  BY <1>1, <1>2, <1>3, WholeStep, PTL DEF FollowedSpec
=============================================================================
