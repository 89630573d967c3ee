----------------------------- MODULE ToolMetrics ----------------------------
(***************************************************************************)
(* amcp_tool_calls_total: the wrapper addTool puts around every tool       *)
(* (internal/mcpserver/instrument.go) counts a call by the words in the    *)
(* text of its answer, while the handler counts the same call in           *)
(* amcp_operations_total and amcp_writes_blocked_total by where it is in   *)
(* the code.  A text is the set of the words classifyResult looks for in   *)
(* it.                                                                     *)
(***************************************************************************)
EXTENDS GuardedTools, Bags

CONSTANT WordsIn(_)    \* the words that are part of the name of an
                       \* Application (and its namespace), of an instance
                       \* (and its address) or of a sync strategy

Words   == {"forbidden", "already in progress", "read-only", "readonly"}

ASSUME WordsAssumption == \A i \in Instances : WordsIn(i) \subseteq Words

VARIABLE toolCalls    \* a bag: how often each combination of labels was counted

meteredVars == <<guardVars, toolCalls>>

(* The instance asked for: one that is not configured is counted too.      *)
instanceLabel(c) == Target(c)

(* Fault: the spelling of the instance gate's text is not thought of.      *)
SpellsReadOnlyOneWay(result, text) ==
    IF result = "ok"                      THEN "ok"
    ELSE IF "forbidden" \in text           THEN "forbidden"
    ELSE IF "already in progress" \in text THEN "conflict"
    ELSE IF "read-only" \in text           THEN "blocked"
    ELSE                                       "error"

(* The first match wins.                                                   *)
classifyResult(result, text) ==
    IF result = "ok"                                THEN "ok"
    ELSE IF "forbidden" \in text                     THEN "forbidden"
    ELSE IF "already in progress" \in text           THEN "conflict"
    ELSE IF text \cap {"read-only", "readonly"} # {} THEN "blocked"
    ELSE                                                 "error"

-----------------------------------------------------------------------------

(* What the API server's or the network's errors may say: a refusal by     *)
(* RBAC or the policy says so, and most of them quote the object's name.   *)
ApiErrors(c) ==
    {{}, {"forbidden"}, WordsIn(param[c].name), {"forbidden"} \cup WordsIn(param[c].name)}

(* What the tool itself says against the call: SyncPatch quotes a strategy *)
(* it does not know.                                                       *)
RefusalTexts(c) ==
    LET named    == WordsIn(param[c].name)
        strategy == param[c].strategy
    IN  CASE param[c].tool = "terminate" -> {named}
          [] param[c].tool = "rollback"  -> {{}, named}
          [] param[c].tool = "sync"      ->
                {IF strategy \in {"", "apply", "hook"} THEN {} ELSE WordsIn(strategy)}

ErrorTexts(c) ==
    IF ~Known(c) THEN {WordsIn(Target(c)) \cup UNION {WordsIn(i) : i \in Instances}}
    ELSE IF status[c] = "new" /\ operations' # operations THEN RefusalTexts(c)
    ELSE ApiErrors(c)

(* The texts call c may be answered with in the current step.              *)
Texts(c) ==
    CASE status'[c] = "ok"       -> {{}}
      [] status'[c] = "error"    -> ErrorTexts(c)
      [] status'[c] = "conflict" -> {{"already in progress"} \cup WordsIn(param[c].name)}
      [] status'[c] = "blocked"  ->
            {IF readOnly THEN {"read-only"} ELSE {"readonly"} \cup WordsIn(Target(c))}

Answered(c) == status[c] \notin Answers /\ status'[c] \in Answers

RecordTool(c) ==
    \E text \in Texts(c) :
        LET label == <<instanceLabel(c), param[c].tool, classifyResult(status'[c], text)>>
        IN  toolCalls' = toolCalls (+) SetToBag({label})

MeteredInit ==
    /\ GuardedInit
    /\ toolCalls = EmptyBag

MeteredNext ==
    /\ GuardedNext
    /\ \/ \E c \in Calls : Answered(c) /\ RecordTool(c)
       \/ (\A c \in Calls : ~Answered(c)) /\ UNCHANGED toolCalls

MeteredSpec == MeteredInit /\ [][MeteredNext]_meteredVars

-----------------------------------------------------------------------------
(* Properties.                                                             *)

Quotes(c) ==
    WordsIn(param[c].name) \cup WordsIn(Target(c)) \cup WordsIn(param[c].strategy) # {}

Called(i, tool, result) ==
    LET label == <<i, tool, result>>
    IN  IF BagIn(label, toolCalls) THEN toolCalls[label] ELSE 0

(* The label read off the text and the counter kept by the code tell the   *)
(* same story of every instance nothing of whose name, or of the names and *)
(* strategies it is called with, is mistaken for one of the words: the     *)
(* conflicts and the successes of every tool, the writes the gates         *)
(* blocked, and no failed operation that is labelled as anything but an    *)
(* error or forbidden.  A strategy "readonly" is mistaken, and labelled    *)
(* blocked, where the handler counts an error.                             *)
LabelsAgreeWithCounters ==
    \A i \in Instances :
        (\A c \in Calls : Target(c) = i => ~Quotes(c)) =>
            /\ \A tool \in Tools :
                /\ \A r \in {"ok", "conflict"} :
                        Called(i, tool, r) = operations[<<i, tool, r>>]
                /\ operations[<<i, tool, "error">>]
                        <= Called(i, tool, "error") + Called(i, tool, "forbidden")
            /\ Called(i, "sync", "blocked") + Called(i, "rollback", "blocked")
                        + Called(i, "terminate", "blocked")
                    = writesBlocked[<<i, "global_readonly">>]
                        + writesBlocked[<<i, "instance_readonly">>]
=============================================================================
