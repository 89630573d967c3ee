---------------------------- MODULE GuardedTools ----------------------------
(***************************************************************************)
(* The write tools on instances where the write guard may be enforced:     *)
(* every patch of this server's goes through the policy once it has been   *)
(* merged into the Application as it is by then.  The controller and other *)
(* clients are not subject to it.                                          *)
(***************************************************************************)
EXTENDS OperationTools, WriteGuard

VARIABLE enforced   \* the instances whose cluster enforces the policy

guardVars == <<vars, enforced>>

Application(i, op) ==
    [spec |-> settings[i].targetRevisions, operation |-> op, history |-> settings[i].history]

Admitted(c) ==
    LET i == Target(c) IN
    i \in enforced =>
        GuardAdmits(Application(i, operation[i]),
                    Application(i, MergePatch(operation[i], patch[c].operation)))

Apply(c) ==
    /\ ApplyPatch(c)
    /\ Admitted(c)
    /\ UNCHANGED enforced

Deny(c) ==
    /\ RefusePatch(c)
    /\ ~Admitted(c)
    /\ UNCHANGED enforced

OtherSteps ==
    /\ \/ \E c \in Calls : Handler(c) \/ RefusePatch(c)
       \/ \E i \in Instances : Controller(i) \/ OtherClient(i)
    /\ UNCHANGED enforced

GuardedInit ==
    /\ Init
    /\ enforced \in SUBSET Instances

GuardedNext ==
    \/ \E c \in Calls : Apply(c) \/ Deny(c)
    \/ OtherSteps

GuardedSpec == GuardedInit /\ [][GuardedNext]_guardVars

-----------------------------------------------------------------------------
(* Properties.                                                             *)

(* Where the guard is enforced, an operation that deploys from a source of *)
(* its own is another client's, untouched: this server neither queued it   *)
(* nor changed anything in it, though its patches are merged into whatever *)
(* operation they find.                                                    *)
SourceOverridesAreOthers ==
    \A i \in enforced : \A op \in Carried(i) :
        OverridesSource(op) => op \in OtherOperations

(* e2e_guard_test.go, "everything the MCP legitimately does must still     *)
(* work", and values.yaml, "`patch` on applications (app_sync /            *)
(* app_refresh / app_rollback / app_terminate_operation)": on an idle      *)
(* Application the guard denies none of the tools.                         *)
GuardLetsTheToolsWork ==
    \A c \in Calls : wire[c] = "sent" /\ operation[Target(c)] = Absent => Admitted(c)
=============================================================================
