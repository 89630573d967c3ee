----------------------------- MODULE MCWaitTool -----------------------------
(***************************************************************************)
(* Small instances of WaitTool.                                            *)
(***************************************************************************)
EXTENDS WaitTool

(* Explicit, defaulted and clamped intervals, some longer than the wait.   *)
ShortWaits ==
    {[timeoutSeconds |-> t, pollSeconds |-> p, forHealthy |-> h] :
        t \in {-1, 1, 2, 5}, p \in {0, 1, 2, 45}, h \in BOOLEAN}
=============================================================================
