--------------------------- MODULE MCRefreshTool ----------------------------
(***************************************************************************)
(* Small instances of RefreshTool.                                         *)
(***************************************************************************)
EXTENDS RefreshTool

Ask(hard, wait, timeout) == [hard |-> hard, wait |-> wait, timeoutSeconds |-> timeout]

(* Polls are two seconds apart, so a wait of 2 seconds ends on a poll, and *)
(* the last sleep of a wait of 3 passes its deadline.                      *)
SomeKinds ==
    {Ask(FALSE, TRUE, 3), Ask(FALSE, TRUE, 2), Ask(TRUE, TRUE, 2), Ask(FALSE, FALSE, 1)}
=============================================================================
