---------------------------- MODULE MCToolMetrics ---------------------------
(***************************************************************************)
(* Small instances of ToolMetrics.                                         *)
(***************************************************************************)
EXTENDS ToolMetrics, MCGuardedTools

(* One Application's name and one strategy are mistaken for a word.        *)
ReadOnlyDemo(name) == IF name \in {"readonly-demo", "readonly"} THEN {"readonly"} ELSE {}

(* Automated sync refuses the rollbacks that are not forced.               *)
Automatic == {[NoTarget EXCEPT !.autoSync = TRUE]}

MeteredParams ==
    {AliceSync, [BadSync EXCEPT !.strategy = "readonly"], AliceRollback,
     [NoSuchEntry EXCEPT !.name = "readonly-demo"], MultiRollback, Terminate,
     [Plain EXCEPT !.name = ""], On(AliceSync, "nowhere"), On(BobSync, "remote"),
     On(BobRollback, "remote")}
=============================================================================
