--------------------------- MODULE MCGuardedTools ---------------------------
(***************************************************************************)
(* Small instances of GuardedTools.                                        *)
(***************************************************************************)
EXTENDS GuardedTools, MCOperationTools

(* Another client's sync, and its rollback, which names a source.          *)
TheirRollback == {[SyncPatch(RollbackRequest(BobRollback, History[2])) EXCEPT
                    !.initiatedBy = <<"carol">>]}

SyncAndRollback == Theirs \cup TheirRollback
=============================================================================
