-------------------------- MODULE MCOperationTools --------------------------
(***************************************************************************)
(* Small instances of OperationTools.                                      *)
(***************************************************************************)
EXTENDS OperationTools, TLC

CallSymmetry == Permutations(Calls)

Plain ==
    [tool |-> "sync", instance |-> "", name |-> "guestbook", user |-> "",
     revision |-> "", prune |-> FALSE, dryRun |-> FALSE, syncOptions |-> <<>>,
     resources |-> <<>>, strategy |-> "", force |-> FALSE, retryLimit |-> 0,
     reason |-> <<>>, id |-> 0]

AliceSync     == [Plain EXCEPT !.user = "alice", !.revision = "v1", !.prune = TRUE,
                               !.strategy = "hook"]
BobSync       == [Plain EXCEPT !.user = "bob", !.strategy = "apply", !.force = TRUE,
                               !.retryLimit = 2]
BadSync       == [Plain EXCEPT !.force = TRUE]
AliceRollback == [Plain EXCEPT !.tool = "rollback", !.user = "alice", !.id = 1]
BobRollback   == [Plain EXCEPT !.tool = "rollback", !.user = "bob", !.id = 2, !.force = TRUE]
NoSuchEntry   == [Plain EXCEPT !.tool = "rollback", !.id = 7]
MultiRollback == [Plain EXCEPT !.tool = "rollback", !.id = 3, !.force = TRUE]
Terminate     == [Plain EXCEPT !.tool = "terminate"]

On(p, instance) == [p EXCEPT !.instance = instance]

ConcurrentParams == {AliceSync, BobSync, AliceRollback, BobRollback, Terminate}

(* One source given by path, one by chart, and a multi-source entry, whose *)
(* revision is empty: it has revisions instead.                            *)
History ==
    <<[id |-> 1, revision |-> "v1", sources |-> <<>>,
       source |-> [f \in {"source.repoURL", "source.path"} |-> "git"]],
      [id |-> 2, revision |-> "v2", sources |-> <<>>,
       source |-> [f \in {"source.repoURL", "source.chart"} |-> "helm"]],
      [id |-> 3, revision |-> "", sources |-> <<"git", "helm">>, source |-> Absent]>>

NoTarget == [autoSync |-> FALSE, targetRevisions |-> <<"">>, history |-> History]

OneSetting == {NoTarget}

Theirs ==
    {SyncPatch([revision |-> "v9", prune |-> TRUE, dryRun |-> FALSE, syncOptions |-> <<>>,
                resources |-> <<>>, strategy |-> "", force |-> FALSE, retryLimit |-> 0,
                initiatedBy |-> <<"carol">>, reason |-> <<>>, source |-> Absent,
                sources |-> <<>>])}
=============================================================================
