--------------------------- MODULE MCFollowedSync ---------------------------
(***************************************************************************)
(* Small instances of FollowedSync.                                        *)
(***************************************************************************)
EXTENDS FollowedSync, MCOperationTools

FollowedParams == {AliceSync, BobRollback, Terminate}

QuickWait == {[timeoutSeconds |-> 2, pollSeconds |-> 1, forHealthy |-> TRUE]}
=============================================================================
