----------------------------- MODULE WriteGuard -----------------------------
(***************************************************************************)
(* The write guard, internal/argocd/guard.go: the admission policy that    *)
(* limits what this server's credentials may change on an Application, and *)
(* the patch that probes for it.  An Application is [spec, operation,      *)
(* history], its operation flattened as in ArgoDomain.                     *)
(***************************************************************************)
EXTENDS ArgoDomain

OverridesSource(op) == DOMAIN op \cap (SourceFields \cup {"sources"}) # {}

(* Fault: a source that was there before is not held against the patch.    *)
TestsOnlyTheChange(old, new) ==
    /\ new.spec = old.spec
    /\ OverridesSource(new.operation) => OverridesSource(old.operation)
    /\ new.history = old.history

(* The three rules judge the merged object, not the patch.                 *)
GuardAdmits(old, new) ==
    /\ new.spec = old.spec
    /\ ~OverridesSource(new.operation)
    /\ new.history = old.history

(* A deliberately forbidden patch.                                         *)
GuardProbePatch(application) == [application EXCEPT !.spec = "argocd-mcp-write-guard-probe"]
=============================================================================
