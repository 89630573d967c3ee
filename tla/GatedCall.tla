----------------------------- MODULE GatedCall ------------------------------
(***************************************************************************)
(* What every mutating tool promises its caller, without saying how: the   *)
(* read-only gates decide which calls may ever have an effect, a call has  *)
(* its effect at most once, "ok" is only said of an effect that took       *)
(* place, and a refusal is final.  "failed" is the honest answer to a      *)
(* reply that was lost: the effect may be there, or may still come.        *)
(***************************************************************************)
CONSTANT Calls

VARIABLES
    admitted,   \* the calls the read-only gates let through, fixed by the configuration
    answer,     \* what each caller was told; "open" until then
    effect      \* the calls whose write reached the Application

vars == <<admitted, answer, effect>>

TypeOK ==
    /\ admitted \subseteq Calls
    /\ answer \in [Calls -> {"open", "ok", "refused", "failed"}]
    /\ effect \subseteq Calls

Init ==
    /\ admitted \in SUBSET Calls
    /\ answer = [c \in Calls |-> "open"]
    /\ effect = {}

Tell(c, a) ==
    /\ answer[c] = "open"
    /\ answer' = [answer EXCEPT ![c] = a]
    /\ UNCHANGED <<admitted, effect>>

Refuse(c)  == c \notin effect /\ Tell(c, "refused")
Fail(c)    == c \in admitted /\ Tell(c, "failed")
Succeed(c) == c \in effect /\ Tell(c, "ok")

Commit(c) ==
    /\ c \in admitted \ effect
    /\ answer[c] \in {"open", "failed"}
    /\ effect' = effect \cup {c}
    /\ UNCHANGED <<admitted, answer>>

Next == \E c \in Calls : Refuse(c) \/ Fail(c) \/ Succeed(c) \/ Commit(c)

Spec == Init /\ [][Next]_vars
=============================================================================
