---------------------------- MODULE MCAgentAuth -----------------------------
(***************************************************************************)
(* Small instances of AgentAuth.                                           *)
(***************************************************************************)
EXTENDS AgentAuth, TLC

RequestSymmetry == Permutations(Requests)

Laptop == [n \in {"laptop"} |-> "s1"]

String(words) == [kind |-> "string", words |-> words]
List(words)   == [kind |-> "list", words |-> words]
Missing       == [kind |-> "absent", words |-> {}]

Good ==
    [valid |-> TRUE, scope |-> String({"mcp.access", "openid"}), scp |-> Missing,
     groups |-> List({"admins", "sre"}), subject |-> "daniel", username |-> ""]

SomeClaims ==
    ("good" :> Good) @@
    ("expired" :> [Good EXCEPT !.valid = FALSE]) @@
    ("outsider" :> [Good EXCEPT !.groups = List({"sre"})]) @@
    ("spread" :> [Good EXCEPT !.scope = String({"openid"}), !.scp = List({"mcp.access"}),
                              !.username = "alice"]) @@
    ("namesake" :> [Good EXCEPT !.username = "static:ci"]) @@
    ("single" :> [Good EXCEPT !.scope = Missing, !.scp = String({"mcp.access"})]) @@
    ("listed" :> [Good EXCEPT !.scope = List({"mcp.access"}),
                              !.groups = String({"admins", "sre"})])
=============================================================================
