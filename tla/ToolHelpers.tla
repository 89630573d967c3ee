---------------------------- MODULE ToolHelpers -----------------------------
(***************************************************************************)
(* Helpers the tools of internal/mcpserver share.                          *)
(***************************************************************************)
EXTENDS Integers

(* An argument the caller left out, or gave as a negative, is the default. *)
Clamp(v, min, max, def) ==
    IF v <= 0 THEN def
    ELSE IF v < min THEN min
    ELSE IF v > max THEN max
    ELSE v
=============================================================================
