------------------------------ MODULE MCProbes ------------------------------
(***************************************************************************)
(* Small instances of Probes.                                              *)
(***************************************************************************)
EXTENDS Probes

InOrder == <<"local", "remote">>
=============================================================================
