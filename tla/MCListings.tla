----------------------------- MODULE MCListings -----------------------------
(***************************************************************************)
(* Small instances of Listings.                                            *)
(***************************************************************************)
EXTENDS Listings

TwoNamespaces == <<"argocd", "team">>
=============================================================================
