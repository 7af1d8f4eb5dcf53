----------------------------- MODULE ListingMC ------------------------------
(***************************************************************************)
(* A bucket of three levels: the first page of the root ends in a file but *)
(* its last node is a prefix; one directory has a directory-like key.      *)
(***************************************************************************)
EXTENDS Listing

MCKey == {<<1, 0>>, <<1, 1>>, <<1, 2, 1>>, <<2>>, <<3>>}
MCExcluded == {<<3>>, <<1, 2, 1>>}
MCClient == AllClients
=============================================================================
