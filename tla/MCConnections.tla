--------------------------- MODULE MCConnections ---------------------------
(***************************************************************************)
(* Small instances of Connections: two records, one pair of keys, three    *)
(* validations, requests and reloads.                                      *)
(***************************************************************************)
EXTENDS Connections
=============================================================================
