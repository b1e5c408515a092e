--------------------------- MODULE MCUploadQueue ---------------------------
(* The upload queue on two destinations, one of them the free name of the  *)
(* other.                                                                  *)
EXTENDS UploadQueue, TLC

CONSTANTS a, b

MCPaths == {a, b}
MCRenamed == (a :> b) @@ (b :> a)
=============================================================================
