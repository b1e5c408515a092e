--------------------------- MODULE MCS3Multipart ---------------------------
(***************************************************************************)
(* Small instances of S3Multipart: two items of the queue, a file of two   *)
(* parts that is edited once, two part workers.                            *)
(***************************************************************************)
EXTENDS S3Multipart
=============================================================================
