----------------------------- MODULE MCTusStore -----------------------------
(***************************************************************************)
(* Two handlers, two sessions.  Upload "u1" goes to a name the spool can   *)
(* be renamed to and "u2" to one on another filesystem.                    *)
(***************************************************************************)
EXTENDS TusStore, TLC

TwoUploads == {"u1", "u2"}
TwoTargets == {"near", "far"}
TargetOf == [u \in TwoUploads |-> IF u = "u1" THEN "near" ELSE "far"]
SizeOf == [u \in TwoUploads |-> IF u = "u1" THEN 2 ELSE 1]

\* The handlers run the same code and no property names one of them.
HandlerSymmetry == Permutations(Handlers)
=============================================================================
