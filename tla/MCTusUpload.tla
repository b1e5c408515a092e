----------------------------- MODULE MCTusUpload -----------------------------
(* One file of two bytes, sent one byte at a time. *)
EXTENDS TusUpload, TLC

TheTarget == [u \in Uploads |-> "file"]
TwoBytes == [u \in Uploads |-> 2]
OneByte == [u \in Uploads |-> 1]

ClientSymmetry == Permutations(Handlers) \cup Permutations(Tabs) \cup Permutations(Uploads)
=============================================================================
