---------------------------- MODULE AtomicUpload ----------------------------
(***************************************************************************)
(* What the kernel promises about one upload, whatever the number of       *)
(* request handlers, restarts and failed writes behind it.  A session is   *)
(* opened once, receives bytes while it is open, and ends in exactly one   *)
(* of two ways: its whole content appears under its target name, or it is  *)
(* discarded and nothing appears.  Publishing is a single step: the file   *)
(* and the end of the session become visible together.                     *)
(***************************************************************************)
EXTENDS Integers

CONSTANTS Uploads,      \* upload ids, each given to one session only
          Targets,      \* names in the served tree
          Target,       \* the name each upload is to appear under
          Size,         \* the length each upload declares
          None

VARIABLES status,       \* where each session is in its life
          received,     \* bytes held for each open session
          files         \* the upload whose content each name holds, or None

abstractVars == <<status, received, files>>

Init ==
  /\ status = [u \in Uploads |-> "new"]
  /\ received = [u \in Uploads |-> 0]
  /\ files = [t \in Targets |-> None]

Open(u) ==
  /\ status[u] = "new"
  /\ status' = [status EXCEPT ![u] = "open"]
  /\ UNCHANGED <<received, files>>

\* An open session only ever grows, and never beyond its declared length.
Receive(u) ==
  /\ status[u] = "open"
  /\ \E n \in received[u] .. Size[u] : received' = [received EXCEPT ![u] = n]
  /\ UNCHANGED <<status, files>>

Publish(u) ==
  /\ status[u] = "open"
  /\ received[u] = Size[u]
  /\ status' = [status EXCEPT ![u] = "published"]
  /\ received' = [received EXCEPT ![u] = 0]
  /\ files' = [files EXCEPT ![Target[u]] = u]

Discard(u) ==
  /\ status[u] = "open"
  /\ status' = [status EXCEPT ![u] = "discarded"]
  /\ received' = [received EXCEPT ![u] = 0]
  /\ UNCHANGED files

Next == \E u \in Uploads : Open(u) \/ Receive(u) \/ Publish(u) \/ Discard(u)

Spec == Init /\ [][Next]_abstractVars
=============================================================================
