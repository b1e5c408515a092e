------------------------------ MODULE TusStore ------------------------------
(***************************************************************************)
(* The kernel's upload store (src/state.rs) behind its tus request         *)
(* handlers (src/transport.rs).                                            *)
(*                                                                         *)
(* A session is two files: the spool, which holds the bytes received so    *)
(* far and whose length is the offset, and the sidecar, which holds the    *)
(* declared target, length and checksum.  Nothing else is remembered: a    *)
(* restart finds what the files say.  Every operation of the store runs    *)
(* under one mutex, but a PATCH request is three such operations (look up  *)
(* and compare offsets, append, finalize) with the lock free in between.   *)
(*                                                                         *)
(* Content is abstracted to positions: byte i of what the client declared  *)
(* is the number i, and a byte that differs from what was declared is 0.   *)
(* The declared target and length are fixed per upload id (an id is a      *)
(* fresh UUID), so a sidecar is just present or absent, and the checksum   *)
(* of a spool is right when the spool is Whole(u).                         *)
(***************************************************************************)
EXTENDS Integers, Sequences, FiniteSets

CONSTANTS Uploads,      \* upload ids
          Handlers,     \* requests the server works on at the same time
          Targets,      \* names in the served tree
          Target,       \* [Uploads -> Targets], the declared path
          Size,         \* [Uploads -> Nat], the declared length
          OffDevice,    \* targets on another filesystem than the spool
          MaxBody,      \* bound: bytes in the body of one PATCH
          None

ASSUME UploadAssumption ==
  /\ Target \in [Uploads -> Targets]
  /\ Size \in [Uploads -> Nat]
  /\ OffDevice \subseteq Targets
  /\ MaxBody \in Nat

ASSUME NoneAssumption ==
  /\ None \notin Handlers
  /\ None \notin Uploads
  /\ None \notin Seq(Nat)
  /\ None \notin [from : Uploads, data : Seq(Nat)]

VARIABLES spool,        \* the spool file of each upload, None when there is none
          sidecars,     \* the uploads whose sidecar exists
          files,        \* what each target name holds: [from, data], or None
          lock,         \* the handler inside the store's mutex, or None
          pc,           \* what each handler does next
          req,          \* each handler's locals, None when idle
          opened,       \* history: uploads whose creation took effect
          published,    \* history: uploads whose content reached its target
          reported,     \* history: largest offset a client was told
          announced,    \* history: largest offset in an upload_progress event
          completed,    \* history: uploads a client was told are complete
          faulted       \* history: the server crashed or a file operation failed

store == <<spool, sidecars, files>>
handlers == <<lock, pc, req>>
history == <<opened, published, reported, announced, completed, faulted>>
vars == <<store, handlers, history>>

Bytes == Nat
Contents == [from : Uploads, data : Seq(Bytes)]
Whole(u) == [i \in 1..Size[u] |-> i]

Codes == {"pending", "created", "offset", "patched", "deleted",
          "missing", "conflict", "mismatch", "failed"}

Steps == {"idle", "create_sidecar", "append", "announce", "finalize",
          "copy", "remove_spool", "remove_sidecar", "reply"}

Request(u, off, body) ==
  [id |-> u, off |-> off, body |-> body, code |-> "pending", upto |-> 0]

\* The bodies a client may send at an offset: the bytes it declared for that
\* place, or as many bytes of a file that changed after it was hashed.
Bodies(off) ==
  {[i \in 1..n |-> off + i] : n \in 0..MaxBody}
    \cup {[i \in 1..n |-> 0] : n \in 1..MaxBody}

-----------------------------------------------------------------------------
Init ==
  /\ spool = [u \in Uploads |-> None]
  /\ sidecars = {}
  /\ files = [t \in Targets |-> None]
  /\ lock = None
  /\ pc = [h \in Handlers |-> "idle"]
  /\ req = [h \in Handlers |-> None]
  /\ opened = {}
  /\ published = {}
  /\ reported = [u \in Uploads |-> 0]
  /\ announced = [u \in Uploads |-> 0]
  /\ completed = {}
  /\ faulted = FALSE

-----------------------------------------------------------------------------
(* The store's own helpers. *)

\* load_record: a session exists when both of its files do.
SessionOpen(u) == spool[u] # None /\ u \in sidecars

\* A new UUID: no file and no past session bears it.
FreshId(u) == spool[u] = None /\ u \notin sidecars /\ u \notin opened

\* Mutated: a spool of the declared length is taken as it is.
LengthMatches(u) == Len(spool[u]) = Size[u]

\* hash_spool against the declared checksum.
ChecksumMatches(u) == spool[u] = Whole(u)

Goto(h, step) == pc' = [pc EXCEPT ![h] = step]

\* What is left of a request once its body is used.
Outcome(u, code, upto) ==
  [id |-> u, off |-> 0, body |-> <<>>, code |-> code, upto |-> upto]

\* The handler is done: its answer is on its way to the client.
Answer(h, u, code, upto) ==
  /\ Goto(h, "reply")
  /\ req' = [req EXCEPT ![h] = Outcome(u, code, upto)]

-----------------------------------------------------------------------------
(* POST /api/upload: create_upload holds the lock from the empty spool to  *)
(* the sidecar, which is renamed into place and so appears whole.          *)

CreateSpool(h, u) ==
  /\ pc[h] = "idle"
  /\ lock = None
  /\ FreshId(u)
  /\ spool' = [spool EXCEPT ![u] = <<>>]
  /\ lock' = h
  /\ Goto(h, "create_sidecar")
  /\ req' = [req EXCEPT ![h] = Request(u, 0, <<>>)]
  /\ UNCHANGED <<sidecars, files, history>>

CreateSidecar(h) ==
  /\ pc[h] = "create_sidecar"
  /\ sidecars' = sidecars \cup {req[h].id}
  /\ opened' = opened \cup {req[h].id}
  /\ lock' = None
  /\ Answer(h, req[h].id, "created", 0)
  /\ UNCHANGED <<spool, files, published, reported, announced, completed, faulted>>

\* Mutated: the error path leaves the mutex locked.
CreateSidecarFailsLocked(h) ==
  /\ pc[h] = "create_sidecar"
  /\ Answer(h, req[h].id, "failed", 0)
  /\ faulted' = TRUE
  /\ UNCHANGED <<store, lock, opened, published, reported, announced, completed>>

\* write_meta_atomic fails: the error leaves the empty spool behind.
CreateSidecarFails(h) ==
  /\ pc[h] = "create_sidecar"
  /\ lock' = None
  /\ Answer(h, req[h].id, "failed", 0)
  /\ faulted' = TRUE
  /\ UNCHANGED <<store, opened, published, reported, announced, completed>>

-----------------------------------------------------------------------------
(* HEAD /api/upload/:id *)

\* Mutated: the position of the last byte is reported instead of the offset.
HeadLastByte(h, u) ==
  /\ pc[h] = "idle"
  /\ lock = None
  /\ SessionOpen(u)
  /\ Answer(h, u, "offset", Len(spool[u]) - 1)
  /\ UNCHANGED <<store, lock, history>>

HeadUpload(h, u) ==
  /\ pc[h] = "idle"
  /\ lock = None
  /\ \/ /\ SessionOpen(u)
        /\ Answer(h, u, "offset", Len(spool[u]))
     \/ /\ ~SessionOpen(u)
        /\ Answer(h, u, "missing", 0)
  /\ UNCHANGED <<store, lock, history>>

-----------------------------------------------------------------------------
(* PATCH /api/upload/:id *)

\* First lock section: look the session up and compare offsets.
PatchCheck(h, u, off, body) ==
  /\ pc[h] = "idle"
  /\ lock = None
  /\ \/ /\ SessionOpen(u) /\ Len(spool[u]) = off
        /\ Goto(h, "append")
        /\ req' = [req EXCEPT ![h] = Request(u, off, body)]
     \/ /\ SessionOpen(u) /\ Len(spool[u]) # off
        /\ Answer(h, u, "conflict", 0)
     \/ /\ ~SessionOpen(u)
        /\ Answer(h, u, "missing", 0)
  /\ UNCHANGED <<store, lock, history>>

\* Mutated: the declared length bounds the body alone.
FitsAlone(u, body) == Len(body) <= Size[u]

\* Second lock section.  The offset is not compared again: only the declared
\* length bounds what a second request with the same offset can add.
Fits(u, body) == Len(spool[u]) + Len(body) <= Size[u]

\* Mutated: the body is written at the offset the request names.
PatchWriteAt(h) ==
  LET u == req[h].id
      r == req[h]
  IN /\ pc[h] = "append"
     /\ lock = None
     /\ SessionOpen(u) /\ r.off + Len(r.body) <= Size[u]
     /\ spool' = [spool EXCEPT ![u] = SubSeq(@, 1, r.off) \o r.body]
     /\ Goto(h, "announce")
     /\ req' = [req EXCEPT ![h] = Outcome(u, "pending", r.off + Len(r.body))]
     /\ UNCHANGED <<sidecars, files, lock, history>>

PatchAppend(h) ==
  LET u == req[h].id
      body == req[h].body
  IN /\ pc[h] = "append"
     /\ lock = None
     /\ \/ /\ SessionOpen(u) /\ Fits(u, body)
           /\ spool' = [spool EXCEPT ![u] = @ \o body]
           /\ Goto(h, "announce")
           /\ req' = [req EXCEPT ![h] =
                        Outcome(u, "pending", Len(spool[u]) + Len(body))]
        \/ /\ SessionOpen(u) /\ ~Fits(u, body)
           /\ Answer(h, u, "failed", 0)
           /\ UNCHANGED spool
        \/ /\ ~SessionOpen(u)
           /\ Answer(h, u, "missing", 0)
           /\ UNCHANGED spool
     /\ UNCHANGED <<sidecars, files, lock, history>>

\* write_all fails part of the way: some of the body is in the spool.
PatchAppendFails(h) ==
  LET u == req[h].id
      body == req[h].body
  IN /\ pc[h] = "append"
     /\ lock = None
     /\ SessionOpen(u) /\ Fits(u, body)
     /\ \E n \in 0 .. Len(body) - 1 :
          spool' = [spool EXCEPT ![u] = @ \o SubSeq(body, 1, n)]
     /\ Answer(h, u, "failed", 0)
     /\ faulted' = TRUE
     /\ UNCHANGED <<sidecars, files, lock,
                    opened, published, reported, announced, completed>>

Larger(a, b) == IF a >= b THEN a ELSE b

\* Outside the lock: the event goes out, and the offset this request reached
\* decides whether it finalizes.
PatchAnnounce(h) ==
  LET u == req[h].id
      upto == req[h].upto
  IN /\ pc[h] = "announce"
     /\ announced' = [announced EXCEPT ![u] = Larger(@, upto)]
     /\ \/ /\ upto = Size[u]
           /\ Goto(h, "finalize")
           /\ UNCHANGED req
        \/ /\ upto # Size[u]
           /\ Answer(h, u, "patched", upto)
     /\ UNCHANGED <<store, lock, opened, published, reported, completed, faulted>>

(* Third lock section, finalize_upload.  The record is looked up again,     *)
(* since a DELETE or another PATCH may have ended the session.  The lock is *)
(* held from the first file operation until the sidecar is removed.         *)

ReadyToFinalize(u) == SessionOpen(u) /\ Len(spool[u]) = Size[u]

\* Mutated: a session that is gone is taken for one that was finalized before.
FinalizeGoneIsDone(h) ==
  /\ ~ReadyToFinalize(req[h].id)
  /\ Answer(h, req[h].id, "patched", req[h].upto)
  /\ UNCHANGED <<store, lock, published>>

FinalizeGone(h) ==
  /\ ~ReadyToFinalize(req[h].id)
  /\ Answer(h, req[h].id, "missing", 0)
  /\ UNCHANGED <<store, lock, published>>

\* Mutated: a rejected session keeps its sidecar.
FinalizeMismatchKeepsSidecar(h) ==
  LET u == req[h].id
  IN /\ ReadyToFinalize(u) /\ ~ChecksumMatches(u)
     /\ spool' = [spool EXCEPT ![u] = None]
     /\ Answer(h, u, "mismatch", 0)
     /\ UNCHANGED <<sidecars, files, lock, published>>

FinalizeMismatch(h) ==
  LET u == req[h].id
  IN /\ ReadyToFinalize(u) /\ ~ChecksumMatches(u)
     /\ spool' = [spool EXCEPT ![u] = None]
     /\ lock' = h
     /\ Goto(h, "remove_sidecar")
     /\ req' = [req EXCEPT ![h] = [@ EXCEPT !.code = "mismatch"]]
     /\ UNCHANGED <<sidecars, files, published>>

FinalizeRename(h) ==
  LET u == req[h].id
  IN /\ ReadyToFinalize(u) /\ ChecksumMatches(u)
     /\ Target[u] \notin OffDevice
     /\ files' = [files EXCEPT ![Target[u]] = [from |-> u, data |-> spool[u]]]
     /\ spool' = [spool EXCEPT ![u] = None]
     /\ published' = published \cup {u}
     /\ lock' = h
     /\ Goto(h, "remove_sidecar")
     /\ req' = [req EXCEPT ![h] = [@ EXCEPT !.code = "patched"]]
     /\ UNCHANGED sidecars

FinalizeCopy(h) ==
  LET u == req[h].id
  IN /\ ReadyToFinalize(u) /\ ChecksumMatches(u)
     /\ Target[u] \in OffDevice
     /\ files' = [files EXCEPT ![Target[u]] = [from |-> u, data |-> <<>>]]
     /\ lock' = h
     /\ Goto(h, "copy")
     /\ UNCHANGED <<spool, sidecars, req, published>>

Finalize(h) ==
  /\ pc[h] = "finalize"
  /\ lock = None
  /\ \/ FinalizeGone(h)
     \/ FinalizeMismatch(h)
     \/ FinalizeRename(h)
     \/ FinalizeCopy(h)
  /\ UNCHANGED <<opened, reported, announced, completed, faulted>>

\* Reading the spool, resolving the target, creating its directory or the rename
\* fails: nothing changes, and the session stays open, full and unpublished.
FinalizeFails(h) ==
  /\ pc[h] = "finalize"
  /\ lock = None
  /\ ReadyToFinalize(req[h].id)
  /\ Answer(h, req[h].id, "failed", 0)
  /\ faulted' = TRUE
  /\ UNCHANGED <<store, lock, opened, published, reported, announced, completed>>

\* copy_file_into_place, for a target the spool cannot be renamed to: the
\* target is truncated first and filled in place.
CopyFile(h) ==
  LET u == req[h].id
  IN /\ pc[h] = "copy"
     /\ files' = [files EXCEPT ![Target[u]] = [from |-> u, data |-> spool[u]]]
     /\ published' = published \cup {u}
     /\ Goto(h, "remove_spool")
     /\ UNCHANGED <<spool, sidecars, lock, req,
                    opened, reported, announced, completed, faulted>>

CopyFileFails(h) ==
  LET u == req[h].id
  IN /\ pc[h] = "copy"
     /\ \E n \in 0 .. Size[u] - 1 :
          files' = [files EXCEPT ![Target[u]] =
                      [from |-> u, data |-> SubSeq(spool[u], 1, n)]]
     /\ lock' = None
     /\ Answer(h, u, "failed", 0)
     /\ faulted' = TRUE
     /\ UNCHANGED <<spool, sidecars, opened, published, reported, announced, completed>>

RemoveSpool(h) ==
  /\ pc[h] = "remove_spool"
  /\ spool' = [spool EXCEPT ![req[h].id] = None]
  /\ Goto(h, "remove_sidecar")
  /\ req' = [req EXCEPT ![h] = [@ EXCEPT !.code = "patched"]]
  /\ UNCHANGED <<sidecars, files, lock, history>>

\* The copy cannot be synced, or the spool not removed: the client is told of a
\* failure, the target holds the content, and the session stays open.
RemoveSpoolFails(h) ==
  /\ pc[h] = "remove_spool"
  /\ lock' = None
  /\ Answer(h, req[h].id, "failed", 0)
  /\ faulted' = TRUE
  /\ UNCHANGED <<store, opened, published, reported, announced, completed>>

-----------------------------------------------------------------------------
(* DELETE /api/upload/:id *)

DeleteUpload(h, u) ==
  /\ pc[h] = "idle"
  /\ lock = None
  /\ \/ /\ SessionOpen(u)
        /\ spool' = [spool EXCEPT ![u] = None]
        /\ lock' = h
        /\ Goto(h, "remove_sidecar")
        /\ req' = [req EXCEPT ![h] = Outcome(u, "deleted", 0)]
     \/ /\ ~SessionOpen(u)
        /\ Answer(h, u, "missing", 0)
        /\ UNCHANGED <<spool, lock>>
  /\ UNCHANGED <<sidecars, files, history>>

\* The last step of a finalize, a rejected checksum and a DELETE alike.
RemoveSidecar(h) ==
  /\ pc[h] = "remove_sidecar"
  /\ sidecars' = sidecars \ {req[h].id}
  /\ lock' = None
  /\ Answer(h, req[h].id, req[h].code, req[h].upto)
  /\ UNCHANGED <<spool, files, history>>

\* A finalize ignores the error, the other two report it.
RemoveSidecarFails(h) ==
  /\ pc[h] = "remove_sidecar"
  /\ lock' = None
  /\ \/ req[h].code = "patched" /\ Answer(h, req[h].id, "patched", req[h].upto)
     \/ req[h].code # "patched" /\ Answer(h, req[h].id, "failed", 0)
  /\ faulted' = TRUE
  /\ UNCHANGED <<store, opened, published, reported, announced, completed>>

\* The first file operation of any request fails, reading the sidecar of a
\* look-up, creating or removing a spool: nothing changes.
RequestFails(h, u) ==
  /\ pc[h] = "idle"
  /\ lock = None
  /\ Answer(h, u, "failed", 0)
  /\ faulted' = TRUE
  /\ UNCHANGED <<store, lock, opened, published, reported, announced, completed>>

-----------------------------------------------------------------------------
\* The answer reaches the client, and the handler is free for another request.
Reply(h) ==
  LET u == req[h].id
      code == req[h].code
      upto == req[h].upto
  IN /\ pc[h] = "reply"
     /\ reported' = IF code \in {"offset", "patched"}
                    THEN [reported EXCEPT ![u] = Larger(@, upto)]
                    ELSE reported
     /\ completed' = IF code = "patched" /\ upto = Size[u]
                     THEN completed \cup {u}
                     ELSE completed
     /\ Goto(h, "idle")
     /\ req' = [req EXCEPT ![h] = None]
     /\ UNCHANGED <<store, lock, opened, published, announced, faulted>>

\* The server dies and is started again: the files are all that is left.
Restart ==
  /\ lock' = None
  /\ pc' = [h \in Handlers |-> "idle"]
  /\ req' = [h \in Handlers |-> None]
  /\ faulted' = TRUE
  /\ UNCHANGED <<store, opened, published, reported, announced, completed>>

-----------------------------------------------------------------------------
\* The steps of a request that is being served ...
Proceed(h) ==
  \/ CreateSidecar(h)
  \/ PatchAppend(h) \/ PatchAnnounce(h)
  \/ Finalize(h) \/ CopyFile(h) \/ RemoveSpool(h)
  \/ RemoveSidecar(h)

\* ... and the file operations that can fail in one.
Fail(h) ==
  \/ CreateSidecarFails(h) \/ PatchAppendFails(h) \/ FinalizeFails(h)
  \/ CopyFileFails(h) \/ RemoveSpoolFails(h) \/ RemoveSidecarFails(h)

Serve(h) == Proceed(h) \/ Fail(h) \/ Reply(h)

Arrive(h) ==
  \E u \in Uploads :
    \/ CreateSpool(h, u)
    \/ HeadUpload(h, u)
    \/ \E off \in 0 .. Size[u] : \E body \in Bodies(off) : PatchCheck(h, u, off, body)
    \/ DeleteUpload(h, u)
    \/ RequestFails(h, u)

Next == Restart \/ \E h \in Handlers : Arrive(h) \/ Serve(h)

\* A request that is being served goes on: it runs on a thread of its own, and
\* gets the mutex in the end if it keeps becoming free.
Fairness == \A h \in Handlers : SF_vars(Serve(h))

Spec == Init /\ [][Next]_vars /\ Fairness

-----------------------------------------------------------------------------
(* Properties *)

Requests ==
  [id : Uploads, off : Nat, body : Seq(Bytes), code : Codes, upto : Nat]

\* The type invariant.
TypeOK ==
  /\ spool \in [Uploads -> Seq(Bytes) \cup {None}]
  /\ sidecars \subseteq Uploads
  /\ files \in [Targets -> Contents \cup {None}]
  /\ lock \in Handlers \cup {None}
  /\ pc \in [Handlers -> Steps]
  /\ req \in [Handlers -> Requests \cup {None}]
  /\ opened \subseteq Uploads
  /\ published \subseteq Uploads
  /\ reported \in [Uploads -> Nat]
  /\ announced \in [Uploads -> Nat]
  /\ completed \subseteq Uploads
  /\ faulted \in BOOLEAN

\* No offset a client was told, by an answer or by an upload_progress event, is
\* ever ahead of the bytes the session still holds: racing requests, failed
\* writes and restarts included, a client that resumes at an offset it was told
\* never leaves a hole.
NothingToldIsLost ==
  \A u \in Uploads : SessionOpen(u) =>
    reported[u] <= Len(spool[u]) /\ announced[u] <= Len(spool[u])

\* What a session holds is only ever added to, and stays within the length it
\* declared, although PATCH compares the offset and appends under two separate
\* acquisitions of the lock.
SpoolOnlyGrows ==
  [][\A u \in Uploads : SessionOpen(u) /\ SessionOpen(u)' =>
       /\ Len(spool'[u]) \in Len(spool[u]) .. Size[u]
       /\ SubSeq(spool'[u], 1, Len(spool[u])) = spool[u]]_store

\* A client that is told its upload is complete can rely on it: the whole
\* declared content reached the target name, after a progress event said so.
CompleteMeansPublished ==
  /\ completed \subseteq published
  /\ \A u \in published : announced[u] = Size[u]

\* Half a session (one of its two files) and a target that does not hold the
\* whole declared content exist only while the lock is held, unless the server
\* crashed or a file operation failed.
PairedUnlessFaulted ==
  lock = None /\ ~faulted =>
    /\ \A u \in Uploads : spool[u] # None <=> u \in sidecars
    /\ \A t \in Targets : files[t] # None => files[t].data = Whole(files[t].from)

\* Every request is answered, or the server restarts: no path through the
\* handlers keeps the lock.
RequestsAnswered ==
  \A h \in Handlers : pc[h] # "idle" ~> pc[h] = "idle"

\* A PATCH adds its body where it said it would, as a PATCH with a stale offset
\* is answered 409 (tests/upload.rs, patch_offset_conflict_returns_conflict).
\* The comparison and the append are two lock sections, so it does not hold.
AppendsAtItsOffset ==
  [][\A h \in Handlers : pc[h] = "append" /\ pc'[h] = "announce" =>
       Len(spool[req[h].id]) = req[h].off]_vars

-----------------------------------------------------------------------------
(* The store implements AtomicUpload for the targets a spool can be renamed *)
(* to.  A target on another filesystem is filled in place, and is left out. *)

Renamed == {u \in Uploads : Target[u] \notin OffDevice}

StatusOf(u) ==
  IF u \notin opened THEN "new"
  ELSE IF u \in published THEN "published"
  ELSE IF SessionOpen(u) THEN "open"
  ELSE "discarded"

ReceivedOf(u) == IF StatusOf(u) = "open" THEN Len(spool[u]) ELSE 0

HolderOf(t) ==
  IF files[t] = None THEN None
  ELSE IF files[t].data = Whole(files[t].from) THEN files[t].from
  ELSE "torn"

Promise ==
  INSTANCE AtomicUpload WITH
    Uploads <- Renamed,
    Targets <- Targets \ OffDevice,
    status <- [u \in Renamed |-> StatusOf(u)],
    received <- [u \in Renamed |-> ReceivedOf(u)],
    files <- [t \in Targets \ OffDevice |-> HolderOf(t)]

\* A session whose target is on the spool's filesystem ends once, by all of its
\* content appearing under its name in one step or by being discarded, whatever
\* requests run beside each other and wherever the server is restarted.
ImplementsAtomicUpload == Promise!Spec
=============================================================================
