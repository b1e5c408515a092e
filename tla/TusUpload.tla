------------------------------ MODULE TusUpload ------------------------------
(***************************************************************************)
(* Clients that upload one file to the store of TusStore over connections  *)
(* that break: browser tabs (web/src/backend/kernelBackend.ts, with the    *)
(* sessions web/src/local/tusSessions.ts remembers) and runs of            *)
(* `zfiles upload` (src/upload.rs).                                        *)
(*                                                                         *)
(* A connection is a handler with the request that is on its way to it and *)
(* the client that listens for the answer.  When it breaks the client      *)
(* stops at once, while the request may be lost, may be waiting, or may be *)
(* half served: the server finishes what it has received.  A client that   *)
(* resumes can so meet its own earlier request.                            *)
(*                                                                         *)
(* Every upload id is of the same file and target.  All tabs are of one    *)
(* origin and share its remembered sessions, all runs of the command share *)
(* the state file beside the uploaded file.                                *)
(***************************************************************************)
EXTENDS TusStore

CONSTANTS Tabs,             \* browser tabs with an upload queue
          Runs,             \* runs of `zfiles upload`
          Chunk,            \* bytes a client sends in one PATCH
          MaxTrouble        \* bound: failures, broken connections, resumptions
                            \* and aborted sessions together

Clients == Tabs \cup Runs

\* What a client sends: a request with its session, offset and body.
Messages ==
  [op : {"create", "head", "patch", "delete"}, id : Uploads \cup {None},
   off : Nat, body : Seq(Bytes)]

ASSUME ClientAssumption ==
  /\ Tabs \cap Runs = {}
  /\ None \notin Clients
  /\ None \notin Messages /\ None \notin Requests
  /\ Chunk \in 1 .. MaxBody
  /\ MaxTrouble \in Nat
  /\ IsFiniteSet(Uploads)
  /\ \A u, v \in Uploads : Size[u] = Size[v] /\ Target[u] = Target[v]

VARIABLES client,       \* what each client does, and with which session
          call,         \* the request on its way to each handler, or None
          waiter,       \* the client that listens to each handler, or None
          records,      \* localStorage: the sessions the tabs can resume
          stateFile,    \* the session `zfiles upload --resume` would resume
          aborts,       \* sessions a tab is about to DELETE, not awaiting it
          started,      \* uploads begun from nothing, one fresh id for each
          trouble       \* what went wrong so far, up to MaxTrouble

network == <<call, waiter>>
memory == <<records, stateFile, aborts>>
bounds == <<started, trouble>>
uploadVars == <<vars, client, network, memory, bounds>>

ClientSteps == {"idle", "create", "head", "patch", "recheck", "confirm",
                "done", "stopped"}
Busy == {"create", "head", "patch", "recheck", "confirm"}

Message(op, u, off, body) == [op |-> op, id |-> u, off |-> off, body |-> body]

UploadInit ==
  /\ Init
  /\ client = [c \in Clients |->
                 [step |-> "idle", session |-> None, offset |-> 0, place |-> 0]]
  /\ call = [h \in Handlers |-> None]
  /\ waiter = [h \in Handlers |-> None]
  /\ records = {}
  /\ stateFile = None
  /\ aborts = {}
  /\ started = 0
  /\ trouble = 0

-----------------------------------------------------------------------------
(* What the user does. *)

Trouble == trouble < MaxTrouble /\ trouble' = trouble + 1

\* A file is added to the queue, or the command is run.
Start(c) ==
  /\ client[c].step \notin Busy
  /\ started < Cardinality(Uploads)
  /\ started' = started + 1
  /\ client' = [client EXCEPT ![c] = [@ EXCEPT !.step = "create", !.session = None]]
  /\ UNCHANGED <<vars, network, memory, trouble>>

\* A listed session is resumed, or the command is run with --resume.
Resume(c) ==
  /\ client[c].step \notin Busy
  /\ \E u \in IF c \in Tabs THEN records ELSE {stateFile} \ {None} :
       client' = [client EXCEPT ![c] = [@ EXCEPT !.step = "head", !.session = u]]
  /\ Trouble
  /\ UNCHANGED <<vars, network, memory, started>>

\* A listed session is aborted.
AbortSession(u) ==
  /\ u \in records \ aborts
  /\ aborts' = aborts \cup {u}
  /\ Trouble
  /\ UNCHANGED <<vars, client, network, records, stateFile, started>>

-----------------------------------------------------------------------------
(* The connections. *)

Free(h) == pc[h] = "idle" /\ call[h] = None /\ waiter[h] = None

Waiting(c) == \E h \in Handlers : waiter[h] = c

\* What is read from the file for the next PATCH.  A tab slices the file at the
\* offset; the command reads on from where it is, and an answer that names a
\* larger offset than it sent leaves it reading the wrong place.
NextChunk(c) ==
  LET left == Size[client[c].session] - client[c].offset
      n == IF left < Chunk THEN left ELSE Chunk
  IN [i \in 1..n |-> IF client[c].place = client[c].offset
                     THEN client[c].offset + i ELSE 0]

MessageOf(c) ==
  CASE client[c].step = "create" -> Message("create", None, 0, <<>>)
    [] client[c].step = "patch" ->
         Message("patch", client[c].session, client[c].offset, NextChunk(c))
    [] OTHER -> Message("head", client[c].session, 0, <<>>)

Send(c) ==
  /\ client[c].step \in Busy /\ ~Waiting(c)
  /\ \E h \in Handlers :
       /\ Free(h)
       /\ call' = [call EXCEPT ![h] = MessageOf(c)]
       /\ waiter' = [waiter EXCEPT ![h] = c]
  /\ UNCHANGED <<vars, client, memory, bounds>>

\* The DELETE of abortTusSession, whose answer nobody waits for.
SendAbort(u) ==
  /\ u \in aborts
  /\ aborts' = aborts \ {u}
  /\ \E h \in Handlers :
       /\ Free(h)
       /\ call' = [call EXCEPT ![h] = Message("delete", u, 0, <<>>)]
  /\ UNCHANGED <<vars, client, waiter, records, stateFile, bounds>>

Deliver(h) ==
  /\ call[h] # None
  /\ call' = [call EXCEPT ![h] = None]
  /\ \/ call[h].op = "create" /\ \E u \in Uploads : CreateSpool(h, u)
     \/ call[h].op = "head" /\ HeadUpload(h, call[h].id)
     \/ call[h].op = "patch" /\ PatchCheck(h, call[h].id, call[h].off, call[h].body)
     \/ call[h].op = "delete" /\ DeleteUpload(h, call[h].id)
  /\ UNCHANGED <<client, waiter, memory, bounds>>

\* The server fails the request before it changed anything.
DeliverFails(h) ==
  /\ call[h] # None
  /\ call' = [call EXCEPT ![h] = None]
  /\ \/ call[h].op = "create" /\ \E u \in Uploads : FreshId(u) /\ RequestFails(h, u)
     \/ call[h].op # "create" /\ RequestFails(h, call[h].id)
  /\ Trouble
  /\ UNCHANGED <<client, waiter, memory, started>>

Stop(c) == client' = [client EXCEPT ![c].step = "stopped"]

\* A network error, a paused or a cancelled upload: fetch, XHR and reqwest all
\* report an error, and the upload ends there.
Lose(h) ==
  /\ waiter[h] # None
  /\ waiter' = [waiter EXCEPT ![h] = None]
  /\ Stop(waiter[h])
  /\ Trouble
  /\ UNCHANGED <<vars, call, memory, started>>

\* What a broken connection still carried may never arrive.  The connection of
\* a DELETE breaks only now: nobody noticed it before.
Drop(h) ==
  /\ call[h] # None /\ waiter[h] = None
  /\ call' = [call EXCEPT ![h] = None]
  /\ \/ call[h].op = "delete" /\ Trouble
     \/ call[h].op # "delete" /\ UNCHANGED trouble
  /\ UNCHANGED <<vars, client, waiter, memory, started>>

-----------------------------------------------------------------------------
(* A tab hears an answer: upload and assertUploadSessionFinalized. *)

\* Mutated: a session of the same target is forgotten and left on the server.
TabCreatedForgets(c, u, code) ==
  /\ client[c].step = "create" /\ code = "created"
  /\ client' = [client EXCEPT ![c] = [@ EXCEPT !.step = "head", !.session = u]]
  /\ records' = {u}
  /\ UNCHANGED aborts

\* Mutated: the location of the new session is not kept.
TabCreatedNoLocation(c, u, code) ==
  /\ client[c].step = "create" /\ code = "created"
  /\ client' = [client EXCEPT ![c].step = "head"]
  /\ records' = {u}
  /\ aborts' = aborts \cup (records \ {u})

\* removeOtherTusRecordsForDestPath: the other sessions of the same target are
\* dropped, and each is then deleted on the server.
DropOthers(u) == aborts' = aborts \cup (records \ {u})

\* onTransferSession
TabCreated(c, u, code) ==
  /\ client[c].step = "create" /\ code = "created"
  /\ client' = [client EXCEPT ![c] = [@ EXCEPT !.step = "head", !.session = u]]
  /\ records' = {u}
  /\ DropOthers(u)

\* The offset to go on from, as the server tells it.
GoOnFrom(c, n, last) ==
  client' = [client EXCEPT ![c] =
    [@ EXCEPT !.offset = n, !.place = n,
              !.step = IF n < Size[client[c].session] THEN "patch" ELSE last]]

TabOffset(c, code, upto) ==
  /\ code = "offset"
  /\ \/ client[c].step = "head"
     \/ client[c].step = "recheck" /\ upto < Size[client[c].session]
  /\ GoOnFrom(c, upto, "confirm")
  /\ UNCHANGED <<records, aborts>>

TabPatched(c, code, upto) ==
  /\ client[c].step = "patch" /\ code = "patched"
  /\ GoOnFrom(c, upto, "confirm")
  /\ UNCHANGED <<records, aborts>>

\* Mutated: a PATCH that is refused is sent again as it is.
TabRefusedRepeats(c, code) ==
  /\ client[c].step = "patch" /\ code \notin {"patched", "mismatch"}
  /\ UNCHANGED <<client, records, aborts>>

\* Mutated: a chunk counts as sent although its PATCH was refused.
TabRefusedGoesOn(c, code) ==
  /\ client[c].step = "patch" /\ code \notin {"patched", "mismatch"}
  /\ GoOnFrom(c, client[c].offset + Len(NextChunk(c)), "confirm")
  /\ UNCHANGED <<records, aborts>>

\* Any refusal but 400 is followed by a HEAD.
TabRefused(c, code) ==
  /\ client[c].step = "patch" /\ code \notin {"patched", "mismatch"}
  /\ client' = [client EXCEPT ![c].step = "recheck"]
  /\ UNCHANGED <<records, aborts>>

\* onUploadSessionFinished
SessionFinished(u) == records' = {} /\ DropOthers(u)

\* Mutated: a session that is still there after the last chunk is accepted.
TabConfirmedAnyhow(c, code) ==
  /\ client[c].step = "confirm" /\ code \in {"missing", "offset"}
  /\ client' = [client EXCEPT ![c].step = "done"]
  /\ SessionFinished(client[c].session)

\* assertUploadSessionFinalized: 404 stands for a finalized session.
TabConfirmed(c, code) ==
  /\ client[c].step = "confirm" /\ code = "missing"
  /\ client' = [client EXCEPT ![c].step = "done"]
  /\ SessionFinished(client[c].session)

TabStops(c, code, upto) ==
  /\ \/ client[c].step = "create" /\ code # "created"
     \/ client[c].step = "head" /\ code # "offset"
     \/ client[c].step = "patch" /\ code = "mismatch"
     \/ client[c].step = "recheck" /\ ~(code = "offset" /\ upto < Size[client[c].session])
     \/ client[c].step = "confirm" /\ code # "missing"
  /\ Stop(c)
  /\ UNCHANGED <<records, aborts>>

TabHears(c, u, code, upto) ==
  /\ \/ TabCreated(c, u, code)
     \/ TabOffset(c, code, upto)
     \/ TabPatched(c, code, upto)
     \/ TabRefused(c, code)
     \/ TabConfirmed(c, code)
     \/ TabStops(c, code, upto)
  /\ UNCHANGED stateFile

-----------------------------------------------------------------------------
(* The command hears an answer: upload_file. *)

RunCreated(c, u, code) ==
  /\ client[c].step = "create" /\ code = "created"
  /\ client' = [client EXCEPT ![c] = [@ EXCEPT !.step = "head", !.session = u]]
  /\ stateFile' = u

\* The loop runs until the offset is the file's length.  It is the end of the
\* upload: the state file is removed and the command succeeds.
RunGoesOn(c, offset, place) ==
  LET ends == offset >= Size[client[c].session]
  IN /\ client' = [client EXCEPT ![c] =
          [@ EXCEPT !.offset = offset, !.place = place,
                    !.step = IF ends THEN "done" ELSE "patch"]]
     /\ stateFile' = IF ends THEN None ELSE stateFile

\* head_offset: any answer without an offset counts as offset 0.
RunOffset(c, code, upto) ==
  LET n == IF code = "offset" THEN upto ELSE 0
  IN client[c].step = "head" /\ RunGoesOn(c, n, n)

RunPatched(c, code, upto) ==
  /\ client[c].step = "patch" /\ code = "patched"
  /\ RunGoesOn(c, upto, client[c].place + Len(NextChunk(c)))

RunStops(c, code) ==
  /\ \/ client[c].step = "create" /\ code # "created"
     \/ client[c].step = "patch" /\ code # "patched"
  /\ Stop(c)
  /\ UNCHANGED stateFile

RunHears(c, u, code, upto) ==
  /\ \/ RunCreated(c, u, code)
     \/ RunOffset(c, code, upto)
     \/ RunPatched(c, code, upto)
     \/ RunStops(c, code)
  /\ UNCHANGED <<records, aborts>>

-----------------------------------------------------------------------------
\* Nobody listens.  The page takes an aborted session off its list when it does
\* hear that the DELETE succeeded.
NobodyHears(h) ==
  /\ \/ records' = records
     \/ req[h].code = "deleted" /\ records' = records \ {req[h].id}
  /\ UNCHANGED <<client, stateFile, aborts>>

Answered(h) ==
  /\ Reply(h)
  /\ waiter' = [waiter EXCEPT ![h] = None]
  /\ \/ waiter[h] = None /\ NobodyHears(h)
     \/ waiter[h] \in Tabs
        /\ TabHears(waiter[h], req[h].id, req[h].code, req[h].upto)
     \/ waiter[h] \in Runs
        /\ RunHears(waiter[h], req[h].id, req[h].code, req[h].upto)
  /\ UNCHANGED <<call, bounds>>

Work(h) == Proceed(h) /\ UNCHANGED <<client, network, memory, bounds>>

WorkFails(h) == Fail(h) /\ Trouble /\ UNCHANGED <<client, network, memory, started>>

\* Every connection breaks with the server.
ServerRestart ==
  /\ Restart
  /\ call' = [h \in Handlers |-> None]
  /\ waiter' = [h \in Handlers |-> None]
  /\ client' = [c \in Clients |->
                  IF Waiting(c) THEN [client[c] EXCEPT !.step = "stopped"] ELSE client[c]]
  /\ Trouble
  /\ UNCHANGED <<memory, started>>

-----------------------------------------------------------------------------
Connection(h) ==
  Deliver(h) \/ DeliverFails(h) \/ Work(h) \/ WorkFails(h) \/ Answered(h)

UploadNext ==
  \/ \E c \in Clients : Start(c) \/ Resume(c) \/ Send(c)
  \/ \E u \in Uploads : AbortSession(u) \/ SendAbort(u)
  \/ \E h \in Handlers : Connection(h) \/ Lose(h) \/ Drop(h)
  \/ ServerRestart

\* A request is sent, delivered, served and answered in the end: the server takes
\* any number of connections, and its mutex is not held for ever.  Users need not
\* act, connections need not break.
UploadFairness ==
  /\ \A c \in Clients : SF_uploadVars(Send(c))
  /\ \A h \in Handlers : SF_uploadVars(Connection(h))

UploadSpec == UploadInit /\ [][UploadNext]_uploadVars /\ UploadFairness

-----------------------------------------------------------------------------
(* Properties *)

ClientStates ==
  [step : ClientSteps, session : Uploads \cup {None}, offset : Nat, place : Nat]

\* The type invariant.  Only a creation goes without a session.
UploadTypeOK ==
  /\ client \in [Clients -> ClientStates]
  /\ \A c \in Clients : client[c].step \in Busy \ {"create"} => client[c].session # None
  /\ call \in [Handlers -> Messages \cup {None}]
  /\ waiter \in [Handlers -> Clients \cup {None}]
  /\ records \subseteq Uploads /\ aborts \subseteq Uploads
  /\ stateFile \in Uploads \cup {None}
  /\ started \in 0 .. Cardinality(Uploads) /\ trouble \in 0 .. MaxTrouble

\* A client never sends from an offset its session has not reached, whatever
\* request of its own or of another client is still being served.
NeverAhead ==
  \A c \in Clients : client[c].step = "patch" /\ SessionOpen(client[c].session) =>
    client[c].offset <= Len(spool[client[c].session])

\* A tab that reports success leaves no session behind on the server.
DoneEndsSession ==
  \A c \in Tabs : client[c].step = "done" => ~SessionOpen(client[c].session)

\* As long as nothing was lost, every open session of a tab can still be ended:
\* it is remembered, about to be deleted, or a request for it is under way.
NoSessionIsForgotten ==
  trouble = 0 /\ Runs = {} =>
    \A u \in Uploads : SessionOpen(u) =>
      \/ u \in records \cup aborts
      \/ \E h \in Handlers : call[h] # None /\ call[h].id = u
      \/ \E h \in Handlers : req[h] # None /\ req[h].id = u

\* No attempt goes on for ever: refused PATCHes, sessions that other clients
\* ended and answers that never come all lead to success or an error.
EveryAttemptEnds ==
  \A c \in Clients : client[c].step \in Busy ~> client[c].step \notin Busy

\* The file of a client that reports success is published, or a request still
\* being served can publish it (design/design.md: "upload state survives kernel
\* restart via spool and sidecar files").  It does not hold: a session that is
\* full and was not finalized when the server stopped is taken for a finished one.
DoneMeansPublished ==
  \A c \in Clients : client[c].step = "done" =>
    \/ client[c].session \in published
    \/ \E h \in Handlers : req[h] # None /\ req[h].id = client[c].session
=============================================================================
