----------------------------- MODULE UploadQueue -----------------------------
(***************************************************************************)
(* The upload queue of one browser tab (web/src/upload-queue.ts) on the    *)
(* local backend (web/src/backend/kernelBackend.ts): the list of files, the *)
(* one upload that runs, and the clicks, progress messages and answers of  *)
(* the server that come in between.                                        *)
(*                                                                         *)
(* Three things run one at a time and interleave at their awaits: the       *)
(* upload that works on an item, React's rendering, and the user.  Code    *)
(* reads the list that was rendered last (`seen`, itemsRef.current), while *)
(* setItems changes the list the next rendering will show (`items`); a     *)
(* microtask comes before anything else (Urgent).                          *)
(*                                                                         *)
(* An item is its place in the order of arrival.  File contents, offsets   *)
(* and speeds are left out, and so is the S3 half of the queue.            *)
(***************************************************************************)
EXTENDS Naturals, FiniteSets

CONSTANTS None,             \* "no session", "no path", "no choice", ...
          Paths,            \* destinations
          Dropped,          \* bound: those of the files the user adds
          Renamed,          \* the free name findKeepBothPath gives each of them
          Foreign,          \* a tus session of another tab
          HashingId,        \* the ids progress carries before and after the
          VerifyingId,      \* transfer: the strings "hashing" and "verifying"
          Workers,          \* calls of run(); workerRef lets only one work
          Materialises,     \* does prepareUploadFile read the file (iOS)?
          MaxItems,         \* bound: files put into the queue
          MaxSessions,      \* bound: tus sessions the server makes
          MaxClicks         \* bound: clicks and remote progress messages

Items == 1 .. MaxItems
Made == 1 .. MaxSessions
Phases == {HashingId, VerifyingId}
Sessions == Made \cup Phases \cup {Foreign}
Resolutions == {"replace", "keep_both", "skip"}

ASSUME QueueAssumption ==
  /\ MaxItems \in Nat /\ MaxSessions \in Nat /\ MaxClicks \in Nat
  /\ Workers # {}
  /\ Dropped \subseteq Paths /\ Renamed \in [Paths -> Paths]
  /\ Materialises \subseteq BOOLEAN
  /\ None \notin Paths \cup Sessions /\ None \notin Items /\ None \notin Resolutions
  /\ Foreign \notin Made \cup Phases
  /\ Made \cap Phases = {} /\ HashingId # VerifyingId

VARIABLES items,        \* React's list, every queued update applied
          seen,         \* itemsRef.current: the list of the last rendering,
                        \* or of the last patch of the running upload
          render,       \* "none", "scheduled", or "sync" after a click
          flush,        \* pendingProgressItemRef: a deferred progress snapshot
          run,          \* the calls of run()
          busy,         \* workerRef
          cancelled,    \* cancelledIdsRef
          paused,       \* pausedIdsRef
          auto,         \* applyToAllResolutionRef
          naming,       \* "keep both" answers that look for a free name
          added,        \* files put into the queue so far
          target,       \* where each tus session will write its file
          records,      \* localStorage: the sessions that can be resumed
          deletes,      \* DELETEs not yet answered
          clicks,       \* clicks and remote messages so far
          misled,       \* items a remote message changed while none worked on them
          revived,      \* items a free name changed that was no longer asked for
          stalled,      \* waiting files run() left alone for an old cancel mark
          refused,      \* items the user cancelled during their upload
          dropped       \* <<by, session>>: records dropped for a new session

list == <<items, seen, render, flush>>
marks == <<cancelled, paused>>
answers == <<auto, naming>>
server == <<target, records, deletes, dropped>>
worker == <<run, busy>>
marked == <<misled, revived, refused>>
history == <<marked, stalled>>
bounds == <<added, clicks>>
vars == <<list, marks, answers, server, worker, history, bounds>>

Live == {"pending", "hashing", "active", "verifying", "paused", "awaiting_conflict"}
BusyStatus == {"hashing", "active", "verifying"}
Over == {"done", "failed", "cancelled"}
Early == {"stat", "rename", "begin", "prepare", "upload"}
Uploading == {"hashing", "create", "transfer", "verify"}
Steps == {"settle"} \cup Early \cup Uploading

Row == [status : Live \cup Over, dest : Paths, overwrite : BOOLEAN,
        session : Sessions \cup {None},         \* backendUploadId
        resume : Made \cup {None}]              \* tusResume
Call == [pc : Steps, item : Items, dest : Paths,
         session : Made \cup {None},            \* uploadId
         was : Row,                             \* the item as run() found it
         signal : {"clear", "fired"}]           \* the AbortSignal
Record == [session : Made, dest : Paths]
Delete == [session : Sessions, forget : BOOLEAN]

NoItem == [status |-> "absent", dest |-> None, overwrite |-> FALSE,
           session |-> None, resume |-> None]
NoRun == [pc |-> "idle", item |-> None, dest |-> None, session |-> None,
          was |-> NoItem, signal |-> "clear"]
Item == Row \cup {NoItem}
Run == Call \cup {NoRun}

First(i, S) == i \in S /\ \A j \in S : i <= j

Present(l, i) == l[i].status # "absent"

\* setItems(prev => prev.map(...)): changes nothing when the item is gone.
Put(l, i, r) == IF Present(l, i) THEN [l EXCEPT ![i] = r] ELSE l
Status(l, i, s) == Put(l, i, [l[i] EXCEPT !.status = s])

\* An update whose rendering waits for its turn; a click's is rendered at once.
Queue(l) == items' = l /\ render' = "scheduled"
Click(l) == items' = l /\ render' = "sync" /\ clicks < MaxClicks /\ clicks' = clicks + 1

\* patchQueueItem and the two session callbacks write the whole list, as the
\* last rendering knew it.
Patch(i, r) == Queue(Put(seen, i, r)) /\ seen' = Put(seen, i, r)

\* What follows in the same turn of the event loop; a pause asks the server for
\* its offset only while a transfer of a known session is paused.
AtOnce(w) == \/ run[w].pc \in {"begin", "upload"}
             \/ /\ run[w].pc = "settle"
                /\ \/ run[w].was.resume = None
                   \/ run[w].was.status \in {"hashing", "verifying"}

Urgent == render = "sync" \/ \E w \in Workers : AtOnce(w)

Init ==
  /\ items = [i \in Items |-> NoItem] /\ seen = items
  /\ render = "none" /\ flush = [i \in Items |-> NoItem]
  /\ run = [w \in Workers |-> NoRun] /\ busy = FALSE
  /\ cancelled = {} /\ paused = {}
  /\ auto = None /\ naming = [i \in Items |-> [p \in Paths |-> 0]]
  /\ \E r \in SUBSET [session : Made \cap {1}, dest : Dropped] :  \* of an earlier page
       /\ Cardinality(r) <= 1
       /\ records = r
       /\ target = [s \in Made |-> IF \E e \in r : e.session = s
                                   THEN (CHOOSE e \in r : TRUE).dest ELSE None]
  /\ deletes = {} /\ dropped = {}
  /\ misled = {} /\ revived = {} /\ stalled = {} /\ refused = {}
  /\ added = 0 /\ clicks = 0

-----------------------------------------------------------------------------
(* Rendering, and the effect that starts the next upload. *)

Waiting == {i \in Items : items[i].status = "pending"}

\* Mutated: a start that trusts the rows and not workerRef.
MayStartUnasked == /\ Waiting # {}
                   /\ \A i \in Items : items[i].status \notin BusyStatus

MayStart == /\ Waiting # {}
            /\ \A i \in Items : items[i].status \notin BusyStatus
            /\ ~busy

Start(i) ==
  IF i \in cancelled
  THEN cancelled' = cancelled \ {i} /\ stalled' = stalled \cup {i} /\ UNCHANGED worker
  ELSE LET w == CHOOSE v \in Workers : run[v].pc = "idle" IN
       /\ busy' = TRUE
       /\ run' = [run EXCEPT ![w] =
            [pc |-> IF items[i].overwrite THEN "begin" ELSE "stat", item |-> i,
             dest |-> items[i].dest, session |-> None, was |-> items[i],
             signal |-> "clear"]]
       /\ UNCHANGED <<cancelled, stalled>>

\* The component's parent re-renders it at any time, and each time the effect
\* runs again: its callbacks are new ones.
Render ==
  /\ seen' = items /\ render' = "none"
  /\ auto' = IF \E i \in Items : Present(items, i) THEN auto ELSE None
  /\ IF MayStart THEN \E i \in Items : First(i, Waiting) /\ Start(i)
     ELSE UNCHANGED <<cancelled, stalled, worker>>
  /\ UNCHANGED <<items, flush, paused, naming, server, marked, bounds>>

-----------------------------------------------------------------------------
(* The upload that runs. *)

Goto(w, pc) == run' = [run EXCEPT ![w].pc = pc] /\ UNCHANGED busy
Finish(w) == run' = [run EXCEPT ![w] = NoRun] /\ busy' = FALSE

At(w, pc) == run[w].pc = pc /\ run[w].signal = "clear"

\* handleUploadConflict: whether the file exists, which any error denies.
StatMissing(w) ==
  /\ At(w, "stat")
  /\ Goto(w, "begin")
  /\ UNCHANGED <<list, marks, answers, server, history, bounds>>

\* Mutated: the early return of a question leaves workerRef set.
StatAsksAndStays(w) ==
  /\ At(w, "stat") /\ auto = None
  /\ Queue(Status(items, run[w].item, "awaiting_conflict"))
  /\ run' = [run EXCEPT ![w] = NoRun]
  /\ UNCHANGED <<busy, seen, flush, marks, answers, server, history, bounds>>

StatAsks(w) ==
  /\ At(w, "stat") /\ auto = None
  /\ Queue(Status(items, run[w].item, "awaiting_conflict"))
  /\ Finish(w)
  /\ UNCHANGED <<seen, flush, marks, answers, server, history, bounds>>

StatSkips(w) ==
  /\ At(w, "stat") /\ auto = "skip"
  /\ Queue(Status(items, run[w].item, "cancelled"))
  /\ Finish(w)
  /\ UNCHANGED <<seen, flush, marks, answers, server, history, bounds>>

StatReplaces(w) ==
  /\ At(w, "stat") /\ auto = "replace"
  /\ LET i == run[w].item IN Queue(Put(items, i, [items[i] EXCEPT !.overwrite = TRUE]))
  /\ Goto(w, "begin")
  /\ UNCHANGED <<seen, flush, marks, answers, server, history, bounds>>

StatRenames(w) ==
  /\ At(w, "stat") /\ auto = "keep_both"
  /\ Goto(w, "rename")
  /\ UNCHANGED <<list, marks, answers, server, history, bounds>>

MoveTo(l, i, p) == Put(l, i, [l[i] EXCEPT !.dest = p])

Rename(w) ==
  /\ At(w, "rename")
  /\ LET p == Renamed[run[w].dest] IN
       /\ Queue(MoveTo(items, run[w].item, p))
       /\ run' = [run EXCEPT ![w].pc = "begin", ![w].dest = p]
  /\ UNCHANGED <<seen, flush, busy, marks, answers, server, history, bounds>>

\* The item as it is known now, or as the run found it when it is gone.
Known(w) == IF Present(seen, run[w].item) THEN seen[run[w].item] ELSE run[w].was

Begin(w) ==
  /\ run[w].pc = "begin"
  /\ IF Known(w).status \in {"pending", "active"}
     THEN /\ Queue(MoveTo(items, run[w].item, run[w].dest))
          /\ \E slow \in Materialises :
               run' = [run EXCEPT ![w] =
                 [@ EXCEPT !.pc = IF slow THEN "prepare" ELSE "upload",
                           !.was = Known(w), !.session = Known(w).resume,
                           !.signal = IF run[w].item \in cancelled
                                      THEN "fired" ELSE "clear"]]
          /\ UNCHANGED busy
     ELSE Finish(w) /\ UNCHANGED <<items, render>>
  /\ UNCHANGED <<seen, flush, marks, answers, server, history, bounds>>

Prepared(w) ==
  /\ run[w].pc = "prepare"
  /\ Goto(w, "upload")
  /\ UNCHANGED <<list, marks, answers, server, history, bounds>>

\* patchQueueItem, which also forgets the deferred progress.
PatchStatus(i, s) ==
  /\ Patch(i, [seen[i] EXCEPT !.status = s])
  /\ flush' = [flush EXCEPT ![i] = NoItem]

\* onHashing
Hash(w) ==
  /\ At(w, "upload") /\ run[w].was.resume = None
  /\ PatchStatus(run[w].item, "hashing")
  /\ Goto(w, "hashing")
  /\ UNCHANGED <<marks, answers, server, history, bounds>>

\* onUploadStart, of a session to resume or after the hash; a cancelled item
\* fires the signal instead, and the next request throws.
UploadStarts(w) ==
  /\ \/ At(w, "upload") /\ run[w].was.resume # None
     \/ At(w, "hashing")
  /\ LET next == IF run[w].pc = "upload" THEN "transfer" ELSE "create" IN
     IF run[w].item \in cancelled
     THEN /\ run' = [run EXCEPT ![w].pc = next, ![w].signal = "fired"]
          /\ UNCHANGED <<busy, list>>
     ELSE PatchStatus(run[w].item, "active") /\ Goto(w, next)
  /\ UNCHANGED <<marks, answers, server, history, bounds>>

Fresh == {s \in Made : target[s] = None}

DropOthers(s, p) == {e \in records : e.dest = p /\ e.session # s}

\* onTransferSession, when POST /api/upload answers.  A row that is gone
\* leaves the session without a record.
Created(w) ==
  /\ At(w, "create")
  /\ \E s \in Made :
       LET i == run[w].item
           others == DropOthers(s, seen[i].dest)
       IN
        /\ First(s, Fresh)
        /\ target' = [target EXCEPT ![s] = run[w].dest]
        /\ Patch(i, [seen[i] EXCEPT !.session = s, !.resume = s])
        /\ IF Present(seen, i)
           THEN /\ records' = (records \ others)
                                \cup {[session |-> s, dest |-> seen[i].dest]}
                /\ deletes' = deletes \cup {[session |-> e.session, forget |-> FALSE] :
                                            e \in others}
                /\ dropped' = dropped \cup {<<s, e.session>> : e \in others}
           ELSE UNCHANGED <<records, deletes, dropped>>
        /\ run' = [run EXCEPT ![w].pc = "transfer", ![w].session = s]
  /\ UNCHANGED <<flush, busy, marks, answers, history, bounds>>

\* onVerifying, when every byte is written and the session is gone.
Transferred(w) ==
  /\ At(w, "transfer")
  /\ PatchStatus(run[w].item, "verifying")
  /\ Goto(w, "verify")
  /\ UNCHANGED <<marks, answers, server, history, bounds>>

\* Mutated: a last word that leaves the timer of a snapshot running.
CommitKeepsTimer(i, r) == Queue(Put(items, i, r)) /\ UNCHANGED <<flush, seen>>

\* commitProgressItem(..., force): writes one item, forgets deferred progress.
Commit(i, r) ==
  /\ Queue(Put(items, i, r))
  /\ flush' = [flush EXCEPT ![i] = NoItem]
  /\ UNCHANGED seen

SessionOf(r) == IF r.session # None THEN r.session ELSE r.resume

\* The upload returned, and nobody cancelled it.
Verified(w) ==
  /\ At(w, "verify") /\ run[w].item \notin cancelled
  /\ LET i == run[w].item
         s == SessionOf(Known(w))
         others == DropOthers(s, run[w].dest)
     IN /\ Commit(i, [Known(w) EXCEPT !.status = "done"])
        /\ IF s = None THEN UNCHANGED <<records, deletes>>
           ELSE /\ records' = {e \in records \ others : e.session # s}
                /\ deletes' = deletes \cup {[session |-> e.session, forget |-> FALSE] :
                                            e \in others}
  /\ Finish(w)
  /\ UNCHANGED <<marks, answers, target, dropped, history, bounds>>

\* The catch clause: an aborted request, or an error of the network, of the
\* server or of the file.  A pause is settled after one more request.
Caught(w) ==
  /\ \/ run[w].pc \in {"prepare"} \cup Uploading
     \/ run[w].pc = "upload" /\ run[w].signal = "fired"
  /\ LET i == run[w].item IN
     /\ paused' = paused \ {i}
     /\ cancelled' = cancelled \ {i}
     /\ IF i \in paused
        THEN /\ run' = [run EXCEPT ![w].pc = "settle", ![w].was = Known(w)]
             /\ flush' = [flush EXCEPT ![i] = NoItem]
             /\ UNCHANGED <<busy, items, seen, render>>
        ELSE /\ Commit(i, [Known(w) EXCEPT !.status =
                    IF i \in cancelled \/ run[w].signal = "fired"
                    THEN "cancelled" ELSE "failed"])
             /\ Finish(w)
  /\ UNCHANGED <<answers, records, deletes, dropped, history, bounds>>

\* The POST may have made a session its answer did not tell of.
Throw(w) == Caught(w) /\ UNCHANGED target
ThrowInCreate(w) ==
  /\ run[w].pc = "create"
  /\ Caught(w)
  /\ \E s \in Made : First(s, Fresh) /\ target' = [target EXCEPT ![s] = run[w].dest]

\* resolvePausedUploadOffset answered.
Settled(w) ==
  /\ run[w].pc = "settle"
  /\ Commit(run[w].item, [run[w].was EXCEPT !.status = "paused"])
  /\ Finish(w)
  /\ UNCHANGED <<marks, answers, server, history, bounds>>

-----------------------------------------------------------------------------
(* Progress. *)

\* commitProgressItem of a snapshot: shown now, or when its timer fires.
Snapshot(i, r) ==
  \/ Queue(Put(items, i, r)) /\ flush' = [flush EXCEPT ![i] = NoItem]
  \/ flush' = [flush EXCEPT ![i] = r] /\ UNCHANGED <<items, render>>

ProgressId(w) == CASE run[w].pc = "hashing" -> HashingId
                   [] run[w].pc = "verify" -> VerifyingId
                   [] OTHER -> run[w].session

\* uploadStatusForProgress
StatusFor(id) == CASE id = HashingId -> "hashing"
                   [] id = VerifyingId -> "verifying"
                   [] OTHER -> "active"

\* onUploadProgress: a copy of the whole item, with the phase as its status
\* and, before and after the transfer, the name of the phase as its session.
Progress(w) ==
  /\ run[w].pc \in {"hashing", "transfer", "verify"} /\ run[w].signal = "clear"
  /\ LET i == run[w].item IN
     /\ i \notin cancelled /\ Present(seen, i)
     /\ Snapshot(i, [seen[i] EXCEPT !.status = StatusFor(ProgressId(w)),
                                    !.session = ProgressId(w)])
  /\ UNCHANGED <<seen, marks, answers, server, worker, history, bounds>>

FlushProgress(i) ==
  /\ flush[i] # NoItem
  /\ Queue(Put(items, i, flush[i]))
  /\ flush' = [flush EXCEPT ![i] = NoItem]
  /\ UNCHANGED <<seen, marks, answers, server, worker, history, bounds>>

\* applyRemoteProgress: the WebSocket tells of every session of the server, and
\* an active row without a session takes it for its own.
RemoteProgress(s) ==
  /\ clicks < MaxClicks /\ clicks' = clicks + 1
  /\ \E i \in Items :
       /\ First(i, {j \in Items : /\ seen[j].status = "active"
                                  /\ seen[j].session \in {s, None}})
       /\ Snapshot(i, [seen[i] EXCEPT !.session = s])
       /\ misled' = IF \E w \in Workers : run[w].item = i THEN misled
                    ELSE misled \cup {i}
  /\ UNCHANGED <<seen, marks, answers, server, worker,
                 revived, stalled, refused, added>>

-----------------------------------------------------------------------------
(* The user. *)

Enqueue(r) ==
  /\ added < MaxItems /\ added' = added + 1
  /\ Queue([items EXCEPT ![added + 1] = r])
  /\ UNCHANGED <<seen, flush, marks, answers, server, worker, history, clicks>>

AddFile(p) == Enqueue([NoItem EXCEPT !.status = "pending", !.dest = p])

\* enqueueTusResume, of a session no live row shows.
ResumeRecord(e) ==
  /\ e \in records
  /\ \A i \in Items : seen[i].status \in Live => SessionOf(seen[i]) # e.session
  /\ Enqueue([status |-> "pending", dest |-> e.dest, overwrite |-> FALSE,
              session |-> e.session, resume |-> e.session])

Abort(i) == [w \in Workers |-> IF run[w].item = i /\ run[w].pc \notin {"stat", "rename"}
                               THEN [run[w] EXCEPT !.signal = "fired"] ELSE run[w]]

SendDelete(i) ==
  deletes' = IF SessionOf(seen[i]) = None THEN deletes
             ELSE deletes \cup {[session |-> SessionOf(seen[i]), forget |-> TRUE]}

CancelWaiting(i) ==
  /\ seen[i].status \in {"pending", "awaiting_conflict"}
  /\ Click([items EXCEPT ![i] = NoItem])
  /\ flush' = [flush EXCEPT ![i] = NoItem]
  /\ cancelled' = cancelled \ {i}
  /\ UNCHANGED <<seen, paused, answers, server, worker, history, added>>

CancelPaused(i) ==
  /\ seen[i].status = "paused"
  /\ Click(Status(items, i, "cancelled"))
  /\ flush' = [flush EXCEPT ![i] = NoItem]
  /\ cancelled' = cancelled \ {i}
  /\ SendDelete(i)
  /\ UNCHANGED <<seen, paused, answers, target, records, dropped, worker, history, added>>

\* Mutated: no mark and no abort, as if the DELETE sufficed; or a row
\* shown as cancelled at once, though its upload has not ended.
CancelByDelete(i) ==
  /\ seen[i].status \in {"hashing", "active"}
  /\ clicks < MaxClicks /\ clicks' = clicks + 1
  /\ flush' = [flush EXCEPT ![i] = NoItem]
  /\ SendDelete(i)
  /\ refused' = IF \E w \in Workers : run[w].item = i THEN refused \cup {i} ELSE refused
  /\ UNCHANGED <<items, seen, render, marks, answers, target, records, dropped,
                 worker, misled, revived, stalled, added>>

CancelAtOnce(i) ==
  /\ seen[i].status \in {"hashing", "active"}
  /\ Click(Status(items, i, "cancelled"))
  /\ flush' = [flush EXCEPT ![i] = NoItem]
  /\ cancelled' = cancelled \cup {i}
  /\ run' = Abort(i)
  /\ SendDelete(i)
  /\ UNCHANGED <<seen, paused, answers, target, records, dropped, busy, history, added>>

CancelRunning(i) ==
  /\ \/ seen[i].status \in {"hashing", "active"}
     \/ seen[i].status = "verifying" /\ render = "scheduled"  \* not yet shown
  /\ clicks < MaxClicks /\ clicks' = clicks + 1
  /\ flush' = [flush EXCEPT ![i] = NoItem]
  /\ cancelled' = cancelled \cup {i}
  /\ run' = Abort(i)
  /\ SendDelete(i)
  /\ refused' = IF \E w \in Workers : run[w].item = i THEN refused \cup {i} ELSE refused
  /\ UNCHANGED <<items, seen, render, paused, answers, target, records, dropped,
                 busy, misled, revived, stalled, added>>

Cancel(i) == CancelWaiting(i) \/ CancelPaused(i) \/ CancelRunning(i)

Pause(i) ==
  /\ seen[i].status = "active"
  /\ clicks < MaxClicks /\ clicks' = clicks + 1
  /\ flush' = [flush EXCEPT ![i] = NoItem]
  /\ paused' = paused \cup {i}
  /\ run' = Abort(i)
  /\ UNCHANGED <<items, seen, render, cancelled, answers, server, busy, history, added>>

Resume(i) ==
  /\ seen[i].status = "paused"
  /\ Click(IF items[i].status = "paused" THEN Status(items, i, "pending") ELSE items)
  /\ refused' = refused \ {i}
  /\ UNCHANGED <<seen, flush, marks, answers, server, worker,
                 misled, revived, stalled, added>>

Asked == {i \in Items : seen[i].status = "awaiting_conflict"}

\* resolveUploadConflict, of the first row that asks.
Resolve(choice, all) ==
  /\ \E i \in Items :
     /\ First(i, Asked)
     /\ auto' = IF all THEN choice ELSE auto
     /\ CASE choice = "skip" -> Click(Status(items, i, "cancelled")) /\ UNCHANGED naming
          [] choice = "replace" ->
               /\ Click(Put(items, i, [items[i] EXCEPT !.status = "pending",
                                                       !.overwrite = TRUE]))
               /\ UNCHANGED naming
          [] choice = "keep_both" ->
               /\ clicks < MaxClicks /\ clicks' = clicks + 1
               /\ naming' = [naming EXCEPT ![i][seen[i].dest] = @ + 1]
               /\ UNCHANGED <<items, render>>
  /\ UNCHANGED <<seen, flush, marks, server, worker, history, added>>

\* Mutated: an answer that is counted though none was asked for.
NamedUnasked(i, p) ==
  /\ naming' = [naming EXCEPT ![i][p] = @ - 1]
  /\ Queue(Put(items, i, [items[i] EXCEPT !.dest = Renamed[p], !.status = "pending"]))
  /\ revived' = revived \cup {i}
  /\ UNCHANGED <<seen, flush, marks, auto, server, worker,
                 misled, stalled, refused, bounds>>

\* findKeepBothPath answered.
Named(i, p) ==
  /\ naming[i][p] > 0
  /\ naming' = [naming EXCEPT ![i][p] = @ - 1]
  /\ Queue(Put(items, i, [items[i] EXCEPT !.dest = Renamed[p], !.status = "pending"]))
  /\ revived' = IF items[i].status = "awaiting_conflict" THEN revived
                ELSE revived \cup {i}
  /\ UNCHANGED <<seen, flush, marks, auto, server, worker,
                 misled, stalled, refused, bounds>>

ClearFinished ==
  /\ \E i \in Items : seen[i].status \in Over
  /\ Click([i \in Items |-> IF items[i].status \in Over THEN NoItem ELSE items[i]])
  /\ UNCHANGED <<seen, flush, marks, answers, server, worker, history, added>>

ClearDone(i) ==
  /\ seen[i].status = "done"
  /\ Click(IF items[i].status = "done" THEN [items EXCEPT ![i] = NoItem] ELSE items)
  /\ UNCHANGED <<seen, flush, marks, answers, server, worker, history, added>>

\* DELETE answered: a cancelled upload's record goes when it succeeded.
Deleted(d, ok) ==
  /\ d \in deletes
  /\ deletes' = deletes \ {d}
  /\ records' = IF ok /\ d.forget THEN {e \in records : e.session # d.session}
                ELSE records
  /\ UNCHANGED <<list, marks, answers, target, dropped, worker, history, bounds>>

-----------------------------------------------------------------------------

\* Steps that end: an answer, an error or a computation.
Work(w) ==
  \/ StatMissing(w) \/ StatAsks(w) \/ StatSkips(w) \/ StatReplaces(w) \/ StatRenames(w)
  \/ Rename(w) \/ Begin(w) \/ Prepared(w) \/ Hash(w) \/ UploadStarts(w) \/ Created(w)
  \/ Transferred(w) \/ Verified(w) \/ Throw(w) \/ ThrowInCreate(w) \/ Settled(w)

Microtask ==
  \/ render = "sync" /\ Render
  \/ render # "sync" /\ \E w \in Workers : AtOnce(w) /\ Work(w)

Task ==
  \/ Render
  \/ \E w \in Workers : Work(w) \/ Progress(w)
  \/ \E i \in Items : \/ FlushProgress(i) \/ Cancel(i) \/ Pause(i)
                      \/ Resume(i) \/ ClearDone(i)
  \/ \E p \in Dropped : AddFile(p)
  \/ \E i \in Items, p \in Paths : Named(i, p)
  \/ \E e \in records : ResumeRecord(e)
  \/ \E s \in {Foreign} \cup {t \in Made : target[t] # None} : RemoteProgress(s)
  \/ \E choice \in Resolutions, all \in BOOLEAN : Resolve(choice, all)
  \/ ClearFinished
  \/ \E d \in deletes, ok \in BOOLEAN : Deleted(d, ok)

Next == Microtask \/ (~Urgent /\ Task)

\* The browser runs what is queued, and every request ends with an answer or
\* an error.  Neither the user nor the parent component has to do anything.
Fairness ==
  /\ WF_vars(Microtask)
  /\ WF_vars(~Urgent /\ render = "scheduled" /\ Render)
  /\ \A w \in Workers : WF_vars(~Urgent /\ Work(w))
  /\ WF_vars(~Urgent /\ \E i \in Items, p \in Paths : Named(i, p))

Spec == Init /\ [][Next]_vars /\ Fairness

-----------------------------------------------------------------------------

TypeOK ==
  /\ items \in [Items -> Item] /\ seen \in [Items -> Item]
  /\ render \in {"none", "scheduled", "sync"}
  /\ flush \in [Items -> Item]
  /\ run \in [Workers -> Run] /\ busy \in BOOLEAN
  /\ cancelled \subseteq Items /\ paused \subseteq Items
  /\ auto \in Resolutions \cup {None}
  /\ naming \in [Items -> [Paths -> Nat]]
  /\ added \in 0 .. MaxItems /\ clicks \in 0 .. MaxClicks
  /\ target \in [Made -> Paths \cup {None}]
  /\ records \subseteq Record /\ deletes \subseteq Delete
  /\ misled \subseteq Items /\ revived \subseteq Items
  /\ stalled \subseteq Items /\ refused \subseteq Items
  /\ dropped \subseteq Made \X Sessions

\* Two calls of run() never work at the same time, however rendering, answers
\* and clicks interleave: workerRef (upload-queue.ts:889-905, 1282-1285).
OneUploadAtATime ==
  \A v, w \in Workers : run[v].pc # "idle" /\ run[w].pc # "idle" => v = w

\* A row that shows work is worked on; a row that only looks busy would keep
\* the effect from ever starting another upload (upload-queue.ts:1288-1297).
\* Only a message of the WebSocket that arrives when the upload is over can
\* break this.
ShownBusyIsWorked ==
  \A i \in Items \ misled :
    items[i].status \in BusyStatus => \E w \in Workers : run[w].item = i

\* A file whose upload the user cancelled while it ran never finishes, unless
\* the user resumed it (upload-queue.ts:703, 736-741, 1211-1213).
RefusedNeverFinishes ==
  \A i \in refused \ (misled \cup revived) : items[i].status # "done"

\* A row that is over stays as it is until the user clears it, though patches
\* write whole lists, snapshots whole items, and timers fire late.  A free name
\* that arrives after another answer, and a late message, are the exceptions.
OverIsOver ==
  [][\A i \in Items :
       items[i].status \in Over /\ i \notin misled' \cup revived'
         => items'[i].status \in {items[i].status, "absent"}]_vars

\* Every file that waits is sooner or later taken up: no wakeup is lost between
\* workerRef, the list and the effect that reads both.  Excepted are queues that
\* a late message has stalled, or a cancel mark that outlived its upload.
QueueMoves ==
  \A i \in Items :
    items[i].status = "pending" ~>
      \/ items[i].status # "pending"
      \/ misled \cup stalled # {}

\* removeOtherTusRecordsForDestPath drops sessions "targeting the same
\* destination path" (local/tusSessions.ts:98).
DropsOnlySameTarget == \A d \in dropped : target[d[1]] = target[d[2]]
=============================================================================
