---------------------------- MODULE S3Multipart ----------------------------
(***************************************************************************)
(* Uploads of cloud mode: the runs of web/src/backend/s3Backend.ts (upload *)
(* and resumeUpload) over web/src/cloud/s3MultipartUpload.ts, the record   *)
(* of the unfinished upload in local storage (cloud/multipartSessions.ts), *)
(* the list of sessions of the upload tray (cloud/useMultipartSessions.ts) *)
(* and what web/src/upload-queue.ts does with an item of a bucket.         *)
(*                                                                         *)
(* All uploads here go to one object key, from one file on disk.  Records  *)
(* and multipart uploads of different keys do not meet, and a scope keeps  *)
(* at most one record per key, so `record' is a single variable.           *)
(*                                                                         *)
(* A content is a number: the file on disk is version 1, 2, ... of equal   *)
(* size, each with a modification time of its own, and never becomes an    *)
(* earlier version again.  Its digest is the version.  A File object is a  *)
(* snapshot: reading it after the file on disk changed is an error.        *)
(*                                                                         *)
(* Every request to the bucket is in `wire' until it is answered.  It may  *)
(* fail with or without having taken effect, and one whose upload was      *)
(* paused, cancelled or left by a reload may still take effect.            *)
(***************************************************************************)
EXTENDS Naturals, FiniteSetsExt, Functions

CONSTANTS
    NItems,      \* bound: queue items of a behaviour
    NUploads,    \* bound: multipart uploads the bucket creates
    NParts,      \* parts of the file
    Queue,       \* MULTIPART_UPLOAD_QUEUE_SIZE, the part workers of a run
    Check,       \* uploadChecksumValidationEnabled
    Versions,    \* bound: contents the file on disk takes
    MaxTrouble   \* bound: failures, pauses and reloads

ASSUME S3Assumption ==
    /\ {NItems, NUploads, NParts, Queue, Versions} \subseteq Nat \ {0}
    /\ MaxTrouble \in Nat
    /\ Check \in BOOLEAN

Items   == 1..NItems
Uploads == 1..NUploads
Parts   == 1..NParts
Files   == 1..Versions
Content == [Parts -> 0..Versions]

None    == 0                          \* no upload, no item, no digest
Nothing == [p \in Parts |-> None]     \* no parts, no object
Whole(v) == [p \in Parts |-> v]

VARIABLES
    upl,         \* the multipart uploads of the bucket
    object,      \* the content of the object, Nothing when it does not exist
    disk,        \* the version of the file on disk
    small,       \* the file fits one part: canUseSinglePutUpload
    record,      \* the multipart record of the key in local storage
    items,       \* the queue items, with the state of their runs
    wire,        \* requests the bucket has not answered
    refresh,     \* a refresh of the session list, and what the bucket listed
    sessions,    \* the session list the tray shows
    trouble,     \* bound
    lost,        \* history: uploads whose record lost its digest, or was dropped
    orphans      \* history: uploads nobody was told the id of

bucket  == <<upl, object>>
local   == <<record, lost>>
tray    == <<refresh, sessions>>
vars    == <<bucket, disk, small, local, items, wire, tray, trouble, orphans>>

\* The phases of a run that has not ended, and those that show as "active".
Sending == {"put", "sweep", "create", "list", "parts", "complete"}
Running == Sending \cup {"verify", "delete"}
\* A failed item that a left-over part worker turned back to "active", and
\* such an item after Cancel: nothing runs, but the queue takes it for a run.
Undead  == {"revived", "stuck"}
Ended   == {"done", "failed", "cancelled"}

Item == [at : {"new", "pending", "paused", "closed"} \cup Running \cup Undead \cup Ended,
         file : Files \cup {None},
         upload : Uploads \cup {None},     \* multipartUpload
         resume : BOOLEAN,                 \* multipartResume is set
         rsum : 0..Versions,               \* its checksumSha256Base64
         todo : SUBSET Parts, got : Content, workers : 0..Queue]

NewItem == [at |-> "new", file |-> None,
            upload |-> None, resume |-> FALSE, rsum |-> None,
            todo |-> {}, got |-> Nothing, workers |-> 0]

Record   == [id : Uploads \cup {None}, sum : 0..Versions]
NoRecord == [id |-> None, sum |-> None]

Request == [kind : {"sweep", "create", "put", "part", "complete", "list", "delete",
                    "abort", "abortSession"},
            item : Items \cup {None}, upload : Uploads \cup {None}, data : Content]

Req(kind, i, u, data) == [kind |-> kind, item |-> i, upload |-> u, data |-> data]

IsOpen(u) == u # None /\ upl[u].state = "open"
OpenUploads == {u \in Uploads : IsOpen(u)}

\* Mutated: a resumed upload is verified against the file it was resumed with.
sumOfFile(item) == IF Check THEN item.file ELSE None

\* The digest of a run: that of the record it resumes, else of its own file.
sum(item) == IF ~Check THEN None
             ELSE IF item.resume /\ item.rsum # None THEN item.rsum ELSE item.file

\* refresh of useMultipartSessions: on mount and after a session ended.
Idle   == [at |-> "idle", open |-> {}]
Asked  == [at |-> "asked", open |-> {}]
Listed == [at |-> "listed", open |-> OpenUploads]
RefreshIfDone(i) == refresh' = IF items'[i].at = "done" THEN Asked ELSE refresh

Trouble == trouble < MaxTrouble /\ trouble' = trouble + 1

-----------------------------------------------------------------------------
(* The record of the unfinished upload *)

\* upsertMultipartRecord.  Writing a record replaces that of another upload of
\* the same key.
Upsert(u, s) ==
    /\ record' = [id |-> u, sum |-> s]
    /\ lost' = IF Check /\ s = None THEN lost \cup {u} ELSE lost

\* S3Backend.persistMultipartRecord
Persist(item) == Upsert(item.upload, sum(item))

\* The progress callback of the queue keeps the digest of the record it finds.
PersistProgress(item) ==
    Upsert(item.upload, IF record.id = item.upload THEN record.sum ELSE None)

\* Mutated: the record of the key is removed, whichever upload it is of.
removeAnyRecord(u) == record' = NoRecord

removeMultipartRecord(u) ==
    record' = IF u # None /\ record.id = u THEN NoRecord ELSE record

-----------------------------------------------------------------------------
(* The bucket *)

Unused == {u \in Uploads : upl[u].state = "unused"}

\* CompleteMultipartUpload names every part by its ETag.
Accepts(r) ==
    CASE r.kind = "create" -> Unused # {}
      [] r.kind \in {"part", "list", "abort", "abortSession"} -> IsOpen(r.upload)
      [] r.kind = "complete" -> IsOpen(r.upload) /\ upl[r.upload].parts = r.data
      [] OTHER -> TRUE

End(u) == [upl EXCEPT ![u].state = "ended"]

\* Mutated: earlier uploads of the key stay.
SweptNone == upl

\* abortInProgressMultipartUploadsForKey
Swept == [u \in Uploads |-> IF IsOpen(u) THEN [upl[u] EXCEPT !.state = "ended"] ELSE upl[u]]

\* What an accepted request other than CreateMultipartUpload does.
Perform(r) ==
    CASE r.kind = "sweep"    -> upl' = Swept /\ UNCHANGED object
      [] r.kind = "part" ->
           /\ upl' = [upl EXCEPT ![r.upload].parts =
                        [p \in Parts |-> IF r.data[p] # None THEN r.data[p] ELSE @[p]]]
           /\ UNCHANGED object
      [] r.kind = "complete" -> object' = r.data /\ upl' = End(r.upload)
      [] r.kind = "put"      -> object' = r.data /\ UNCHANGED upl
      [] r.kind = "delete"   -> object' = Nothing /\ UNCHANGED upl
      [] r.kind \in {"abort", "abortSession"} -> upl' = End(r.upload) /\ UNCHANGED object
      [] r.kind = "list"     -> UNCHANGED bucket

Create(u) ==
    /\ Unused # {} /\ u = Min(Unused)
    /\ upl' = [upl EXCEPT ![u].state = "open"]
    /\ UNCHANGED object

\* A request nobody learns the outcome of takes effect or does not.
Unheard(r) ==
    \/ UNCHANGED <<bucket, orphans>>
    \/ /\ r.kind = "create"
       /\ \E u \in Uploads : Create(u) /\ orphans' = orphans \cup {u}
    \/ /\ r.kind # "create" /\ Accepts(r)
       /\ Perform(r)
       /\ UNCHANGED orphans

-----------------------------------------------------------------------------
(* A run of the queue *)

Set(i, item) == items' = [items EXCEPT ![i] = item]

\* The read of a File: its snapshot is still what is on disk.
Readable(item) == item.file = disk

\* Requests of an aborted run go on without anybody waiting for them.
Abandoned(i) ==
    {[r EXCEPT !.item = IF @ = i THEN None ELSE @] :
        r \in {q \in wire : ~(q.item = i /\ q.kind = "list")}}

\* Mutated: the item of a failed run keeps its status.
FailedUnnoticed(item) == item

Failed(item) == [item EXCEPT !.at = "failed"]
Ghost(item) == item.at \in {"failed"} \cup Undead
Complete(i, item) == Req("complete", i, item.upload, item.got)

\* The item the queue takes next, when no item shows as under way.
Busy    == \E i \in Items : items[i].at \in Running \cup Undead
Turn(i) == /\ ~Busy /\ items[i].at = "pending"
           /\ \A j \in 1..(i - 1) : items[j].at # "pending"

\* upload: hash the file, then one PutObject or a sweep of the key's uploads.
StartUpload(i) ==
    /\ Turn(i) /\ ~items[i].resume
    /\ LET item == items[i] IN
        IF Check /\ ~Readable(item)
        THEN Set(i, Failed(item)) /\ UNCHANGED wire
        ELSE IF small
             THEN /\ Set(i, [item EXCEPT !.at = "put"])
                  /\ wire' = wire \cup {Req("put", i, None, Whole(item.file))}
             ELSE /\ Set(i, [item EXCEPT !.at = "sweep"])
                  /\ wire' = wire \cup {Req("sweep", i, None, Nothing)}
    /\ UNCHANGED <<bucket, disk, small, local, tray, trouble, orphans>>

\* resumeUpload: a record without its digest gets that of the file in hand.
StartResume(i) ==
    /\ Turn(i) /\ items[i].resume
    /\ LET item == items[i]
           hash == Check /\ item.rsum = None
       IN IF hash /\ ~Readable(item)
          THEN Set(i, Failed(item)) /\ UNCHANGED <<wire, local>>
          ELSE /\ Set(i, [item EXCEPT !.at = "list"])
               /\ wire' = wire \cup {Req("list", i, item.upload, Nothing)}
               /\ IF hash THEN Persist(item) ELSE UNCHANGED local
    /\ UNCHANGED <<bucket, disk, small, tray, trouble, orphans>>

\* runWithConcurrency: each worker takes the next missing part.  Workers of a
\* failed run do so too, its signal is never aborted.
SendPart(i) ==
    /\ items[i].at = "parts" \/ Ghost(items[i])
    /\ items[i].todo # {}
    /\ Cardinality({r \in wire : r.kind = "part" /\ r.item = i}) < items[i].workers
    /\ LET item == items[i]
           p    == Min(item.todo)
           rest == [item EXCEPT !.todo = @ \ {p}]
       IN IF Readable(item)
          THEN /\ Set(i, rest)
               /\ wire' = wire \cup {Req("part", i, item.upload,
                                         [Nothing EXCEPT ![p] = item.file])}
               /\ UNCHANGED local
          ELSE /\ UNCHANGED wire
               /\ IF Ghost(item)
                  THEN /\ Set(i, [rest EXCEPT !.workers = @ - 1])
                       /\ UNCHANGED <<record, lost>>
                  ELSE /\ Set(i, Failed([rest EXCEPT !.workers = @ - 1]))
                       /\ Persist(item)
    /\ UNCHANGED <<bucket, disk, small, tray, trouble, orphans>>

\* The run ends well: the queue drops the record.
Done(i, item) ==
    /\ Set(i, [item EXCEPT !.at = "done"])
    /\ removeMultipartRecord(item.upload)

\* CompleteMultipartUpload or PutObject succeeded: verify, if there is a digest.
Published(i, item) ==
    IF sum(item) # None
    THEN /\ Set(i, [item EXCEPT !.at = "verify"])
         /\ IF item.at = "complete" THEN removeMultipartRecord(item.upload)
                                    ELSE UNCHANGED record
    ELSE Done(i, item)

\* A part is stored.  Promise.all of a failed run is not waiting any more, but
\* the progress callback still is: it writes "active" over the item's status.
PartStored(i, r) ==
    LET item == items[i]
        got  == [p \in Parts |-> IF r.data[p] # None THEN r.data[p] ELSE item.got[p]]
        full == \A p \in Parts : got[p] # None
        next == [item EXCEPT !.got = got, !.at = IF full THEN "complete" ELSE "parts"]
        rest == wire \ {r}
    IN
    \/ /\ item.at = "parts"
       /\ Set(i, next)
       /\ wire' = IF full THEN rest \cup {Complete(i, next)} ELSE rest
       /\ PersistProgress(item)
    \/ /\ item.at \in {"failed", "revived"}
       /\ Set(i, [item EXCEPT !.at = "revived"])
       /\ wire' = rest
       /\ PersistProgress(item)
    \/ /\ item.at = "stuck"
       /\ wire' = rest
       /\ UNCHANGED <<items, local>>

\* The run goes on after r succeeded.
Continue(i, r) ==
    LET item == items[i]
        rest == wire \ {r}
    IN
    CASE r.kind = "sweep" ->
           /\ Set(i, [item EXCEPT !.at = "create"])
           /\ wire' = rest \cup {Req("create", i, None, Nothing)}
           /\ UNCHANGED local
      [] r.kind = "list" ->
           LET have == upl[item.upload].parts
               todo == {p \in Parts : have[p] = None}
               next == [item EXCEPT !.got = have, !.todo = todo, !.workers = Queue,
                                    !.at = IF todo = {} THEN "complete" ELSE "parts"]
           IN /\ Set(i, next)
              /\ wire' = IF todo = {} THEN rest \cup {Complete(i, next)} ELSE rest
              /\ PersistProgress(item)
      [] r.kind = "part" -> PartStored(i, r)
      [] r.kind \in {"put", "complete"} ->
           Published(i, item) /\ wire' = rest /\ UNCHANGED lost
      [] r.kind = "delete" ->
           Set(i, Failed(item)) /\ wire' = rest /\ UNCHANGED local

\* The run fails: the catch of upload and resumeUpload, then that of the queue.
Stop(i, r) ==
    LET item == items[i] IN
    /\ wire' = wire \ {r}
    /\ CASE r.kind = "part" /\ Ghost(item) ->
              /\ Set(i, [item EXCEPT !.workers = @ - 1])
              /\ UNCHANGED <<record, lost>>
         [] r.kind = "part" /\ ~Ghost(item) ->
              /\ Set(i, Failed([item EXCEPT !.workers = @ - 1]))
              /\ Persist(item)
         [] r.kind \in {"list", "complete"} ->
              Set(i, Failed(item)) /\ Persist(item)
         [] r.kind \in {"put", "sweep", "create", "delete"} ->
              Set(i, Failed(item)) /\ UNCHANGED <<record, lost>>

Succeed(i, r) ==
    /\ r.item = i /\ Accepts(r)
    /\ IF r.kind = "create"
       THEN /\ \E u \in Uploads :
                 /\ Create(u)
                 /\ Set(i, [items[i] EXCEPT !.at = "parts", !.upload = u, !.todo = Parts,
                                            !.got = Nothing, !.workers = Queue])
                 /\ Persist(items'[i])
            /\ wire' = wire \ {r}
       ELSE Perform(r) /\ Continue(i, r)
    /\ RefreshIfDone(i)
    /\ UNCHANGED <<disk, small, sessions, trouble, orphans>>

Refuse(i, r) ==
    /\ r.item = i /\ ~Accepts(r)
    /\ Stop(i, r)
    /\ UNCHANGED <<bucket, disk, small, tray, trouble, orphans>>

\* The network fails.
Lose(i, r) ==
    /\ r.item = i /\ Trouble
    /\ Unheard(r)
    /\ Stop(i, r)
    /\ UNCHANGED <<disk, small, tray>>

\* sha256Base64Matches reads the file again, never the object.
Verify(i) ==
    /\ items[i].at = "verify"
    /\ LET item == items[i] IN
        IF ~Readable(item)
        THEN Set(i, Failed(item)) /\ UNCHANGED <<wire, record>>
        ELSE IF item.file = sum(item)
        THEN Done(i, item) /\ UNCHANGED wire
        ELSE /\ Set(i, [item EXCEPT !.at = "delete"])
             /\ wire' = wire \cup {Req("delete", i, None, Nothing)}
             /\ UNCHANGED record
    /\ RefreshIfDone(i)
    /\ UNCHANGED <<bucket, disk, small, lost, sessions, trouble, orphans>>

-----------------------------------------------------------------------------
(* Requests nobody waits for, and aborts *)

Late(r) ==
    /\ r.item = None /\ r.kind \notin {"abort", "abortSession"}
    /\ Unheard(r)
    /\ wire' = wire \ {r}
    /\ UNCHANGED <<disk, small, local, items, tray, trouble>>

\* AbortMultipartUpload.  Only abortMultipartSession is followed by the removal
\* of the record, and only if the bucket still had the upload.
AbortAnswered(r) ==
    /\ r.kind \in {"abort", "abortSession"}
    /\ wire' = wire \ {r}
    /\ IF Accepts(r)
       THEN /\ Perform(r)
            /\ IF r.kind = "abortSession"
               THEN removeMultipartRecord(r.upload) /\ refresh' = Asked
               ELSE UNCHANGED <<record, refresh>>
       ELSE UNCHANGED <<bucket, record, refresh>>
    /\ UNCHANGED <<disk, small, lost, items, sessions, trouble, orphans>>

AbortLost(r) ==
    /\ r.kind \in {"abort", "abortSession"} /\ Trouble
    /\ Unheard(r)
    /\ wire' = wire \ {r}
    /\ UNCHANGED <<disk, small, local, items, tray>>

-----------------------------------------------------------------------------
(* The user, the disk and the tab *)

\* enqueue
Enqueue(i) ==
    /\ items[i].at = "new" /\ \A j \in 1..(i - 1) : items[j].at # "new"
    /\ Set(i, [NewItem EXCEPT !.at = "pending", !.file = disk])
    /\ UNCHANGED <<bucket, disk, small, local, wire, tray, trouble, orphans>>

\* pauseUpload acts on an active item that has a signal to abort.
Pause(i) ==
    /\ items[i].at \in Sending /\ Trouble
    /\ Set(i, [items[i] EXCEPT !.at = "paused", !.todo = {}])
    /\ wire' = Abandoned(i)
    /\ UNCHANGED <<bucket, disk, small, local, tray, orphans>>

\* enrichPausedItemForResume: without its record the item starts over.
Resume(i) ==
    /\ items[i].at = "paused"
    /\ LET item == items[i]
           base == [item EXCEPT !.at = "pending"]
       IN Set(i, IF ~item.resume /\ item.upload # None /\ record.id = item.upload
                 THEN [base EXCEPT !.resume = TRUE, !.rsum = record.sum] ELSE base)
    /\ UNCHANGED <<bucket, disk, small, local, wire, tray, trouble, orphans>>

abortMultipartSession(u) == IF u = None THEN {} ELSE {Req("abortSession", None, u, Nothing)}

\* cancelUpload aborts the session of the item, and the signal makes a fresh
\* run abort its upload too (onAbort).  The bucket refuses the second of these
\* requests, so one stands for both: that which comes first.
Cancel(i) ==
    LET item == items[i]
        own  == item.at \in {"parts", "complete"} /\ ~item.resume
    IN /\ \/ /\ item.at = "pending"
             /\ UNCHANGED wire
          \/ /\ item.at \in {"paused", "revived"}
             /\ wire' = wire \cup abortMultipartSession(item.upload)
          \/ /\ item.at \in Running
             /\ \/ wire' = Abandoned(i) \cup abortMultipartSession(item.upload)
                \/ /\ own
                   /\ wire' = Abandoned(i) \cup {Req("abort", None, item.upload, Nothing)}
       /\ Set(i, IF item.at = "revived" THEN [item EXCEPT !.at = "stuck"]
                 ELSE [item EXCEPT !.at = "cancelled", !.todo = {}])
       /\ UNCHANGED <<bucket, disk, small, local, tray, trouble, orphans>>

\* The file is edited: same name and size, later modification time.
Edit ==
    /\ disk < Versions
    /\ disk' = disk + 1
    /\ UNCHANGED <<bucket, small, local, items, wire, tray, trouble, orphans>>

\* The pagehide listener of the queue: the last item that has an upload and is
\* neither done nor cancelled leaves its record, with the digest it was resumed
\* with, if it was resumed.
Flush ==
    LET open == {i \in Items : /\ items[i].upload # None
                               /\ items[i].at \notin {"new", "closed", "done", "cancelled"}}
        last == items[Max(open)]
    IN IF open = {} THEN UNCHANGED <<record, lost>>
       ELSE Upsert(last.upload, IF last.resume THEN last.rsum ELSE None)

\* The tab is reloaded, or the browser is killed before pagehide.
Reload ==
    /\ Trouble
    /\ \E i \in Items : items[i].at \notin {"new", "closed"}
    /\ Flush \/ UNCHANGED <<record, lost>>
    /\ items' = [i \in Items |-> IF items[i].at = "new" THEN NewItem
                                 ELSE [NewItem EXCEPT !.at = "closed"]]
    /\ wire' = {[r EXCEPT !.item = None,
                          !.kind = IF @ = "abortSession" THEN "abort" ELSE @] : r \in wire}
    /\ refresh' = Asked /\ sessions' = {}
    /\ UNCHANGED <<bucket, disk, small, orphans>>

-----------------------------------------------------------------------------
(* The session list of the tray *)

\* ListMultipartUploads is answered.
RefreshLists ==
    /\ refresh = Asked
    /\ refresh' = Listed
    /\ UNCHANGED <<bucket, disk, small, local, items, wire, sessions, trouble, orphans>>

\* Mutated: a session is taken from a record that is not there.
MergedUnchecked(rec) == {[id |-> rec.id, sum |-> rec.sum, mine |-> TRUE]}

\* mergeMultipartSessions
Merged(rec) ==
    IF rec = NoRecord
    THEN {[id |-> u, sum |-> None, mine |-> FALSE] : u \in refresh.open}
    ELSE {[id |-> rec.id, sum |-> rec.sum, mine |-> TRUE]}

\* The rest of listMultipartSessions: a record the bucket did not list
\* is dropped when its ListParts fails, for whatever reason.  A session without
\* a record is hidden while another upload of its key has one.
RefreshEnds ==
    /\ refresh.at = "listed"
    /\ LET asked == record.id # None /\ record.id \notin refresh.open
       IN \E answered \in BOOLEAN :
            /\ IF answered \/ ~asked THEN UNCHANGED trouble ELSE Trouble
            /\ IF asked /\ ~(answered /\ IsOpen(record.id))
               THEN /\ record' = NoRecord
                    /\ lost' = IF IsOpen(record.id) THEN lost \cup {record.id} ELSE lost
               ELSE UNCHANGED <<record, lost>>
    /\ sessions' = Merged(record')
    /\ refresh' = Idle
    /\ UNCHANGED <<bucket, disk, small, items, wire, orphans>>

\* The tray offers the sessions no item of the queue is about.
Offered == {s \in sessions : \A i \in Items : items[i].upload = s.id =>
                                items[i].at \in Ended \cup {"new", "closed"}}

\* resumeSession, from the record as it was when the list was drawn.  The file
\* behind a stored handle must only have the name and the size of the record
\* (fileMatchesMultipartRecordByHandle), so it may have been edited since.
ResumeSession(i) ==
    /\ items[i].at = "new" /\ \A j \in 1..(i - 1) : items[j].at # "new"
    /\ \E s \in Offered :
        /\ s.mine
        /\ Set(i, [NewItem EXCEPT !.at = "pending", !.file = disk, !.upload = s.id,
                                  !.resume = TRUE, !.rsum = s.sum])
    /\ UNCHANGED <<bucket, disk, small, record, lost, wire, tray, trouble, orphans>>

AbortSession ==
    /\ \E s \in Offered : wire' = wire \cup abortMultipartSession(s.id)
    /\ UNCHANGED <<bucket, disk, small, local, items, tray, trouble, orphans>>

-----------------------------------------------------------------------------
Init ==
    /\ upl = [u \in Uploads |-> [state |-> "unused", parts |-> Nothing]]
    /\ object = Nothing
    /\ disk = 1 /\ small \in BOOLEAN
    /\ record = NoRecord /\ lost = {}
    /\ items = [i \in Items |-> NewItem]
    /\ wire = {}
    /\ refresh = Idle /\ sessions = {}
    /\ trouble = 0
    /\ orphans = {}

Answer(i) == \E r \in wire : Succeed(i, r) \/ Refuse(i, r) \/ Lose(i, r)
Start(i)  == StartUpload(i) \/ StartResume(i)
Step(i)   == Answer(i) \/ SendPart(i) \/ Verify(i)

Next ==
    \/ \E i \in Items : \/ Start(i) \/ Step(i)
                        \/ Enqueue(i) \/ Pause(i) \/ Resume(i) \/ Cancel(i)
                        \/ ResumeSession(i)
    \/ \E r \in wire : Late(r) \/ AbortAnswered(r) \/ AbortLost(r)
    \/ Edit \/ Reload
    \/ RefreshLists \/ RefreshEnds \/ AbortSession

\* The queue's effect runs after every change of the items; a request of a run
\* is answered or fails; the part workers and the verification run on.
Fairness == \A i \in Items : WF_vars(Start(i) \/ Step(i))

Spec == Init /\ [][Next]_vars /\ Fairness

-----------------------------------------------------------------------------
(* Properties *)

\* The variables keep the shapes the declarations give them.
TypeOK ==
    /\ upl \in [Uploads -> [state : {"unused", "open", "ended"}, parts : Content]]
    /\ object \in Content /\ disk \in Files /\ small \in BOOLEAN
    /\ record \in Record
    /\ items \in [Items -> Item]
    /\ wire \in SUBSET Request
    /\ refresh \in [at : {"idle", "asked", "listed"}, open : SUBSET Uploads]
    /\ sessions \in SUBSET [id : Uploads, sum : 0..Versions, mine : BOOLEAN]
    /\ trouble \in Nat
    /\ lost \in SUBSET Uploads /\ orphans \in SUBSET Uploads

\* Starting an upload first aborts what earlier ones left in the bucket: but for
\* uploads whose CreateMultipartUpload nobody waited for, at most one is open,
\* through pauses, failures, left-over workers, reloads and stale sessions.
OneOpenUpload == Cardinality(OpenUploads \ orphans) <= 1

\* What a crash needs: while parts are sent to an open upload, local storage has
\* its record.  Not one that an earlier upload's abort, left-over workers or the
\* end of another run put there, whatever the order in which they are answered.
RunningUploadIsRecorded ==
    \A i \in Items :
        /\ items[i].at \in {"parts", "complete"}
        /\ IsOpen(items[i].upload) /\ items[i].upload \notin lost
        => record.id = items[i].upload

\* With checksum validation on, an upload that is reported done is the file it
\* was resumed with, part for part, although parts may have been sent by other
\* runs, from other versions of the file and by workers of runs that failed:
\* unless its record was written without the digest of its first run.
DoneUploadIsTheFile ==
    [][\A i \in Items :
        LET item == items[i] IN
        (items'[i].at = "done" /\ item.at = "verify" /\ ~small /\ item.upload \notin lost)
            => upl[item.upload].parts = Whole(item.file)]_vars

\* The queue goes on to the next item, unless a failed one was revived.
QueueMoves ==
    \A i \in Items :
        items[i].at = "pending" ~>
            (items[i].at # "pending" \/ \E j \in Items : items[j].at \in Undead)
=============================================================================
