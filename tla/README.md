# Verification of zfiles

TLA+ models of the zfiles kernel and web client, the TLC runs that check them on
small instances, and theorems about them that TLAPS proves for every instance.
`PROJECT.json` maps every definition to the source lines it stands for and lists
the runs, the mutants that show each property can fail, the hazards and the findings.

## 1. The system and its components

zfiles serves a directory over HTTP (`src/`, Rust) to a web explorer (`web/src/`,
TypeScript), which can also work on an S3 bucket or on a file system kept inside the
browser. The parts with state of their own:

| component | state it keeps | operations | what makes it hard | what makes it correct |
|---|---|---|---|---|
| upload store (`src/state.rs`, `src/mount.rs`) | spool file and sidecar per session, one mutex | create, look up, append, finalize, abort | crash between two file operations, failing writes, target on another filesystem | offsets told are kept, published content is whole, a session ends once |
| tus handlers (`src/transport.rs`) | none; three lock sections per PATCH | POST, HEAD, PATCH, DELETE `/api/upload` | what was looked up is stale at the append | complete means published |
| browser upload client (`kernelBackend.ts`, `local/`) | offset, session, remembered sessions in localStorage | upload, resume, abort | broken connections, several tabs, a client racing its own request | success means the session is over; attempts end |
| command-line client (`src/upload.rs`) | offset, state file | upload, `--resume` | restart of the server between two requests | success means published |
| upload queue (`upload-queue.ts`) | items, one worker, pause/cancel sets | enqueue, pause, resume, cancel, resolve conflict | every await of the worker can be overtaken by a user action | a cancelled item is not uploaded; the worker never stalls; progress goes to its item |
| connections (`connections/`) | active connection, keys in memory and on disk, frozen state, dialogs | activate, create, edit, duplicate, forget, remove, authentication error, reload | validations that overlap, errors of a backend that was left, records changed during an await | rejected keys stay gone; keys are on disk only where the record says so; a reload comes back to what was mounted |
| local file operations (`src/fs.rs`) and actions (`transport.rs`) | the served tree | copy, move, rename, delete, mkdir | two clients at once, operations that fail half way, source inside destination | nothing is lost that no request named; a copy is whole; what changed is announced |
| live refresh (`events.rs`, `watch.rs`, websocket, `listingRefresh.ts`) | bounded event channel, pending path, listing | publish, subscribe, debounce, refresh | lost and coalesced events, reconnects | the listing becomes current unless an event was lost |
| S3 file operations (`backend/s3FileOperations.ts`) | objects of the bucket | copy, move, rename, delete, mkdir | every request may fail, a folder is many keys, other tabs act in between | nothing is lost that no action named |
| S3 multipart (`cloud/`, `backend/s3Backend.ts`) | uploads and parts in the bucket, one record per key in localStorage, the queue's items | create, part, complete, abort, resume, verify | parts in parallel, a failed part beside running ones, an edited file, stale session lists | one open upload per key; a running upload is recorded; what is reported done is the file |
| object cache (`backendObjectCache.ts`) | stats, URLs, requests under way | get, invalidate | a request that outlives an invalidation | no stale value is served |
| browser file system (`browserfs/`) | IndexedDB store, quota, blob URLs | read, write, rename, delete | transactions, quota | tree stays a tree |
| explorer (`explorer/`) | path, listing, cursor, history, selection, clipboard | navigate, load, cancel, page, select, paste | loads that overtake each other | what is shown belongs to the path and the address shown |
| daemon control (`daemon.rs`) | pid file | start, stop, status | races over the file, reused pids | at most one daemon, which can be stopped |
| configuration (`config.rs`, `cli.rs`, `dotfolder.rs`) | settings files, global and per folder | `config set`, `init`, load | files read, emptied and written without a lock | a server follows what was set last |
| authentication (`auth.rs`) and ranges (`range.rs`) | a token per server; the browser's one cookie per host | middlewares, GET `/api/file` | answers out of order, several servers on one host; boundaries of u64 | access lasts as long as the token; the bytes sent are those asked for |

They interact by HTTP calls (client to handlers to store), by the event bus (handlers
and watcher to websocket to explorer), by shared files (the served tree, the state
folder) and by localStorage (between tabs). The remaining parts (command line,
banner, logging, QR codes, embedded assets, rendering) keep no state that several
actors share and are not modelled; `PROJECT.json` lists them.

## 2. Modules

| module | models | extends |
|---|---|---|
| `AtomicUpload` | what the store promises: a session is opened, grows, and is published whole or discarded, once | |
| `TusStore` | the store and its handlers, one action per lock section or file operation | |
| `TusUpload` | tabs and command-line runs that upload through handlers of `TusStore` over connections that break | `TusStore` |
| `UploadQueue` | the upload queue of a tab: its worker, rendering, progress and clicks | |
| `Connections` | the registry of saved connections and the provider that mounts one | |
| `S3Multipart` | uploads to a bucket: queue items, parts, the record, the session list | |
| `LocalFs` | the file operations of the kernel and the actions that announce them | |
| `ExplorerPaths` | paths and requests as the explorer gives them to the next two | |
| `S3Objects` | the file operations of a bucket, and the stats a tab caches | `ExplorerPaths` |
| `BrowserFs` | the volume in the browser: its transactions, tabs and cached URLs | `ExplorerPaths` |
| `Explorer` | change events from the watcher to the screen, and the loads of listings | |
| `Selection` | rows, focus and selection of the explorer, with the effects of a rendering | |
| `Daemons` | processes, pid files and settings files of one machine | |
| `Access` | tokens, the cookie, and the ranges of a download | |
| `TusUploadProofs` | the theorems about `TusStore` and `TusUpload` | `TusUpload`, `TLAPS` |
| `UploadQueueProofs`, `ConnectionsProofs`, `S3MultipartProofs`, `LocalFsProofs` | the theorems about the module each is named after | that module, `TLAPS` |
| `ExplorerProofs` | the theorems about `Explorer` and `Selection` | `Explorer`, `Selection`, `TLAPS` |
| `ServerProofs` | the theorems about `Daemons` and `Access` | `Daemons`, `Access`, `TLAPS` |
| `BackendsProofs` | the theorems about `BrowserFs` and `S3Objects` | `BrowserFs`, `S3Objects`, `LocalFsProofs` |
| `MCTusStore`, `MCTusUpload`, `MCUploadQueue`, `MCConnections`, `MCS3Multipart` | instances of one module | that module |
| `MCServer` | instances of `TusStore`, `Daemons` and `Access` | `MCTusStore`, `Daemons`, `Access` |
| `MCBackends` | instances of `LocalFs`, `S3Objects` and `BrowserFs` | `LocalFs`, `S3Objects`, `BrowserFs` |
| `MCExplorer` | instances of `Explorer` and `Selection` | `Explorer` |

The last three hold components that do not interact. A variable `part`, chosen by the
initial state, names the component that runs; the variables of the others never change.
A run of such a module is the sum of the runs of its parts, and every property of it
speaks of one part.

### TusStore

| variable | in the code |
|---|---|
| `spool[u]` | the bytes of `uploads/<id>`, or `None` without the file; its length is the offset |
| `sidecars` | the ids with `uploads/<id>.meta.json` |
| `files[t]` | the served tree: whose content each name holds |
| `lock` | `StateStore::lock`, held by a handler between two file operations only |
| `pc[h]`, `req[h]` | where a handler is in its function, and its locals |
| `opened`, `published`, `reported`, `announced`, `completed`, `faulted` | histories the properties speak about |

Content is abstracted to positions: byte *i* of what the client declared is the number
*i*, anything else is 0, so that a spool has the declared checksum exactly when it is
`Whole(u)`. The sidecar's target and length are constants of the upload id, since an
id is a fresh UUID and a sidecar is never rewritten.

A lock section without a file operation that can be told apart from its neighbours is
one action (`HeadUpload`, `PatchCheck`, `PatchAppend`). Sections that change two files
hold `lock` over several actions, so that a `Restart` can come between them:
`CreateSpool`/`CreateSidecar`, `Finalize`/`CopyFile`/`RemoveSpool`/`RemoveSidecar`,
`DeleteUpload`/`RemoveSidecar`. `PatchAnnounce` is the code between the append and the
finalize, outside the lock. Each fallible operation has its `...Fails` action;
`RequestFails` is the failure of a request's first operation, which changes nothing.
`Restart` keeps the files and nothing else. The sidecar's temporary file and orphaned
spools are never read by the code and are not distinguished from no sidecar.

### TusUpload

`client[c]` is the state of one attempt: the step of `KernelBackend.upload` or
`upload_file` it is at, the session, the offset, and where the next bytes are read
(`place`; the command reads on sequentially, a tab slices at the offset). `call[h]` is a
request on its way, `waiter[h]` who listens for its answer. `Lose` is a broken
connection, a paused or a cancelled upload: the client stops and the request goes on,
unless `Drop` loses it. `records` is the tabs' localStorage, `stateFile` the command's,
`aborts` the DELETEs a tab fires without awaiting them. Each `Tab...` and `Run...`
action is the reaction to one kind of answer. `Deliver`, `Work` and `Answered` are the
actions of `TusStore` with the client's part joined to them: every step of
`TusUpload` is a step of `TusStore` or leaves its variables alone.

The uploaded file does not change during an upload, and all uploads of an instance are
of the same file and target; changed content is a case of `TusStore`'s own requests.

### UploadQueue

The hook `useUploadQueue` on the local backend. JavaScript runs one task at a time, so
what interleaves is what lies between two awaits: every action is the code from one
await, event or timer to the next.

| variable | in the code |
|---|---|
| `items` | React's list with every queued `setItems` applied |
| `seen` | `itemsRef.current`: the list of the last rendering, or of the last `patchQueueItem` |
| `render` | whether a rendering is due, and whether at once (a click) or later |
| `flush[i]` | `pendingProgressItemRef`: a copy of the row whose timer has not fired |
| `run[w]`, `busy` | the calls of `run()` with their locals, and `workerRef` |
| `cancelled`, `paused` | `cancelledIdsRef`, `pausedIdsRef` |
| `auto`, `naming` | `applyToAllResolutionRef`; searches for a free name after "keep both" |
| `records`, `deletes`, `target` | localStorage, the DELETEs not yet answered, and the file each session of the server will write |
| `misled`, `revived`, `stalled`, `refused`, `dropped` | histories the properties speak about |

`Render` is a rendering and the effect that follows it; it may come at any time, as the
callbacks it depends on are new in every rendering of the parent. `Work(w)` are the
steps of `run()` and of `KernelBackend.upload` under it, as far as the queue can tell
them apart: `stat`, `rename` (conflict check), `begin`, `prepare`, `upload`, `hashing`,
`create`, `transfer`, `verify`, and `settle` (a pause that asks for its offset). A
microtask, and the rendering after a click, come before anything else (`Urgent`).
`Snapshot` is the throttled `commitProgressItem`. `RemoteProgress` is an
`upload_progress` message of the WebSocket. The buttons a row shows are guards of the
clicks. Offsets and speeds are left out; the requests of an upload, which `TusUpload`
models, are one step `transfer` here.

The code has behaviours that a stronger property would trip over. They are named by
history variables, so that the properties except them and nothing else: a message of
the WebSocket that arrives when no call works on the row it changes (`misled`), the
free name of a question answered twice (`revived`), and a cancel mark that outlived its
upload, for which `run()` returns without a change that would start it again
(`stalled`).

### Connections

| variable | in the code |
|---|---|
| `issued`, `saved`, `remember` | ids `createId` returned, the records, those with `rememberKeys` |
| `session`, `stored` | `sessionKeys`, and the keys in local storage |
| `lastActive` | the active connection's id in local storage |
| `link`, `active`, `frozen`, `activating`, `dialog`, `failure`, `booted` | the states and refs of `ConnectionProvider` |
| `checks` | HeadBucket validations under way, with what `activate` captured before its await |
| `requests`, `valid` | requests of mounted (or once mounted) backends; keys the bucket accepts |
| `dropped`, `overtaken`, `consent` | histories the properties speak about |

A connection is its id, a pair of keys a model value. `from` in a check is the caller
of `activate`, which decides what happens when it ends. A state and the ref that
mirrors it are one variable, with one exception that matters: `connectFromUrl` writes
`ephemeralRef` alone, which the next rendering resets, so a link is known only after its
validation. `Reload` forgets what the tab held. The guards of the dialogs are those of
their buttons, `disabled` included.

### S3Multipart

All uploads go to one object key from one file: records and multipart uploads of
different keys do not meet. A content is a version number of the file, so a digest is
the version and a mixture of parts is visible. `items` are the rows of the queue with
the state of their runs; `wire` the requests the bucket has not answered, each of which
may be answered, refused, or lost with or without having taken effect; `record` the
entry of the key in local storage; `refresh` and `sessions` the list of the tray.
`SendPart` is a worker of `runWithConcurrency`; a worker of a failed run goes on
(`Ghost`), and its progress callback writes "active" over the failed row (`revived`).
`lost` names uploads whose record lost its digest, or was dropped while they lived;
`orphans` uploads created for a run that no longer listened.

### LocalFs

`node` is the tree, `req[r]` a request of `POST /api/actions` and how far it is. One
target after the other is started (`StartTarget`, all checks in the order of the code),
then walked: `ClearDest` removes an overwritten destination entry by entry,
`CopyEntry` copies depth first, `RemoveSource` removes entry by entry, `RenameInPlace`
is rename(2). Two requests interleave between any two entries; `Breaks` is a failing
call, which may leave a cut file. `unseen` are listings changed since they were last
announced; `atRisk`, `image` and `disturbed` are histories: contents some request was
asked to destroy or two requests contend for, the source of a target as it was, and
requests whose paths another one writes to. Paths are normalised and name no symbolic
link. The assumptions on the instance are those of the code: a served directory is a
tree (`ServedTree`), and no body names the root or the server's own directory as what
is to be copied, moved or deleted, because `Admissible` refuses both.

### S3Objects

`obj` maps keys to objects; a key is a path, or a path with a slash, the marker of a
folder. Keys longer than `MaxDepth` names are refused, as the bucket refuses keys of more
than 1024 bytes. `act[r]` is an action of `runS3FileAction` and where it is: `headSource`,
`headDest`, `headVictim`, `listVictim`, `deleteKeys`, `copyFile`, `listSource`,
`putMarker`, `headKeys`, `copyKeys`. Each is one request to the bucket, which may fail; a
HEAD that fails reads as "not a file". `stats` is the cache of `backendObjectCache.ts`,
`fetching` the requests it waits for, of which the tracked ones are `inFlightStats`.
`excused`, `waived` and `threatened` are histories: cached stats the code leaves outdated,
contents whose HEAD failed, and contents an action was asked to destroy. Pasting into the
top of a bucket fails, as the code takes the empty name of the top for no destination.

### BrowserFs

Every call of `browserfs/store.ts` is one IndexedDB transaction, so `Transaction` is one
step that takes a pair of stores and gives one: `writeFile`, `ensureDirectory`,
`deleteSubtree`, `copy`, `move`. A request of several paths is several of them and may
stop in between. Tabs share the stores (`nodes`, `blobs`); each has its cache of object
URLs (`urls`) and asks once for persistent storage (`persisted`). `foreign` and
`hollow` name what the code leaves behind: URLs of files another tab changed or a rename
replaced, and a file moved onto a directory above itself. A full cache drops any URL, where
the code drops the one used least recently: what holds for every choice holds for that one.

### Explorer

`version` counts the content of each directory; `pending` is the path the watcher holds
until its interval is quiet, `queue` what the broadcast channel and the socket hold,
`acting` directories an action changed and has not announced. A load carries the
generation it was started with, the directory, who started it, where it goes back to and
the version it read (`seen`). `Load`, `Answer`, `LoadFails`, `Void` and `Cancel` are
`loadListing` and `cancelListingLoad`; `NavigationEnds` is what `navigateTo` and the
popstate handler do with the result. `mode` chooses the backend: a kernel sends events
and lists in one page, a bucket sends none and pages. `missed` collects directories
whose event or repair was lost, and by what is exact: a watcher path replaced by a
later one, no subscription, a full channel, an open name editor, an event about
another directory, a load that failed, was cancelled or given up for another directory.

### Selection

`scr` is the state of `ExplorerApp`: path, entries, filters, selected paths, focus,
index, modes. A handler computes the next screen, and `Settled` runs the effects whose
dependencies changed until nothing changes: `LeaveSelectionMode`, `ClearTouchSelection`,
`ResetQuickFilter`, `FollowFocus`, `SelectFirstMatch`, `FocusIndex`, in the order of the
code, each with the dependencies that make it run. `load` is a refresh or a navigation
with the selection it took when it began, `drag` a marquee. `unseen` are targets a filter
hid while they were selected, or that an unfinished drag put back.

### Daemons

`proc` are the processes of the machine, `pidfile` and `conf` the files, each of which is
emptied and then written in two steps. `cmd[c]` is a command and how far it is: `start`
and `stop` (`Look`, `Check`, `Kill`, `Wait`, `RemovePid`, `Spawn`, `TruncatePid`,
`WritePid`), `config set` (`Load`, `LoadFolder`, `Truncate`, `Write`) and `init`
(`CheckFile`, `CreateFile`). A server validates its arguments, reads the global file and
the folder's, and binds. Processes die, commands are interrupted, and ids are reused.
`tangled`, `lost` and `frozen` are histories: pid files changed under another command's
hands, settings lost to another command, folders that took over a global setting.

### Access

`jar` is the cookie the browser keeps for the host, `wire` the requests and answers under
way, which arrive in any order. `middleware` and `read_only_middleware` decide an answer;
a link of the banner sets the cookie, a refused request that carried one clears it.
`admitted` are servers whose link was answered, `unsettled` those whose cookie an answer to
something else changed. `parse_range_header` is arithmetic on `0..U64`, wrap-around
included.

## 3. Runs

| run | question | instance |
|---|---|---|
| `server` | Are the promises of the store kept with requests racing, operations failing and restarts anywhere? `NothingToldIsLost`, `CompleteMeansPublished`, `PairedUnlessFaulted`, `SpoolOnlyGrows`, `ImplementsAtomicUpload`. Is every daemon found by its pid file, does a server follow its settings? `DaemonsAreFound`, `ReadOnlyIsHonoured`. Does access last, are ranges exact? `AccessLasts`, `RangesAreExact` | store: two handlers; one upload of two bytes on the spool's filesystem and one of one byte on another; bodies of up to two bytes, right or wrong, when both work on one session, and of one byte when each has its own. Machine: two directories, three process ids, three commands out of a list of plans, one fault. Door: two servers of one host, of which one expires and is started twice and one is read-only, three requests, sizes up to 4 |
| `patch_race` | Does a PATCH append at the offset it names? It does not (finding) | the same |
| `tus_upload` | Do tabs keep to their offsets, end their sessions and forget none? `NeverAhead`, `DoneEndsSession`, `NoSessionIsForgotten` | two tabs, two ids, two handlers, two bytes sent one by one, three disturbances |
| `tus_upload_ends` | Is every request answered and does every attempt end? `RequestsAnswered`, `EveryAttemptEnds` | a tab and a command-line run, one byte, two disturbances |
| `cli_resume` | Is the file published when the resumed command succeeds? Not always (finding) | one run, two bytes, two disturbances |
| `upload_queue` | Does one upload run at a time, is each busy row worked on, is a refused file never finished, does a row that is over stay so, and does the queue move? `OneUploadAtATime`, `ShownBusyIsWorked`, `RefusedNeverFinishes`, `OverIsOver`, `QueueMoves` | two files, the one session a tab finds or makes, two destinations of which each is the other's free name, two clicks or messages, with and without the file read beforehand, two calls of `run()` |
| `keep_both` | Does an upload drop only sessions of its own target? It does not (finding) | the same with two sessions |
| `connections` | Do rejected keys stay gone, are keys on disk only where the record says so, does a reload come back to the mounted connection, does every activation end? `DroppedKeysAreGone`, `StoredKeysFollowTheRecord`, `RememberedConnectionIsMounted`, `EveryActivationEnds` | two records, one pair of keys, a link and Browser storage, three validations, requests or reloads |
| `keys_unasked` | Are keys on disk only when the user last asked for it? They are not (finding) | the same |
| `s3_multipart` | Is one upload open per key, is a running one recorded, is what is done the file, does the queue move? `OneOpenUpload`, `RunningUploadIsRecorded`, `DoneUploadIsTheFile`, `QueueMoves` | two items, two uploads, a file of two parts edited once, two workers, one failure, pause or reload |
| `backends` | Is only lost what was named, are copies whole, is what changed announced, in the served directory? `ContentIsKept`, `CopiesAreWhole`, `ListingsAreAnnounced`. The same of a bucket and of the volume in the browser: `ObjectsAreKept`, `StatsAreCurrent`, `TreeIsWhole`, `UrlsAreCurrent` | kernel: two requests out of 34 bodies over two trees of depth three, one failing call. Bucket: two actions of two tabs out of ten jobs on a folder of two files and an empty one, an upload, one stat asked for, paths of at most three names, one failure. Volume: two requests of two tabs out of ten bodies on a tree of depth three, four ids, two URLs, one abort |
| `explorer` | Is a stale listing noticed and refreshed, do entries and address belong to the path? `StaleListingIsNoticed`, `EntriesAreOfThePath`, `AddressNamesThePath`, `StaleListingIsRefreshed`. Does an operation act on rows of the screen, does a refresh keep the selection? `TargetsAreShown`, `RefreshKeepsSelection` | live: the root and one directory, a channel of one event, three changes, loads or edits, one failure. Selection: three entries of which one is hidden, one quick filter, one change of the directory; keyboard and clicks, marquees, sorting and touch in behaviours of their own |

Bounds. Two handlers are enough for the races: the lock admits one request at a time,
and a race is between what one request did before it gave the lock up and what another
does next; the theorems carry the store's properties to any number of them. Two bytes
in bodies of one allow an append that doubles a chunk, a stale offset and a final
chunk. A disturbance is a failure, a broken connection, a restart, a resumption or an
aborted session; `MaxTrouble` counts them together, and three let a client lose a
connection, resume and be disturbed again. `Uploads` bounds the uploads begun. The
liveness run uses one byte because its graph is checked without symmetry; every answer
a client can get, refusals and full sessions included, still occurs.

In `upload_queue` a rendering, a timer, progress and every answer may come at any time
and do not count; two clicks allow every pair (pause and cancel, a question answered
twice, a message and a cancel). With one file, five clicks were explored
for the invariants, and three files with one click; they show nothing
the run does not. A second call of `run()` must exist for `OneUploadAtATime` to
be able to fail.

In `connections` one pair of keys is enough: the properties relate a connection's keys
to where they are kept and not to each other, and two connections allow an activation
that is overtaken by another one, a duplicate and a late rejection. Three calls are two
validations at once and a request, or a validation on each side of a reload. In
`s3_multipart` two parts and two workers give a part that fails beside one that
succeeds; two items a second upload that sweeps the first; one edit a mixture. In
`backends` two requests are enough for every interference, as it is between one step of
a request and the next of another; the bodies include multiple targets, overwriting,
ancestors and descendants, the server's own directory and a rename into place. In
`explorer` a channel of one event lags at the second, and two directories give every
pair of "the one shown" and "another one", one of them inside the other. Three
rows are the fewest in which a range has an inside and a neighbour; gestures that cannot
be under way at the same time run apart (`part`). In `server` three commands give two
starts that race and a stop that races both; the sizes 0 to 4 with every pair of bounds
contain each comparison of `range.rs` below, at and above its limit, the wrapped one
included.

Symmetry: handlers in `server`; handlers, tabs and ids in `tus_upload`. No property
of those runs is a liveness property and none names a member of these sets.

Deadlock is checked in `patch_race`. Elsewhere the system may stop: users need not act,
commands end, the budgets of disturbances run out, a queue without waiting files rests.

Fairness. `UploadFairness` is strong fairness of each client's next request and of each
connection's next step. Requests run on tasks of their own, the mutex is given up
after every section, so it keeps becoming free, and the server accepts any
number of connections. Nothing is assumed of users, of failures or of the network's
faults. Failures are bounded: a server whose disk fails for ever lets a tab send its
chunk for ever, as `upload` repeats a refused PATCH without limit.

`UploadQueue` assumes weak fairness of microtasks, of a rendering that is due, of the
running upload and of the search for a free name: the browser runs what is queued, and
every request ends with an answer or an error. No click, no rendering of the parent and
no message of another tab is assumed to come, so `QueueMoves` shows that the queue
wakes itself.

`Connections` assumes that a validation is answered or given up, which the browser does
with every HTTP request. `S3Multipart` assumes the same of the requests of a run, and
that its workers and the queue's effect run on. `Explorer` assumes the debounce timer,
the event loop that hands over messages and the answer to the load that counts; nothing
of connections, users or superseded loads. In these runs users need not act, so the
system may stop.

## 4. Theorems

`TusUploadProofs` proves about the store, for every set of handlers, uploads and
targets, every length and every `MaxBody`, from `UploadAssumption` and `NoneAssumption`:

- `TypeCorrect`, `ToldIsKept`, `CompletionIsReal`, `SessionsStayPaired`: `TypeOK` and the
  invariants of run `server` about the store;
- `SessionsGrow`: its action property;
- `StoreImplementsAtomicUpload`: the refinement.

`TypeOK` is not inductive: that a handler's locals exist where its code reads them
(`Typed`) and that only the lock's holder is inside a section of several steps
(`Locked`) have to be carried along. `NothingToldIsLost` needs to know what each
handler is about to tell: `HandlerInv` bounds the offset in a handler's locals by what
its session holds, or ties it to a session that has ended; `SessionInv` says that the
ids of sessions are not reused and that what is told stays below the spool;
`TargetInv` says that a name of the spool's filesystem holds whole content of a
published upload. These three, `Consistent`, are inductive together with `Typed` and
`Locked` (`ConsistentStep`). The refinement shows that an append is a `Receive`,
a rename a `Publish`, the removal of a spool a `Discard`, and everything else a stutter;
that a `Publish` happens once follows from `HandlerInv` and `SessionInv`.

About the clients it proves, for every set of tabs and runs, every chunk size and every
bound on what goes wrong, from `ClientAssumption` besides:

- `UploadTypeCorrect` and `ClientsStayBehind`: `UploadTypeOK` and `NeverAhead`, the
  invariants of run `tus_upload` that are about every client;
- `UploadsKeepWhatWasTold` and `UploadsImplementAtomicUpload`: what `TusStore` promises
  holds for whole uploads too.

Every step of `TusUpload` is a step of `TusStore` or leaves it alone (`UploadStep`), so
the store's invariant carries over; that needs `CallFits`, since a request may be
delivered long after it was sent. `NeverAhead` is not inductive: `OffsetTold` says that
the offset a client sends from was told to some client, and the store keeps what it
told. `Linked` makes that inductive: every client waits for at most one handler, whose
request, on its way or being served, is about the client's own session, so that no
answer about another session reaches it.

- `DoneLeavesNoSession` and `SessionsAreHeldOn`: `DoneEndsSession` and
  `NoSessionIsForgotten`. An answer may be heard long after the store gave it. What it
  says stays true because the end of a session is final (`EndsAreFinal`): `EndInv`
  carries, for every answer on its way, that a session it reports gone is gone and one it
  reports created was opened (`AnswerHolds`), and that clients, records and requests name
  opened sessions only. `KeepInv` says, as long as nothing was disturbed, that every
  request has its listener and every open session is remembered, being deleted, or being
  announced to the tab that asked for it.

`UploadQueueProofs` proves, for any number of files, sessions, calls and clicks, from
`QueueAssumption`:

- `QueueTypeCorrect`: `TypeOK`, which is inductive;
- `OneUploadRuns`: `OneUploadAtATime`, by the strengthening `BusyTells` (workerRef tells
  of every call that works) and the observation that a step moves a call on, ends one, or
  starts one when workerRef is clear (`TaskMoves`);
- `BusyRowsAreWorked`: `ShownBusyIsWorked`. A patch writes the list as it was rendered
  and a timer a deferred copy, so three more facts are carried along: while a call works
  the rendered list shows no other row busy (`SeenIsOld`), a deferred copy belongs to the
  item of a call (`DeferredIsWorked`), and a call that has not reached its upload finds
  its row quiet (`EarlyIsQuiet`). Every step is of one of four kinds: it makes no row
  busy (`QuietStep`), writes the row of an upload under way (`OwnStep`), ends a call and
  leaves its row quiet (`EndStep`), or is a rendering (`RenderShown`).

- `RefusedUploadsStop` and `OverRowsStay`: `RefusedNeverFinishes` and the action property
  `OverIsOver`. A refused row may be shown as busy in the list of the last rendering and in
  a deferred copy, and either may be written back. `Kept` says when this is harmless: the
  row of a call that works shows nothing final in any of the three lists (`WorkedIsLive`),
  a row that is over is over in the rendered list too, or was under way there and no call
  works (`OverIsSeen`), a call of a refused row has been told to stop
  (`RefusedIsStopped`), and without a call a refused row rests (`RefusedRests`).

`ConnectionsProofs` proves, for any connections, keys and number of calls, from the
module's assumption: `Types`, `DroppedKeysStayGone` (`DroppedKeysAreGone`),
`StorageFollowsTheRecord` (`StoredKeysFollowTheRecord`) and `ReloadComesBack`
(`RememberedConnectionIsMounted`). A validation writes what it read before its await, so
the invariant `IInv` speaks about the validations under way: the connection each is about
exists (`IdsAreIssued`), and one that will store its keys is of a record that says so or
was overtaken (`ChecksRemember`).

`ExplorerProofs` proves, for any directories, channel capacity and number of changes,
loads and losses: `Types`, `StaleIsAlwaysNoticed`, `EntriesAreAlwaysOfThePath` and
`AddressAlwaysNamesThePath`. Loads overtake each other, so the invariant orders them: each
has a number of its own, the newest is for the current path and is the one the flag
`loading` is about (`LoadsInOrder`, `LoadsKnowTheirPath`), and the snapshot to go back to
belongs to it (`SnapshotIsOfTheLoad`). With that, `EntriesBelong` and `AddressFollows` say
what is on screen and in the address at each stage of a navigation, and `StaleIsNoticed`
extends the property to listings in the snapshot and answers on their way.

It also proves, for any entries, directories, filters and order of a listing, from
`SelectionAssumption`: `TargetsShown` (`TargetsAreShown`), `RefreshKeeps` (the action
property `RefreshKeepsSelection`) and `TouchSelectsOne`, which no run checks. Every
handler ends in `Settled`, so the proof is about the effects first: `EffectsAre` says what
one round may set (`Near`), and `SettledIs` follows up to four rounds to a screen that
shows what the handler chose or rows of its own. Its part about touch screens is what
makes the refresh keep a selection there: outside selection mode at most one entry is
selected after a press, because the effect that clears more runs exactly when their number
changes, and `TwoAreNotOne` compares the numbers. `SelectionInv` adds that the snapshot of
a refresh is the selection on screen until something is chosen (`LoadFits`).
`RefreshSettles` shows the focus leave its row in the first round, to the row with the
old number, and come back in the second.

`S3MultipartProofs` proves, for any number of items, uploads, parts, versions of the file,
workers and troubles:

- `MultipartTypeCorrect`: `TypeOK`, with `OneRun` (one item is being sent at a time) and
  `WireFits` (a request somebody waits for is the one of its item's phase);
- `OneUploadIsOpen` and `RunsAreRecorded`: `OneOpenUpload` and `RunningUploadIsRecorded`.
  `Ups` carries what is known of uploads: a run about to create one has swept all others
  (`Swept1`), ids in items, records, the list and requests are of uploads that exist
  (`Knowledge`), and an upload that is worked on is on record (`Recorded`);
- `DoneIsTheFile`: the action property `DoneUploadIsTheFile`. Parts of several runs and
  versions meet in one upload, and the final comparison is with the digest kept in the
  record. `Traced` says why it suffices: versions only grow, a digest kept with an upload
  is no newer than any part of it, stored or on its way (`Digests`), and no part is newer
  than the file, so that when the digest is that of the file all parts are (`Verified`).

`LocalFsProofs` proves, for every served directory, every set of requests and bodies,
contents and number of failing calls:

- `LocalFsTypeCorrect`: `TypeOK`. `Shaped` adds that what is in the tree is in directories
  all the way up (`Whole`), and what each phase of a request says about its paths
  (`Formed`): the target is admissible, the destination is not inside the source, and the
  entries still to be copied are not inside each other (`Walk`);
- `ListingsAnnounced`: `ListingsAreAnnounced`, by `Listed`: every changed listing not yet
  announced is covered by a request, whether it goes on, has ended well or has failed.
  `StepDid` and `WhereItChanges` say what each step does to the tree;
- `ContentsKept`: `ContentIsKept`, by `Guarded`: what is at risk by the requests running now
  is on record (`RisksKnown`), no content that counts lies where a request has still to write
  (`Fresh`), and what a move has copied and not removed yet is at its destination too
  (`Doubled`), although other requests write in between;
- `CopiesWhole`: the action property `CopiesAreWhole`, by `Mirrors`: as long as no other
  request wrote where a copy reads or writes, what is at the destination and what is still
  to be copied make up the source as it was when the request began (`Copying`), and a
  request that another one disturbs is on record (`DisturbedKnown`).

`ServerProofs` proves, for any directories, process ids, commands, servers, requests and
number of faults, from `DaemonsAssumption` and `AccessAssumption`:

- `MachineTypeCorrect`, and with it what a command has in hand at each step (`Equipped`);
- `DaemonsFound`: `DaemonsAreFound`. A daemon lives before its pid file names it and after
  the file was removed, so `Handed` says which command holds it meanwhile and `Reared`
  that a process that is starting can still be told from a stranger with its id;
- `ReadOnlyHonoured`: `ReadOnlyIsHonoured`. A file is emptied, then written from what its
  command read before. `FileInv` says of each file that it exists while one writes to it
  (`Begun`), that it says what was last set, unless it lost that or is being written
  (`Recorded`), and what it will say once the writers are done (`LastWriter`);
  `ServersFit` follows a server through the files it reads when it starts;
- `RangesExact`: `RangesAreExact`, from arithmetic alone, for every bound of a u64;
- `AccessKept`: `AccessLasts`. Requests carry the cookie of the time they were sent and
  answers change the cookie of the time they arrive, so `DoorInv` knows of each message on
  its way which token was shown (`Sent`) and that an answer treats it as the server
  would, had it not been started again since (`Fair`).

`BackendsProofs` proves, for any tabs, requests, entry names and depth of paths, from
`VolumeAssumption` and `BucketAssumption`:

- `VolumeTreeIsWhole`: `TreeIsWhole`. A transaction takes a pair of stores that is `Sound` (a
  tree in which files have ids of their own, and exactly theirs have records) and gives one:
  one lemma for each call of the store (`WriteSound`, `MakeSound`, `DeleteSound`,
  `MoveSound`, `CopySound`). A transfer removes what is in its way before it writes the
  source, so `Transfers` describes the tree that results and `GraftTree` shows that it is a
  tree;
- `VolumeUrlsAreCurrent`: `UrlsAreCurrent`. `OutcomeSound` gives the paths a transaction can
  change (`Touched`); all of them lie below a path whose URLs the request releases, but for
  the destination of a rename;
- `BucketObjectsAreKept`: `ObjectsAreKept`. An action works key by key while others write, so
  `Pledges` says what each relies on at each step: what a move will remove is at its
  destination already, unless it is in doubt (`AllKept`, `Kept`), and where something will
  be put without overwrite nothing is. Others change only what is in doubt, since an action
  is on record for every key it writes (`Put`, `OthersGo`);
- `BucketStatsAreCurrent`: `StatsAreCurrent`, by `StatInv`, which is stronger: an action
  covers a path only if it tells the cache when it ends. That of a new folder does not, and
  need not, because its marker changes no stat but of a path where nothing was
  (`MarkerStat`).

Assumptions on constants are named in the modules, checked by TLC on every instance, and
no stronger than the code: `UploadAssumption`, `NoneAssumption`, `ClientAssumption`,
`QueueAssumption`, `LocalFsAssumption`, `DaemonsAssumption`, `AccessAssumption`,
`BucketAssumption`, `VolumeAssumption`, `SelectionAssumption` and those of the other
modules. The type invariants are proved and no longer checked by runs.

Model-checked only: the liveness properties `EveryAttemptEnds`, `RequestsAnswered`,
`QueueMoves` (both), `EveryActivationEnds` and `StaleListingIsRefreshed`, as reasoning about
fairness is out of the prover's reach; and the violations.

## 5. Findings

1. `patch_race`: two PATCHes with the same offset both pass the comparison of
   `patch_upload` and both append (`src/transport.rs:561`). The checksum then rejects
   the content and the session is lost.
2. `cli_resume`: after a restart between the last append and the finalize,
   `zfiles upload --resume` reports success although the file is not published
   (`src/upload.rs:74`).
3. `keep_both`: when "keep both" is applied to all files, the new name is lost to a
   patch of the list rendered before it, and the upload deletes the unfinished session
   of the file it was to be kept beside (`web/src/upload-queue.ts:1012`).
4. `keys_unasked`: keys typed again with "Remember keys on this device" unticked are
   stored on disk when the record was remembered before
   (`web/src/connections/ConnectionContext.tsx:528`).

What the models show besides, and the properties name as their exceptions:

- Connections. A late rejection drops the keys of the connection that is active then,
  not of the one that was rejected (`ConnectionContext.tsx:269`; design/design.md:108
  says "the keys it used"). Keys a HeadBucket refuses are not dropped, so that Retry
  after a reload tries them again. A connection forgotten, edited or removed while it is
  validated gets its keys back on disk (:329). Retry of a failed link always ends in
  "unknown connection" (:373). A lost request counts as a rejection (`s3AuthError.ts:60`).
- S3. A worker left over by a failed run turns the failed row back to "active", and the
  queue waits for it for ever (`upload-queue.ts:1080`). The record written when the page
  is left has no digest (:531), so a file edited before the resume is published as a
  mixture that passes verification, which reads the local file and never the object. A
  CreateMultipartUpload answered after a cancel leaves an upload behind. A refresh of the
  session list drops the record of a live upload when ListParts fails.
- File operations. Copying an entry onto itself truncates it (`fs.rs:310`); overwriting
  an ancestor destroys the source (:319); an entry added to a directory while it is moved
  across directories is removed with the source (:260); a request that fails at a later
  target announces none of what it did (`transport.rs:287`).
- Explorer. The watcher announces the last path of an interval only (`watch.rs:52`);
  nothing is reloaded after a reconnection; an event that comes while a name is edited is
  lost; a refresh over a navigation that fails leaves the entries of one directory under
  the path of another (`ExplorerApp.tsx:385`), and its navigation gets no history entry
  (`useExplorerNavigation.ts:71`); a further page is appended to whatever is shown
  (`ExplorerApp.tsx:425`).
- Selection. A refresh restores the selection as it was when the refresh began, whatever
  was selected meanwhile (`ExplorerApp.tsx:331`), and an entry that a filter hides stays a
  target. The effect of the index (:1938) sets the focus to the row of that number, also
  where it is not selected, which the code that sets both excludes in a comment (:1281).
- Bucket and volume. A HEAD that fails counts as "not a file": a copy without overwrite
  replaces its destination, a move loses the file (`s3FileOperations.ts:43`). A rename that
  overwrites, and another tab, leave a URL that shows the old file
  (`browserBackend.ts:190`); an entry moved onto a directory above itself loses its content
  (`browserfs/store.ts:286`).
- Server. Two starts at once leave a daemon no pid file names (`daemon.rs:43`);
  `config set --folder` writes the global settings into the folder (`commands.rs:80`); an
  answer of another server of the host, or to an older request, clears the cookie
  (`auth.rs:109`); the end of a suffix range of an empty file wraps around
  (`range.rs:43`), without effect in a release build.

## 6. Plan

Done: the upload store and its clients, the queue, the connections, uploads to a bucket, the
three backends' file operations, live refresh and the loads of the explorer, the
selection, daemons, settings, access and ranges; proofs of the safety properties of the
modules named in section 4.

Next, in this order:

1. The file operations as the explorer starts them: paste, drag and drop, the editor of
   new names, and the guard against two operations at once (`useExplorerFileOps.ts`,
   `performPaste.ts`, `operationPendingGuard.ts`).
2. The refresh of the list of local sessions, which drops records of a server that is
   down (`useTusSessions.ts:97`), and the freezing of a connection as the queue sees it.

Left out for good: rendering, translations (about 8 000 lines), the panels and the
slideshow, formatting, argument parsing, logging, QR codes and embedded assets, which keep
no state that several actors share; together they are most of the lines of the
repository. Within the modelled components: symbolic links and permissions (`LocalFs`),
several tabs over one local storage (`Connections`, `S3Multipart`), several keys and
listings of more than one page of uploads (`S3Multipart`), what a selection looks like
(`Selection`), the contents of settings other than two (`Daemons`).
