------------------------------ MODULE Explorer ------------------------------
(***************************************************************************)
(* What keeps the listing on screen true: the kernel's change events (the  *)
(* watcher of watch.rs, the event bus and the websocket of transport.rs)   *)
(* and the explorer that loads, refreshes, cancels and leaves listings     *)
(* (ExplorerApp.tsx, useExplorerNavigation.ts, kernelBackend.subscribe).   *)
(*                                                                         *)
(* A listing is its directory, the version of it the server read, and the  *)
(* directories its later pages came from.  Loads are asynchronous: each    *)
(* is sent, read by the server and answered, in any order; the generation  *)
(* counter makes all but the newest one void.  `mode' is the backend: the  *)
(* kernel sends events and lists in one page, a bucket does neither.       *)
(*                                                                         *)
(* A path is a sequence of names; every entry that changes is called File. *)
(* The refs a render sets are taken to be set with the state they mirror.  *)
(***************************************************************************)
EXTENDS Naturals, Sequences

CONSTANTS
    Dirs,        \* directories, Root among them
    File,        \* the name of an entry that changes
    None,        \* no path, no version
    Capacity,    \* events the broadcast channel holds for a slow receiver
    MaxCalls,    \* bound: changes, and actions, loads and edits the user starts
    MaxTrouble   \* bound: failed loads and actions, lost connections

Root == <<>>

ASSUME ExplorerAssumption ==
    /\ Root \in Dirs
    /\ \A d \in Dirs : /\ d \in Seq({d[i] : i \in DOMAIN d})
                       /\ Append(d, File) # None
    /\ None \notin Dirs /\ None \notin Nat
    /\ Capacity \in Nat \ {0}
    /\ MaxCalls \in Nat /\ MaxTrouble \in Nat

VARIABLES
    mode,        \* "kernel" or "bucket"
    version,     \* each directory's content, counted
    acting,      \* directories an action changed and has not announced yet
    pending,     \* the watcher's path that waits for a quiet interval
    socket,      \* the websocket: "closed", "greeted" or "open"
    queue,       \* events sent to the client and not handled yet
    current,     \* currentPath
    shown,       \* the listing in `entries'
    cursor,      \* listCursor: the directory it continues
    loading,     \* listingLoading
    generation,  \* listingLoadGenerationRef
    snapshot,    \* listingNavigationSnapshotRef
    loads,       \* list requests under way
    page,        \* the loadMoreEntries request under way
    editing,     \* inlineEditPath is set
    urls, pos,   \* the tab's history and its place in it
    calls, trouble,              \* bounds
    missed,      \* history: directories a lost event or a lost load was about
    overlapped,  \* history: a load started over an unfinished navigation
    crossed      \* history: navigations overlapped and none was pushed since

kernel  == <<mode, version, acting, pending, socket>>
listing == <<current, shown, cursor, loading, generation, snapshot, loads>>
history == <<urls, pos>>
vars == <<kernel, queue, listing, page, editing, history, calls, trouble,
          missed, overlapped, crossed>>

Kinds   == {"refresh", "navigate", "back"}
Listing == [dir : Dirs, version : Nat, tail : SUBSET Dirs]
NoSnapshot == [path |-> None, shown |-> None, cursor |-> None]

\* shouldRefreshListing(changed, d).
Covers(changed, d) ==
    IF d = Root THEN Len(changed) <= 1
    ELSE Len(changed) >= Len(d) /\ SubSeq(changed, 1, Len(d)) = d

About(path) == {d \in Dirs : Covers(path, d)}
Entry(d) == Append(d, File)

\* Mutated: answers are not compared with the generation.
NewestAny(l) == l \in loads

Newest(l) == l.gen = generation

-----------------------------------------------------------------------------
(* The kernel *)

Screen == UNCHANGED <<listing, page, editing, history, overlapped, crossed>>

\* Mutated: the channel keeps everything.
PublishAll(path) ==
    IF socket # "open"
    THEN missed' = missed \cup About(path) /\ UNCHANGED queue
    ELSE queue' = Append(queue, path) /\ UNCHANGED missed

\* EventBus.publish: only a subscribed socket gets the event, and one that is
\* Capacity behind loses its oldest (RecvError::Lagged).
Publish(path) ==
    IF socket # "open"
    THEN missed' = missed \cup About(path) /\ UNCHANGED queue
    ELSE IF Len(queue) < Capacity
    THEN queue' = Append(queue, path) /\ UNCHANGED missed
    ELSE /\ queue' = Append(Tail(queue), path)
         /\ missed' = missed \cup About(Head(queue))

Count(n) == calls + n <= MaxCalls /\ calls' = calls + n
Call == Count(1)

\* A directory changes.  The watcher keeps the last path only.
Change(d, byAction) ==
    /\ Count(IF byAction THEN 2 ELSE 1)
    /\ version' = [version EXCEPT ![d] = @ + 1]
    /\ IF mode = "kernel"
       THEN /\ pending' = Entry(d)
            /\ acting'  = IF byAction THEN acting \cup {d} ELSE acting
            /\ missed'  = IF pending = None THEN missed
                          ELSE missed \cup (About(pending) \ About(Entry(d)))
       ELSE /\ missed' = missed \cup {d}
            /\ UNCHANGED <<pending, acting>>
    /\ UNCHANGED <<mode, socket, queue, trouble>>
    /\ Screen

Trouble == trouble < MaxTrouble /\ trouble' = trouble + 1

\* run_action ends: it announces the listing it changed, or failed on a later
\* target and announces nothing.
ActionEnds(d) ==
    /\ d \in acting /\ acting' = acting \ {d}
    /\ Publish(d)
    /\ UNCHANGED <<mode, version, pending, socket, calls, trouble>>
    /\ Screen

ActionFails(d) ==
    /\ d \in acting /\ acting' = acting \ {d}
    /\ Trouble
    /\ UNCHANGED <<mode, version, pending, socket, queue, calls, missed>>
    /\ Screen

\* The debounce interval passes without another event.
WatchFires ==
    /\ pending # None /\ pending' = None
    /\ Publish(pending)
    /\ UNCHANGED <<mode, version, acting, socket, calls, trouble>>
    /\ Screen

\* handle_ws greets first and subscribes afterwards.
Greet ==
    /\ mode = "kernel" /\ socket = "closed" /\ socket' = "greeted"
    /\ UNCHANGED <<mode, version, acting, pending, queue, calls, trouble, missed>>
    /\ Screen

Subscribe ==
    /\ socket = "greeted" /\ socket' = "open"
    /\ UNCHANGED <<mode, version, acting, pending, queue, calls, trouble, missed>>
    /\ Screen

\* The connection breaks; scheduleHealthPoll opens another one.
Disconnect ==
    /\ socket # "closed" /\ socket' = "closed"
    /\ Trouble
    /\ queue' = <<>>
    /\ missed' = missed \cup UNION {About(queue[i]) : i \in DOMAIN queue}
    /\ UNCHANGED <<mode, version, acting, pending, calls>>
    /\ Screen

-----------------------------------------------------------------------------
(* Loading *)

Kernel == UNCHANGED kernel

\* loadListing up to its await.  `keep' is preserveSelection: only a load that
\* does not keep the selection moves to its path and can be undone.
Load(path, keep, kind) ==
    /\ generation' = generation + 1
    /\ loads' = loads \cup {[gen |-> generation + 1, path |-> path, keep |-> keep,
                             kind |-> kind, back |-> current, seen |-> None]}
    /\ loading' = TRUE
    /\ IF keep
       THEN /\ snapshot' = NoSnapshot
            /\ UNCHANGED current
       ELSE /\ snapshot' = [path |-> current, shown |-> shown, cursor |-> cursor]
            /\ current'  = path
    /\ overlapped' = (\/ overlapped
                      \/ shown.dir # current
                      \/ page # None /\ page # path)
    /\ crossed' = (crossed \/ \E l \in loads : l.kind # "refresh")
    /\ UNCHANGED <<shown, cursor>>

\* The directory whose newest load the next one makes void.
GivenUp(path) == {l.path : l \in {k \in loads : Newest(k) /\ k.path # path}}

\* The refresh button, an upload that finished, an action that ended.
Refresh ==
    /\ Call
    /\ \E keep \in BOOLEAN : Load(current, keep, "refresh")
    /\ missed' = missed \cup GivenUp(current)
    /\ UNCHANGED <<queue, page, editing, history, trouble>>
    /\ Kernel

Navigate(d) ==
    /\ d # current
    /\ Call
    /\ Load(d, FALSE, "navigate")
    /\ missed' = missed \cup GivenUp(d)
    /\ UNCHANGED <<queue, page, editing, history, trouble>>
    /\ Kernel

\* The browser moves in its history before the application hears of it.
PopState ==
    /\ Call
    /\ \E i \in {pos - 1, pos + 1} \cap DOMAIN urls :
        /\ pos' = i
        /\ Load(urls[i], FALSE, "back")
        /\ missed' = missed \cup GivenUp(urls[i])
    /\ UNCHANGED <<queue, page, editing, urls, trouble>>
    /\ Kernel

\* Mutated: an event that comes while the listing loads counts as seen.
ReceiveUnlessLoading ==
    /\ queue # <<>> /\ queue' = Tail(queue)
    /\ IF Covers(Head(queue), current) /\ ~editing
       THEN /\ missed' = missed \cup (About(Head(queue)) \ {current})
            /\ IF loading THEN UNCHANGED <<listing, overlapped, crossed>>
               ELSE Load(current, TRUE, "refresh")
       ELSE /\ missed' = missed \cup About(Head(queue))
            /\ UNCHANGED <<listing, overlapped, crossed>>
    /\ UNCHANGED <<page, editing, history, calls, trouble>>
    /\ Kernel

\* handleKernelEvent: an event about the open directory reloads it, unless a
\* name is being edited.
Receive ==
    /\ queue # <<>> /\ queue' = Tail(queue)
    /\ IF Covers(Head(queue), current) /\ ~editing
       THEN /\ Load(current, TRUE, "refresh")
            /\ missed' = missed \cup GivenUp(current) \cup (About(Head(queue)) \ {current})
       ELSE /\ missed' = missed \cup About(Head(queue))
            /\ UNCHANGED <<listing, overlapped, crossed>>
    /\ UNCHANGED <<page, editing, history, calls, trouble>>
    /\ Kernel

\* The server reads the directory; when it does for a void load is of no matter.
Read(l) ==
    /\ l.seen = None /\ Newest(l)
    /\ loads' = (loads \ {l}) \cup {[l EXCEPT !.seen = version[l.path]]}
    /\ UNCHANGED <<current, shown, cursor, loading, generation, snapshot, queue, page,
                   editing, history, calls, trouble, missed, overlapped, crossed>>
    /\ Kernel

\* Mutated: a history entry whose load failed keeps its address.
NavigationEndsUnrestored(l, loaded) ==
    /\ IF l.kind = "navigate" /\ loaded
       THEN /\ urls' = Append(SubSeq(urls, 1, pos), l.path)
            /\ pos'  = pos + 1
       ELSE UNCHANGED history
    /\ UNCHANGED crossed

\* What navigateTo and the popstate handler do with the result of loadListing.
NavigationEnds(l, loaded) ==
    /\ IF l.kind = "navigate" /\ loaded
       THEN /\ urls' = Append(SubSeq(urls, 1, pos), l.path)
            /\ pos'  = pos + 1
       ELSE IF l.kind = "back" /\ ~loaded
       THEN /\ urls' = [urls EXCEPT ![pos] = l.back]
            /\ UNCHANGED pos
       ELSE UNCHANGED history
    /\ crossed' = (crossed /\ \/ ~loaded \/ l.kind # "navigate"
                              \/ \E k \in loads \ {l} : k.kind # "refresh")

\* The listing as the answer to l gives it.
ListingOf(l) == [dir |-> l.path, version |-> l.seen, tail |-> {}]

\* The newest load is answered.
Answer(l) ==
    /\ l.seen # None /\ Newest(l)
    /\ loads'   = loads \ {l}
    /\ shown'   = ListingOf(l)
    /\ current' = l.path
    /\ cursor'  = IF mode = "bucket" THEN l.path ELSE None
    /\ loading' = FALSE /\ snapshot' = NoSnapshot
    /\ missed'  = IF l.seen = version[l.path] THEN missed \ {l.path} ELSE missed
    /\ overlapped' = (page # None /\ page # l.path)
    /\ NavigationEnds(l, TRUE)
    /\ UNCHANGED <<generation, queue, page, editing, calls, trouble>>
    /\ Kernel

\* The newest load fails: a navigation goes back to the path it left, with
\* the entries that are there.
LoadFails(l) ==
    /\ Newest(l)
    /\ Trouble
    /\ loads'   = loads \ {l}
    /\ current' = IF l.keep THEN current ELSE l.back
    /\ loading' = FALSE /\ snapshot' = NoSnapshot
    /\ missed'  = missed \cup {l.path}
    /\ NavigationEnds(l, FALSE)
    /\ UNCHANGED <<shown, cursor, generation, queue, page, editing, calls, overlapped>>
    /\ Kernel

\* An older load ends, one way or the other, and counts as not loaded.
Void(l) ==
    /\ ~Newest(l)
    /\ loads' = loads \ {l}
    /\ NavigationEnds(l, FALSE)
    /\ UNCHANGED <<current, shown, cursor, loading, generation, snapshot, queue, page,
                   editing, calls, trouble, missed, overlapped>>
    /\ Kernel

\* Mutated: cancelling only stops the spinner.
CancelSpinner ==
    /\ loading /\ loading' = FALSE
    /\ Trouble
    /\ generation' = generation + 1
    /\ missed' = missed \cup {l.path : l \in {k \in loads : Newest(k)}}
    /\ UNCHANGED <<current, shown, cursor, snapshot, loads, queue, page, editing,
                   history, calls, overlapped, crossed>>
    /\ Kernel

\* cancelListingLoad.
Cancel ==
    /\ loading /\ loading' = FALSE
    /\ Trouble
    /\ generation' = generation + 1
    /\ IF snapshot = NoSnapshot
       THEN UNCHANGED <<current, shown, cursor>>
       ELSE /\ current' = snapshot.path
            /\ shown'   = snapshot.shown
            /\ cursor'  = snapshot.cursor
    /\ snapshot' = NoSnapshot
    /\ missed' = missed \cup {l.path : l \in {k \in loads : Newest(k)}}
    /\ UNCHANGED <<loads, queue, page, editing, history, calls, overlapped, crossed>>
    /\ Kernel

\* loadMoreEntries asks for the current path with whatever cursor there is.
LoadMore ==
    /\ cursor # None /\ page = None
    /\ page' = current
    /\ overlapped' = (overlapped \/ cursor # current)
    /\ UNCHANGED <<listing, queue, editing, history, calls, trouble, missed, crossed>>
    /\ Kernel

\* Its answer is appended to the entries that are there by then.
PageEnds ==
    /\ page # None /\ page' = None
    /\ \/ /\ shown'  = [shown EXCEPT !.tail = @ \cup {page}]
          /\ cursor' = None
          /\ UNCHANGED trouble
       \/ /\ Trouble
          /\ UNCHANGED <<shown, cursor>>
    /\ UNCHANGED <<current, loading, generation, snapshot, loads, queue, editing,
                   history, calls, missed, overlapped, crossed>>
    /\ Kernel

\* The inline name editor opens and closes.
Edit ==
    /\ mode = "kernel" /\ Call
    /\ editing' = ~editing
    /\ UNCHANGED <<listing, queue, page, history, trouble, missed, overlapped, crossed>>
    /\ Kernel

-----------------------------------------------------------------------------
Init ==
    /\ mode \in {"kernel", "bucket"}
    /\ version = [d \in Dirs |-> 0]
    /\ acting = {} /\ pending = None /\ socket = "closed" /\ queue = <<>>
    /\ current = Root
    /\ shown = [dir |-> Root, version |-> 0, tail |-> {}]
    /\ cursor = IF mode = "bucket" THEN Root ELSE None
    /\ loading = FALSE /\ generation = 0 /\ snapshot = NoSnapshot
    /\ loads = {} /\ page = None /\ editing = FALSE
    /\ urls = <<Root>> /\ pos = 1
    /\ calls = 0 /\ trouble = 0
    /\ missed = {} /\ overlapped = FALSE /\ crossed = FALSE

Reading   == \E l \in loads : Read(l)
Answering == \E l \in loads : Answer(l) \/ LoadFails(l)

Next ==
    \/ \E d \in Dirs : \E byAction \in BOOLEAN : Change(d, byAction)
    \/ \E d \in Dirs : ActionEnds(d) \/ ActionFails(d)
    \/ WatchFires \/ Greet \/ Subscribe \/ Disconnect
    \/ Refresh \/ PopState \/ Receive \/ Cancel
    \/ \E d \in Dirs : Navigate(d)
    \/ \E l \in loads : Read(l) \/ Answer(l) \/ LoadFails(l) \/ Void(l)
    \/ LoadMore \/ PageEnds \/ Edit

\* The debounce timer, the browser's event loop and the server's answer to the
\* load that counts.
Fairness ==
    WF_vars(WatchFires) /\ WF_vars(Receive) /\ WF_vars(Reading) /\ WF_vars(Answering)

Spec == Init /\ [][Next]_vars /\ Fairness

-----------------------------------------------------------------------------
(* Properties *)

Load_ == [gen : Nat, path : Dirs, keep : BOOLEAN, kind : Kinds, back : Dirs,
          seen : Nat \cup {None}]
Event == Dirs \cup {Entry(d) : d \in Dirs}

\* The variables keep their shapes; a kernel listing has one page.
TypeOK ==
    /\ mode \in {"kernel", "bucket"}
    /\ version \in [Dirs -> Nat] /\ acting \in SUBSET Dirs
    /\ pending \in Event \cup {None} /\ socket \in {"closed", "greeted", "open"}
    /\ queue \in Seq(Event) /\ Len(queue) <= Capacity
    /\ current \in Dirs /\ shown \in Listing
    /\ cursor \in Dirs \cup {None} /\ page \in Dirs \cup {None}
    /\ mode = "kernel" => cursor = None /\ page = None /\ shown.tail = {}
    /\ loading \in BOOLEAN /\ generation \in Nat /\ editing \in BOOLEAN
    /\ snapshot # NoSnapshot => snapshot \in [path : Dirs, shown : Listing,
                                        cursor : Dirs \cup {None}]
    /\ loads \in SUBSET Load_
    /\ urls \in Seq(Dirs) /\ pos \in DOMAIN urls
    /\ missed \in SUBSET Dirs /\ overlapped \in BOOLEAN /\ crossed \in BOOLEAN

\* A change of d is still being announced, or a load will show it.
OnItsWay(d) ==
    \/ pending # None /\ Covers(pending, d)
    \/ \E i \in DOMAIN queue : Covers(queue[i], d)
    \/ \E l \in loads : Newest(l) /\ l.path = d /\ l.seen \in {None, version[d]}

Stale == shown.dir = current /\ shown.version # version[current]

\* A listing is out of date only while an event about it or a load of it is
\* under way, however changes, answers, navigations and cancellations fall
\* together; the exceptions are the losses `missed' records, each of an event
\* (a watcher path replaced by a later one, no subscription, a full channel, an
\* open name editor, another directory on its way) or of a load (failed,
\* cancelled, given up for another directory).
StaleListingIsNoticed == Stale => current \in missed \/ OnItsWay(current)

\* When no load is under way, the entries are those of the directory the page
\* names, and of no other.  The exception is a load, or a page, that started or
\* ended over a navigation that was not finished.
EntriesAreOfThePath ==
    ~loading /\ ~overlapped => shown.dir = current /\ shown.tail \subseteq {current}

\* When no load is under way, the address bar names the directory on screen.
\* The exception is a load that started while a navigation was under way: that
\* navigation then counts as failed although its directory is shown.
AddressNamesThePath == loads = {} /\ ~crossed => urls[pos] = current

\* A stale listing is refreshed in the end, or its repair was lost.
StaleListingIsRefreshed == Stale ~> ~Stale \/ current \in missed
=============================================================================
