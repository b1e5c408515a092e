----------------------------- MODULE BrowserFs -----------------------------
(***************************************************************************)
(* The volume in the visitor's own browser: BrowserBackend over the store  *)
(* of browserfs/store.ts.  All tabs of the origin share the database; each *)
(* has its own backend, with its cache of object URLs.                     *)
(*                                                                         *)
(* Every call of the store is one IndexedDB transaction, hence one step:   *)
(* an error inside it aborts it, and transactions over the same stores run *)
(* one after the other.  A request of several paths is one transaction per *)
(* path.  What a backend does when a transaction completes runs before     *)
(* anything else the browser does, so it belongs to the same step.  What   *)
(* is announced to the explorer is left out.                               *)
(*                                                                         *)
(* A full cache of object URLs drops the one that was used least recently; *)
(* here it drops any.                                                      *)
(***************************************************************************)
EXTENDS ExplorerPaths, FiniteSets

CONSTANTS
    BlobIds,       \* bound: the ids of stored contents
    Calls,         \* what the explorer asks for
    Previewed,     \* bound: the paths whose URL is asked for
    Databases,     \* what the database holds at the start
    Directory,     \* a directory in the nodes store
    MaxUrls,       \* maxEntries of the URL cache
    MaxAborts      \* bound: transactions the browser, and uploads the user, aborts

VARIABLES
    nodes,      \* the nodes store: Directory, Missing or the blobId of a file
    blobs,      \* the blobs store: the ids it has a record for
    urls,       \* the URL cache of each tab
    persisted,  \* tabs that asked for persistent storage (persistRequested)
    ask,        \* the requests and how far each is
    foreign,    \* history: URLs of each tab whose file another tab changed or a rename replaced
    hollow,     \* history: ids whose record went when their file replaced a directory above it
    aborts      \* bound: transactions and uploads aborted so far

volumeVars == <<nodes, blobs, urls, persisted, ask, foreign, hollow, aborts>>

pathIsWithin(child, ancestor) == IsPrefix(ancestor, child)
Subtree(n, p) == {q \in Places : pathIsWithin(q, p) /\ n[q] # Missing}
pathParent(p) == Front(p)
HoldsFile(n, p) == n[p] \in BlobIds

\* A tree: above what is there are directories, and no two files share an id.
IsTree(n) ==
    \A p, q \in Places :
        q # Top /\ q # p /\ pathIsWithin(p, q) /\ n[p] # Missing => n[q] = Directory
Distinct(n) == \A p, q \in Places : n[p] = n[q] /\ n[p] \in BlobIds => p = q

ASSUME VolumeAssumption ==
    /\ Directory # Missing /\ Directory \notin BlobIds /\ Missing \notin BlobIds
    /\ Calls \subseteq Asked({"upload", "mkdir", "delete", "rename", "copy", "move"})
    /\ \A b \in Calls :
          /\ b.paths # <<>>
          /\ b.op \in {"upload", "mkdir", "rename"} => Len(b.paths) = 1
    /\ Previewed \subseteq Places
    /\ \A n \in Databases :
          /\ n \in [Places -> BlobIds \cup {Directory, Missing}] /\ n[Top] = Missing
          /\ IsTree(n) /\ Distinct(n)

-----------------------------------------------------------------------------
(* Transactions: each takes and gives a pair of stores. *)

Stores == [node |-> nodes, blobs |-> blobs]

\* Mutated: the records of the files below stay.
deleteOneRecord(s, p) ==
    [node  |-> [q \in Places |-> IF pathIsWithin(q, p) THEN Missing ELSE s.node[q]],
     blobs |-> s.blobs \ {s.node[p]}]

deleteSubtree(s, p) ==
    [node  |-> [q \in Places |-> IF pathIsWithin(q, p) THEN Missing ELSE s.node[q]],
     blobs |-> s.blobs \ {s.node[q] : q \in Subtree(s.node, p)}]

\* No file is in the way of the directories leading to p.
CanEnsure(s, p) == \A q \in Places : IsPrefix(q, p) => ~HoldsFile(s.node, q)

ensureDirectory(s, p) ==
    [s EXCEPT !.node = [q \in Places |-> IF q # Top /\ IsPrefix(q, p) THEN Directory ELSE @[q]]]

\* Ids are never used twice.
FreeIds(s) == BlobIds \ (s.blobs \cup {s.node[p] : p \in Places} \cup hollow)

CanWrite(s, p) == CanEnsure(s, pathParent(p)) /\ s.node[p] # Directory /\ FreeIds(s) # {}

writeFile(s, p) ==
    LET id == CHOOSE i \in FreeIds(s) : TRUE
    IN [node  |-> [ensureDirectory(s, pathParent(p)).node EXCEPT ![p] = id],
        blobs |-> (s.blobs \ {s.node[p]}) \cup {id}]

CanMake(s, p) == s.node[p] = Missing /\ CanEnsure(s, pathParent(p))

CanTransfer(s, from, to, overwrite) ==
    /\ ~pathIsWithin(to, from)
    /\ s.node[from] # Missing
    /\ pathParent(to) = Top \/ s.node[pathParent(to)] = Directory
    /\ s.node[to] # Missing => overwrite

\* prepareTransfer reads the source before it removes what is at the destination.
DestFree(s, to) == IF s.node[to] = Missing THEN s ELSE deleteSubtree(s, to)

\* What the subtree of `from' becomes below `to'.
Relocated(s, from, to) ==
    LET below == DestFree(s, to).node
    IN [q \in {p \in Places : pathIsWithin(p, to)} |->
          LET source == from \o SubSeq(q, Len(to) + 1, Len(q))
          IN IF q = to THEN s.node[from]
             ELSE IF source \in Places THEN below[source] ELSE Missing]

move(s, from, to) ==
    LET cleared == DestFree(s, to)
        landed  == Relocated(s, from, to)
    IN [cleared EXCEPT !.node = [q \in Places |->
          IF q \in DOMAIN landed THEN landed[q]
          ELSE IF pathIsWithin(q, from) THEN Missing ELSE cleared.node[q]]]

\* What lands there are files with new ids, and directories.
Landed(s, from, to) ==
    LET landed == Relocated(s, from, to) IN {q \in DOMAIN landed : landed[q] \in BlobIds}
NewIds(s, files) == {f \in [files -> FreeIds(s)] : IsInjective(f)}

\* A clone gets a record of its own, empty when the original has none.
copy(s, from, to) ==
    LET cleared == DestFree(s, to)
        landed  == Relocated(s, from, to)
        files   == Landed(s, from, to)
        fresh   == CHOOSE f \in NewIds(s, files) : TRUE
    IN [node  |-> [q \in Places |->
                     IF q \in files THEN fresh[q]
                     ELSE IF q \in DOMAIN landed THEN landed[q] ELSE cleared.node[q]],
        blobs |-> cleared.blobs \cup {fresh[q] : q \in files}]

\* The bounds of the instance.
Fits(s, from, to) == \A q \in Subtree(s.node, from) : Len(q) - Len(from) + Len(to) <= MaxDepth

-----------------------------------------------------------------------------
(* The cache of object URLs: the id stands for the content the URL shows. *)

\* The mutant of invalidate below: what lies under the path keeps its URL.
invalidateExact(cache, released) == {u \in cache : u.path \notin released}

\* The URLs of these paths and of all below them are released.
invalidate(cache, released) ==
    {u \in cache : \A p \in released : ~pathIsWithin(u.path, p)}

evict(cache) ==
    IF Cardinality(cache) > MaxUrls THEN {cache \ {u} : u \in cache} ELSE {cache}

set(cache, u) == evict(invalidateExact(cache, {u.path}) \cup {u})

Showing(t) == {u.path : u \in urls[t]}

-----------------------------------------------------------------------------
(* Tasks *)

Unsent == [phase |-> "idle", tab |-> CHOOSE t \in Tabs : TRUE, left |-> <<>>,
         body |-> CHOOSE b \in Calls : TRUE]

InPhase(r, phase) == ask[r].phase = phase
ToPhase(r, phase) == ask' = [ask EXCEPT ![r].phase = phase]

\* new_name counts only when there is one path; a rename stays in its directory.
Destination(b, p) ==
    LET name == IF b.name # Missing /\ Len(b.paths) = 1 THEN b.name ELSE Last(p)
    IN Append(IF b.op = "rename" THEN pathParent(p) ELSE b.dir, name)

Send(r, t, b) ==
    /\ InPhase(r, "idle")
    /\ ask' = [ask EXCEPT ![r] =
          [phase |-> IF b.op = "upload" /\ t \notin persisted THEN "persist" ELSE "run",
           tab |-> t, left |-> b.paths, body |-> b]]
    /\ persisted' = IF b.op = "upload" THEN persisted \cup {t} ELSE persisted
    /\ UNCHANGED <<nodes, blobs, urls, foreign, hollow, aborts>>

\* The browser answered the request for persistent storage, whatever it said.
Persisted(r) ==
    /\ InPhase(r, "persist") /\ ToPhase(r, "run")
    /\ UNCHANGED <<nodes, blobs, urls, persisted, foreign, hollow, aborts>>

\* An abort is looked at until the file is being written.
AbortUpload(r) ==
    /\ InPhase(r, "persist") /\ ToPhase(r, "done")
    /\ aborts < MaxAborts /\ aborts' = aborts + 1
    /\ UNCHANGED <<nodes, blobs, urls, persisted, foreign, hollow>>

\* What the transaction for path p makes of the stores, and whether it commits.
Outcome(b, p) ==
    LET s == Stores
        d == Destination(b, p)
    IN CASE b.op = "upload" ->
              [ok |-> CanWrite(s, p), to |-> IF CanWrite(s, p) THEN writeFile(s, p) ELSE s]
         [] b.op = "mkdir"  -> [ok |-> CanMake(s, p), to |-> ensureDirectory(s, p)]
         [] b.op = "delete" -> [ok |-> s.node[p] # Missing, to |-> deleteSubtree(s, p)]
         [] OTHER ->
              LET ok == /\ Fits(s, p, d) /\ CanTransfer(s, p, d, b.overwrite)
                        /\ b.op = "copy" => NewIds(s, Landed(s, p, d)) # {}
              IN [ok |-> ok, to |-> IF ~ok THEN s
                                    ELSE IF b.op = "copy" THEN copy(s, p, d) ELSE move(s, p, d)]

\* The paths whose URLs a request releases: a rename releases its source only.
Released(b, p) ==
    CASE b.op \in {"upload", "delete", "rename"} -> {p}
      [] b.op = "mkdir" -> {}
      [] b.op = "copy"  -> {Destination(b, p)}
      [] OTHER          -> {p, Destination(b, p)}

Transaction(r) ==
    LET b    == ask[r].body
        t    == ask[r].tab
        p    == Head(ask[r].left)
        done == Outcome(b, p)
        diff == {q \in Places : nodes[q] # done.to.node[q]}
    IN /\ InPhase(r, "run") /\ done.ok
       /\ nodes' = done.to.node /\ blobs' = done.to.blobs
       /\ urls' = [urls EXCEPT ![t] = invalidate(@, Released(b, p))]
       /\ foreign' = [u \in Tabs |-> Showing(u)' \cap (foreign[u] \cup
             {q \in diff : u # t \/ (b.op = "rename" /\ pathIsWithin(q, Destination(b, p)))})]
       /\ hollow' = IF b.op \in {"rename", "move"} /\ pathIsWithin(p, Destination(b, p))
                    THEN hollow \cup ({nodes[p]} \cap BlobIds) ELSE hollow
       /\ ask' = [ask EXCEPT ![r].left = Tail(@),
                             ![r].phase = IF Len(ask[r].left) = 1 THEN "done" ELSE "run"]
       /\ UNCHANGED <<persisted, aborts>>

\* An error aborts the transaction and ends the request; so may the browser
\* (the quota is exceeded, the disk fails).  Earlier paths stay done.
TurnedDown(r) ==
    /\ InPhase(r, "run")
    /\ \/ ~Outcome(ask[r].body, Head(ask[r].left)).ok /\ UNCHANGED aborts
       \/ aborts < MaxAborts /\ aborts' = aborts + 1
    /\ ToPhase(r, "done")
    /\ UNCHANGED <<nodes, blobs, urls, persisted, foreign, hollow>>

\* A preview or a download asks for the URL of a file that is not in the cache.  A
\* file without its record has none.
downloadUrl(t, p) ==
    /\ p \notin Showing(t)
    /\ HoldsFile(nodes, p) /\ nodes[p] \in blobs
    /\ \E cache \in set(urls[t], [path |-> p, id |-> nodes[p]]) : urls' = [urls EXCEPT ![t] = cache]
    /\ foreign' = [foreign EXCEPT ![t] = (@ \ {p}) \cap Showing(t)']
    /\ UNCHANGED <<nodes, blobs, persisted, ask, hollow, aborts>>

\* The tab leaves the volume or is closed; a new backend starts afresh.
dispose(t) ==
    /\ urls' = [urls EXCEPT ![t] = {}]
    /\ persisted' = persisted \ {t}
    /\ foreign' = [foreign EXCEPT ![t] = {}]
    /\ UNCHANGED <<nodes, blobs, ask, hollow, aborts>>

VolumeInit ==
    /\ nodes \in Databases
    /\ blobs = {nodes[p] : p \in Places} \cap BlobIds
    /\ urls = [t \in Tabs |-> {}] /\ persisted = {}
    /\ ask = [r \in Tasks |-> Unsent]
    /\ foreign = [t \in Tabs |-> {}] /\ hollow = {} /\ aborts = 0

VolumeNext ==
    \/ \E r \in Tasks :
        \/ \E t \in Tabs, b \in Calls : Send(r, t, b)
        \/ Persisted(r) \/ AbortUpload(r) \/ Transaction(r) \/ TurnedDown(r)
    \/ \E t \in Tabs : dispose(t) \/ \E p \in Previewed : downloadUrl(t, p)

VolumeSpec == VolumeInit /\ [][VolumeNext]_volumeVars

-----------------------------------------------------------------------------
(* Properties *)

\* Whatever requests of several tabs do to the database: an entry lies in a
\* directory, every record belongs to exactly one file, and a file has its
\* record, unless it was put in the place of a directory that contained it.
TreeIsWhole ==
    /\ IsTree(nodes)
    /\ \A i \in blobs : Cardinality({p \in Places : nodes[p] = i}) = 1
    /\ \A p \in Places : HoldsFile(nodes, p) => nodes[p] \in blobs \cup hollow

\* A URL a tab keeps for a path shows the file that is there: a tab releases the
\* URLs of everything its own requests change.  Not so when another tab made the
\* change or a rename replaced the file.
UrlsAreCurrent ==
    \A t \in Tabs : \A u \in urls[t] :
        nodes[u.path] = u.id \/ u.path \in foreign[t]
=============================================================================
