----------------------------- MODULE S3Objects -----------------------------
(***************************************************************************)
(* The file operations of a bucket (runS3FileAction of s3FileOperations.ts *)
(* under S3Backend.runAction), and the cache of stats that S3Backend keeps *)
(* per tab (backendObjectCache.ts).                                        *)
(*                                                                         *)
(* A bucket has keys, not directories: a file is the key of its path, and  *)
(* a directory is whatever has a key below "path/", which may be the key   *)
(* "path/" itself, the marker mkdir puts.  Every request to the bucket is  *)
(* a step of its own and may fail; between two of them other tabs act.     *)
(*                                                                         *)
(* Keys that one listing returned are worked off in any order, and a       *)
(* listing is one request.  Presigned URLs do not depend on contents and   *)
(* are left out; an upload is the one step that puts the object and drops  *)
(* its stat.                                                               *)
(*                                                                         *)
(* A key that is longer than MaxDepth names is refused by the bucket, as one  *)
(* of more than 1024 bytes is.                                             *)
(***************************************************************************)
EXTENDS ExplorerPaths

CONSTANTS
    FileContents,   \* what files hold
    TabOf,          \* the tab of each action
    Jobs,           \* what the explorer asks for, by action
    Uploads,        \* the upload of a behaviour, one of these
    Looked,         \* bound: the stats asked for, pairs of a tab and a path
    Buckets,        \* what the bucket holds at the start
    MaxFetches,     \* bound: stats asked for in a behaviour
    Marker,         \* the object of a marker
    MaxMishaps      \* bound: requests to the bucket that fail

VARIABLES
    obj,        \* the object of each key
    act,        \* the running actions and how far each is
    stats,      \* the stats each tab has cached: a file's content or "dir"
    fetching,   \* the stats the tabs wait for; a tracked one is in inFlightStats
    fetches,    \* bound
    uploaded,   \* bound: whether the upload took place
    mishaps,    \* bound
    excused,    \* history: cached stats that may be outdated, see Excuse
    waived,     \* history: contents whose HEAD failed, or an upload replaced or raced
    threatened  \* history: contents some action may destroy

bucketVars == <<obj, act, stats, fetching, fetches, uploaded, mishaps, excused, waived, threatened>>

ObjectKeys == [path : Places \ {Top}, marker : BOOLEAN]

isDescendantPath(child, ancestor) == IsPrefix(ancestor, child)
objectKeyForPath(p) == [path |-> p, marker |-> FALSE]
listPrefixForPath(p) == [path |-> p, marker |-> TRUE]

\* What is there; nothing is at a key that is too long.
Object(k) == IF k \in ObjectKeys THEN obj[k] ELSE Missing
IsFile(p) == Object(objectKeyForPath(p)) # Missing

\* A file's key holds its content, and a marker nothing but the name of its folder.
Holds(k) == IF k.marker THEN {Missing, Marker} ELSE FileContents \cup {Missing}

ASSUME BucketAssumption ==
    /\ Missing \notin FileContents /\ Marker \notin FileContents /\ Missing # Marker
    /\ TabOf \in [Tasks -> Tabs]
    /\ \A r \in Tasks : \A b \in Jobs[r] :
          /\ b \in Asked({"delete", "mkdir", "rename", "copy", "move"})
          /\ b.op \in {"mkdir", "rename"} => Len(b.paths) = 1
    /\ Uploads \subseteq [tab : Tabs, path : Places \ {Top}, content : FileContents, resumed : BOOLEAN]
    /\ Looked \subseteq Tabs \X (Places \ {Top})
    /\ \A b \in Buckets : DOMAIN b = ObjectKeys /\ \A k \in ObjectKeys : b[k] \in Holds(k)

\* listAllKeys of "p/".
KeysUnder(p) ==
    {k \in ObjectKeys : obj[k] # Missing /\ isDescendantPath(k.path, p)
                  /\ k # objectKeyForPath(p)}

\* fetchStat: a file is found before a directory, and nothing is an error.
Stat(p) == IF IsFile(p) THEN obj[objectKeyForPath(p)]
           ELSE IF KeysUnder(p) # {} THEN "dir" ELSE Missing

Below(to, from, k) == [k EXCEPT !.path = to \o SubSeq(k.path, Len(from) + 1, Len(k.path))]

-----------------------------------------------------------------------------
(* What an action is about *)

NotStarted(r) ==
    [at |-> "idle", body |-> CHOOSE b \in Jobs[r] : TRUE, left |-> <<>>, from |-> Top,
     to |-> Top, victim |-> Top, keys |-> {}, next |-> objectKeyForPath(Top)]

\* new_name counts only when there is one path; a rename stays in its directory.
DestPath(b, p) ==
    LET name == IF b.name # Missing /\ Len(b.paths) = 1 THEN b.name ELSE Last(p)
    IN IF b.op \in {"delete", "mkdir"} THEN p
       ELSE Append(IF b.op = "rename" THEN Front(p) ELSE b.dir, name)

\* Mutated: what a move takes away is forgotten.
OnlyDestinations(b) == IF b.op = "mkdir" THEN {} ELSE {DestPath(b, p) : p \in ToSet(b.paths)}

\* A new folder is not: its path had no stat to cache.
pathsAffectedByAction(b) ==
    IF b.op = "mkdir" THEN {} ELSE ToSet(b.paths) \cup {DestPath(b, p) : p \in ToSet(b.paths)}

\* The same for the history variables: the paths an action is about.
Named(b) == ToSet(b.paths) \cup {DestPath(b, p) : p \in ToSet(b.paths)}

\* A removal follows: of the source of a move.
IsMove(b) == b.op \in {"rename", "move"}

Active == {r \in Tasks : act[r].at \notin {"idle", "done"}}

Concerns(b, q) ==
    \E p \in ToSet(b.paths) :
        \/ isDescendantPath(q, DestPath(b, p))
        \/ b.op # "copy" /\ isDescendantPath(q, p)

\* What an action was asked to delete or to replace, or moves onto a folder above.
Condemned(b, q) ==
    \E p \in ToSet(b.paths) :
        /\ isDescendantPath(q, DestPath(b, p))
        /\ \/ b.op = "delete" \/ b.overwrite
           \/ IsMove(b) /\ isDescendantPath(p, DestPath(b, p))

-----------------------------------------------------------------------------
(* History *)

\* The stats of tab t that a step may leave outdated: what another tab changes,
\* and what lies above or below the paths that are invalidated.
Excuse(t, named) ==
    excused' = {l \in Looked :
        /\ stats'[l] # Missing
        /\ \/ l \in excused
           \/ Stat(l[2])' # Stat(l[2]) /\ ~(l[1] = t /\ l[2] \in named)}

Disputed(q) == \E r, s \in Active : r # s /\ Concerns(act[r].body, q) /\ Concerns(act[s].body, q)

ThreatNow ==
    {obj[k] : k \in {j \in ObjectKeys : obj[j] \in FileContents /\
        (Disputed(j.path) \/ \E r \in Active : Condemned(act[r].body, j.path))}}

ContentsIn(p) == {obj[k] : k \in {j \in ObjectKeys : isDescendantPath(j.path, p)}} \cap FileContents

-----------------------------------------------------------------------------
(* The steps of an action: one request to the bucket each *)

IsAt(r, at) == act[r].at = at
Becomes(r, e) == act' = [act EXCEPT ![r] = e]
GoesTo(r, at) == Becomes(r, [act[r] EXCEPT !.at = at])
Local == UNCHANGED <<stats, fetching, fetches, uploaded>>

\* What the step does to the bucket; nobody's cache hears of it.
Writes(r, new) ==
    /\ obj' = new
    /\ Local /\ Excuse(TabOf[r], Named(act[r].body))
    /\ UNCHANGED <<mishaps, waived>>
Reads == UNCHANGED <<obj, excused>> /\ Local

\* The loop over the paths: deleteExplorerPath(victim), copyExplorerPath(from, to)
\* or the marker of mkdir begins, or the loop ends.  The top of the bucket has the
\* empty name, which copy and move take for none.
Begin(e) ==
    LET b == e.body
        p == Head(e.left)
        n == [e EXCEPT !.left = Tail(@), !.from = p, !.to = DestPath(b, p), !.victim = p, !.keys = {}]
    IN IF e.left = <<>> THEN [e EXCEPT !.at = "end", !.keys = {}]
       ELSE [n EXCEPT !.at =
               IF b.op = "delete" THEN "headVictim"
               ELSE IF b.op = "mkdir" THEN "putMarker"
               ELSE IF (b.op \in {"copy", "move"} /\ b.dir = Top) \/ isDescendantPath(DestPath(b, p), p)
               THEN "failed" ELSE "headSource"]

Start(r) ==
    /\ IsAt(r, "idle")
    /\ \E b \in Jobs[r] : Becomes(r, Begin([NotStarted(r) EXCEPT !.body = b, !.left = b.paths]))
    /\ Reads /\ UNCHANGED <<mishaps, waived>>

\* headIsFile: any failure that is not about credentials reads as "not a file", and
\* what else has that name is worked on instead.
headIsFile(p, yes, no) ==
    \/ /\ IF IsFile(p) THEN yes ELSE no
       /\ UNCHANGED <<mishaps, waived>>
    \/ /\ mishaps < MaxMishaps /\ mishaps' = mishaps + 1
       /\ no
       /\ waived' = IF IsFile(p) THEN waived \cup ContentsIn(p) ELSE waived

HeadSource(r) ==
    LET found == IF act[r].body.overwrite
                 THEN Becomes(r, [act[r] EXCEPT !.at = "headVictim", !.victim = act[r].to])
                 ELSE GoesTo(r, "headDest")
    IN IsAt(r, "headSource") /\ headIsFile(act[r].from, found, GoesTo(r, "listSource")) /\ Reads

\* Mutated: what is at the destination is not asked for.
CopyAnyway(r) ==
    IsAt(r, "headDest") /\ GoesTo(r, "copyFile") /\ Reads /\ UNCHANGED <<mishaps, waived>>

HeadDest(r) ==
    /\ IsAt(r, "headDest")
    /\ headIsFile(act[r].to, GoesTo(r, "failed"), GoesTo(r, "copyFile"))
    /\ Reads

HeadVictim(r) ==
    /\ IsAt(r, "headVictim")
    /\ headIsFile(act[r].victim,
          Becomes(r, [act[r] EXCEPT !.at = "deleteKeys", !.keys = {objectKeyForPath(act[r].victim)}]),
          GoesTo(r, "listVictim"))
    /\ Reads

ListVictim(r) ==
    /\ IsAt(r, "listVictim")
    /\ Becomes(r, [act[r] EXCEPT !.at = "deleteKeys", !.keys = KeysUnder(act[r].victim)])
    /\ Reads /\ UNCHANGED <<mishaps, waived>>

\* One DeleteObject; after the last the file may be copied to where it was.
DeleteKey(r) ==
    /\ IsAt(r, "deleteKeys")
    /\ \E k \in act[r].keys :
        /\ Becomes(r, [act[r] EXCEPT !.keys = @ \ {k}])
        /\ Writes(r, [obj EXCEPT ![k] = Missing])

Deleted(r) ==
    /\ IsAt(r, "deleteKeys") /\ act[r].keys = {}
    /\ IF act[r].victim = act[r].from THEN Becomes(r, Begin(act[r])) ELSE GoesTo(r, "copyFile")
    /\ Reads /\ UNCHANGED <<mishaps, waived>>

\* A move goes on to remove its source.
AfterCopy(r) ==
    Becomes(r, IF IsMove(act[r].body)
           THEN [act[r] EXCEPT !.keys = {}, !.victim = act[r].from, !.at = "headVictim"]
           ELSE Begin(act[r]))

\* CopyObject fails when the source is gone or the name too long.
CopyFile(r) ==
    LET source == objectKeyForPath(act[r].from)
        target == objectKeyForPath(act[r].to)
    IN /\ IsAt(r, "copyFile")
       /\ IF Object(source) = Missing \/ target \notin ObjectKeys
          THEN GoesTo(r, "failed") /\ Reads /\ UNCHANGED <<mishaps, waived>>
          ELSE AfterCopy(r) /\ Writes(r, [obj EXCEPT ![target] = obj[source]])

ListSource(r) ==
    /\ IsAt(r, "listSource")
    /\ LET keys == KeysUnder(act[r].from)
       IN Becomes(r, [act[r] EXCEPT !.keys = keys,
                     !.at = IF keys = {} THEN "putMarker"
                            ELSE IF act[r].body.overwrite THEN "copyKeys" ELSE "headKeys"])
    /\ Reads /\ UNCHANGED <<mishaps, waived>>

\* A source that has no keys becomes an empty folder; mkdir puts one too.
PutMarker(r) ==
    /\ IsAt(r, "putMarker") /\ listPrefixForPath(act[r].to) \in ObjectKeys
    /\ AfterCopy(r)
    /\ Writes(r, [obj EXCEPT ![listPrefixForPath(act[r].to)] = Marker])

NameTooLong(r) ==
    /\ IsAt(r, "putMarker") /\ listPrefixForPath(act[r].to) \notin ObjectKeys
    /\ GoesTo(r, "failed")
    /\ Reads /\ UNCHANGED <<mishaps, waived>>

\* Without overwrite every key is asked for before it is copied to; again any
\* failure reads as "free".
HeadKey(r) ==
    /\ IsAt(r, "headKeys")
    /\ \E k \in act[r].keys :
        LET there == Object(Below(act[r].to, act[r].from, k))
            go    == Becomes(r, [act[r] EXCEPT !.at = "copyKeys", !.next = k])
        IN \/ /\ IF there = Missing THEN go ELSE GoesTo(r, "failed")
              /\ UNCHANGED <<mishaps, waived>>
           \/ /\ mishaps < MaxMishaps /\ mishaps' = mishaps + 1
              /\ there # Missing /\ go
              /\ waived' = waived \cup ({there} \cap FileContents)
    /\ Reads

CopyKey(r) ==
    /\ IsAt(r, "copyKeys")
    /\ \E k \in act[r].keys :
        LET rest   == act[r].keys \ {k}
            ask    == ~act[r].body.overwrite
            target == Below(act[r].to, act[r].from, k)
        IN /\ ask => k = act[r].next
           /\ IF obj[k] = Missing \/ target \notin ObjectKeys
              THEN GoesTo(r, "failed") /\ Reads /\ UNCHANGED <<mishaps, waived>>
              ELSE /\ IF rest = {} THEN AfterCopy(r)
                      ELSE Becomes(r, [act[r] EXCEPT !.keys = rest, !.at = IF ask THEN "headKeys" ELSE @])
                   /\ Writes(r, [obj EXCEPT ![target] = obj[k]])

\* Any other failed request ends the action: what it did stays, and the cache is
\* not told.
Fails(r) ==
    /\ r \in Active /\ ~IsAt(r, "end") /\ ~IsAt(r, "failed")
    /\ IsAt(r, "deleteKeys") => act[r].keys # {}
    /\ mishaps < MaxMishaps /\ mishaps' = mishaps + 1
    /\ GoesTo(r, "failed")
    /\ Reads /\ UNCHANGED waived

Affected(t, b) == {l \in Looked : l[1] = t /\ l[2] \in Named(b)}

Thrown(r) ==
    /\ IsAt(r, "failed") /\ GoesTo(r, "done")
    /\ excused' = excused \cup {l \in Affected(TabOf[r], act[r].body) : stats[l] # Missing}
    /\ UNCHANGED <<obj, mishaps, waived>> /\ Local

-----------------------------------------------------------------------------
(* The cache of stats *)

\* invalidatePaths: exactly these paths; requests under way go on.
invalidatePaths(t, named) ==
    LET hit == {l \in Looked : l[1] = t /\ l[2] \in named}
    IN /\ stats' = [l \in Looked |-> IF l \in hit THEN Missing ELSE stats[l]]
       /\ fetching' = {[f EXCEPT !.tracked = @ /\ f.at \notin hit] : f \in fetching}

Succeeds(r) ==
    LET t == TabOf[r]
    IN /\ IsAt(r, "end") /\ GoesTo(r, "done")
       /\ invalidatePaths(t, pathsAffectedByAction(act[r].body))
       /\ UNCHANGED <<obj, fetches, uploaded, mishaps, waived>>
       /\ Excuse(t, {})

\* An upload that was resumed does not invalidate.
Upload(u) ==
    LET named == IF u.resumed THEN {} ELSE {u.path}
        key   == objectKeyForPath(u.path)
    IN /\ ~uploaded /\ uploaded' = TRUE
       /\ obj' = [obj EXCEPT ![key] = u.content]
       /\ invalidatePaths(u.tab, named)
       /\ waived' = waived \cup ({obj[key]} \cap FileContents)
             \cup (IF \E r \in Active : Concerns(act[r].body, u.path) THEN {u.content} ELSE {})
       /\ Excuse(u.tab, named)
       /\ UNCHANGED <<act, fetches, mishaps>>

stat(l) ==
    /\ stats[l] = Missing
    /\ ~\E f \in fetching : f.at = l /\ f.tracked
    /\ fetches < MaxFetches /\ fetches' = fetches + 1
    /\ fetching' = fetching \cup {[at |-> l, said |-> "sent", tracked |-> TRUE]}
    /\ UNCHANGED <<obj, act, stats, uploaded, mishaps, excused, waived>>

\* The bucket answers: HEAD, and a listing when there is no such key.
FetchAnswered(f) ==
    /\ f.said = "sent"
    /\ fetching' = (fetching \ {f}) \cup {[f EXCEPT !.said = Stat(f.at[2])]}
    /\ UNCHANGED <<obj, act, stats, fetches, uploaded, mishaps, excused, waived>>

\* setStat, tracked or not; an error is not cached.
setStat(f) ==
    /\ f.said # "sent"
    /\ fetching' = fetching \ {f}
    /\ stats' = IF f.said = Missing THEN stats ELSE [stats EXCEPT ![f.at] = f.said]
    /\ excused' = IF f.said = Missing THEN excused
                  ELSE IF f.said = Stat(f.at[2]) THEN excused \ {f.at} ELSE excused \cup {f.at}
    /\ UNCHANGED <<obj, act, fetches, uploaded, mishaps, waived>>

\* Sixty seconds later.
StatExpires(l) ==
    /\ stats[l] # Missing
    /\ stats' = [stats EXCEPT ![l] = Missing]
    /\ excused' = excused \ {l}
    /\ UNCHANGED <<obj, act, fetching, fetches, uploaded, mishaps, waived>>

BucketInit ==
    /\ obj \in Buckets
    /\ act = [r \in Tasks |-> NotStarted(r)]
    /\ stats = [l \in Looked |-> Missing]
    /\ fetching = {} /\ fetches = 0 /\ uploaded = FALSE /\ mishaps = 0
    /\ excused = {} /\ waived = {} /\ threatened = {}

ActionStep(r) ==
    \/ Start(r) \/ HeadSource(r) \/ HeadDest(r) \/ HeadVictim(r) \/ ListVictim(r)
    \/ DeleteKey(r) \/ Deleted(r) \/ CopyFile(r) \/ ListSource(r) \/ PutMarker(r) \/ NameTooLong(r)
    \/ HeadKey(r) \/ CopyKey(r) \/ Fails(r) \/ Thrown(r) \/ Succeeds(r)

Move ==
    \/ \E r \in Tasks : ActionStep(r)
    \/ \E u \in Uploads : Upload(u)
    \/ \E l \in Looked : stat(l) \/ StatExpires(l)
    \/ \E f \in fetching : FetchAnswered(f) \/ setStat(f)

BucketNext == Move /\ threatened' = threatened \cup ThreatNow'

BucketSpec == BucketInit /\ [][BucketNext]_bucketVars
-----------------------------------------------------------------------------
(* Properties *)

\* However actions of several tabs interleave and whatever fails, what a file
\* holds is gone only if an action named its place to be deleted or replaced, or
\* moved something onto a folder above itself, if two of them wrote there at the
\* same time, or if a HEAD about it failed, which the code takes for "not a file".
ObjectsAreKept ==
    \A c \in FileContents \ (waived \cup threatened) :
        (\A b \in Buckets : \E k \in ObjectKeys : b[k] = c) => \E k \in ObjectKeys : obj[k] = c

\* A cached stat says what is in the bucket, while no action of its tab is about
\* that path; outdated ones are those another tab, a resumed upload or a failed
\* action left, those above or below what was invalidated, and those asked for
\* before the change and answered after it.
StatsAreCurrent ==
    \A l \in Looked :
        \/ stats[l] \in {Missing, Stat(l[2])}
        \/ l \in excused
        \/ \E r \in Active : l \in Affected(TabOf[r], act[r].body)
=============================================================================
