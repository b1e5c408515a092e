------------------------------ MODULE LocalFs ------------------------------
(***************************************************************************)
(* The file operations of the kernel: the handler of POST /api/actions     *)
(* (run_action in transport.rs) over the served directory (fs.rs).         *)
(*                                                                         *)
(* Requests run concurrently and every await of the file system is a point *)
(* where another request may act: the existence checks, the removal of an  *)
(* overwritten destination, the copy of each entry, the removal of each    *)
(* entry and the rename are steps of their own, and each of them may fail. *)
(*                                                                         *)
(* The tree is a function from paths to what is there.  A directory is     *)
(* read in one piece when the walk reaches it.  Paths are normalised and   *)
(* name no symbolic link.                                                  *)
(***************************************************************************)
EXTENDS Naturals, SequencesExt

CONSTANTS
    Names,       \* entry names
    Meta,        \* the name ".zfiles" of the server's own directory
    Depth,       \* bound: the longest path of the tree
    Contents,    \* contents of files
    Requests,    \* requests of a behaviour
    Bodies,      \* the request bodies clients send
    Trees,       \* the served directory at the start
    Dir, Nothing, Empty,   \* a directory, no entry, a file cut short
    NoName,      \* a body without new_name
    MaxFailures  \* bound: file system calls that fail in a behaviour

Root  == <<>>
Paths == {<<Meta>>} \cup UNION {[1..n -> Names] : n \in 0..Depth}

Ops  == {"delete", "mkdir", "rename", "copy", "move"}
Body == [op : Ops, targets : Seq(Paths), dir : Paths,
         name : Names \cup {Meta, NoName}, overwrite : BOOLEAN]

\* A served directory: what is in it is in a directory of it.
ServedTree(tree) ==
    /\ tree \in [Paths -> Contents \cup {Dir, Nothing, Empty}]
    /\ \A p, q \in Paths : IsStrictPrefix(q, p) /\ tree[p] # Nothing => tree[q] = Dir
    /\ \A c \in Contents : \E p \in Paths : tree[p] = c

ASSUME LocalFsAssumption ==
    /\ Meta \notin Names /\ NoName \notin Names
    /\ {Dir, Nothing, Empty} \cap Contents = {}
    /\ Dir # Nothing /\ Dir # Empty /\ Nothing # Empty
    /\ Depth \in Nat /\ MaxFailures \in Nat
    /\ Bodies # {} /\ Bodies \subseteq Body
    /\ \A tree \in Trees : ServedTree(tree)

VARIABLES
    node,        \* what is at each path
    req,         \* the requests and how far each one is
    unseen,      \* directories whose listing changed since it was last announced
    failures,    \* bound: calls that failed so far
    atRisk,      \* history: contents some request may destroy
    image,       \* history: the source of each request's target as it was
    disturbed    \* history: requests whose paths another request wrote to

vars == <<node, req, unseen, failures, atRisk, image, disturbed>>

-----------------------------------------------------------------------------
(* Paths *)

Under(p, q) == IsPrefix(p, q)
Parent(p) == Front(p)
Exists(p) == node[p] # Nothing
Children(p) == {q \in Paths : Exists(q) /\ q # Root /\ Parent(q) = p}
Tree(n, p) ==
    [s \in {u \in Paths : p \o u \in Paths /\ n[p \o u] # Nothing} |-> n[p \o s]]
IsMeta(p) == Under(<<Meta>>, p)

\* create_dir_all(p) succeeds when no file is in its way.
Clear(p) == \A q \in Paths : Under(q, p) => node[q] \in {Dir, Nothing}

\* Mutated: create_dir instead of create_dir_all.
MkdirOne(p) == [node EXCEPT ![p] = Dir]

MkdirAll(p) == [q \in Paths |-> IF Under(q, p) THEN Dir ELSE node[q]]

SameKind(p, q) == (node[p] = Dir) = (node[q] = Dir)

-----------------------------------------------------------------------------
(* What a request is about *)

Running == {r \in Requests : req[r].phase \notin {"idle", "done"}}

Idle == [phase |-> "idle", body |-> CHOOSE b \in Bodies : TRUE, left |-> <<>>,
         from |-> Root, to |-> Root, todo |-> {}, ok |-> FALSE]

\* new_name counts only when there is one target.
DestName(b, p) ==
    IF b.name # NoName /\ Len(b.targets) = 1 THEN b.name ELSE Last(p)

Dest(b, p) ==
    CASE b.op = "delete" -> p
      [] b.op = "mkdir"  -> Append(p, b.name)
      [] b.op = "rename" -> Append(Parent(p), b.name)
      [] OTHER           -> Append(b.dir, DestName(b, p))

Sources(b) == ToSet(b.targets)
Destinations(b) == {Dest(b, p) : p \in Sources(b)}

\* The paths a request may write to or remove.
Claims(b, q) ==
    \/ b.op # "copy" /\ b.op # "mkdir" /\ \E p \in Sources(b) : Under(p, q)
    \/ \E p \in Destinations(b) : Under(p, q)

\* The paths whose contents the client asked to be gone.
Doomed(b, q) ==
    /\ b.op = "delete" \/ b.overwrite
    /\ \E p \in Destinations(b) : Under(p, q) /\ ~IsMeta(p)

\* copy_into_dir onto the source itself.
OntoItself(b, q) == b.op = "copy" /\ \E p \in Sources(b) : Dest(b, p) = p /\ Under(p, q)

Contended(q) ==
    \E r, s \in Running : r # s /\ Claims(req[r].body, q) /\ Claims(req[s].body, q)

RiskNow ==
    {node[q] : q \in {p \in Paths :
        \/ Contended(p)
        \/ \E r \in Running : Doomed(req[r].body, p) \/ OntoItself(req[r].body, p)}}
    \cap Contents

\* The requests whose source or destination another one may write to.
DisturbedNow ==
    {r \in Running : \E s \in Running \ {r} : \E q \in Paths :
        /\ Claims(req[s].body, q)
        /\ \E p \in Sources(req[r].body) \cup Destinations(req[r].body) :
              Under(p, q) \/ Under(q, p)}

-----------------------------------------------------------------------------
(* The steps of a handler *)

Set(r, e) == req' = [req EXCEPT ![r] = e]
At(r, phase) == req[r].phase = phase

\* The `?' of a handler: what it did so far stays, and nothing is announced.
Refuse(r) == Set(r, [req[r] EXCEPT !.phase = "done", !.ok = FALSE])

Quiet == UNCHANGED <<node, failures, image>>

Arrive(r) ==
    /\ At(r, "idle")
    /\ \E b \in Bodies :
        Set(r, [req[r] EXCEPT !.phase = "next", !.body = b, !.left = b.targets])
    /\ Quiet

\* Mutated: the conflict check is left to the client.
AdmissibleUnchecked(b, p) ==
    LET d == Dest(b, p)
    IN /\ b.op # "mkdir" => p # Root /\ ~IsMeta(p)
       /\ ~IsMeta(d)
       /\ b.op \in {"copy", "move"} => ~Under(p, b.dir)
       /\ d \in Paths
       /\ b.op # "mkdir" => Exists(p)

\* The checks before anything is touched, the textual ones first.
Admissible(b, p) ==
    LET d == Dest(b, p)
    IN /\ b.op # "mkdir" => p # Root /\ ~IsMeta(p)
       /\ ~IsMeta(d)
       /\ b.op \in {"copy", "move"} => ~Under(p, b.dir)
       /\ d \in Paths
       /\ b.op # "mkdir" => Exists(p)
       /\ b.op \in {"rename", "copy", "move"} /\ d # p /\ Exists(d)
            => b.overwrite /\ SameKind(p, d)

\* Where a target with a free destination goes on.
Proceed(b, p) ==
    IF b.op = "rename" \/ (b.op = "move" /\ Parent(p) = Parent(Dest(b, p)))
    THEN "rename" ELSE "copy"

\* Mutated: an overwritten directory is merged into.
FirstStepMerging(b, p) ==
    IF b.op = "delete" THEN "remove"
    ELSE IF b.op = "mkdir" THEN "mkdir"
    ELSE IF Dest(b, p) = p THEN IF b.op = "copy" THEN "copy" ELSE "next"
    ELSE Proceed(b, p)

\* The first step of a target.  Copying something onto itself is not refused
\* and copies; renaming or moving it there is done at once.
FirstStep(b, p) ==
    IF b.op = "delete" THEN "remove"
    ELSE IF b.op = "mkdir" THEN "mkdir"
    ELSE IF Dest(b, p) = p THEN IF b.op = "copy" THEN "copy" ELSE "next"
    ELSE IF Exists(Dest(b, p)) THEN "clear"
    ELSE Proceed(b, p)

StartTarget(r) ==
    /\ At(r, "next") /\ req[r].left # <<>>
    /\ LET b == req[r].body
           p == Head(req[r].left)
       IN /\ IF Admissible(b, p)
             THEN Set(r, [req[r] EXCEPT !.phase = FirstStep(b, p), !.left = Tail(@),
                                        !.from = p, !.to = Dest(b, p), !.todo = {Root}])
             ELSE Refuse(r)
          /\ image' = [image EXCEPT ![r] = Tree(node, p)]
    /\ UNCHANGED <<node, failures>>

\* create_dir fails when the entry is there or its parent is not.
MakeDir(r) ==
    /\ At(r, "mkdir")
    /\ IF Exists(req[r].to) \/ node[req[r].from] # Dir
       THEN Refuse(r) /\ UNCHANGED node
       ELSE /\ node' = [node EXCEPT ![req[r].to] = Dir]
            /\ Set(r, [req[r] EXCEPT !.phase = "next"])
    /\ UNCHANGED <<failures, image>>

\* remove_path_tree and remove_dir_all: one entry at a time from the leaves, then
\* the request goes on; they fail when what they are to remove is gone.
RemoveTree(r, p, phase) ==
    IF Exists(p)
    THEN \E q \in Paths :
            /\ Under(p, q) /\ Exists(q) /\ Children(q) = {}
            /\ node' = [node EXCEPT ![q] = Nothing]
            /\ IF q = p THEN Set(r, [req[r] EXCEPT !.phase = phase]) ELSE UNCHANGED req
    ELSE Refuse(r) /\ UNCHANGED node

\* An overwritten destination goes first.
ClearDest(r) ==
    /\ At(r, "clear")
    /\ RemoveTree(r, req[r].to, Proceed(req[r].body, req[r].from))
    /\ UNCHANGED <<failures, image>>

\* rename(2) replaces a file, and a directory when it is empty.
RenameInPlace(r) ==
    LET p == req[r].from
        d == req[r].to
    IN /\ At(r, "rename")
       /\ IF /\ Exists(p)
             /\ Exists(d) => SameKind(p, d) /\ Children(d) = {}
          THEN /\ node' = [q \in Paths |->
                    IF Under(d, q) THEN node[p \o SubSeq(q, Len(d) + 1, Len(q))]
                    ELSE IF Under(p, q) THEN Nothing ELSE node[q]]
               /\ Set(r, [req[r] EXCEPT !.phase = "next"])
          ELSE Refuse(r) /\ UNCHANGED node
       /\ UNCHANGED <<failures, image>>

\* copy_path_tree: the deepest entry that is still to do, depth first.
CopyEntry(r) ==
    /\ At(r, "copy")
    /\ \E s \in req[r].todo :
        LET from  == req[r].from \o s
            to    == req[r].to \o s
            kids  == {Last(q) : q \in Children(from)}
        IN /\ \A u \in req[r].todo : Len(u) <= Len(s)
           /\ IF to \notin Paths \/ ~Exists(from)
              THEN Refuse(r) /\ UNCHANGED node
              ELSE IF node[from] = Dir
              THEN IF Clear(to)
                   THEN /\ node' = MkdirAll(to)
                        /\ Set(r, [req[r] EXCEPT !.todo = (@ \ {s}) \cup {Append(s, n) : n \in kids}])
                   ELSE Refuse(r) /\ UNCHANGED node
              ELSE IF Clear(Parent(to)) /\ node[to] # Dir
              THEN /\ node' = [MkdirAll(Parent(to)) EXCEPT ![to] =
                                  IF to = from THEN Empty ELSE node[from]]
                   /\ Set(r, [req[r] EXCEPT !.todo = @ \ {s}])
              ELSE Refuse(r) /\ UNCHANGED node
    /\ UNCHANGED <<failures, image>>

\* The copy is whole: a move goes on to remove its source.
CopyDone(r) ==
    /\ At(r, "copy") /\ req[r].todo = {}
    /\ Set(r, [req[r] EXCEPT !.phase = IF req[r].body.op = "move"
                                       THEN "remove" ELSE "next"])
    /\ Quiet

\* The source of a move, or what is to be deleted.
RemoveSource(r) ==
    /\ At(r, "remove")
    /\ RemoveTree(r, req[r].from, "next")
    /\ UNCHANGED <<failures, image>>

\* Mutated: only the directory things went to is announced.
AnnouncedThere(b) == {Parent(Dest(b, p)) : p \in Sources(b)}

\* The listings a finished request announces.
Announced(b) ==
    CASE b.op = "delete" -> {Parent(p) : p \in Sources(b)}
      [] b.op = "mkdir"  -> Sources(b)
      [] b.op = "rename" -> {Parent(p) : p \in Sources(b)}
      [] OTHER -> {b.dir} \cup {Parent(p) : p \in Sources(b)}

Finish(r) ==
    /\ At(r, "next") /\ req[r].left = <<>>
    /\ Set(r, [req[r] EXCEPT !.phase = "done", !.ok = TRUE])
    /\ Quiet

\* A call of the file system fails; the copy of a file leaves what it wrote.
Breaks(r) ==
    /\ r \in Running /\ ~At(r, "next")
    /\ failures < MaxFailures /\ failures' = failures + 1
    /\ Refuse(r)
    /\ \/ UNCHANGED node
       \/ /\ At(r, "copy")
          /\ \E s \in req[r].todo :
              LET from == req[r].from \o s
                  to   == req[r].to \o s
              IN /\ \A u \in req[r].todo : Len(u) <= Len(s)
                 /\ to \in Paths /\ Exists(from) /\ node[from] # Dir
                 /\ to # Root /\ node[Parent(to)] = Dir /\ node[to] # Dir
                 /\ node' = [node EXCEPT ![to] = Empty]
    /\ UNCHANGED image

Step(r) ==
    \/ StartTarget(r) \/ MakeDir(r) \/ ClearDest(r) \/ RenameInPlace(r)
    \/ CopyEntry(r) \/ CopyDone(r) \/ RemoveSource(r) \/ Finish(r)
    \/ Breaks(r)

\* What a step changes in listings, and what it announces.
ChangedListings == {Parent(q) : q \in {p \in Paths \ {Root} : node'[p] # node[p]}}
AnnouncedNow(r) ==
    IF req'[r].phase = "done" /\ req'[r].ok THEN Announced(req[r].body) ELSE {}

Init ==
    /\ node \in Trees
    /\ req = [r \in Requests |-> Idle]
    /\ unseen = {} /\ failures = 0
    /\ atRisk = {} /\ disturbed = {}
    /\ image = [r \in Requests |-> Tree(node, <<Meta>>)]

Next ==
    \E r \in Requests :
        /\ Arrive(r) \/ Step(r)
        /\ unseen' = (unseen \cup ChangedListings) \ AnnouncedNow(r)
        /\ atRisk' = atRisk \cup RiskNow'
        /\ disturbed' = disturbed \cup DisturbedNow'

Spec == Init /\ [][Next]_vars

-----------------------------------------------------------------------------
(* Properties *)

Phases == {"idle", "next", "mkdir", "clear", "rename", "copy", "remove", "done"}

\* The variables keep their shapes, and what is in the tree is in a directory.
TypeOK ==
    /\ node \in [Paths -> Contents \cup {Dir, Nothing, Empty}]
    /\ \A p \in Paths \ {Root} : Exists(p) => node[Parent(p)] = Dir
    /\ \A r \in Requests :
        /\ req[r].phase \in Phases /\ req[r].body \in Bodies
        /\ {req[r].from, req[r].to} \subseteq Paths
        /\ req[r].todo \subseteq Paths
    /\ unseen \subseteq Paths /\ failures \in 0..MaxFailures
    /\ atRisk \subseteq Contents /\ disturbed \subseteq Requests

\* Whatever fails and however requests interleave, a file's content is gone only
\* if a request named its place to be deleted or overwritten, if two requests
\* wrote there at the same time, or if it was copied onto itself.
ContentIsKept ==
    \A c \in Contents : c \in atRisk \/ \E p \in Paths : node[p] = c

\* A copy or move that nobody interferes with yields exactly its source as it
\* was, with nothing of an overwritten destination left; a move leaves nothing
\* behind.
CopiesAreWhole ==
    [][\A r \in Requests :
        LET b == req[r].body
        IN /\ req[r].phase \in {"rename", "copy", "remove"} /\ req'[r].phase = "next"
           /\ b.op # "delete" /\ r \notin disturbed' /\ req[r].from # req[r].to
           => /\ Tree(node', req[r].to) = image[r]
              /\ b.op # "copy" => node'[req[r].from] = Nothing]_vars

\* When all requests succeeded, a listing that changed and was not announced is
\* of a directory that itself appeared, went or was replaced, or above a
\* destination directory that was missing and was created on the way.
ListingsAreAnnounced ==
    (\A r \in Requests : req[r].phase = "idle" \/ req[r].ok)
    => \A d \in unseen : \E r \in Requests :
        LET b == req[r].body
        IN /\ req[r].phase = "done"
           /\ \/ \E p \in Sources(b) \cup Destinations(b) : Under(p, d)
              \/ b.op \in {"copy", "move"} /\ Under(d, b.dir)
=============================================================================
