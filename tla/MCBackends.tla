----------------------------- MODULE MCBackends -----------------------------
(***************************************************************************)
(* Small instances of the three backends the explorer works with, one in   *)
(* each behaviour: the kernel's served directory (LocalFs), a bucket       *)
(* (S3Objects) and the volume in the browser (BrowserFs).  "part" says     *)
(* which one runs, and the others rest in an initial state.                *)
(***************************************************************************)
EXTENDS LocalFs, S3Objects, BrowserFs, TLC

CONSTANTS na, nb, meta, c1, c2, c3, r1, r2, t1, t2, i1, i2, i3, i4

VARIABLE part

Do(op, paths, dir, name, overwrite) ==
    [op |-> op, paths |-> paths, dir |-> dir, name |-> name, overwrite |-> overwrite]

A  == <<na>>
B  == <<nb>>
AA == <<na, na>>
AB == <<na, nb>>
BB == <<nb, nb>>

-----------------------------------------------------------------------------
(* The kernel *)

Put(base, at) == [p \in Paths |-> IF p \in DOMAIN at THEN at[p] ELSE base]

\* A directory with a directory in it, a second one, and the server's own.
MCTrees ==
    {Put(Nothing, <<>> :> Dir @@ <<meta>> :> c3 @@ <<na>> :> Dir @@ <<nb>> :> second
                  @@ <<na, na>> :> Dir @@ <<na, na, nb>> :> c1 @@ <<na, nb>> :> c2) :
        second \in {Dir, Nothing}}

Ask(op, targets, dir, name, overwrite) ==
    [op |-> op, targets |-> targets, dir |-> dir, name |-> name,
     overwrite |-> overwrite]

MCBodies ==
    {Ask("delete", s, Root, NoName, FALSE) : s \in {<<A>>, <<AB, B>>, <<AA, <<meta>>>>}}
    \cup {Ask("mkdir", <<p>>, Root, n, FALSE) : p \in {Root, B}, n \in {na, meta}}
    \cup {Ask("rename", <<A>>, Root, n, o) : n \in {nb, meta}, o \in BOOLEAN}
    \cup {Ask("rename", <<AA>>, Root, nb, TRUE)}
    \cup {Ask("copy", <<AA>>, d, n, o) : d \in {Root, B}, n \in {NoName, nb}, o \in BOOLEAN}
    \cup {Ask("copy", <<AB>>, A, NoName, FALSE), Ask("copy", <<A>>, AA, NoName, TRUE),
          Ask("copy", <<AB, AA>>, B, NoName, TRUE)}
    \cup {Ask("move", <<AA>>, d, n, o) : d \in {Root, B}, n \in {NoName, nb}, o \in BOOLEAN}
    \cup {Ask("move", <<AB, AA>>, B, NoName, FALSE), Ask("move", <<AB>>, Root, meta, TRUE),
          Ask("move", <<AA>>, A, nb, FALSE)}

-----------------------------------------------------------------------------
(* A bucket: a folder of two files and the marker of an empty one *)

KeyOf(p)    == [path |-> p, marker |-> FALSE]
MarkerOf(p) == [path |-> p, marker |-> TRUE]

MCJobs ==
    [r \in Tasks |->
       {Do("delete", <<A>>, Top, Missing, FALSE)} \cup
       IF r = r2 THEN {} ELSE
       {Do("mkdir", <<BB>>, Top, Missing, FALSE),
        Do("copy", <<AB, AA>>, B, Missing, FALSE), Do("copy", <<A>>, A, Missing, FALSE),
        Do("rename", <<AB>>, Top, na, FALSE), Do("move", <<AB>>, B, Missing, TRUE),
        Do("copy", <<BB>>, <<na, na, nb>>, Missing, FALSE), Do("move", <<AA>>, Top, Missing, FALSE),
        Do("rename", <<A>>, Top, nb, FALSE), Do("rename", <<A>>, Top, nb, TRUE)}]

MCTabOf   == r1 :> t1 @@ r2 :> t2
MCUploads == {[tab |-> t1, path |-> AB, content |-> c3, resumed |-> x] : x \in BOOLEAN}
MCLooked  == {<<t1, AB>>}
MCBuckets ==
    {[k \in ObjectKeys |-> IF k = KeyOf(AA) THEN c1 ELSE IF k = KeyOf(AB) THEN c2
                           ELSE IF k = MarkerOf(B) THEN Marker ELSE Missing]}

-----------------------------------------------------------------------------
(* The volume in the browser: a/, a/a/, a/a/b, a/b and b/ *)

MCCalls ==
    {Do("upload", <<p>>, Top, Missing, TRUE) : p \in {AB, BB}}
    \cup {Do("mkdir", <<BB>>, Top, Missing, FALSE), Do("delete", <<AB, A>>, Top, Missing, FALSE)}
    \cup {Do("rename", <<A>>, Top, nb, TRUE), Do("rename", <<AB>>, Top, na, TRUE)}
    \cup {Do(op, <<AB, AA>>, B, Missing, FALSE) : op \in {"copy", "move"}}
    \cup {Do("move", <<AB>>, Top, na, TRUE), Do("copy", <<AA>>, Top, nb, TRUE)}

MCPreviewed == {AB, BB}
MCDatabases ==
    {[p \in Places |-> CASE p \in {A, AA, B} -> Directory [] p = <<na, na, nb>> -> i1 [] p = AB -> i2
                        [] OTHER -> Missing]}

-----------------------------------------------------------------------------
MCInit ==
    /\ part \in {"kernel", "bucket", "volume"}
    /\ Init /\ BucketInit /\ VolumeInit
    /\ part # "kernel" => node[B] = Dir

KernelSteps == part = "kernel" /\ Next /\ UNCHANGED <<part, bucketVars, volumeVars>>
BucketSteps == part = "bucket" /\ BucketNext /\ UNCHANGED <<part, vars, volumeVars>>
VolumeSteps == part = "volume" /\ VolumeNext /\ UNCHANGED <<part, vars, bucketVars>>

MCNext == KernelSteps \/ BucketSteps \/ VolumeSteps

MCSpec == MCInit /\ [][MCNext]_<<part, vars, bucketVars, volumeVars>>
=============================================================================
