--------------------------- MODULE ExplorerPaths ---------------------------
(***************************************************************************)
(* Paths as the explorer names them to the backends that run in the        *)
(* browser (S3Objects, BrowserFs): names from the top of the volume, which *)
(* has no name itself (normalizeExplorerPath of s3Paths.ts,                *)
(* normalizePath of browserfs/paths.ts).                                   *)
(***************************************************************************)
EXTENDS Naturals, FiniteSetsExt, SequencesExt

CONSTANTS
    EntryNames, MaxDepth,  \* entry names; bound: the longest path
    Tabs, Tasks,           \* tabs, and the file operations of a behaviour
    Missing                \* nothing there, or not given

ASSUME ExplorerPathsAssumption == MaxDepth \in Nat

Top    == <<>>
Places == UNION {[1..n -> EntryNames] : n \in 0..MaxDepth}

\* What is asked of a backend: new_name counts only when there is one path.
Asked(ops) ==
    [op : ops, paths : Seq(Places \ {Top}), dir : Places, name : EntryNames \cup {Missing},
     overwrite : BOOLEAN]
=============================================================================
