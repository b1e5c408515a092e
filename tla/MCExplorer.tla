----------------------------- MODULE MCExplorer -----------------------------
(***************************************************************************)
(* A small instance of what the explorer shows.  In "live" behaviours the  *)
(* listing follows the kernel's events (Explorer); in the others a user    *)
(* selects in listings (Selection): with the keyboard and clicks, by       *)
(* marquees, in a listing that is sorted, or on a touch screen.  "part"    *)
(* says which, and the variables of the other module do not change.        *)
(***************************************************************************)
EXTENDS Explorer, Selection, TLC

CONSTANTS sub, file, a, b, z, near, far, q

VARIABLE part

\* The served directory and one inside it.
MCDirs == {<<>>, <<sub>>}

\* A hidden entry that comes first and two others; a filter for two of them.
MCSorted  == [s \in SUBSET {z, a, b} |-> SelectSeq(<<z, a, b>>, LAMBDA e : e \in s)]
MCDirOf   == z :> near @@ a :> near @@ b :> near
MCMatches == q :> {b, z}

\* No navigation is under way.
InPlace == load' # Unset => load'.keep

Bounded ==
    CASE part = "keys"    -> drag' = Unset /\ ~scr'.reversed /\ (scr'.query # Unset => ~scr'.dots)
      [] part = "marquee" -> ~scr'.reversed /\ scr'.query = Unset /\ ~scr'.dots /\ InPlace
      [] part = "sort"    -> load' = Unset /\ drag' = Unset
      [] part = "touch"   -> ~scr'.reversed /\ scr'.query = Unset /\ ~scr'.dots /\ InPlace

MCInit ==
    /\ Init /\ SelectionInit
    /\ part \in {"live", "keys", "marquee", "sort", "touch"}
    /\ part # "live" => mode = "kernel"
    /\ scr.path = near /\ scr.touch = (part = "touch")

Live    == part = "live" /\ Next /\ UNCHANGED <<part, selectionVars>>
Selects == part # "live" /\ SelectionNext /\ Bounded /\ UNCHANGED <<part, vars>>

MCNext == Live \/ Selects

MCSpec == MCInit /\ [][MCNext]_<<part, vars, selectionVars>> /\ Fairness
=============================================================================
