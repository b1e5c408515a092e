----------------------------- MODULE Selection -----------------------------
(***************************************************************************)
(* The selection of the explorer: the rows on screen, the selected paths,  *)
(* the focused path, and what an operation acts on (ExplorerApp.tsx with   *)
(* listingSelection.ts, listingRefresh.ts, listingSelectAll.ts, the touch  *)
(* helpers and useListingMarqueeSelect.ts).                                *)
(*                                                                         *)
(* A handler computes the next state of the screen and React then runs the *)
(* effects whose dependencies changed, renders again, and so on until      *)
(* nothing changes.  "Settled" does this; each action is a handler, its    *)
(* render and the effects.  Indices count from 1.                          *)
(***************************************************************************)
EXTENDS Naturals, FiniteSets, Sequences, SequencesExt

CONSTANTS
    Items,       \* every entry there is
    Sorted,      \* for each set of entries, these in the order of a listing
    Folders,     \* the directories that can be open
    DirOf,       \* the directory of each entry
    Dotted,      \* the entries whose name begins with a dot
    Matches,     \* for each quick filter, the entries it matches
    MaxChanges,  \* how often the directory changes behind the screen
    Unset        \* no entry, no load, no filter

ASSUME SelectionAssumption ==
    /\ Unset \notin Items /\ Unset \notin DOMAIN Matches /\ Unset \notin Folders
    /\ IsFiniteSet(Items) /\ DirOf \in [Items -> Folders]
    /\ \A s \in SUBSET Items : Sorted[s] \in Seq(s) /\ Range(Sorted[s]) = s

VARIABLES
    disk,     \* the entries that exist
    changes,  \* how often "disk" changed
    scr,      \* the state and the refs of the component
    load,     \* the listing under way, or Unset
    drag,     \* the marquee under way, or Unset
    unseen    \* history: targets a filter hid, or an unfinished drag put back

selectionVars == <<disk, changes, scr, load, drag, unseen>>

-----------------------------------------------------------------------------
(* What is on screen *)

quickFilterActive(s) == s.query # Unset

visibleEntries(s) == {e \in s.entries : quickFilterActive(s) \/ s.dots \/ e \notin Dotted}

rows(s) ==
    LET shown == {e \in visibleEntries(s) : quickFilterActive(s) => e \in Matches[s.query]}
    IN  IF s.reversed THEN Reverse(Sorted[shown]) ELSE Sorted[shown]

IndexIn(seq, e) == IF e \in Range(seq) THEN CHOOSE i \in DOMAIN seq : seq[i] = e ELSE 0

pathsInIndexRange(seq, i, j) ==
    {seq[k] : k \in {k \in DOMAIN seq : (i <= k /\ k <= j) \/ (j <= k /\ k <= i)}}

\* The anchor of a range is wherever an earlier gesture or effect left it.
Anchors == 1..Cardinality(Items)

getOperationTargets(s) ==
    IF s.selected # {} THEN s.selected ELSE {s.focus} \ {Unset}

Select(s, paths, path, index) ==
    [s EXCEPT !.selected = paths, !.focus = path, !.index = index]

clearSelection(s) == [s EXCEPT !.selected = {}, !.focus = Unset]

-----------------------------------------------------------------------------
(* The effects after a render, each with the dependencies that make it run:  *)
(* "o" is what was rendered before, "n" what is rendered now, "m" what the   *)
(* effects before this one have set.  "listed" says that the entries were    *)
(* set, be it to what they were.                                             *)

Redrawn(o, n, listed) == listed \/ <<o.query, o.reversed, o.dots>> # <<n.query, n.reversed, n.dots>>

LeaveSelectionMode(o, n, m) == IF o.path = n.path THEN m ELSE [m EXCEPT !.mode = FALSE]

ClearTouchSelection(o, n, m) ==
    IF /\ <<o.mode, Cardinality(o.selected)>> # <<n.mode, Cardinality(n.selected)>>
       /\ n.touch /\ n.finger /\ ~n.mode /\ n.selected # {}
    THEN clearSelection(m) ELSE m

ResetQuickFilter(o, n, m) == IF o.path = n.path THEN m ELSE [m EXCEPT !.query = Unset]

\* Mutated: the row of the focus keeps its old number in a new listing.
FollowFocusNot(o, n, listed, m) == m

FollowFocus(o, n, listed, m) ==
    IF Redrawn(o, n, listed) /\ n.focus \in Range(rows(n))
    THEN [m EXCEPT !.index = IndexIn(rows(n), n.focus)] ELSE m

SelectFirstMatch(o, n, listed, m) ==
    IF ~Redrawn(o, n, listed) \/ ~quickFilterActive(n) THEN m
    ELSE IF rows(n) # <<>> THEN Select(m, {rows(n)[1]}, rows(n)[1], 1)
    ELSE [m EXCEPT !.selected = {}]

FocusIndex(o, n, listed, m) ==
    IF /\ Redrawn(o, n, listed) \/ o.index # n.index
       /\ n.selected # {} /\ n.index \in DOMAIN rows(n)
    THEN [m EXCEPT !.focus = rows(n)[n.index]] ELSE m

Effects(o, n, listed) ==
    LET m1 == LeaveSelectionMode(o, n, n)
        m2 == ClearTouchSelection(o, n, m1)
        m3 == ResetQuickFilter(o, n, m2)
        m4 == FollowFocus(o, n, listed, m3)
        m5 == SelectFirstMatch(o, n, listed, m4)
    IN  FocusIndex(o, n, listed, m5)

\* A render after which no effect sets anything is the last one.
Settled(n, listed) ==
    LET n1 == Effects(scr, n, listed)
        n2 == Effects(n, n1, FALSE)
        n3 == Effects(n1, n2, FALSE)
    IN  IF n1 = n THEN n ELSE IF n2 = n1 THEN n1 ELSE IF n3 = n2 THEN n2 ELSE Effects(n2, n3, FALSE)

Chosen(s) == (s.selected \cup {s.focus}) \ {Unset}

\* Of what was out of sight, and of "put", what is chosen and not a row now.
KeepUnseen(put) == unseen' = ((unseen \cup put) \cap Chosen(scr')) \ Range(rows(scr'))

\* A handler that leaves the screen at n; "put" may be targets out of sight.
Become(n, put) ==
    /\ scr' = Settled(n, FALSE)
    /\ KeepUnseen(put)
    /\ load' = IF load = Unset \/ <<scr'.selected, scr'.focus>> = <<scr.selected, scr.focus>>
               THEN load ELSE [load EXCEPT !.chosen = TRUE]

Handled(n) == Become(n, {}) /\ UNCHANGED <<disk, changes, drag>>

-----------------------------------------------------------------------------
(* Pointer and keyboard *)

At(i) == rows(scr)[i]

\* A press on the listing; on a touch screen it is taken to be a finger's.
Pressed == [scr EXCEPT !.finger = scr.touch]

WithToggled(path) ==
    IF path \in scr.selected THEN scr.selected \ {path} ELSE scr.selected \cup {path}

\* Where the focus goes when "path" is toggled: away from a row just left.
ToggledFocus(path, next) ==
    IF next = {} THEN {Unset} ELSE IF path \in scr.selected THEN next ELSE {path}

\* A click on a row, in selection mode or with a mouse; with shift, a range.
onSelect(i, toggle) ==
    /\ scr.touch => scr.mode
    /\ i \in DOMAIN rows(scr)
    /\ IF scr.mode \/ toggle
       THEN \E f \in ToggledFocus(At(i), WithToggled(At(i))) :
                Handled(Select(Pressed, WithToggled(At(i)), f, i))
       ELSE Handled(Select(Pressed, {At(i)}, At(i), i))

onSelectRange(i) ==
    /\ scr.touch => scr.mode
    /\ i \in DOMAIN rows(scr)
    /\ \E anchor \in Anchors :
         Handled(Select(Pressed, pathsInIndexRange(rows(scr), anchor, i), At(i), i))

\* Outside selection mode a tap clears what is selected (with the keyboard) and
\* shows the file.
Tap ==
    /\ scr.touch /\ ~scr.mode /\ scr.selected # {}
    /\ Handled(clearSelection(Pressed))

\* An arrow key: moveLinearIndex, then selectListingIndex.
moveSelectedIndex(down, extend) ==
    LET to   == IF down THEN scr.index + 1 ELSE IF scr.index = 0 THEN 0 ELSE scr.index - 1
        last == Len(rows(scr))
        next == IF to < 1 THEN 1 ELSE IF to > last THEN last ELSE to
    IN  /\ last > 0
        /\ \E anchor \in IF extend THEN Anchors ELSE {next} :
             Handled(Select(scr, pathsInIndexRange(rows(scr), anchor, next), At(next), next))

toggleMultiSelect ==
    /\ scr.index \in DOMAIN rows(scr)
    /\ LET next == WithToggled(At(scr.index))
       IN  Handled([scr EXCEPT !.selected = next, !.focus = IF next = {} THEN Unset ELSE @])

selectAllVisible ==
    LET last == Len(rows(scr))
    IN  /\ last > 0 /\ ~(Range(rows(scr)) \subseteq scr.selected)
        /\ Handled(Select(scr, Range(rows(scr)), At(last), last))

\* Escape, and a press outside the listing while not in selection mode.
clearSelectionAction == scr.selected # {} /\ Handled(clearSelection(scr))

\* A click between the rows clears the selected paths and not the focus.
onListingEmptyClick ==
    /\ scr.selected # {} /\ ~scr.mode /\ drag = Unset
    /\ Handled([Pressed EXCEPT !.selected = {}])

openContextMenu(path) ==
    /\ ~scr.touch
    /\ path # Unset => path \in Range(rows(scr)) \ scr.selected
    /\ Handled(IF path = Unset THEN clearSelection(scr)
               ELSE Select(scr, {path}, path, IndexIn(rows(scr), path)))

toggleSelectionMode ==
    /\ scr.touch
    /\ Handled(IF scr.mode THEN [clearSelection(scr) EXCEPT !.mode = FALSE, !.armed = Unset]
               ELSE [scr EXCEPT !.mode = TRUE])

-----------------------------------------------------------------------------
(* Marquee and long press *)

applyMarqueeSelection(s, paths, primary) ==
    LET path == IF primary \in paths THEN primary
                ELSE IF s.focus \in paths THEN s.focus
                ELSE IF paths \cap Range(rows(s)) # {} THEN CHOOSE p \in paths \cap Range(rows(s)) : TRUE
                ELSE Unset
        i == IF IndexIn(rows(s), primary) # 0 THEN IndexIn(rows(s), primary) ELSE IndexIn(rows(s), path)
    IN  IF path = Unset THEN [s EXCEPT !.selected = paths, !.focus = Unset]
        ELSE IF i = 0 THEN [s EXCEPT !.selected = paths, !.focus = path]
        ELSE Select(s, paths, path, i)

computeMarqueeSelection(base, hit, modifier) ==
    CASE modifier = "ctrl" -> base \ hit [] modifier = "shift" -> base \cup hit [] OTHER -> hit

\* A marquee takes the selection there is when the button goes down.
BeginMarquee(modifier) ==
    /\ ~scr.touch /\ drag = Unset /\ load = Unset /\ rows(scr) # <<>>
    /\ drag' = [base |-> IF modifier = "none" THEN {} ELSE scr.selected, modifier |-> modifier]
    /\ UNCHANGED <<disk, changes, scr, load, unseen>>

EndMarquee(hit, hovered) ==
    /\ drag # Unset
    /\ hit \subseteq Range(rows(scr))
    /\ drag' = Unset
    /\ Become(applyMarqueeSelection(scr, computeMarqueeSelection(drag.base, hit, drag.modifier), hovered),
              drag.base)
    /\ UNCHANGED <<disk, changes>>

armedRangeSelection(base, range, mode) == IF mode = "add" THEN base \cup range ELSE base \ range

\* The press has lasted: the row is the anchor of a range.
armLongPressRange(path) ==
    LET base == IF scr.mode THEN scr.selected ELSE {}
        mode == IF path \in base THEN "subtract" ELSE "add"
    IN  /\ scr.touch /\ scr.armed = Unset /\ load = Unset
        /\ IndexIn(rows(scr), path) # 0
        /\ Handled([applyMarqueeSelection(Pressed, armedRangeSelection(base, {path}, mode), path) EXCEPT
                       !.mode = TRUE,
                       !.armed = [base |-> base, mode |-> mode, path |-> path,
                                  index |-> IndexIn(rows(scr), path)]])

\* Outside selection mode a press on no row enters it with nothing selected.
PressNothing ==
    /\ scr.touch /\ ~scr.mode /\ load = Unset
    /\ Handled([clearSelection(Pressed) EXCEPT !.mode = TRUE])

extendLongPressRange(target) ==
    /\ scr.armed # Unset
    /\ target \in Range(rows(scr)) \cup {Unset}
    /\ LET press == scr.armed
           to    == IF IndexIn(rows(scr), target) = 0 THEN press.index ELSE IndexIn(rows(scr), target)
           range == pathsInIndexRange(rows(scr), press.index, to)
       IN  Become(applyMarqueeSelection(scr, armedRangeSelection(press.base, range, press.mode),
                                        IF target = Unset THEN press.path ELSE target),
                  press.base)
    /\ UNCHANGED <<disk, changes, drag>>

endLongPress == scr.armed # Unset /\ Handled([scr EXCEPT !.armed = Unset])

-----------------------------------------------------------------------------
(* What changes the rows *)

\* An entry that a filter hides stays selected.
Filtered(n) ==
    /\ n # scr
    /\ Become(n, Chosen(scr))
    /\ UNCHANGED <<disk, changes, drag>>

setQuickFilter(query) == Filtered([scr EXCEPT !.query = query])
toggleDotEntries      == Filtered([scr EXCEPT !.dots = ~@])
sortListing           == Handled([scr EXCEPT !.reversed = ~@])

\* The preview shows another of the rows.
handleSlideshowCurrentPathChange(path) ==
    /\ ~scr.touch /\ path \in Range(rows(scr)) \ {scr.focus}
    /\ Handled([scr EXCEPT !.focus = path, !.index = IndexIn(rows(scr), path)])

-----------------------------------------------------------------------------
(* Listings *)

selectionSnapshotForRefresh ==
    [paths |-> scr.selected, focus |-> IF scr.selected = {} THEN Unset ELSE scr.focus]

\* Mutated: what was selected is selected again, there or not.
restoreSelectionUnchecked(n, paths, path) ==
    IF paths = {} THEN [clearSelection(n) EXCEPT !.index = 1] ELSE Select(n, paths, path, 1)

restoreSelectionFromListing(n, paths, path) ==
    LET data == Sorted[n.entries]
        kept == paths \cap n.entries
        f    == IF path \in kept THEN path ELSE CHOOSE p \in kept : TRUE
    IN  IF kept = {} THEN [clearSelection(n) EXCEPT !.index = 1]
        ELSE Select(n, kept, f, IndexIn(data, f))

\* A refresh takes the selection there is when it begins.
RefreshListing ==
    /\ load = Unset
    /\ load' = [path |-> scr.path, keep |-> TRUE, focusPath |-> Unset, chosen |-> FALSE,
                sel |-> selectionSnapshotForRefresh]
    /\ UNCHANGED <<disk, changes, scr, drag, unseen>>

\* A navigation, to a directory or to an entry in one; it supersedes a refresh.
OpenListing(path, focusPath) ==
    /\ focusPath = Unset => path # scr.path
    /\ focusPath # Unset => DirOf[focusPath] = path /\ focusPath \in disk
    /\ load # Unset => load.keep
    /\ scr' = Settled([scr EXCEPT !.path = path], FALSE)
    /\ load' = [path |-> path, keep |-> FALSE, focusPath |-> focusPath, chosen |-> FALSE,
                sel |-> [paths |-> {}, focus |-> scr.path]]
    /\ KeepUnseen(Chosen(scr))
    /\ UNCHANGED <<disk, changes, drag>>

Listed ==
    LET n == [scr EXCEPT !.entries = {e \in disk : DirOf[e] = load.path},
                         !.path = load.path]
    IN  CASE load.focusPath # Unset -> restoreSelectionFromListing(n, {load.focusPath}, load.focusPath)
          [] load.keep             -> restoreSelectionFromListing(n, load.sel.paths, load.sel.focus)
          [] OTHER                 -> [clearSelection(n) EXCEPT !.index = 1]

LoadListing ==
    /\ load # Unset
    /\ scr' = Settled(Listed, TRUE)
    /\ load' = Unset
    /\ KeepUnseen({load.focusPath} \cup IF load.chosen THEN load.sel.paths ELSE {})
    /\ UNCHANGED <<disk, changes, drag>>

\* The listing fails: a navigation goes back to the path it came from, which
\* ends a quick filter again.
ListingFails ==
    /\ load # Unset
    /\ scr' = Settled([scr EXCEPT !.path = IF load.keep THEN @ ELSE load.sel.focus], FALSE)
    /\ load' = Unset
    /\ KeepUnseen(Chosen(scr))
    /\ UNCHANGED <<disk, changes, drag>>

\* A confirmed deletion of the targets: gone, cleared and listed again.
DeleteTargets ==
    /\ getOperationTargets(scr) # {} /\ load = Unset
    /\ disk' = disk \ getOperationTargets(scr)
    /\ scr' = Settled(clearSelection(scr), FALSE)
    /\ load' = [path |-> scr.path, keep |-> FALSE, focusPath |-> Unset, chosen |-> FALSE,
                sel |-> [paths |-> {}, focus |-> scr.path]]
    /\ unseen' = {}
    /\ UNCHANGED <<changes, drag>>

\* Another program adds or removes an entry.
DiskChanges(e) ==
    /\ changes < MaxChanges
    /\ changes' = changes + 1
    /\ disk' = IF e \in disk THEN disk \ {e} ELSE disk \cup {e}
    /\ UNCHANGED <<scr, load, drag, unseen>>

-----------------------------------------------------------------------------
SelectionInit ==
    /\ disk = Items /\ changes = 0 /\ load = Unset /\ drag = Unset /\ unseen = {}
    /\ \E path \in Folders, touch \in BOOLEAN :
         scr = [path |-> path, entries |-> {e \in Items : DirOf[e] = path},
                dots |-> FALSE, reversed |-> FALSE, query |-> Unset,
                selected |-> {}, focus |-> Unset, index |-> 1,
                touch |-> touch, finger |-> FALSE, mode |-> FALSE, armed |-> Unset]

Mouse ==
    \/ \E i \in DOMAIN rows(scr), toggle \in BOOLEAN : onSelect(i, toggle)
    \/ \E i \in DOMAIN rows(scr) : onSelectRange(i)
    \/ Tap
    \/ onListingEmptyClick
    \/ \E path \in Items \cup {Unset} : openContextMenu(path)
    \/ \E path \in Items : handleSlideshowCurrentPathChange(path)

Keyboard ==
    \/ \E down, extend \in BOOLEAN : moveSelectedIndex(down, extend)
    \/ toggleMultiSelect
    \/ selectAllVisible
    \/ clearSelectionAction
    \/ toggleSelectionMode

Ranges ==
    \/ \E hit \in SUBSET Items, hovered \in Items \cup {Unset} : EndMarquee(hit, hovered)
    \/ \E path \in Items : armLongPressRange(path)
    \/ \E target \in Items \cup {Unset} : extendLongPressRange(target)

SelectionNext ==
    \/ Mouse
    \/ Keyboard
    \/ Ranges
    \/ \E modifier \in {"none", "ctrl", "shift"} : BeginMarquee(modifier)
    \/ PressNothing
    \/ endLongPress
    \/ \E query \in DOMAIN Matches \cup {Unset} : setQuickFilter(query)
    \/ toggleDotEntries
    \/ sortListing
    \/ RefreshListing
    \/ \E path \in Folders, focusPath \in Items \cup {Unset} : OpenListing(path, focusPath)
    \/ LoadListing
    \/ ListingFails
    \/ DeleteTargets
    \/ \E e \in Items : DiskChanges(e)

SelectionSpec == SelectionInit /\ [][SelectionNext]_selectionVars

-----------------------------------------------------------------------------
\* listingLoaded: no navigation is under way.
listingLoaded == load = Unset \/ load.keep

\* getOperationTargets: while a listing is on screen, what an operation would
\* act on is one of its rows, except entries a filter hid while they were
\* selected and those an unfinished drag put back.
TargetsAreShown == listingLoaded => getOperationTargets(scr) \subseteq Range(rows(scr)) \cup unseen

\* loadListing with preserveSelection: a refresh leaves the entries selected
\* that are still there, and the focus where it was, unless the selection was
\* changed meanwhile (the older one comes back) or a quick filter is on (its
\* first match is selected).
RefreshKeepsSelection ==
    [][ LoadListing /\ load.keep /\ ~load.chosen /\ ~quickFilterActive(scr) =>
            /\ scr'.selected = scr.selected \cap scr'.entries
            /\ scr.focus \in scr.selected \cap Range(rows(scr'))  => scr'.focus = scr.focus ]_selectionVars

=============================================================================
