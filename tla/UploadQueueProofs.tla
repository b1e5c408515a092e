-------------------------- MODULE UploadQueueProofs --------------------------
(***************************************************************************)
(* Proofs about UploadQueue, for any number of files, sessions and clicks: *)
(* the types, that one upload runs at a time, that a row which shows work  *)
(* is worked on, that a refused upload never finishes, and that a row which *)
(* is over stays so.                                                       *)
(***************************************************************************)
EXTENDS UploadQueue, TLAPS

\* A microtask does nothing another step may not do.
LEMMA NextIsTask == Next => Task
BY DEF Next, Microtask, Task

-----------------------------------------------------------------------------
(* Types. *)

Lists == [Items -> Item]

LEMMA PutType ==
  ASSUME NEW l \in Lists, NEW i \in Items, NEW r, Present(l, i) => r \in Row
  PROVE  Put(l, i, r) \in Lists
BY DEF Put, Present, Lists, Item

LEMMA RowOfPresent ==
  ASSUME NEW l \in Lists, NEW i \in Items, Present(l, i)
  PROVE  l[i] \in Row
BY DEF Present, Lists, Item, NoItem

LEMMA StatusType ==
  ASSUME NEW l \in Lists, NEW i \in Items, NEW s \in Live \cup Over
  PROVE  Status(l, i, s) \in Lists
<1>1. Present(l, i) => [l[i] EXCEPT !.status = s] \in Row
  BY RowOfPresent DEF Row
<1> QED  BY <1>1, PutType DEF Status

LEMMA RowWith ==
  ASSUME NEW r \in Row, NEW b \in BOOLEAN
  PROVE  [r EXCEPT !.overwrite = b] \in Row
BY DEF Row

LEMMA MoveType ==
  ASSUME NEW l \in Lists, NEW i \in Items, NEW p \in Paths
  PROVE  MoveTo(l, i, p) \in Lists
<1>1. Present(l, i) => [l[i] EXCEPT !.dest = p] \in Row
  BY RowOfPresent DEF Row
<1> QED  BY <1>1, PutType DEF MoveTo

LEMMA ForgetType ==
  ASSUME NEW i, flush \in Lists, flush' = [flush EXCEPT ![i] = NoItem]
  PROVE  flush' \in Lists
BY DEF Lists, Item

Runs == [Workers -> Run]

LEMMA CallOfBusy ==
  ASSUME run \in Runs, NEW w \in Workers, run[w].pc # "idle"
  PROVE  run[w] \in Call
BY DEF Runs, Run, NoRun

LEMMA GotoType ==
  ASSUME run \in Runs, NEW w \in Workers, run[w].pc # "idle", NEW pc \in Steps,
         Goto(w, pc)
  PROVE  run' \in Runs
<1>1. [run[w] EXCEPT !.pc = pc] \in Call
  BY CallOfBusy DEF Call
<1>2. run' = [run EXCEPT ![w] = [run[w] EXCEPT !.pc = pc]]
  BY DEF Goto, Runs
<1> QED  BY <1>1, <1>2 DEF Runs, Run

LEMMA FinishType ==
  ASSUME run \in Runs, NEW w \in Workers, Finish(w)
  PROVE  run' \in Runs /\ busy' \in BOOLEAN
BY DEF Finish, Runs, Run

LEMMA KnownType ==
  ASSUME seen \in Lists, run \in Runs, NEW w \in Workers, run[w].pc # "idle"
  PROVE  Known(w) \in Row
BY CallOfBusy, RowOfPresent DEF Known, Call

LEMMA AbortType ==
  ASSUME run \in Runs, NEW i \in Items
  PROVE  Abort(i) \in Runs
<1> SUFFICES ASSUME NEW w \in Workers, run[w].item = i
             PROVE  [run[w] EXCEPT !.signal = "fired"] \in Run
  BY DEF Abort, Runs
<1>1. run[w] \in Call
  BY QueueAssumption DEF Runs, Run, NoRun
<1> QED  BY <1>1 DEF Call, Run

LEMMA SessionType ==
  ASSUME NEW r \in Row
  PROVE  SessionOf(r) \in Sessions \cup {None}
BY DEF SessionOf, Row, Sessions

ListTypes == /\ items \in Lists /\ seen \in Lists /\ flush \in Lists
             /\ render \in {"none", "scheduled", "sync"}
RunTypes == run \in Runs /\ busy \in BOOLEAN
RestTypes ==
  /\ cancelled \subseteq Items /\ paused \subseteq Items
  /\ auto \in Resolutions \cup {None}
  /\ naming \in [Items -> [Paths -> Nat]]
  /\ added \in 0 .. MaxItems /\ clicks \in 0 .. MaxClicks
  /\ target \in [Made -> Paths \cup {None}]
  /\ records \subseteq Record /\ deletes \subseteq Delete
  /\ misled \subseteq Items /\ revived \subseteq Items
  /\ stalled \subseteq Items /\ refused \subseteq Items
  /\ dropped \subseteq Made \X Sessions

LEMMA TypeParts == TypeOK <=> ListTypes /\ RunTypes /\ RestTypes
BY DEF TypeOK, ListTypes, RunTypes, RestTypes, Lists, Runs

LEMMA NextTypeParts == TypeOK' <=> ListTypes' /\ RunTypes' /\ RestTypes'
BY DEF TypeOK, ListTypes, RunTypes, RestTypes, Lists, Runs

\* What the steps that leave everything but the lists and the upload alone keep.
Still == UNCHANGED <<marks, answers, server, history, bounds>>

LEMMA StillTypes ==
  ASSUME RestTypes, Still
  PROVE  RestTypes'
BY DEF RestTypes, Still, marks, answers, server, history, marked, bounds, Record, Delete

LEMMA InitType == Init => TypeOK
<1> SUFFICES ASSUME Init
             PROVE  TypeOK
  OBVIOUS
<1>1. ListTypes
  BY DEF Init, ListTypes, Lists, Item
<1>2. RunTypes
  BY DEF Init, RunTypes, Runs, Run
<1>3. PICK r \in SUBSET [session : Made \cap {1}, dest : Dropped] :
        /\ records = r
        /\ target = [s \in Made |-> IF \E e \in r : e.session = s
                                    THEN (CHOOSE e \in r : TRUE).dest ELSE None]
  BY DEF Init
<1>4. records \subseteq Record
  BY <1>3, QueueAssumption DEF Record
<1>5. target \in [Made -> Paths \cup {None}]
  <2> SUFFICES ASSUME NEW s \in Made, \E e \in r : e.session = s
               PROVE  (CHOOSE e \in r : TRUE).dest \in Paths
    BY <1>3
  <2>1. (CHOOSE e \in r : TRUE) \in r
    OBVIOUS
  <2> QED  BY <2>1, <1>3, QueueAssumption
<1>6. RestTypes
  BY <1>4, <1>5, QueueAssumption DEF Init, RestTypes
<1> QED  BY <1>1, <1>2, <1>6, TypeParts

LEMMA RenderType ==
  ASSUME TypeOK, Render
  PROVE  TypeOK'
<1> USE TypeParts, NextTypeParts
<1>1. ListTypes'
  BY DEF Render, ListTypes
<1>2. CASE MayStart
  <2>1. PICK i \in Items : First(i, Waiting) /\ Start(i)
    BY <1>2 DEF Render
  <2>2. items[i] \in Row
    BY <2>1 DEF First, Waiting, ListTypes, Lists, Item, NoItem
  <2>3. CASE i \in cancelled
    <3>1. RunTypes'
      BY <2>1, <2>3 DEF Start, worker, RunTypes
    <3>2. RestTypes'
      BY <2>1, <2>3 DEF Start, Render, RestTypes, marks, answers, server, marked, bounds,
                        Record, Delete
    <3> QED  BY <1>1, <3>1, <3>2
  <2>4. CASE i \notin cancelled
    <3> DEFINE c == [pc |-> IF items[i].overwrite THEN "begin" ELSE "stat", item |-> i,
                     dest |-> items[i].dest, session |-> None, was |-> items[i],
                     signal |-> "clear"]
               w == CHOOSE v \in Workers : run[v].pc = "idle"
    <3>1. c \in Call
      BY <2>2 DEF Call, Steps, Early, Row
    <3>2. run' = [run EXCEPT ![w] = c] /\ busy' = TRUE
      BY <2>1, <2>4 DEF Start
    <3>3. RunTypes'
      <4> HIDE DEF c, w
      <4> QED  BY <3>1, <3>2 DEF RunTypes, Runs, Run
    <3>4. RestTypes'
      BY <2>1, <2>4 DEF Start, Render, RestTypes, marks, answers, server, marked, bounds,
                        Record, Delete
    <3> QED  BY <1>1, <3>3, <3>4
  <2> QED  BY <2>3, <2>4
<1>3. CASE ~MayStart
  <2>1. RunTypes'
    BY <1>3 DEF Render, worker, RunTypes
  <2>2. RestTypes'
    BY <1>3 DEF Render, RestTypes, marks, answers, server, marked, bounds, Record, Delete
  <2> QED  BY <1>1, <2>1, <2>2
<1> QED  BY <1>2, <1>3

\* The steps of an upload that touch the list and the call, and nothing else.
LEMMA EarlyType ==
  ASSUME TypeOK, NEW w \in Workers,
         \/ StatMissing(w) \/ StatAsks(w) \/ StatSkips(w) \/ StatReplaces(w)
         \/ StatRenames(w) \/ Prepared(w) \/ Settled(w)
  PROVE  TypeOK'
<1> USE TypeParts, NextTypeParts
<1> DEFINE i == run[w].item
<1>t. /\ items \in Lists /\ seen \in Lists /\ flush \in Lists /\ run \in Runs
      /\ RestTypes /\ busy \in BOOLEAN
  BY DEF ListTypes, RunTypes
<1>i. run[w].pc # "idle" => run[w] \in Call /\ i \in Items
  BY <1>t, CallOfBusy DEF Call
<1>r. RestTypes'
  BY <1>t, StillTypes DEF Still, StatMissing, StatAsks, StatSkips, StatReplaces,
     StatRenames, Prepared, Settled
<1>1. CASE StatMissing(w) \/ StatRenames(w) \/ Prepared(w)
  <2>1. PICK pc \in {"begin", "rename", "upload"} : Goto(w, pc)
    BY <1>1 DEF StatMissing, StatRenames, Prepared
  <2>2. RunTypes'
    BY <2>1, <1>1, <1>t, GotoType
       DEF RunTypes, StatMissing, StatRenames, Prepared, At, Goto, Steps, Early
  <2>3. ListTypes'
    BY <1>1 DEF StatMissing, StatRenames, Prepared, list, ListTypes
  <2> QED  BY <2>2, <2>3, <1>r
<1>2. CASE StatAsks(w) \/ StatSkips(w)
  <2>1. PICK s \in {"awaiting_conflict", "cancelled"} : Queue(Status(items, i, s))
    BY <1>2 DEF StatAsks, StatSkips
  <2>2. Finish(w) /\ run[w].pc # "idle" /\ UNCHANGED <<seen, flush>>
    BY <1>2 DEF StatAsks, StatSkips, At
  <2>3. Status(items, i, s) \in Lists
    BY <2>2, <1>i, <1>t, StatusType DEF Live, Over
  <2>4. ListTypes'
    BY <2>1, <2>2, <2>3, <1>t DEF Queue, ListTypes
  <2> QED  BY <2>2, <2>4, <1>r, <1>t, FinishType DEF RunTypes
<1>3. CASE StatReplaces(w)
  <2>1. run[w].pc # "idle" /\ Goto(w, "begin") /\ UNCHANGED <<seen, flush>>
    BY <1>3 DEF StatReplaces, At
  <2>2. Present(items, i) => [items[i] EXCEPT !.overwrite = TRUE] \in Row
    BY <2>1, <1>i, <1>t, RowOfPresent, RowWith
  <2>3. Put(items, i, [items[i] EXCEPT !.overwrite = TRUE]) \in Lists
    BY <2>1, <2>2, <1>i, <1>t, PutType
  <2>4. ListTypes'
    BY <2>1, <2>3, <1>3, <1>t DEF StatReplaces, Queue, ListTypes
  <2>5. RunTypes'
    BY <2>1, <1>t, GotoType DEF RunTypes, Goto, Steps, Early
  <2> QED  BY <2>4, <2>5, <1>r
<1>4. CASE Settled(w)
  <2>1. run[w].pc # "idle" /\ Finish(w) /\ Commit(i, [run[w].was EXCEPT !.status = "paused"])
    BY <1>4 DEF Settled
  <2>2. [run[w].was EXCEPT !.status = "paused"] \in Row
    BY <2>1, <1>i DEF Call, Row, Live
  <2>3. Put(items, i, [run[w].was EXCEPT !.status = "paused"]) \in Lists
    BY <2>1, <2>2, <1>i, <1>t, PutType
  <2>4. ListTypes'
    BY <2>1, <2>3, <1>t, ForgetType DEF Commit, Queue, ListTypes
  <2> QED  BY <2>1, <2>4, <1>r, <1>t, FinishType DEF RunTypes
<1> QED  BY <1>1, <1>2, <1>3, <1>4

LEMMA RenameType ==
  ASSUME TypeOK, NEW w \in Workers, Rename(w)
  PROVE  TypeOK'
<1> USE TypeParts, NextTypeParts
<1>1. run[w] \in Call /\ Renamed[run[w].dest] \in Paths
  BY CallOfBusy, QueueAssumption DEF Rename, At, RunTypes, Call
<1>2. MoveTo(items, run[w].item, Renamed[run[w].dest]) \in Lists
  BY <1>1, MoveType DEF ListTypes, Call
<1>3. ListTypes'
  BY <1>2 DEF Rename, Queue, ListTypes
<1>4. PICK c \in Call : run' = [run EXCEPT ![w] = c]
  <2> DEFINE c == [[run[w] EXCEPT !.pc = "begin"] EXCEPT !.dest = Renamed[run[w].dest]]
  <2>1. c \in Call
    BY <1>1 DEF Call, Steps, Early
  <2>2. run' = [run EXCEPT ![w] = c]
    BY DEF Rename, RunTypes, Runs
  <2> QED  BY <2>1, <2>2
<1>5. RunTypes'
  BY <1>4 DEF Rename, RunTypes, Runs, Run
<1>6. RestTypes'
  BY StillTypes DEF Rename, Still
<1> QED  BY <1>3, <1>5, <1>6

LEMMA BeginType ==
  ASSUME TypeOK, NEW w \in Workers, Begin(w)
  PROVE  TypeOK'
<1> USE TypeParts, NextTypeParts
<1>1. run[w] \in Call /\ Known(w) \in Row
  BY CallOfBusy, KnownType DEF Begin, RunTypes, ListTypes
<1>2. RestTypes'
  BY StillTypes DEF Begin, Still
<1>3. CASE Known(w).status \in {"pending", "active"}
  <2>1. MoveTo(items, run[w].item, run[w].dest) \in Lists
    BY <1>1, MoveType DEF ListTypes, Call
  <2>2. ListTypes'
    BY <2>1, <1>3 DEF Begin, Queue, ListTypes
  <2>3. PICK c \in Call : run' = [run EXCEPT ![w] = c]
    <3>1. PICK slow \in Materialises :
            run' = [run EXCEPT ![w] =
                 [@ EXCEPT !.pc = IF slow THEN "prepare" ELSE "upload",
                           !.was = Known(w), !.session = Known(w).resume,
                           !.signal = IF run[w].item \in cancelled
                                      THEN "fired" ELSE "clear"]]
      BY <1>3 DEF Begin
    <3> DEFINE c == [run[w] EXCEPT !.pc = IF slow THEN "prepare" ELSE "upload",
                           !.was = Known(w), !.session = Known(w).resume,
                           !.signal = IF run[w].item \in cancelled
                                      THEN "fired" ELSE "clear"]
    <3>2. c \in Call
      <4> DEFINE pc == IF slow THEN "prepare" ELSE "upload"
                 sig == IF run[w].item \in cancelled THEN "fired" ELSE "clear"
      <4>1. pc \in Steps /\ sig \in {"clear", "fired"} /\ Known(w).resume \in Made \cup {None}
        BY <1>1 DEF Steps, Early, Row
      <4> HIDE DEF pc, sig
      <4>2. [run[w] EXCEPT !.pc = pc, !.was = Known(w), !.session = Known(w).resume,
                           !.signal = sig] \in Call
        BY <4>1, <1>1 DEF Call
      <4> QED  BY <4>2 DEF pc, sig
    <3>3. run' = [run EXCEPT ![w] = c]
      BY <3>1 DEF RunTypes, Runs
    <3> QED  BY <3>2, <3>3
  <2>4. RunTypes'
    BY <2>3, <1>3 DEF Begin, RunTypes, Runs, Run
  <2> QED  BY <2>2, <2>4, <1>2
<1>4. CASE Known(w).status \notin {"pending", "active"}
  <2>1. RunTypes'
    BY <1>4, FinishType DEF Begin, RunTypes
  <2>2. ListTypes'
    BY <1>4 DEF Begin, ListTypes
  <2> QED  BY <2>1, <2>2, <1>2
<1> QED  BY <1>3, <1>4

\* patchQueueItem
LEMMA PatchType ==
  ASSUME TypeOK, NEW i \in Items, NEW s \in Live \cup Over, PatchStatus(i, s)
  PROVE  ListTypes'
<1> USE TypeParts
<1>1. Status(seen, i, s) \in Lists
  BY StatusType DEF ListTypes
<1>2. items' \in Lists /\ seen' \in Lists /\ render' = "scheduled"
  BY <1>1 DEF PatchStatus, Patch, Queue, Status
<1> QED  BY <1>2, ForgetType DEF PatchStatus, ListTypes

LEMMA PhaseType ==
  ASSUME TypeOK, NEW w \in Workers, Hash(w) \/ UploadStarts(w) \/ Transferred(w)
  PROVE  TypeOK'
<1> USE TypeParts, NextTypeParts
<1>1. run[w] \in Call /\ run[w].item \in Items /\ run[w].pc # "idle"
  BY CallOfBusy DEF Hash, UploadStarts, Transferred, At, RunTypes, Call
<1>2. RestTypes'
  BY StillTypes DEF Hash, UploadStarts, Transferred, Still
<1>3. ASSUME NEW s \in {"hashing", "active", "verifying"},
             NEW pc \in {"hashing", "create", "transfer", "verify"},
             PatchStatus(run[w].item, s), Goto(w, pc)
      PROVE  TypeOK'
  <2>1. ListTypes'
    BY <1>1, <1>3, PatchType DEF Live
  <2>2. RunTypes'
    BY <1>1, <1>3, GotoType DEF RunTypes, Goto, Steps, Uploading
  <2> QED  BY <2>1, <2>2, <1>2
<1>4. CASE Hash(w) \/ Transferred(w)
  BY <1>4, <1>3 DEF Hash, Transferred
<1>5. CASE UploadStarts(w)
  <2> DEFINE pc == IF run[w].pc = "upload" THEN "transfer" ELSE "create"
  <2>0. pc \in {"create", "transfer"}
    OBVIOUS
  <2>1. CASE run[w].item \in cancelled
    <3>1. run' = [run EXCEPT ![w].pc = pc, ![w].signal = "fired"]
          /\ UNCHANGED <<busy, list>>
      BY <1>5, <2>1 DEF UploadStarts
    <3> HIDE DEF pc
    <3> DEFINE c == [[run[w] EXCEPT !.pc = pc] EXCEPT !.signal = "fired"]
    <3>2. c \in Call
      BY <1>1, <2>0 DEF Call, Steps, Uploading
    <3>3. run' = [run EXCEPT ![w] = c]
      BY <3>1 DEF RunTypes, Runs
    <3>4. RunTypes'
      <4> HIDE DEF c
      <4> QED  BY <3>1, <3>2, <3>3 DEF RunTypes, Runs, Run
    <3>5. ListTypes'
      BY <3>1 DEF ListTypes, list
    <3> QED  BY <3>4, <3>5, <1>2
  <2>2. CASE run[w].item \notin cancelled
    <3>1. PatchStatus(run[w].item, "active") /\ Goto(w, pc)
      BY <1>5, <2>2 DEF UploadStarts
    <3> QED  BY <3>1, <2>0, <1>3
  <2> QED  BY <2>1, <2>2
<1> QED  BY <1>4, <1>5

LEMMA DropType ==
  ASSUME records \subseteq Record, NEW t, NEW p
  PROVE  /\ t \in Made => {<<t, e.session>> : e \in DropOthers(t, p)} \subseteq Made \X Sessions
         /\ {[session |-> e.session, forget |-> FALSE] : e \in DropOthers(t, p)}
              \subseteq Delete
<1>1. DropOthers(t, p) \subseteq Record
  BY DEF DropOthers
<1>2. \A e \in Record : e.session \in Sessions
  BY DEF Record, Sessions
<1>3. \A e \in Record : [session |-> e.session, forget |-> FALSE] \in Delete
  BY <1>2 DEF Delete
<1>4. t \in Made => {<<t, e.session>> : e \in DropOthers(t, p)} \subseteq Made \X Sessions
  BY <1>1, <1>2
<1> QED  BY <1>1, <1>3, <1>4

LEMMA CreatedType ==
  ASSUME TypeOK, NEW w \in Workers, Created(w)
  PROVE  TypeOK'
<1> USE TypeParts, NextTypeParts
<1> DEFINE i == run[w].item
<1>1. PICK t \in Made :
        LET others == DropOthers(t, seen[i].dest) IN
        /\ target' = [target EXCEPT ![t] = run[w].dest]
        /\ Patch(i, [seen[i] EXCEPT !.session = t, !.resume = t])
        /\ IF Present(seen, i)
           THEN /\ records' = (records \ others)
                                \cup {[session |-> t, dest |-> seen[i].dest]}
                /\ deletes' = deletes \cup {[session |-> e.session, forget |-> FALSE] :
                                            e \in others}
                /\ dropped' = dropped \cup {<<t, e.session>> : e \in others}
           ELSE UNCHANGED <<records, deletes, dropped>>
        /\ run' = [run EXCEPT ![w].pc = "transfer", ![w].session = t]
  BY DEF Created
<1>2. run[w] \in Call /\ i \in Items /\ run[w].dest \in Paths
  BY CallOfBusy DEF Created, At, RunTypes, Call
<1>3. Present(seen, i) => /\ [seen[i] EXCEPT !.session = t, !.resume = t] \in Row
                          /\ seen[i].dest \in Paths
  <2> SUFFICES ASSUME Present(seen, i)
               PROVE  /\ [seen[i] EXCEPT !.session = t, !.resume = t] \in Row
                      /\ seen[i].dest \in Paths
    OBVIOUS
  <2>1. seen[i] \in Row
    BY <1>2, RowOfPresent DEF ListTypes
  <2> QED  BY <2>1 DEF Row, Sessions
<1>4. ListTypes'
  <2>1. Put(seen, i, [seen[i] EXCEPT !.session = t, !.resume = t]) \in Lists
    BY <1>2, <1>3, PutType DEF ListTypes
  <2> QED  BY <1>1, <2>1 DEF Patch, Queue, Created, ListTypes
<1>5. RunTypes'
  <2> DEFINE c == [[run[w] EXCEPT !.pc = "transfer"] EXCEPT !.session = t]
  <2>1. c \in Call
    BY <1>2 DEF Call, Steps, Uploading
  <2>2. run' = [run EXCEPT ![w] = c]
    BY <1>1 DEF RunTypes, Runs
  <2> HIDE DEF c
  <2> QED  BY <2>1, <2>2 DEF Created, RunTypes, Runs, Run
<1>6. target' \in [Made -> Paths \cup {None}]
  BY <1>1, <1>2 DEF RestTypes
<1>7. records' \subseteq Record /\ deletes' \subseteq Delete /\ dropped' \subseteq Made \X Sessions
  <2>1. CASE Present(seen, i)
    <3>1. [session |-> t, dest |-> seen[i].dest] \in Record
      BY <1>3, <2>1 DEF Record
    <3> DEFINE d == {[session |-> e.session, forget |-> FALSE] :
                     e \in DropOthers(t, seen[i].dest)}
               x == {<<t, e.session>> : e \in DropOthers(t, seen[i].dest)}
    <3>2. d \subseteq Delete /\ x \subseteq Made \X Sessions
      BY DropType DEF RestTypes
    <3>3. /\ records' = (records \ DropOthers(t, seen[i].dest))
                          \cup {[session |-> t, dest |-> seen[i].dest]}
          /\ deletes' = deletes \cup d /\ dropped' = dropped \cup x
      BY <1>1, <2>1
    <3> HIDE DEF d, x
    <3> QED  BY <3>1, <3>2, <3>3 DEF RestTypes
  <2>2. CASE ~Present(seen, i)
    BY <1>1, <2>2 DEF RestTypes
  <2> QED  BY <2>1, <2>2
<1>8. RestTypes'
  BY <1>6, <1>7 DEF Created, RestTypes, marks, answers, history, marked, bounds
<1> QED  BY <1>4, <1>5, <1>8

\* commitProgressItem
LEMMA CommitType ==
  ASSUME TypeOK, NEW i \in Items, NEW r \in Row, Commit(i, r)
  PROVE  ListTypes'
<1>1. Put(items, i, r) \in Lists
  BY TypeParts, PutType DEF ListTypes
<1> QED  BY <1>1, TypeParts, ForgetType DEF Commit, Queue, ListTypes

LEMMA VerifiedType ==
  ASSUME TypeOK, NEW w \in Workers, Verified(w)
  PROVE  TypeOK'
<1> USE TypeParts, NextTypeParts
<1>1. run[w].item \in Items /\ Known(w) \in Row
  BY CallOfBusy, KnownType DEF Verified, At, RunTypes, ListTypes, Call
<1>2. ListTypes'
  <2>1. [Known(w) EXCEPT !.status = "done"] \in Row
    BY <1>1 DEF Row, Over
  <2> QED  BY <2>1, <1>1, CommitType DEF Verified
<1>3. RunTypes'
  BY FinishType DEF Verified, RunTypes
<1>4. records' \subseteq Record /\ deletes' \subseteq Delete
  <2> DEFINE t == SessionOf(Known(w))
             d == {[session |-> e.session, forget |-> FALSE] :
                   e \in DropOthers(t, run[w].dest)}
  <2>1. d \subseteq Delete
    BY DropType DEF RestTypes
  <2>2. \/ UNCHANGED <<records, deletes>>
        \/ /\ records' = {e \in records \ DropOthers(t, run[w].dest) : e.session # t}
           /\ deletes' = deletes \cup d
    BY DEF Verified
  <2> HIDE DEF d, t
  <2> QED  BY <2>1, <2>2 DEF RestTypes
<1>5. RestTypes'
  BY <1>4 DEF Verified, RestTypes, marks, answers, history, marked, bounds
<1> QED  BY <1>2, <1>3, <1>5

LEMMA CaughtType ==
  ASSUME TypeOK, NEW w \in Workers, Throw(w) \/ ThrowInCreate(w)
  PROVE  TypeOK'
<1> USE TypeParts, NextTypeParts
<1> DEFINE i == run[w].item
<1>1. Caught(w)
  BY DEF Throw, ThrowInCreate
<1>2. run[w] \in Call /\ i \in Items /\ run[w].dest \in Paths /\ Known(w) \in Row
  BY <1>1, CallOfBusy, KnownType DEF Caught, RunTypes, ListTypes, Call, Uploading
<1>3. target' \in [Made -> Paths \cup {None}]
  BY <1>2 DEF Throw, ThrowInCreate, RestTypes
<1>4. RestTypes'
  BY <1>1, <1>3 DEF Caught, RestTypes, answers, history, marked, bounds
<1>5. CASE i \in paused
  <2>1. ListTypes'
    BY <1>1, <1>5, ForgetType DEF Caught, ListTypes
  <2>2. run' = [run EXCEPT ![w].pc = "settle", ![w].was = Known(w)]
    BY <1>1, <1>5 DEF Caught
  <2> DEFINE c == [[run[w] EXCEPT !.pc = "settle"] EXCEPT !.was = Known(w)]
  <2>3. c \in Call
    BY <1>2 DEF Call, Steps
  <2>4. run' = [run EXCEPT ![w] = c]
    BY <2>2 DEF RunTypes, Runs
  <2>5. RunTypes'
    <3> HIDE DEF c
    <3> QED  BY <2>3, <2>4, <1>1, <1>5 DEF Caught, RunTypes, Runs, Run
  <2> QED  BY <2>1, <2>5, <1>4
<1>6. CASE i \notin paused
  <2> DEFINE st == IF i \in cancelled \/ run[w].signal = "fired" THEN "cancelled" ELSE "failed"
  <2>1. Commit(i, [Known(w) EXCEPT !.status = st]) /\ Finish(w)
    BY <1>1, <1>6 DEF Caught
  <2>2. st \in Over
    BY DEF Over
  <2>3. [Known(w) EXCEPT !.status = st] \in Row
    <3> HIDE DEF st
    <3> QED  BY <1>2, <2>2 DEF Row
  <2>4. ListTypes'
    BY <2>1, <2>3, <1>2, CommitType
  <2> QED  BY <2>1, <2>4, <1>4, FinishType DEF RunTypes
<1> QED  BY <1>5, <1>6

LEMMA WorkType ==
  ASSUME TypeOK, NEW w \in Workers, Work(w)
  PROVE  TypeOK'
BY EarlyType, RenameType, BeginType, PhaseType, CreatedType, VerifiedType, CaughtType DEF Work

LEMMA SnapshotType ==
  ASSUME TypeOK, NEW i \in Items, NEW r \in Row, Snapshot(i, r), UNCHANGED seen
  PROVE  ListTypes'
<1>1. Put(items, i, r) \in Lists
  BY TypeParts, PutType DEF ListTypes
<1>2. flush' \in Lists
  BY TypeParts DEF Snapshot, ListTypes, Lists, Item
<1> QED  BY <1>1, <1>2, TypeParts DEF Snapshot, Queue, ListTypes

LEMMA ProgressType ==
  ASSUME TypeOK,
         \/ \E w \in Workers : Progress(w)
         \/ \E i \in Items : FlushProgress(i)
         \/ \E s \in {Foreign} \cup {t \in Made : target[t] # None} : RemoteProgress(s)
  PROVE  TypeOK'
<1> USE TypeParts, NextTypeParts
<1>1. ASSUME NEW w \in Workers, Progress(w)
      PROVE  TypeOK'
  <2> DEFINE i == run[w].item
             r == [seen[i] EXCEPT !.status = StatusFor(ProgressId(w)),
                                  !.session = ProgressId(w)]
  <2>1. run[w] \in Call /\ i \in Items /\ Present(seen, i) /\ Snapshot(i, r)
    BY <1>1, CallOfBusy DEF Progress, RunTypes, Call
  <2>2. seen[i] \in Row
    BY <2>1, RowOfPresent DEF ListTypes
  <2>3. ProgressId(w) \in Sessions \cup {None}
    BY <2>1 DEF ProgressId, Sessions, Phases, Call
  <2>4. StatusFor(ProgressId(w)) \in Live
    BY DEF StatusFor, Live
  <2>5. r \in Row
    <3> DEFINE id == ProgressId(w)
               st == StatusFor(id)
    <3>1. id \in Sessions \cup {None} /\ st \in Live
      BY <2>3, <2>4
    <3> HIDE DEF id, st
    <3>2. [seen[i] EXCEPT !.status = st, !.session = id] \in Row
      BY <2>2, <3>1 DEF Row
    <3> QED  BY <3>2 DEF st, id
  <2>6. ListTypes'
    <3> HIDE DEF r
    <3> QED  BY <1>1, <2>1, <2>5, SnapshotType DEF Progress
  <2>7. RunTypes' /\ RestTypes'
    BY <1>1, StillTypes DEF Progress, worker, RunTypes, Still
  <2> QED  BY <2>6, <2>7
<1>2. ASSUME NEW i \in Items, FlushProgress(i)
      PROVE  TypeOK'
  <2>1. flush[i] \in Row
    BY <1>2 DEF FlushProgress, ListTypes, Lists, Item
  <2>2. Put(items, i, flush[i]) \in Lists
    BY <2>1, PutType DEF ListTypes
  <2>3. ListTypes'
    BY <1>2, <2>2, ForgetType DEF FlushProgress, Queue, ListTypes
  <2>4. RunTypes' /\ RestTypes'
    BY <1>2, StillTypes DEF FlushProgress, worker, RunTypes, Still
  <2> QED  BY <2>3, <2>4
<1>3. ASSUME NEW s \in {Foreign} \cup {t \in Made : target[t] # None}, RemoteProgress(s)
      PROVE  TypeOK'
  <2>1. PICK i \in Items :
          /\ First(i, {j \in Items : /\ seen[j].status = "active"
                                     /\ seen[j].session \in {s, None}})
          /\ Snapshot(i, [seen[i] EXCEPT !.session = s])
          /\ misled' = IF \E w \in Workers : run[w].item = i THEN misled
                       ELSE misled \cup {i}
    BY <1>3 DEF RemoteProgress
  <2>2. Present(seen, i)
    BY <2>1 DEF First, Present
  <2>3. [seen[i] EXCEPT !.session = s] \in Row
    BY <2>2, RowOfPresent DEF ListTypes, Row, Sessions
  <2>4. ListTypes'
    BY <1>3, <2>1, <2>3, SnapshotType DEF RemoteProgress
  <2>5. RunTypes'
    BY <1>3 DEF RemoteProgress, worker, RunTypes
  <2>6. clicks' \in 0 .. MaxClicks
    BY <1>3, QueueAssumption DEF RemoteProgress, RestTypes
  <2>7. RestTypes'
    BY <1>3, <2>1, <2>6 DEF RemoteProgress, RestTypes, marks, answers, server, Record, Delete
  <2> QED  BY <2>4, <2>5, <2>7
<1> QED  BY <1>1, <1>2, <1>3

LEMMA EnqueueType ==
  ASSUME TypeOK, NEW r \in Row, Enqueue(r)
  PROVE  TypeOK'
<1> USE TypeParts, NextTypeParts
<1>1. added' \in 0 .. MaxItems
  BY QueueAssumption DEF Enqueue, RestTypes
<1>2. ListTypes'
  BY DEF Enqueue, Queue, ListTypes, Lists, Item
<1>3. RunTypes'
  BY DEF Enqueue, worker, RunTypes
<1>4. RestTypes'
  BY <1>1 DEF Enqueue, RestTypes, marks, answers, server, history, marked, Record, Delete
<1> QED  BY <1>2, <1>3, <1>4

LEMMA AddType ==
  ASSUME TypeOK,
         \/ \E p \in Dropped : AddFile(p)
         \/ \E e \in records : ResumeRecord(e)
  PROVE  TypeOK'
<1>1. ASSUME NEW p \in Dropped, AddFile(p)
      PROVE  TypeOK'
  <2>1. [NoItem EXCEPT !.status = "pending", !.dest = p] \in Row
    BY QueueAssumption DEF NoItem, Row, Live
  <2> QED  BY <1>1, <2>1, EnqueueType DEF AddFile
<1>2. ASSUME NEW e \in records, ResumeRecord(e)
      PROVE  TypeOK'
  <2> DEFINE r == [status |-> "pending", dest |-> e.dest, overwrite |-> FALSE,
                   session |-> e.session, resume |-> e.session]
  <2>1. e \in Record
    BY TypeParts DEF RestTypes
  <2>2. r \in Row
    BY <2>1 DEF Record, Row, Live, Sessions
  <2>3. Enqueue(r)
    BY <1>2 DEF ResumeRecord
  <2> HIDE DEF r
  <2> QED  BY <2>2, <2>3, EnqueueType
<1> QED  BY <1>1, <1>2

LEMMA ClickCount ==
  ASSUME TypeOK, clicks < MaxClicks, clicks' = clicks + 1
  PROVE  clicks' \in 0 .. MaxClicks
BY QueueAssumption, TypeParts DEF RestTypes

LEMMA SendDeleteType ==
  ASSUME TypeOK, NEW i \in Items, Present(seen, i), SendDelete(i)
  PROVE  deletes' \subseteq Delete
<1>1. SessionOf(seen[i]) \in Sessions \cup {None}
  BY TypeParts, RowOfPresent, SessionType DEF ListTypes
<1> DEFINE t == SessionOf(seen[i])
           d == [session |-> t, forget |-> TRUE]
<1>2. deletes' = IF t = None THEN deletes ELSE deletes \cup {d}
  BY DEF SendDelete
<1>3. t # None => d \in Delete
  <2> HIDE DEF t
  <2> QED  BY <1>1 DEF Delete, t
<1> HIDE DEF d, t
<1> QED  BY <1>2, <1>3, TypeParts DEF RestTypes

LEMMA CancelType ==
  ASSUME TypeOK, NEW i \in Items, Cancel(i)
  PROVE  TypeOK'
<1> USE TypeParts, NextTypeParts
<1>1. CASE CancelWaiting(i)
  <2>1. [items EXCEPT ![i] = NoItem] \in Lists
    BY DEF ListTypes, Lists, Item
  <2>2. ListTypes'
    BY <1>1, <2>1, ForgetType DEF CancelWaiting, Click, ListTypes
  <2>3. RestTypes'
    BY <1>1, ClickCount DEF CancelWaiting, Click, RestTypes, answers, server, history, marked,
                            Record, Delete
  <2>4. RunTypes'
    BY <1>1 DEF CancelWaiting, worker, RunTypes
  <2> QED  BY <2>2, <2>3, <2>4
<1>2. CASE CancelPaused(i)
  <2>1. Status(items, i, "cancelled") \in Lists
    BY StatusType DEF ListTypes, Over
  <2>2. ListTypes'
    BY <1>2, <2>1, ForgetType DEF CancelPaused, Click, ListTypes
  <2>3. deletes' \subseteq Delete
    BY <1>2, SendDeleteType DEF CancelPaused, Present
  <2>4. RestTypes'
    BY <1>2, <2>3, ClickCount DEF CancelPaused, Click, RestTypes, answers, history, marked, Record
  <2>5. RunTypes'
    BY <1>2 DEF CancelPaused, worker, RunTypes
  <2> QED  BY <2>2, <2>4, <2>5
<1>3. CASE CancelRunning(i)
  <2>1. ListTypes'
    BY <1>3, ForgetType DEF CancelRunning, ListTypes
  <2>2. deletes' \subseteq Delete
    BY <1>3, SendDeleteType DEF CancelRunning, Present
  <2>3. RestTypes'
    BY <1>3, <2>2, ClickCount DEF CancelRunning, RestTypes, answers, Record
  <2>4. RunTypes'
    BY <1>3, AbortType DEF CancelRunning, RunTypes
  <2> QED  BY <2>1, <2>3, <2>4
<1> QED  BY <1>1, <1>2, <1>3 DEF Cancel

LEMMA ClickType ==
  ASSUME TypeOK, NEW i \in Items, Pause(i) \/ Resume(i) \/ ClearDone(i)
  PROVE  TypeOK'
<1> USE TypeParts, NextTypeParts
<1>1. CASE Pause(i)
  <2>1. ListTypes'
    BY <1>1, ForgetType DEF Pause, ListTypes
  <2>2. RestTypes'
    BY <1>1, ClickCount DEF Pause, RestTypes, answers, server, history, marked, Record, Delete
  <2>3. RunTypes'
    BY <1>1, AbortType DEF Pause, RunTypes
  <2> QED  BY <2>1, <2>2, <2>3
<1>2. CASE Resume(i)
  <2>1. Status(items, i, "pending") \in Lists
    BY StatusType DEF ListTypes, Live
  <2>2. ListTypes'
    BY <1>2, <2>1 DEF Resume, Click, ListTypes
  <2>3. RestTypes'
    BY <1>2, ClickCount DEF Resume, Click, RestTypes, marks, answers, server, Record, Delete
  <2>4. RunTypes'
    BY <1>2 DEF Resume, worker, RunTypes
  <2> QED  BY <2>2, <2>3, <2>4
<1>3. CASE ClearDone(i)
  <2>1. [items EXCEPT ![i] = NoItem] \in Lists
    BY DEF ListTypes, Lists, Item
  <2>2. ListTypes'
    BY <1>3, <2>1 DEF ClearDone, Click, ListTypes
  <2>3. RestTypes'
    BY <1>3, ClickCount DEF ClearDone, Click, RestTypes, marks, answers, server, history, marked,
                            Record, Delete
  <2>4. RunTypes'
    BY <1>3 DEF ClearDone, worker, RunTypes
  <2> QED  BY <2>2, <2>3, <2>4
<1> QED  BY <1>1, <1>2, <1>3

LEMMA ClearFinishedType ==
  ASSUME TypeOK, ClearFinished
  PROVE  TypeOK'
<1> USE TypeParts, NextTypeParts
<1>1. [j \in Items |-> IF items[j].status \in Over THEN NoItem ELSE items[j]] \in Lists
  BY DEF ListTypes, Lists, Item
<1>2. ListTypes'
  BY <1>1 DEF ClearFinished, Click, ListTypes
<1>3. RestTypes'
  BY ClickCount DEF ClearFinished, Click, RestTypes, marks, answers, server, history, marked,
                    Record, Delete
<1>4. RunTypes'
  BY DEF ClearFinished, worker, RunTypes
<1> QED  BY <1>2, <1>3, <1>4

LEMMA ResolveType ==
  ASSUME TypeOK, NEW choice \in Resolutions, NEW all \in BOOLEAN, Resolve(choice, all)
  PROVE  TypeOK'
<1> USE TypeParts, NextTypeParts
<1>1. PICK i \in Items :
     /\ First(i, Asked)
     /\ auto' = IF all THEN choice ELSE auto
     /\ CASE choice = "skip" -> Click(Status(items, i, "cancelled")) /\ UNCHANGED naming
          [] choice = "replace" ->
               /\ Click(Put(items, i, [items[i] EXCEPT !.status = "pending",
                                                       !.overwrite = TRUE]))
               /\ UNCHANGED naming
          [] choice = "keep_both" ->
               /\ clicks < MaxClicks /\ clicks' = clicks + 1
               /\ naming' = [naming EXCEPT ![i][seen[i].dest] = @ + 1]
               /\ UNCHANGED <<items, render>>
  BY DEF Resolve
<1>2. /\ items' \in Lists /\ render' \in {"none", "scheduled", "sync"}
      /\ naming' \in [Items -> [Paths -> Nat]]
      /\ clicks < MaxClicks /\ clicks' = clicks + 1
  <2>1. CASE choice = "skip"
    BY <1>1, <2>1, StatusType DEF Click, ListTypes, RestTypes, Over
  <2>2. CASE choice = "replace"
    <3>1. Present(items, i) => [items[i] EXCEPT !.status = "pending", !.overwrite = TRUE] \in Row
      <4> SUFFICES ASSUME Present(items, i)
                   PROVE  [items[i] EXCEPT !.status = "pending", !.overwrite = TRUE] \in Row
        OBVIOUS
      <4>1. [items[i] EXCEPT !.status = "pending"] \in Row
        BY RowOfPresent DEF ListTypes, Row, Live
      <4>2. [[items[i] EXCEPT !.status = "pending"] EXCEPT !.overwrite = TRUE] \in Row
        BY <4>1, RowWith
      <4> QED  BY <4>2
    <3>2. Put(items, i, [items[i] EXCEPT !.status = "pending", !.overwrite = TRUE]) \in Lists
      BY <3>1, PutType DEF ListTypes
    <3> QED  BY <1>1, <2>2, <3>2 DEF Click, RestTypes
  <2>3. CASE choice = "keep_both"
    <3>1. seen[i].dest \in Paths
      BY <1>1 DEF First, Asked, ListTypes, Lists, Item, Row, NoItem
    <3>2. naming' = [naming EXCEPT ![i] =
                       [naming[i] EXCEPT ![seen[i].dest] = naming[i][seen[i].dest] + 1]]
      BY <1>1, <2>3
    <3>3. naming' \in [Items -> [Paths -> Nat]]
      BY <3>1, <3>2 DEF RestTypes
    <3> QED  BY <1>1, <2>3, <3>3 DEF ListTypes
  <2> QED  BY <2>1, <2>2, <2>3 DEF Resolutions
<1>3. ListTypes'
  BY <1>2 DEF Resolve, ListTypes
<1>4. RestTypes'
  BY <1>1, <1>2, ClickCount DEF Resolve, RestTypes, marks, server, history, marked, Record, Delete
<1>5. RunTypes'
  BY DEF Resolve, worker, RunTypes
<1> QED  BY <1>3, <1>4, <1>5

LEMMA NamedType ==
  ASSUME TypeOK, NEW i \in Items, NEW p \in Paths, Named(i, p)
  PROVE  TypeOK'
<1> USE TypeParts, NextTypeParts
<1>1. Present(items, i) => [items[i] EXCEPT !.dest = Renamed[p], !.status = "pending"] \in Row
  <2> SUFFICES ASSUME Present(items, i)
               PROVE  [items[i] EXCEPT !.dest = Renamed[p], !.status = "pending"] \in Row
    OBVIOUS
  <2>1. items[i] \in Row /\ Renamed[p] \in Paths
    BY RowOfPresent, QueueAssumption DEF ListTypes
  <2> QED  BY <2>1 DEF Row, Live
<1>2. ListTypes'
  BY <1>1, PutType DEF Named, Queue, ListTypes
<1>3. naming' \in [Items -> [Paths -> Nat]]
  <2>1. naming' = [naming EXCEPT ![i] = [naming[i] EXCEPT ![p] = naming[i][p] - 1]]
    BY DEF Named
  <2>2. naming[i][p] \in Nat /\ naming[i][p] > 0
    BY DEF Named, RestTypes
  <2> QED  BY <2>1, <2>2 DEF RestTypes
<1>4. RestTypes'
  BY <1>3 DEF Named, RestTypes, marks, server, bounds, Record, Delete
<1>5. RunTypes'
  BY DEF Named, worker, RunTypes
<1> QED  BY <1>2, <1>4, <1>5

LEMMA DeletedType ==
  ASSUME TypeOK, NEW d \in deletes, NEW ok \in BOOLEAN, Deleted(d, ok)
  PROVE  TypeOK'
<1> USE TypeParts, NextTypeParts
<1>1. ListTypes' /\ RunTypes'
  BY DEF Deleted, list, worker, ListTypes, RunTypes
<1>2. RestTypes'
  BY DEF Deleted, RestTypes, marks, answers, history, marked, bounds
<1> QED  BY <1>1, <1>2

LEMMA TypeStep == TypeOK /\ [Next]_vars => TypeOK'
<1>1. ASSUME TypeOK, Task
      PROVE  TypeOK'
  BY <1>1, RenderType, WorkType, ProgressType, CancelType, ClickType, AddType, NamedType,
     ResolveType, ClearFinishedType, DeletedType DEF Task
<1>2. ASSUME TypeOK, UNCHANGED vars
      PROVE  TypeOK'
  BY <1>2 DEF TypeOK, vars, list, marks, answers, server, worker, history, marked, bounds
<1> QED  BY <1>1, <1>2, NextIsTask

\* Every variable keeps its type: rows have a destination, a running call of
\* run() has an item (the state useUploadQueue keeps, upload-queue.ts:478-493).
THEOREM QueueTypeCorrect == Spec => []TypeOK
BY InitType, TypeStep, PTL DEF Spec

-----------------------------------------------------------------------------
(* One upload at a time. *)

Works(w) == run[w].pc # "idle"

\* What a step does to the calls of run(): nothing but move one on, end one, or
\* start one when none was busy.
GoesOn == /\ busy' = busy
          /\ \A w \in Workers : /\ Works(w)' <=> Works(w)
                                /\ run'[w].item = run[w].item
                                /\ run'[w].pc \in Early => run[w].pc \in Early
Ends(w) == Works(w) /\ Finish(w)
Starts(i) == /\ ~busy /\ busy' = TRUE
             /\ \E w \in Workers : \E c \in Call :
                  c.item = i /\ c.pc \in Early /\ run' = [run EXCEPT ![w] = c]

LEMMA MovedOn ==
  ASSUME TypeOK, NEW w \in Workers, Works(w), NEW c, c.pc # "idle", c.item = run[w].item,
         c.pc \in Early => run[w].pc \in Early,
         run' = [run EXCEPT ![w] = c], busy' = busy
  PROVE  GoesOn
BY TypeParts DEF GoesOn, Works, RunTypes, Runs

LEMMA GotoGoesOn ==
  ASSUME TypeOK, NEW w \in Workers, Works(w), NEW pc \in Steps, Goto(w, pc),
         pc \in Early => run[w].pc \in Early
  PROVE  GoesOn
<1> DEFINE c == [run[w] EXCEPT !.pc = pc]
<1>1. run[w] \in Call /\ pc # "idle"
  BY TypeParts, CallOfBusy DEF RunTypes, Works, Steps, Early, Uploading
<1>2. c.pc # "idle" /\ c.item = run[w].item /\ (c.pc \in Early => run[w].pc \in Early)
  BY <1>1 DEF Call
<1>3. run' = [run EXCEPT ![w] = c] /\ busy' = busy
  BY TypeParts DEF Goto, RunTypes, Runs
<1> HIDE DEF c
<1> QED  BY <1>2, <1>3, MovedOn

LEMMA AbortGoesOn ==
  ASSUME TypeOK, NEW i \in Items, run' = Abort(i), busy' = busy
  PROVE  GoesOn
<1> SUFFICES ASSUME NEW w \in Workers
             PROVE  /\ Works(w)' <=> Works(w)
                    /\ run'[w].item = run[w].item
                    /\ run'[w].pc \in Early => run[w].pc \in Early
  BY DEF GoesOn
<1>1. run[w] \in Run
  BY TypeParts DEF RunTypes, Runs
<1>2. \/ run'[w] = run[w]
      \/ run'[w] = [run[w] EXCEPT !.signal = "fired"]
  BY DEF Abort
<1> QED  BY <1>1, <1>2 DEF Works, Run, Call, NoRun

LEMMA WorkMoves ==
  ASSUME TypeOK, NEW w \in Workers, Work(w)
  PROVE  GoesOn \/ Ends(w)
<1>t. run \in Runs
  BY TypeParts DEF RunTypes
<1>w. Works(w)
  BY DEF Work, StatMissing, StatAsks, StatSkips, StatReplaces, StatRenames, Rename, Begin,
         Prepared, Hash, UploadStarts, Created, Transferred, Verified, Throw, ThrowInCreate,
         Caught, Settled, At, Works, Uploading
<1>c. run[w] \in Call
  BY <1>t, <1>w, CallOfBusy DEF Works
<1>1. CASE \/ StatMissing(w) \/ StatReplaces(w) \/ StatRenames(w) \/ Prepared(w)
           \/ Hash(w) \/ Transferred(w)
  <2>1. PICK pc \in {"begin", "rename", "upload", "hashing", "verify"} :
          Goto(w, pc) /\ (pc \in Early => run[w].pc \in Early)
    BY <1>1 DEF StatMissing, StatReplaces, StatRenames, Prepared, Hash, Transferred, At, Early
  <2> QED  BY <2>1, <1>w, GotoGoesOn DEF Steps, Early, Uploading
<1>2. CASE StatAsks(w) \/ StatSkips(w) \/ Verified(w) \/ Settled(w)
  BY <1>2, <1>w DEF StatAsks, StatSkips, Verified, Settled, Ends
<1>3. CASE Rename(w)
  <2> DEFINE c == [[run[w] EXCEPT !.pc = "begin"] EXCEPT !.dest = Renamed[run[w].dest]]
  <2>1. c.pc # "idle" /\ c.item = run[w].item /\ (c.pc \in Early => run[w].pc \in Early)
    BY <1>c, <1>3 DEF Call, Rename, At, Early
  <2>2. run' = [run EXCEPT ![w] = c] /\ busy' = busy
    BY <1>3, <1>t DEF Rename, Runs
  <2> HIDE DEF c
  <2> QED  BY <2>1, <2>2, <1>w, MovedOn
<1>4. CASE Begin(w)
  <2>1. CASE Known(w).status \in {"pending", "active"}
    <3>1. PICK slow \in Materialises :
            run' = [run EXCEPT ![w] =
                 [@ EXCEPT !.pc = IF slow THEN "prepare" ELSE "upload",
                           !.was = Known(w), !.session = Known(w).resume,
                           !.signal = IF run[w].item \in cancelled
                                      THEN "fired" ELSE "clear"]]
      BY <1>4, <2>1 DEF Begin
    <3> DEFINE c == [run[w] EXCEPT !.pc = IF slow THEN "prepare" ELSE "upload",
                           !.was = Known(w), !.session = Known(w).resume,
                           !.signal = IF run[w].item \in cancelled
                                      THEN "fired" ELSE "clear"]
    <3>2. c.pc # "idle" /\ c.item = run[w].item /\ (c.pc \in Early => run[w].pc \in Early)
      BY <1>c, <1>4 DEF Call, Begin, Early
    <3>3. run' = [run EXCEPT ![w] = c] /\ busy' = busy
      BY <3>1, <1>4, <2>1, <1>t DEF Begin, Runs
    <3> HIDE DEF c
    <3> QED  BY <3>2, <3>3, <1>w, MovedOn
  <2>2. CASE Known(w).status \notin {"pending", "active"}
    BY <1>4, <2>2, <1>w DEF Begin, Ends
  <2> QED  BY <2>1, <2>2
<1>5. CASE UploadStarts(w)
  <2> DEFINE pc == IF run[w].pc = "upload" THEN "transfer" ELSE "create"
  <2>1. CASE run[w].item \in cancelled
    <3>1. run' = [run EXCEPT ![w].pc = pc, ![w].signal = "fired"] /\ busy' = busy
      BY <1>5, <2>1 DEF UploadStarts
    <3>2. pc \in {"transfer", "create"}
      OBVIOUS
    <3> HIDE DEF pc
    <3> DEFINE c == [[run[w] EXCEPT !.pc = pc] EXCEPT !.signal = "fired"]
    <3>3. c.pc # "idle" /\ c.item = run[w].item /\ (c.pc \in Early => run[w].pc \in Early)
      BY <1>c, <3>2 DEF Call, Early
    <3>4. run' = [run EXCEPT ![w] = c]
      BY <3>1, <1>t DEF Runs
    <3> HIDE DEF c
    <3> QED  BY <3>1, <3>3, <3>4, <1>w, MovedOn
  <2>2. CASE run[w].item \notin cancelled
    <3>1. Goto(w, pc) /\ pc \in Steps /\ pc \notin Early
      BY <1>5, <2>2 DEF UploadStarts, Steps, Uploading, Early
    <3> HIDE DEF pc
    <3> QED  BY <3>1, <1>w, GotoGoesOn
  <2> QED  BY <2>1, <2>2
<1>6. CASE Created(w)
  <2>1. PICK t \in Made : run' = [run EXCEPT ![w].pc = "transfer", ![w].session = t]
    BY <1>6 DEF Created
  <2> DEFINE c == [[run[w] EXCEPT !.pc = "transfer"] EXCEPT !.session = t]
  <2>2. c.pc # "idle" /\ c.item = run[w].item /\ (c.pc \in Early => run[w].pc \in Early)
    BY <1>c DEF Call, Early
  <2>3. run' = [run EXCEPT ![w] = c] /\ busy' = busy
    BY <1>6, <2>1, <1>t DEF Created, Runs
  <2> HIDE DEF c
  <2> QED  BY <2>2, <2>3, <1>w, MovedOn
<1>7. CASE Throw(w) \/ ThrowInCreate(w)
  <2>1. Caught(w)
    BY <1>7 DEF Throw, ThrowInCreate
  <2>2. CASE run[w].item \in paused
    <3> DEFINE c == [[run[w] EXCEPT !.pc = "settle"] EXCEPT !.was = Known(w)]
    <3>1. c.pc # "idle" /\ c.item = run[w].item /\ (c.pc \in Early => run[w].pc \in Early)
      BY <1>c DEF Call, Early
    <3>2. run' = [run EXCEPT ![w] = c] /\ busy' = busy
      BY <2>1, <2>2, <1>t DEF Caught, Runs
    <3> HIDE DEF c
    <3> QED  BY <3>1, <3>2, <1>w, MovedOn
  <2>3. CASE run[w].item \notin paused
    BY <2>1, <2>3, <1>w DEF Caught, Ends
  <2> QED  BY <2>2, <2>3
<1> QED  BY <1>1, <1>2, <1>3, <1>4, <1>5, <1>6, <1>7 DEF Work

\* workerRef tells of every call that works: the strengthening that makes the
\* property inductive.
BusyTells == \A w \in Workers : Works(w) => busy

LEMMA RenderMoves ==
  ASSUME TypeOK, BusyTells, Render
  PROVE  GoesOn \/ \E i \in Items : MayStart /\ First(i, Waiting) /\ Starts(i)
<1>1. CASE MayStart
  <2>1. PICK i \in Items : First(i, Waiting) /\ Start(i)
    BY <1>1 DEF Render
  <2>2. CASE i \in cancelled
    BY <2>1, <2>2 DEF Start, worker, GoesOn, Works
  <2>3. CASE i \notin cancelled
    <3> DEFINE c == [pc |-> IF items[i].overwrite THEN "begin" ELSE "stat", item |-> i,
                     dest |-> items[i].dest, session |-> None, was |-> items[i],
                     signal |-> "clear"]
               w == CHOOSE v \in Workers : run[v].pc = "idle"
    <3>1. items[i] \in Row
      BY <2>1, TypeParts DEF First, Waiting, ListTypes, Lists, Item, NoItem
    <3>2. c \in Call /\ c.item = i /\ c.pc \in Early
      BY <3>1 DEF Call, Steps, Early, Row
    <3>3. run' = [run EXCEPT ![w] = c] /\ busy' = TRUE /\ ~busy
      BY <2>1, <2>3, <1>1 DEF Start, MayStart
    <3>4. w \in Workers
      BY <3>3, QueueAssumption DEF BusyTells, Works
    <3> HIDE DEF c, w
    <3> QED  BY <3>2, <3>3, <3>4, <1>1, <2>1 DEF Starts
  <2> QED  BY <2>2, <2>3
<1>2. CASE ~MayStart
  BY <1>2 DEF Render, worker, GoesOn, Works
<1> QED  BY <1>1, <1>2

LEMMA TaskMoves ==
  ASSUME TypeOK, BusyTells, Task
  PROVE  \/ GoesOn
         \/ \E w \in Workers : Ends(w)
         \/ \E i \in Items : MayStart /\ First(i, Waiting) /\ Starts(i)
<1>1. CASE Render
  BY <1>1, RenderMoves
<1>2. CASE \E w \in Workers : Work(w)
  BY <1>2, WorkMoves
<1>3. ASSUME NEW i \in Items, CancelRunning(i) \/ Pause(i)
      PROVE  GoesOn
  BY <1>3, AbortGoesOn DEF CancelRunning, Pause
<1>4. CASE UNCHANGED worker
  BY <1>4 DEF worker, GoesOn, Works
<1>5. ASSUME NEW w \in Workers, Progress(w)
      PROVE  UNCHANGED worker
  BY <1>5 DEF Progress
<1>6. ASSUME NEW i \in Items,
             FlushProgress(i) \/ CancelWaiting(i) \/ CancelPaused(i) \/ Resume(i) \/ ClearDone(i)
      PROVE  UNCHANGED worker
  BY <1>6 DEF FlushProgress, CancelWaiting, CancelPaused, Resume, ClearDone
<1>7. ASSUME \/ \E p \in Dropped : AddFile(p)
             \/ \E e \in records : ResumeRecord(e)
             \/ ClearFinished
             \/ \E s \in {Foreign} \cup {t \in Made : target[t] # None} : RemoteProgress(s)
      PROVE  UNCHANGED worker
  BY <1>7 DEF AddFile, ResumeRecord, Enqueue, ClearFinished, RemoteProgress
<1>8. ASSUME \/ \E i \in Items, p \in Paths : Named(i, p)
             \/ \E choice \in Resolutions, all \in BOOLEAN : Resolve(choice, all)
             \/ \E d \in deletes, ok \in BOOLEAN : Deleted(d, ok)
      PROVE  UNCHANGED worker
  BY <1>8 DEF Named, Resolve, Deleted
<1> QED  BY <1>1, <1>2, <1>3, <1>4, <1>5, <1>6, <1>7, <1>8 DEF Task, Cancel

Mutex == OneUploadAtATime /\ BusyTells

LEMMA MutexStep == TypeOK /\ Mutex /\ [Next]_vars => Mutex'
<1> SUFFICES ASSUME TypeOK, Mutex, [Next]_vars
             PROVE  Mutex'
  OBVIOUS
<1> USE DEF Mutex, OneUploadAtATime, BusyTells
<1>1. CASE UNCHANGED vars
  BY <1>1 DEF vars, worker, Works
<1>2. CASE GoesOn
  BY <1>2 DEF GoesOn, Works
<1>3. ASSUME NEW w \in Workers, Ends(w)
      PROVE  Mutex'
  <2>1. \A v \in Workers \ {w} : ~Works(v)
    BY <1>3 DEF Ends, Works
  <2>2. \A v \in Workers : run'[v].pc = "idle"
    BY <1>3, <2>1, TypeParts DEF Ends, Finish, NoRun, Works, RunTypes, Runs
  <2> QED  BY <2>2 DEF Works
<1>4. ASSUME NEW i \in Items, Starts(i)
      PROVE  Mutex'
  <2>1. \A v \in Workers : ~Works(v)
    BY <1>4 DEF Starts
  <2>2. PICK w \in Workers, c \in Call : run' = [run EXCEPT ![w] = c]
    BY <1>4 DEF Starts
  <2>3. \A v \in Workers \ {w} : run'[v].pc = "idle"
    BY <2>1, <2>2, TypeParts DEF Works, RunTypes, Runs
  <2> QED  BY <2>3, <1>4 DEF Starts, Works
<1> QED  BY <1>1, <1>2, <1>3, <1>4, TaskMoves, NextIsTask

\* Two calls of run() never work at the same time: the effect starts one only
\* when workerRef is clear, and only the end of a call clears it
\* (upload-queue.ts:889-905, 1282-1285).
THEOREM OneUploadRuns == Spec => []OneUploadAtATime
<1>1. Init => Mutex
  BY DEF Init, Mutex, OneUploadAtATime, BusyTells, Works, NoRun
<1>2. Mutex => OneUploadAtATime
  BY DEF Mutex
<1> QED  BY <1>1, <1>2, MutexStep, QueueTypeCorrect, PTL DEF Spec

-----------------------------------------------------------------------------
(* A row that shows work is worked on.                                      *)
(*                                                                         *)
(* Not inductive alone: a patch writes the list as it was rendered, a timer *)
(* writes a deferred snapshot.  So, of the rows no late message touched:    *)
(* while a call works the rendered list shows no other row busy, a deferred *)
(* snapshot belongs to the item of a call, and a call that has not reached  *)
(* the upload finds its row quiet everywhere.                               *)

Calm(r) == r.status \notin BusyStatus
Untouched == Items \ misled

SeenIsOld ==
  \A w \in Workers : Works(w) =>
    \A j \in Untouched : j # run[w].item => Calm(seen[j])
DeferredIsWorked ==
  \A i \in Untouched : flush[i] # NoItem => \E w \in Workers : run[w].item = i
EarlyIsQuiet ==
  \A w \in Workers : \A i \in Untouched :
    run[w].pc \in Early /\ run[w].item = i =>
      Calm(items[i]) /\ Calm(seen[i]) /\ flush[i] = NoItem

Shown == SeenIsOld /\ ShownBusyIsWorked /\ DeferredIsWorked /\ EarlyIsQuiet

LEMMA ItemWorks ==
  ASSUME TypeOK, NEW w \in Workers, NEW i \in Items, run[w].item = i
  PROVE  Works(w)
BY QueueAssumption, TypeParts DEF RunTypes, Runs, Run, Call, NoRun, Works, Steps, Early, Uploading

LEMMA EarlyWorks ==
  ASSUME NEW w \in Workers, run[w].pc \in Early
  PROVE  Works(w)
BY DEF Early, Works

\* Steps that make no row busy and defer no snapshot.
LEMMA QuietStep ==
  ASSUME TypeOK, Shown, GoesOn, seen' = seen, misled \subseteq misled',
         \A j \in Items : /\ items'[j].status = items[j].status \/ Calm(items'[j])
                         /\ flush'[j] \in {flush[j], NoItem}
  PROVE  Shown'
<1> USE DEF Shown, Untouched
<1>1. SeenIsOld'
  BY DEF Works, SeenIsOld, GoesOn
<1>2. ShownBusyIsWorked'
  BY DEF Works, ShownBusyIsWorked, GoesOn, Calm
<1>3. DeferredIsWorked'
  BY DEF Works, DeferredIsWorked, GoesOn
<1>4. EarlyIsQuiet'
  BY DEF Works, EarlyIsQuiet, GoesOn, Calm
<1> QED  BY <1>1, <1>2, <1>3, <1>4

\* Steps that write the row of an upload under way, or one already misled, and
\* the rest of the list perhaps as it was rendered.
LEMMA OwnStep ==
  ASSUME TypeOK, Mutex, Shown, GoesOn, misled \subseteq misled', NEW i \in Items,
         i \in misled' \/ \E w \in Workers : run[w].item = i /\ run'[w].pc \notin Early,
         \A j \in Items \ {i} :
           /\ seen'[j] = seen[j] /\ flush'[j] = flush[j]
           /\ \/ items'[j] = items[j]
              \/ items'[j] = seen[j] /\ \E w \in Workers : run[w].item = i
  PROVE  Shown'
<1> USE DEF Shown, Untouched
<1>u. \A v, w \in Workers : Works(v) /\ Works(w) => v = w
  BY DEF Mutex, OneUploadAtATime, Works
<1>1. SeenIsOld'
  <2> SUFFICES ASSUME NEW w \in Workers, Works(w)', NEW j \in Items \ misled',
                      j # run'[w].item
               PROVE  Calm(seen'[j])
    BY DEF SeenIsOld
  <2>1. Works(w) /\ run'[w].item = run[w].item
    BY DEF GoesOn, Works
  <2>2. j # i
    BY <2>1, <1>u, ItemWorks
  <2> QED  BY <2>1, <2>2 DEF SeenIsOld
<1>2. ShownBusyIsWorked'
  <2> SUFFICES ASSUME NEW j \in Items \ misled', ~Calm(items'[j])
               PROVE  \E w \in Workers : run[w].item = j
    BY DEF Works, ShownBusyIsWorked, Calm, GoesOn
  <2>1. CASE j = i
    BY <2>1
  <2>2. CASE j # i /\ items'[j] = items[j]
    BY <2>2 DEF ShownBusyIsWorked, Calm
  <2>3. CASE j # i /\ items'[j] = seen[j] /\ \E w \in Workers : run[w].item = i
    BY <2>3, ItemWorks DEF SeenIsOld
  <2> QED  BY <2>1, <2>2, <2>3
<1>3. DeferredIsWorked'
  BY DEF Works, DeferredIsWorked, GoesOn
<1>4. EarlyIsQuiet'
  <2> SUFFICES ASSUME NEW w \in Workers, run'[w].pc \in Early, run'[w].item \in Items \ misled'
               PROVE  /\ Calm(items'[run'[w].item]) /\ Calm(seen'[run'[w].item])
                      /\ flush'[run'[w].item] = NoItem
    BY DEF EarlyIsQuiet, Calm
  <2>1. run[w].pc \in Early /\ run'[w].item = run[w].item /\ Works(w)
    BY EarlyWorks DEF GoesOn, Works
  <2>2. ~\E v \in Workers : run[v].item = i
    BY <2>1, <1>u, ItemWorks
  <2> QED  BY <2>1, <2>2 DEF EarlyIsQuiet
<1> QED  BY <1>1, <1>2, <1>3, <1>4

LEMMA Ended ==
  ASSUME TypeOK, Mutex, NEW w \in Workers, Ends(w)
  PROVE  /\ \A v \in Workers : run'[v].pc = "idle"
         /\ \A v \in Workers \ {w} : run[v].pc = "idle"
<1>1. \A v \in Workers \ {w} : ~Works(v)
  BY DEF Ends, Works, Mutex, OneUploadAtATime
<1> QED  BY <1>1, TypeParts DEF Ends, Finish, NoRun, Works, RunTypes, Runs

\* A call that ends leaves its row quiet.
LEMMA EndStep ==
  ASSUME TypeOK, Mutex, Shown, NEW w \in Workers, Ends(w), misled' = misled,
         run[w].item \in misled \/ ( /\ Calm(items'[run[w].item])
                                   /\ flush'[run[w].item] = NoItem ),
         \A j \in Items \ {run[w].item} : items'[j] = items[j] /\ flush'[j] = flush[j]
  PROVE  Shown'
<1> USE DEF Shown, Untouched
<1>0. /\ \A v \in Workers : run'[v].pc = "idle"
      /\ \A v \in Workers, j \in Items : run[v].item = j => v = w
  BY Ended, ItemWorks DEF Works
<1>1. SeenIsOld' /\ EarlyIsQuiet'
  BY <1>0 DEF SeenIsOld, EarlyIsQuiet, Works, Early
<1>2. ShownBusyIsWorked'
  BY <1>0 DEF ShownBusyIsWorked, Calm
<1>3. DeferredIsWorked'
  BY <1>0 DEF DeferredIsWorked
<1> QED  BY <1>1, <1>2, <1>3

LEMMA RenderShown ==
  ASSUME TypeOK, Mutex, Shown, Render
  PROVE  Shown'
<1> USE DEF Shown, Untouched
<1>r. seen' = items /\ items' = items /\ flush' = flush /\ misled' = misled
  BY DEF Render, marked
<1>1. CASE GoesOn
  <2>1. SeenIsOld'
    <3> SUFFICES ASSUME NEW w \in Workers, Works(w)', NEW j \in Items \ misled,
                        j # run'[w].item, ~Calm(items[j])
                 PROVE  FALSE
      BY <1>r DEF SeenIsOld, Calm
    <3>1. Works(w) /\ j # run[w].item
      BY <1>1 DEF GoesOn
    <3>2. PICK v \in Workers : run[v].item = j
      BY DEF ShownBusyIsWorked, Calm
    <3>3. v = w
      BY <3>1, <3>2, ItemWorks DEF Mutex, OneUploadAtATime, Works
    <3> QED  BY <3>1, <3>2, <3>3
  <2>2. ShownBusyIsWorked' /\ DeferredIsWorked'
    BY <1>1, <1>r DEF ShownBusyIsWorked, DeferredIsWorked, GoesOn
  <2>3. EarlyIsQuiet'
    BY <1>1, <1>r DEF EarlyIsQuiet, GoesOn, Calm
  <2> QED  BY <2>1, <2>2, <2>3
<1>2. ASSUME NEW i \in Items, MayStart, Starts(i)
      PROVE  Shown'
  <2>1. \A j \in Items : Calm(items'[j]) /\ Calm(seen'[j])
    BY <1>2, <1>r DEF MayStart, Calm
  <2>2. \A j \in Items \ misled : flush[j] = NoItem
    BY <1>2, ItemWorks DEF DeferredIsWorked, MayStart, Mutex, BusyTells
  <2>3. SeenIsOld' /\ ShownBusyIsWorked'
    BY <2>1 DEF SeenIsOld, ShownBusyIsWorked, Calm
  <2>4. DeferredIsWorked' /\ EarlyIsQuiet'
    BY <2>1, <2>2, <1>r DEF DeferredIsWorked, EarlyIsQuiet, Calm
  <2> QED  BY <2>3, <2>4
<1> QED  BY <1>1, <1>2, RenderMoves DEF Mutex

LEMMA PutAt ==
  ASSUME NEW l \in Lists, NEW i \in Items, NEW r
  PROVE  /\ \A j \in Items \ {i} : Put(l, i, r)[j] = l[j]
         /\ \/ Put(l, i, r)[i] = r /\ Present(l, i)
            \/ Put(l, i, r)[i] = l[i] /\ l[i] = NoItem
BY DEF Put, Present, Lists, Item, Row, Live, Over

\* What is written to a row that is gone stays unwritten, and NoItem is calm.
LEMMA NoItemCalm == Calm(NoItem)
BY DEF Calm, NoItem, BusyStatus

LEMMA PutStatus ==
  ASSUME NEW l \in Lists, NEW i \in Items, NEW r,
         Present(l, i) => r.status \in {"pending", "awaiting_conflict", "cancelled", "done",
                                       "failed", "paused"}
  PROVE  Calm(Put(l, i, r)[i])
BY PutAt, NoItemCalm DEF Calm, BusyStatus

LEMMA SetStatus ==
  ASSUME NEW l \in Lists, NEW i \in Items,
         NEW s \in {"pending", "awaiting_conflict", "cancelled", "done", "failed", "paused"}
  PROVE  Calm(Status(l, i, s)[i])
BY PutStatus, RowOfPresent DEF Status, Row

LEMMA WorkGoesOn ==
  ASSUME TypeOK, Mutex, NEW w \in Workers, Work(w), Works(w), busy' = busy
  PROVE  GoesOn
BY WorkMoves DEF Mutex, BusyTells, Ends, Finish

LEMMA QuietWork ==
  ASSUME TypeOK, Mutex, Shown, NEW w \in Workers, Works(w),
         \/ StatMissing(w) \/ StatReplaces(w) \/ StatRenames(w) \/ Prepared(w) \/ Rename(w)
  PROVE  Shown'
<1> DEFINE i == run[w].item
<1>t. items \in Lists /\ i \in Items
  BY TypeParts, CallOfBusy DEF ListTypes, RunTypes, Works, Call
<1>1. GoesOn
  BY WorkGoesOn DEF Work, StatMissing, StatReplaces, StatRenames, Prepared, Rename, Goto
<1>2. seen' = seen /\ flush' = flush /\ misled' = misled
  BY DEF StatMissing, StatReplaces, StatRenames, Prepared, Rename, list, history, marked
<1>3. \A j \in Items : items'[j].status = items[j].status
  <2>1. CASE StatMissing(w) \/ StatRenames(w) \/ Prepared(w)
    BY <2>1 DEF StatMissing, StatRenames, Prepared, list
  <2>2. ASSUME NEW r, r.status = items[i].status, items' = Put(items, i, r)
        PROVE  \A j \in Items : items'[j].status = items[j].status
    BY <2>2, <1>t, PutAt
  <2>3. CASE StatReplaces(w)
    <3>1. items' = Put(items, i, [items[i] EXCEPT !.overwrite = TRUE])
      BY <2>3 DEF StatReplaces, Queue
    <3>2. [items[i] EXCEPT !.overwrite = TRUE].status = items[i].status
      BY <1>t DEF Lists, Item, Row, NoItem
    <3> QED  BY <3>1, <3>2, <2>2
  <2>4. CASE Rename(w)
    <3>1. PICK p : items' = Put(items, i, [items[i] EXCEPT !.dest = p])
      BY <2>4 DEF Rename, Queue, MoveTo
    <3>2. [items[i] EXCEPT !.dest = p].status = items[i].status
      BY <1>t DEF Lists, Item, Row, NoItem
    <3> QED  BY <3>1, <3>2, <2>2
  <2> QED  BY <2>1, <2>3, <2>4
<1> QED  BY <1>1, <1>2, <1>3, QuietStep

LEMMA EndingWork ==
  ASSUME TypeOK, Mutex, Shown, NEW w \in Workers, Works(w), Finish(w),
         \/ StatAsks(w)
         \/ StatSkips(w)
         \/ Begin(w) /\ UNCHANGED items
         \/ \E r : /\ Commit(run[w].item, r) /\ UNCHANGED history
                  /\ r.status \in {"done", "failed", "cancelled", "paused"}
  PROVE  Shown'
<1> DEFINE i == run[w].item
<1>t. items \in Lists /\ flush \in Lists /\ i \in Items
  BY TypeParts, CallOfBusy DEF ListTypes, RunTypes, Works, Call
<1>e. Ends(w)
  BY DEF Ends
<1>q. run[w].pc \in Early /\ i \notin misled => flush[i] = NoItem /\ Calm(items[i])
  BY <1>t DEF Shown, EarlyIsQuiet, Untouched
<1>1. CASE StatAsks(w) \/ StatSkips(w)
  <2>1. PICK s \in {"awaiting_conflict", "cancelled"} : items' = Status(items, i, s)
    BY <1>1 DEF StatAsks, StatSkips, Queue
  <2>2. flush' = flush /\ misled' = misled /\ run[w].pc \in Early
    BY <1>1 DEF StatAsks, StatSkips, history, marked, At, Early
  <2>3. Calm(items'[i])
    BY <2>1, <1>t, SetStatus
  <2>4. \A j \in Items \ {i} : items'[j] = items[j]
    BY <2>1, <1>t, PutAt DEF Status
  <2> QED  BY <2>2, <2>3, <2>4, <1>q, <1>e, EndStep
<1>2. CASE Begin(w) /\ UNCHANGED items
  <2>1. flush' = flush /\ misled' = misled /\ run[w].pc \in Early
    BY <1>2 DEF Begin, history, marked, Early
  <2> QED  BY <2>1, <1>2, <1>q, <1>e, EndStep
<1>3. ASSUME NEW r, Commit(i, r), UNCHANGED history,
             r.status \in {"done", "failed", "cancelled", "paused"}
      PROVE  Shown'
  <2>1. /\ items' = Put(items, i, r) /\ flush' = [flush EXCEPT ![i] = NoItem]
        /\ misled' = misled
    BY <1>3 DEF Commit, Queue, history, marked
  <2>2. Calm(items'[i]) /\ \A j \in Items \ {i} : items'[j] = items[j]
    BY <2>1, <1>3, <1>t, PutStatus, PutAt
  <2>3. flush'[i] = NoItem /\ \A j \in Items \ {i} : flush'[j] = flush[j]
    BY <2>1, <1>t DEF Lists
  <2> QED  BY <2>1, <2>2, <2>3, <1>e, EndStep
<1> QED  BY <1>1, <1>2, <1>3

LEMMA BeginShown ==
  ASSUME TypeOK, Mutex, Shown, NEW w \in Workers, Begin(w)
  PROVE  Shown'
<1> DEFINE i == run[w].item
<1>w. Works(w)
  BY DEF Begin, Works
<1>t. items \in Lists /\ i \in Items
  BY <1>w, TypeParts, CallOfBusy DEF ListTypes, RunTypes, Works, Call
<1>1. CASE Known(w).status \in {"pending", "active"}
  <2>1. GoesOn
    BY <1>1, <1>w, WorkGoesOn DEF Work, Begin
  <2>2. seen' = seen /\ flush' = flush /\ misled' = misled
    BY DEF Begin, history, marked
  <2>3. PICK q : items' = Put(items, i, [items[i] EXCEPT !.dest = q])
    BY <1>1 DEF Begin, Queue, MoveTo
  <2> DEFINE r == [items[i] EXCEPT !.dest = q]
  <2>4. items' = Put(items, i, r) /\ r.status = items[i].status
    BY <2>3, <1>t DEF Lists, Item, Row, NoItem
  <2> HIDE DEF r
  <2>5. \A j \in Items : items'[j].status = items[j].status
    BY <2>4, <1>t, PutAt
  <2> QED  BY <2>1, <2>2, <2>5, QuietStep
<1>2. CASE Known(w).status \notin {"pending", "active"}
  BY <1>2, <1>w, EndingWork DEF Begin
<1> QED  BY <1>1, <1>2

LEMMA CaughtShown ==
  ASSUME TypeOK, Mutex, Shown, NEW w \in Workers, Throw(w) \/ ThrowInCreate(w)
  PROVE  Shown'
<1> DEFINE i == run[w].item
<1>c. Caught(w)
  BY DEF Throw, ThrowInCreate
<1>w. Works(w)
  BY <1>c DEF Caught, Uploading, Works
<1>t. flush \in Lists /\ i \in Items
  BY <1>w, TypeParts, CallOfBusy DEF ListTypes, RunTypes, Works, Call
<1>1. CASE i \in paused
  <2>1. GoesOn
    BY <1>c, <1>1, <1>w, WorkGoesOn DEF Work, Caught
  <2>2. /\ items' = items /\ seen' = seen /\ misled' = misled
        /\ flush' = [flush EXCEPT ![i] = NoItem]
    BY <1>c, <1>1 DEF Caught, history, marked
  <2>3. \A j \in Items : flush'[j] \in {flush[j], NoItem}
    BY <2>2, <1>t DEF Lists
  <2> QED  BY <2>1, <2>2, <2>3, QuietStep
<1>2. CASE i \notin paused
  <2> DEFINE s == IF i \in cancelled \/ run[w].signal = "fired" THEN "cancelled" ELSE "failed"
             r == [Known(w) EXCEPT !.status = s]
  <2>1. Finish(w) /\ Commit(i, r) /\ UNCHANGED history
    BY <1>c, <1>2 DEF Caught
  <2>2. Known(w) \in Row
    BY <1>w, TypeParts, KnownType DEF ListTypes, RunTypes, Works
  <2>3. s \in {"cancelled", "failed"}
    OBVIOUS
  <2>4. r.status = s
    <3> HIDE DEF s
    <3> QED  BY <2>2 DEF Row
  <2> HIDE DEF r, s
  <2> QED  BY <2>1, <2>3, <2>4, <1>w, EndingWork
<1> QED  BY <1>1, <1>2

\* A patch of the row of the call, the rest of the list as it was rendered.
LEMMA PatchShown ==
  ASSUME TypeOK, Mutex, Shown, NEW w \in Workers, Works(w), GoesOn, UNCHANGED history,
         run'[w].pc \notin Early, NEW r, Patch(run[w].item, r),
         \A j \in Items \ {run[w].item} : flush'[j] = flush[j]
  PROVE  Shown'
<1> DEFINE i == run[w].item
<1>t. seen \in Lists /\ i \in Items
  BY TypeParts, CallOfBusy DEF ListTypes, RunTypes, Works, Call
<1>1. items' = Put(seen, i, r) /\ seen' = Put(seen, i, r) /\ misled' = misled
  BY DEF Patch, Queue, history, marked
<1>2. \A j \in Items \ {i} : items'[j] = seen[j] /\ seen'[j] = seen[j]
  BY <1>1, <1>t, PutAt
<1> QED  BY <1>1, <1>2, <1>t, OwnStep

LEMMA OwnWork ==
  ASSUME TypeOK, Mutex, Shown, NEW w \in Workers, Works(w),
         Hash(w) \/ UploadStarts(w) \/ Created(w) \/ Transferred(w)
  PROVE  Shown'
<1> DEFINE i == run[w].item
<1>t. run \in Runs /\ flush \in Lists /\ i \in Items
  BY TypeParts, CallOfBusy DEF ListTypes, RunTypes, Works, Call
<1>g. GoesOn
  <2>1. busy' = busy
    BY DEF Hash, UploadStarts, Created, Transferred, Goto
  <2> QED  BY <2>1, WorkGoesOn DEF Work
<1>h. UNCHANGED history
  BY DEF Hash, UploadStarts, Created, Transferred
<1>1. ASSUME NEW s, NEW pc \in Uploading, PatchStatus(i, s), Goto(w, pc)
      PROVE  Shown'
  <2>1. run'[w].pc \notin Early
    BY <1>1, <1>t, CallOfBusy DEF Goto, Runs, Works, Call, Uploading, Early
  <2>2. Patch(i, [seen[i] EXCEPT !.status = s])
    BY <1>1 DEF PatchStatus
  <2>3. \A j \in Items \ {i} : flush'[j] = flush[j]
    BY <1>1, <1>t DEF PatchStatus, Lists
  <2> QED  BY <2>1, <2>2, <2>3, <1>g, <1>h, PatchShown
<1>2. CASE Hash(w) \/ Transferred(w)
  BY <1>2, <1>1 DEF Hash, Transferred, Uploading
<1>3. CASE UploadStarts(w)
  <2>1. CASE i \in cancelled
    BY <2>1, <1>3, <1>g, <1>h, QuietStep DEF UploadStarts, list, history, marked
  <2>2. CASE i \notin cancelled
    <3>1. PICK pc \in {"transfer", "create"} : PatchStatus(i, "active") /\ Goto(w, pc)
      BY <1>3, <2>2 DEF UploadStarts
    <3> QED  BY <3>1, <1>1 DEF Uploading
  <2> QED  BY <2>1, <2>2
<1>4. CASE Created(w)
  <2>1. PICK s \in Made : /\ Patch(i, [seen[i] EXCEPT !.session = s, !.resume = s])
                         /\ run' = [run EXCEPT ![w].pc = "transfer", ![w].session = s]
                         /\ flush' = flush
    BY <1>4 DEF Created
  <2>2. run'[w].pc \notin Early
    BY <2>1, <1>t, CallOfBusy DEF Runs, Works, Call, Early
  <2> QED  BY <2>1, <2>2, <1>g, <1>h, PatchShown
<1> QED  BY <1>2, <1>3, <1>4

LEMMA WorkShown ==
  ASSUME TypeOK, Mutex, Shown, NEW w \in Workers, Work(w)
  PROVE  Shown'
<1>t. run \in Runs /\ seen \in Lists
  BY TypeParts DEF ListTypes, RunTypes
<1>w. Works(w)
  BY DEF Work, StatMissing, StatAsks, StatSkips, StatReplaces, StatRenames, Rename, Begin,
         Prepared, Hash, UploadStarts, Created, Transferred, Verified, Throw, ThrowInCreate,
         Caught, Settled, At, Works, Uploading
<1>1. CASE StatAsks(w) \/ StatSkips(w)
  <2>1. Finish(w)
    BY <1>1 DEF StatAsks, StatSkips
  <2> QED  BY <2>1, <1>1, <1>w, EndingWork
<1>2. CASE Verified(w)
  <2>1. [Known(w) EXCEPT !.status = "done"].status = "done"
    BY <1>t, <1>w, KnownType DEF Row, Works
  <2> QED  BY <2>1, <1>2, <1>w, EndingWork DEF Verified
<1>3. CASE Settled(w)
  <2>1. [run[w].was EXCEPT !.status = "paused"].status = "paused"
    BY <1>t, <1>w, CallOfBusy DEF Row, Works, Call
  <2> QED  BY <2>1, <1>3, <1>w, EndingWork DEF Settled
<1> QED  BY <1>1, <1>2, <1>3, <1>w, QuietWork, BeginShown, CaughtShown, OwnWork DEF Work

LEMMA ProgressShown ==
  ASSUME TypeOK, Mutex, Shown,
         \/ \E w \in Workers : Progress(w)
         \/ \E i \in Items : FlushProgress(i)
         \/ \E s \in {Foreign} \cup {t \in Made : target[t] # None} : RemoteProgress(s)
  PROVE  Shown'
<1>t. items \in Lists /\ flush \in Lists
  BY TypeParts DEF ListTypes
<1>g. GoesOn /\ run' = run
  BY DEF Progress, FlushProgress, RemoteProgress, worker, GoesOn, Works
<1>s. seen' = seen
  BY DEF Progress, FlushProgress, RemoteProgress
<1>m. misled \subseteq misled'
  BY DEF Progress, FlushProgress, RemoteProgress, history, marked
<1>1. ASSUME NEW i \in Items, NEW r,
             \/ Snapshot(i, r)
             \/ items' = Put(items, i, r) /\ flush' = [flush EXCEPT ![i] = NoItem]
      PROVE  \A j \in Items \ {i} : items'[j] = items[j] /\ flush'[j] = flush[j]
  <2>1. items' = Put(items, i, r) \/ items' = items
    BY <1>1 DEF Snapshot, Queue
  <2>2. flush' = [flush EXCEPT ![i] = NoItem] \/ flush' = [flush EXCEPT ![i] = r]
    BY <1>1 DEF Snapshot
  <2>3. \A j \in Items \ {i} : items'[j] = items[j]
    BY <2>1, <1>t, PutAt
  <2>4. \A j \in Items \ {i} : flush'[j] = flush[j]
    BY <2>2, <1>t DEF Lists
  <2> QED  BY <2>3, <2>4
<1>2. ASSUME NEW w \in Workers, Progress(w)
      PROVE  Shown'
  <2>1. run[w].item \in Items
    BY <1>2, TypeParts, CallOfBusy DEF Progress, RunTypes, Call
  <2>2. run'[w].pc \notin Early
    BY <1>2, <1>g DEF Progress, Early
  <2>3. PICK r : Snapshot(run[w].item, r)
    BY <1>2 DEF Progress
  <2>4. \A j \in Items \ {run[w].item} : items'[j] = items[j] /\ flush'[j] = flush[j]
    BY <2>1, <2>3, <1>1
  <2> QED  BY <2>1, <2>2, <2>4, <1>g, <1>s, <1>m, OwnStep
<1>3. ASSUME NEW i \in Items, FlushProgress(i)
      PROVE  Shown'
  <2>1. i \in misled' \/ \E w \in Workers : run[w].item = i /\ run'[w].pc \notin Early
    BY <1>3, <1>m, <1>g DEF FlushProgress, Shown, DeferredIsWorked, EarlyIsQuiet, Untouched
  <2>2. items' = Put(items, i, flush[i]) /\ flush' = [flush EXCEPT ![i] = NoItem]
    BY <1>3 DEF FlushProgress, Queue
  <2>3. \A j \in Items \ {i} : items'[j] = items[j] /\ flush'[j] = flush[j]
    BY <2>2, <1>1
  <2> QED  BY <2>1, <2>3, <1>g, <1>s, <1>m, OwnStep
<1>4. ASSUME NEW s, RemoteProgress(s)
      PROVE  Shown'
  <2>1. PICK i \in Items :
       /\ First(i, {j \in Items : seen[j].status = "active" /\ seen[j].session \in {s, None}})
       /\ Snapshot(i, [seen[i] EXCEPT !.session = s])
       /\ misled' = IF \E w \in Workers : run[w].item = i THEN misled ELSE misled \cup {i}
    BY <1>4 DEF RemoteProgress
  <2>2. ~Calm(seen[i])
    BY <2>1 DEF First, Calm, BusyStatus
  <2>3. i \in misled' \/ \E w \in Workers : run[w].item = i /\ run'[w].pc \notin Early
    BY <2>1, <2>2, <1>m, <1>g DEF Shown, EarlyIsQuiet, Untouched
  <2>4. PICK r : Snapshot(i, r)
    BY <2>1
  <2>5. \A j \in Items \ {i} : items'[j] = items[j] /\ flush'[j] = flush[j]
    BY <2>4, <1>1
  <2> QED  BY <2>3, <2>5, <1>g, <1>s, <1>m, OwnStep
<1> QED  BY <1>2, <1>3, <1>4

\* Such steps leave the calls, what is shown and most deferred snapshots alone.
LEMMA UserGoesOn ==
  ASSUME TypeOK,
         \/ \E i \in Items : Cancel(i) \/ Pause(i) \/ Resume(i) \/ ClearDone(i)
         \/ \E p \in Dropped : AddFile(p)
         \/ \E i \in Items, p \in Paths : Named(i, p)
         \/ \E e \in records : ResumeRecord(e)
         \/ \E choice \in Resolutions, all \in BOOLEAN : Resolve(choice, all)
         \/ ClearFinished
         \/ \E d \in deletes, ok \in BOOLEAN : Deleted(d, ok)
  PROVE  /\ GoesOn /\ seen' = seen /\ misled \subseteq misled'
         /\ \A j \in Items : flush'[j] \in {flush[j], NoItem}
<1>t. flush \in Lists
  BY TypeParts DEF ListTypes
<1>g. GoesOn
  <2>1. CASE UNCHANGED worker
    BY <2>1 DEF worker, GoesOn, Works
  <2>2. ASSUME NEW i \in Items, CancelRunning(i) \/ Pause(i)
        PROVE  GoesOn
    BY <2>2, AbortGoesOn DEF CancelRunning, Pause
  <2>3. ASSUME \/ \E i \in Items : \/ CancelWaiting(i) \/ CancelPaused(i)
                                  \/ Resume(i) \/ ClearDone(i)
               \/ \E p \in Dropped : AddFile(p)
               \/ \E e \in records : ResumeRecord(e)
        PROVE  UNCHANGED worker
    BY <2>3 DEF CancelWaiting, CancelPaused, Resume, ClearDone, AddFile, ResumeRecord, Enqueue
  <2>4. ASSUME \/ \E i \in Items, p \in Paths : Named(i, p)
               \/ \E choice \in Resolutions, all \in BOOLEAN : Resolve(choice, all)
               \/ ClearFinished
               \/ \E d \in deletes, ok \in BOOLEAN : Deleted(d, ok)
        PROVE  UNCHANGED worker
    BY <2>4 DEF Named, Resolve, ClearFinished, Deleted
  <2> QED  BY <2>1, <2>2, <2>3, <2>4 DEF Cancel
<1>s. seen' = seen /\ misled \subseteq misled'
  BY DEF Cancel, CancelWaiting, CancelPaused, CancelRunning, Pause, Resume, ClearDone,
         AddFile, ResumeRecord, Enqueue, Named, Resolve, ClearFinished, Deleted,
         list, history, marked
<1>f. \A j \in Items : flush'[j] \in {flush[j], NoItem}
  <2>1. flush' = flush \/ \E i \in Items : flush' = [flush EXCEPT ![i] = NoItem]
    BY DEF Cancel, CancelWaiting, CancelPaused, CancelRunning, Pause, Resume, ClearDone,
           AddFile, ResumeRecord, Enqueue, Named, Resolve, ClearFinished, Deleted, list
  <2> QED  BY <2>1, <1>t DEF Lists
<1> QED  BY <1>g, <1>s, <1>f

\* A click, an answer to a question, and the answer to a DELETE: no row gets
\* busy by one.
LEMMA UserShown ==
  ASSUME TypeOK, Mutex, Shown,
         \/ \E i \in Items : Cancel(i) \/ Pause(i) \/ Resume(i) \/ ClearDone(i)
         \/ \E p \in Dropped : AddFile(p)
         \/ \E i \in Items, p \in Paths : Named(i, p)
         \/ \E e \in records : ResumeRecord(e)
         \/ \E choice \in Resolutions, all \in BOOLEAN : Resolve(choice, all)
         \/ ClearFinished
         \/ \E d \in deletes, ok \in BOOLEAN : Deleted(d, ok)
  PROVE  Shown'
<1>t. items \in Lists /\ flush \in Lists
  BY TypeParts DEF ListTypes
<1>g. /\ GoesOn /\ seen' = seen /\ misled \subseteq misled'
      /\ \A j \in Items : flush'[j] \in {flush[j], NoItem}
  BY UserGoesOn
<1> DEFINE Quiet == \A j \in Items : items'[j].status = items[j].status \/ Calm(items'[j])
<1>1. ASSUME UNCHANGED items
      PROVE  Quiet
  BY <1>1
<1>2. ASSUME NEW i \in Items, NEW s \in {"pending", "cancelled"}, items' = Status(items, i, s)
      PROVE  Quiet
  <2>1. Calm(items'[i])
    BY <1>2, <1>t, SetStatus
  <2>2. \A j \in Items \ {i} : items'[j] = items[j]
    BY <1>2, <1>t, PutAt DEF Status
  <2> QED  BY <2>1, <2>2
<1>3. ASSUME NEW i \in Items, NEW r, items' = [items EXCEPT ![i] = r], Calm(r)
      PROVE  Quiet
  BY <1>3, <1>t DEF Lists
<1>4. ASSUME NEW i \in Items, NEW r, items' = Put(items, i, r), Present(items, i) => r.status = "pending"
      PROVE  Quiet
  BY <1>4, <1>t, PutStatus, PutAt
<1>5. ASSUME NEW i \in Items, Cancel(i) \/ Pause(i) \/ Resume(i) \/ ClearDone(i)
      PROVE  Quiet
  BY <1>5, <1>1, <1>2, <1>3, NoItemCalm
     DEF Cancel, CancelWaiting, CancelPaused, CancelRunning, Pause, Resume, ClearDone, Click
<1>6. ASSUME NEW r, Enqueue(r), r.status = "pending"
      PROVE  Quiet
  <2>1. added + 1 \in Items /\ items' = [items EXCEPT ![added + 1] = r]
    BY <1>6, TypeParts, QueueAssumption DEF Enqueue, Queue, RestTypes, Items
  <2> QED  BY <2>1, <1>3, <1>6 DEF Calm, BusyStatus
<1>7. ASSUME \E p \in Dropped : AddFile(p)
      PROVE  Quiet
  BY <1>7, <1>6 DEF AddFile, NoItem
<1>8. ASSUME \E e \in records : ResumeRecord(e)
      PROVE  Quiet
  BY <1>8, <1>6 DEF ResumeRecord
<1>9. ASSUME NEW i \in Items, NEW p \in Paths, Named(i, p)
      PROVE  Quiet
  <2> DEFINE r == [items[i] EXCEPT !.dest = Renamed[p], !.status = "pending"]
  <2>1. items' = Put(items, i, r)
    BY <1>9 DEF Named, Queue
  <2>2. Present(items, i) => r.status = "pending"
    BY <1>t, RowOfPresent DEF Row
  <2> HIDE DEF r
  <2> QED  BY <2>1, <2>2, <1>4
<1>10. ASSUME NEW choice \in Resolutions, NEW all \in BOOLEAN, Resolve(choice, all)
       PROVE  Quiet
  <2>1. CASE choice = "keep_both"
    BY <2>1, <1>10, <1>1 DEF Resolve
  <2>2. CASE choice = "skip"
    BY <2>2, <1>10, <1>2 DEF Resolve, Click
  <2>3. CASE choice = "replace"
    <3>1. PICK i \in Items :
            items' = Put(items, i, [items[i] EXCEPT !.status = "pending", !.overwrite = TRUE])
      BY <2>3, <1>10 DEF Resolve, Click
    <3> DEFINE r == [items[i] EXCEPT !.status = "pending", !.overwrite = TRUE]
    <3>2. items' = Put(items, i, r) /\ (Present(items, i) => r.status = "pending")
      BY <3>1, <1>t, RowOfPresent DEF Row
    <3> HIDE DEF r
    <3> QED  BY <3>2, <1>4
  <2> QED  BY <2>1, <2>2, <2>3 DEF Resolutions
<1>11. ASSUME ClearFinished
       PROVE  Quiet
  BY <1>11, NoItemCalm DEF ClearFinished, Click
<1>12. ASSUME \E d \in deletes, ok \in BOOLEAN : Deleted(d, ok)
       PROVE  Quiet
  BY <1>12, <1>1 DEF Deleted, list
<1> HIDE DEF Quiet
<1>q. Quiet
  BY <1>5, <1>7, <1>8, <1>9, <1>10, <1>11, <1>12
<1> QED  BY <1>q, <1>g, QuietStep DEF Quiet

LEMMA ShownStep == TypeOK /\ Mutex /\ Shown /\ [Next]_vars => Shown'
<1>1. ASSUME TypeOK, Mutex, Shown, Task
      PROVE  Shown'
  BY <1>1, RenderShown, WorkShown, ProgressShown, UserShown DEF Task
<1>2. ASSUME Shown, UNCHANGED vars
      PROVE  Shown'
  BY <1>2 DEF vars, list, worker, history, marked, Shown, SeenIsOld, ShownBusyIsWorked,
              DeferredIsWorked, EarlyIsQuiet, Untouched, Works, Calm
<1> QED  BY <1>1, <1>2, NextIsTask

\* A row that shows work is worked on, so the effect that waits for no row to be
\* busy is never blocked by a row nobody works on (upload-queue.ts:1288-1297).
THEOREM BusyRowsAreWorked == Spec => []ShownBusyIsWorked
<1>1. Init => Mutex /\ Shown
  BY DEF Init, Mutex, OneUploadAtATime, BusyTells, Works, NoRun, NoItem, Shown, SeenIsOld,
         ShownBusyIsWorked, DeferredIsWorked, EarlyIsQuiet, Untouched, Early, BusyStatus
<1>2. Shown => ShownBusyIsWorked
  BY DEF Shown
<1> QED  BY <1>1, <1>2, MutexStep, ShownStep, QueueTypeCorrect, PTL DEF Spec
-----------------------------------------------------------------------------
(* A row that is over stays over, and a refused upload never finishes.      *)
(*                                                                         *)
(* Not inductive alone: a patch writes every row as it was rendered, and a  *)
(* click acts on the row as it is shown.  So, of the rows no late message   *)
(* and no late name touched: the row of a call is under way in the list, on *)
(* the screen and in the deferred snapshot; a row that is over is shown so  *)
(* as soon as a call works; a refused upload that still works has its       *)
(* signal fired, and one that does not is at rest.                          *)

Free == Items \ (misled \cup revived)
Underway == {"pending", "hashing", "active", "verifying", "absent"}
AtRest == {"paused", "cancelled", "failed", "absent"}
Working == \E w \in Workers : Works(w)
Stopped(c) == c.pc \notin Early /\ (c.signal = "fired" \/ c.pc = "settle")

Born == /\ \A i \in Items : i > added => items[i] = NoItem /\ seen[i] = NoItem
        /\ \A i \in refused : i <= added
WorkedIsLive ==
  \A w \in Workers : \A i \in Free : run[w].item = i =>
    items[i].status \in Underway /\ seen[i].status \in Underway /\ flush[i].status \in Underway
OverIsSeen ==
  render # "sync" => \A i \in Free : items[i].status \in Over =>
    \/ seen[i].status = items[i].status
    \/ seen[i].status \in Underway /\ ~Working
RefusedIsStopped ==
  \A w \in Workers : \A i \in Free \cap refused : run[w].item = i => Stopped(run[w])
RefusedRests ==
  \A i \in Free \cap refused : (\A w \in Workers : run[w].item # i) =>
    /\ items[i].status \in AtRest
    /\ seen[i].status \in AtRest \cup Underway
    /\ Working => seen[i].status \in AtRest

Kept == Born /\ WorkedIsLive /\ OverIsSeen /\ RefusedIsStopped /\ RefusedRests

\* What OverIsOver says of one step.
OverStays ==
  \A i \in Items : items[i].status \in Over /\ i \notin misled' \cup revived'
    => items'[i].status \in {items[i].status, "absent"}

\* No row comes from nowhere, and no late touch is forgotten.
Grows == misled \subseteq misled' /\ revived \subseteq revived'
NoneBorn ==
  /\ added' = added /\ refused' \subseteq refused
  /\ \A j \in Items : items[j] = NoItem /\ seen[j] = NoItem
                        => items'[j] = NoItem /\ seen'[j] = NoItem
StopsStay == \A w \in Workers : Stopped(run[w]) => Stopped(run'[w])

LEMMA FreeShrinks ==
  ASSUME Grows
  PROVE  Items \ (misled' \cup revived') \subseteq Free
BY DEF Grows, Free

LEMMA BornStays ==
  ASSUME Born, NoneBorn
  PROVE  Born'
BY DEF Born, NoneBorn

\* Steps that write the row of an upload under way, or one no longer free, and
\* the rest of the list perhaps as it was rendered.
LEMMA OwnKept ==
  ASSUME TypeOK, Mutex, Kept, render # "sync", GoesOn, Grows, NoneBorn, StopsStay,
         refused' = refused, NEW i \in Items,
         \/ i \in misled' \cup revived'
         \/ /\ \E w \in Workers : run[w].item = i
            /\ items'[i].status \in Underway /\ seen'[i].status \in Underway
            /\ flush'[i].status \in Underway,
         \A j \in Items \ {i} :
           /\ seen'[j] = seen[j] /\ flush'[j] = flush[j]
           /\ \/ items'[j] = items[j]
              \/ items'[j] = seen[j] /\ \E w \in Workers : run[w].item = i
  PROVE  Kept' /\ OverStays
<1> USE DEF Kept
<1>f. Free' \subseteq Free /\ \A j \in Free' : j \in Items /\ j \notin misled' \cup revived'
  BY FreeShrinks DEF Free
<1>u. \A v, w \in Workers : Works(v) /\ Works(w) => v = w
  BY DEF Mutex, OneUploadAtATime, Works
<1>w. /\ \A w \in Workers : run'[w].item = run[w].item
      /\ Working' <=> Working
  BY DEF GoesOn, Working
<1>o. \A j \in Items \ {i} : items'[j] # items[j] =>
        items'[j] = seen[j] /\ Working /\ \A w \in Workers : run[w].item # j
  <2> SUFFICES ASSUME NEW j \in Items \ {i}, items'[j] # items[j], NEW w \in Workers
               PROVE  items'[j] = seen[j] /\ Working /\ run[w].item # j
    OBVIOUS
  <2>1. PICK v \in Workers : run[v].item = i /\ items'[j] = seen[j]
    OBVIOUS
  <2>2. Works(v)
    BY <2>1, ItemWorks
  <2>3. run[w].item # j
    BY <2>1, <2>2, <1>u, ItemWorks
  <2> QED  BY <2>1, <2>2, <2>3 DEF Working
<1>1. Born'
  BY BornStays
<1>2. WorkedIsLive'
  <2> SUFFICES ASSUME NEW w \in Workers, run[w].item \in Free'
               PROVE  /\ items'[run[w].item].status \in Underway
                      /\ seen'[run[w].item].status \in Underway
                      /\ flush'[run[w].item].status \in Underway
    BY <1>w, <1>f DEF WorkedIsLive, Free
  <2>1. CASE run[w].item = i
    BY <2>1, <1>f
  <2>2. CASE run[w].item # i
    BY <2>2, <1>f, <1>o DEF WorkedIsLive
  <2> QED  BY <2>1, <2>2
<1>3. OverIsSeen'
  <2> SUFFICES ASSUME NEW j \in Free', items'[j].status \in Over
               PROVE  \/ seen'[j].status = items'[j].status
                      \/ seen'[j].status \in Underway /\ ~Working'
    BY DEF OverIsSeen
  <2>1. j # i
    BY <1>f DEF Over, Underway
  <2>2. seen'[j] = seen[j] /\ (items'[j] = items[j] \/ items'[j] = seen[j])
    BY <2>1, <1>f
  <2> QED  BY <2>2, <1>f, <1>w DEF OverIsSeen
<1>4. RefusedIsStopped'
  BY <1>f, <1>w DEF RefusedIsStopped, StopsStay
<1>5. RefusedRests'
  <2> SUFFICES ASSUME NEW j \in Free' \cap refused, \A w \in Workers : run[w].item # j
               PROVE  /\ items'[j].status \in AtRest
                      /\ seen'[j].status \in AtRest \cup Underway
                      /\ Working => seen'[j].status \in AtRest
    BY <1>w DEF RefusedRests
  <2>1. j # i
    BY <1>f
  <2>2. seen'[j] = seen[j] /\ (items'[j] = items[j] \/ (items'[j] = seen[j] /\ Working))
    BY <2>1, <1>f, <1>o
  <2> QED  BY <2>2, <1>f DEF RefusedRests
<1>6. OverStays
  <2> SUFFICES ASSUME NEW j \in Items, items[j].status \in Over, j \in Free'
               PROVE  items'[j].status \in {items[j].status, "absent"}
    BY DEF OverStays, Free
  <2>1. CASE j = i
    BY <2>1, <1>f DEF WorkedIsLive, Over, Underway
  <2>2. CASE j # i
    BY <2>2, <1>f, <1>o DEF OverIsSeen
  <2> QED  BY <2>1, <2>2
<1> QED  BY <1>1, <1>2, <1>3, <1>4, <1>5, <1>6

\* A call that ends.
LEMMA EndKept ==
  ASSUME TypeOK, Mutex, Kept, render # "sync", NEW w \in Workers, Ends(w),
         UNCHANGED <<seen, history, bounds>>,
         NEW i \in Items, run[w].item = i,
         items[i] = NoItem => items'[i] = NoItem,
         Stopped(run[w]) => items'[i].status \in AtRest,
         \A j \in Items \ {i} : items'[j] = items[j] /\ flush'[j] = flush[j]
  PROVE  Kept' /\ OverStays
<1> USE DEF Kept
<1>m. misled' = misled /\ revived' = revived /\ refused' = refused /\ added' = added /\ seen' = seen
  BY DEF history, marked, bounds
<1>f. Free' = Free
  BY <1>m DEF Free
<1>0. /\ \A v \in Workers : run'[v].pc = "idle"
      /\ \A v \in Workers, j \in Items : run'[v].item # j
      /\ Working /\ ~Working'
      /\ \A v \in Workers, j \in Items : run[v].item = j => v = w
  <2>1. /\ \A v \in Workers : run'[v].pc = "idle"
        /\ \A v \in Workers \ {w} : run[v].pc = "idle"
    BY Ended
  <2>2. Works(w) /\ run' = [run EXCEPT ![w] = NoRun]
    BY DEF Ends, Finish
  <2>3. \A v \in Workers, j \in Items : run[v].item = j => v = w
    BY <2>1, ItemWorks DEF Works
  <2>4. \A v \in Workers, j \in Items : run'[v].item # j
    BY <2>2, <2>3, QueueAssumption, TypeParts DEF NoRun, RunTypes, Runs
  <2> QED  BY <2>1, <2>2, <2>3, <2>4 DEF Working, Works
<1>1. Born'
  BY <1>m DEF Born
<1>2. WorkedIsLive' /\ RefusedIsStopped'
  BY <1>0 DEF WorkedIsLive, RefusedIsStopped, Free
<1>3. OverIsSeen'
  <2> SUFFICES ASSUME NEW j \in Free, items'[j].status \in Over
               PROVE  seen[j].status = items'[j].status \/ seen[j].status \in Underway
    BY <1>m, <1>f, <1>0 DEF OverIsSeen
  <2> QED  BY <1>0 DEF OverIsSeen, WorkedIsLive, Free
<1>4. RefusedRests'
  <2> SUFFICES ASSUME NEW j \in Free \cap refused
               PROVE  /\ items'[j].status \in AtRest
                      /\ seen[j].status \in AtRest \cup Underway
    BY <1>m, <1>f, <1>0 DEF RefusedRests
  <2>1. CASE j = i
    BY <2>1 DEF RefusedIsStopped, WorkedIsLive
  <2>2. CASE j # i
    <3>1. \A v \in Workers : run[v].item # j
      BY <2>2, <1>0 DEF Free
    <3> QED  BY <2>2, <3>1 DEF RefusedRests, Free
  <2> QED  BY <2>1, <2>2
<1>5. OverStays
  <2> SUFFICES ASSUME NEW j \in Free, items[j].status \in Over
               PROVE  items'[j].status = items[j].status
    BY <1>m DEF OverStays, Free
  <2>1. j # i
    BY DEF WorkedIsLive, Over, Underway
  <2> QED  BY <2>1 DEF Free
<1> QED  BY <1>1, <1>2, <1>3, <1>4, <1>5
LEMMA RenderKept ==
  ASSUME TypeOK, Mutex, Shown, Kept, Render
  PROVE  Kept' /\ OverStays
<1> USE DEF Kept
<1>r. /\ seen' = items /\ items' = items /\ flush' = flush /\ misled' = misled
      /\ revived' = revived /\ refused' = refused /\ added' = added
  BY DEF Render, marked, bounds
<1>f. Free' = Free
  BY <1>r DEF Free
<1>1. Born' /\ OverStays
  BY <1>r DEF Born, OverStays
<1>2. OverIsSeen'
  BY <1>r DEF OverIsSeen
<1>3. CASE GoesOn
  <2>1. run' = run
    BY <1>3, QueueAssumption DEF Render, MayStart, Start, GoesOn, worker
  <2>2. WorkedIsLive' /\ RefusedIsStopped'
    BY <2>1, <1>r, <1>f DEF WorkedIsLive, RefusedIsStopped
  <2>3. RefusedRests'
    BY <2>1, <1>r, <1>f DEF RefusedRests
  <2> QED  BY <1>1, <1>2, <2>2, <2>3
<1>4. ASSUME NEW i \in Items, MayStart, First(i, Waiting), Starts(i)
      PROVE  Kept'
  <2>1. PICK w \in Workers, c \in Call : c.item = i /\ run' = [run EXCEPT ![w] = c]
    BY <1>4 DEF Starts
  <2>2. items[i].status = "pending"
    BY <1>4 DEF First, Waiting
  <2>3. \A v \in Workers, j \in Items : run[v].item # j
    BY <1>4, ItemWorks DEF Mutex, BusyTells, MayStart
  <2>4. \A v \in Workers, j \in Items : run'[v].item = j => j = i
    BY <2>1, <2>3, TypeParts DEF RunTypes, Runs
  <2>5. i \in Free => flush[i].status = "absent" /\ i \notin refused
    BY <2>2, <2>3 DEF Free, Shown, DeferredIsWorked, Untouched, NoItem, RefusedRests, AtRest
  <2>6. WorkedIsLive' /\ RefusedIsStopped'
    BY <2>2, <2>4, <2>5, <1>r, <1>f DEF WorkedIsLive, RefusedIsStopped, Underway, Free
  <2>7. RefusedRests'
    BY <2>3, <1>r, <1>f DEF RefusedRests, Free
  <2> QED  BY <1>1, <1>2, <2>6, <2>7
<1> QED  BY <1>1, <1>3, <1>4, RenderMoves DEF Mutex

\* No step of an upload that goes on takes back its stop.
LEMMA WorkStops ==
  ASSUME TypeOK, NEW w \in Workers, Work(w), GoesOn
  PROVE  StopsStay
<1>t. run \in Runs
  BY TypeParts DEF RunTypes
<1>1. ASSUME Stopped(run[w]), Works(w)
      PROVE  Throw(w) \/ ThrowInCreate(w) \/ Settled(w)
  BY <1>1 DEF Stopped, Work, StatMissing, StatAsks, StatSkips, StatReplaces, StatRenames,
              Rename, Begin, Prepared, Hash, UploadStarts, Created, Transferred, Verified,
              At, Early
<1>2. ASSUME Throw(w) \/ ThrowInCreate(w), Stopped(run[w]), Works(w)
      PROVE  Stopped(run'[w])
  <2>1. Caught(w)
    BY <1>2 DEF Throw, ThrowInCreate
  <2>2. run[w].item \in paused
    BY <2>1, <1>2, <1>t DEF Caught, Finish, GoesOn, Works, Runs, NoRun
  <2>3. run' = [run EXCEPT ![w].pc = "settle", ![w].was = Known(w)]
    BY <2>1, <2>2 DEF Caught
  <2> DEFINE c == [[run[w] EXCEPT !.pc = "settle"] EXCEPT !.was = Known(w)]
  <2>4. run'[w] = c
    BY <2>3, <1>t DEF Runs
  <2>5. c.pc = "settle"
    BY <1>2, <1>t, CallOfBusy DEF Call, Works
  <2> HIDE DEF c
  <2> QED  BY <2>4, <2>5 DEF Stopped, Early
<1>3. ASSUME Settled(w)
      PROVE  FALSE
  BY <1>3, <1>t DEF Settled, Finish, GoesOn, Works, Runs, NoRun
<1>4. Works(w)
  BY DEF Work, StatMissing, StatAsks, StatSkips, StatReplaces, StatRenames, Rename, Begin,
         Prepared, Hash, UploadStarts, Created, Transferred, Verified, Throw, ThrowInCreate,
         Caught, Settled, At, Works, Uploading
<1>5. \A v \in Workers \ {w} : run'[v] = run[v]
  <2>1. \E c : run' = [run EXCEPT ![w] = c]
    BY <1>t DEF Work, StatMissing, StatAsks, StatSkips, StatReplaces, StatRenames, Rename, Begin,
         Prepared, Hash, UploadStarts, Created, Transferred, Verified, Throw, ThrowInCreate,
         Caught, Settled, Goto, Finish
  <2> QED  BY <2>1, <1>t DEF Runs
<1> QED  BY <1>1, <1>2, <1>3, <1>4, <1>5 DEF StopsStay

LEMMA AbortStops ==
  ASSUME TypeOK, NEW i \in Items, run' = Abort(i)
  PROVE  /\ StopsStay
         /\ \A w \in Workers : run[w].item = i /\ run[w].pc \notin Early => Stopped(run'[w])
<1> SUFFICES ASSUME NEW w \in Workers
             PROVE  /\ Stopped(run[w]) => Stopped(run'[w])
                    /\ run[w].item = i /\ run[w].pc \notin Early => Stopped(run'[w])
  BY DEF StopsStay
<1>1. run[w] \in Run
  BY TypeParts DEF RunTypes, Runs
<1>2. \/ run'[w] = run[w] /\ ~(run[w].item = i /\ run[w].pc \notin {"stat", "rename"})
      \/ run'[w] = [run[w] EXCEPT !.signal = "fired"]
  BY DEF Abort
<1>3. CASE run'[w] = [run[w] EXCEPT !.signal = "fired"]
  <2>1. run'[w].signal = "fired" /\ run'[w].pc = run[w].pc
    BY <1>1, <1>3 DEF Run, Call, NoRun
  <2> QED  BY <2>1 DEF Stopped
<1> QED  BY <1>2, <1>3 DEF Stopped, Early

\* What a step of an upload leaves alone.
LEMMA WorkKeeps ==
  ASSUME NEW w \in Workers, Work(w)
  PROVE  /\ UNCHANGED <<history, bounds>> /\ Grows
         /\ misled' = misled /\ refused' = refused /\ added' = added
<1>1. UNCHANGED <<history, bounds>>
  BY DEF Work, StatMissing, StatAsks, StatSkips, StatReplaces, StatRenames, Rename, Begin,
         Prepared, Hash, UploadStarts, Created, Transferred, Verified, Throw, ThrowInCreate,
         Caught, Settled
<1> QED  BY <1>1 DEF history, marked, bounds, Grows
StillGone(i) == items[i] = NoItem /\ seen[i] = NoItem => items'[i] = NoItem /\ seen'[i] = NoItem
StillUnderway(i) ==
  /\ items[i].status \in Underway /\ seen[i].status \in Underway
       => items'[i].status \in Underway /\ seen'[i].status \in Underway
  /\ flush[i].status \in Underway => flush'[i].status \in Underway

LEMMA NothingIsAbsent == NoItem.status = "absent" /\ NoItem.status \in Underway \cap AtRest
BY DEF NoItem, Underway, AtRest

\* A step of an upload that goes on: its row stays under way.
LEMMA GoingKept ==
  ASSUME TypeOK, Mutex, Kept, render # "sync", NEW w \in Workers, Work(w), Works(w), GoesOn,
         NEW i \in Items, run[w].item = i, StillGone(i), StillUnderway(i),
         \A j \in Items \ {i} :
           /\ seen'[j] = seen[j] /\ flush'[j] = flush[j]
           /\ (items'[j] = items[j] \/ items'[j] = seen[j])
  PROVE  Kept' /\ OverStays
<1>k. /\ Grows /\ misled' = misled /\ revived' = revived /\ refused' = refused
      /\ added' = added
  BY WorkKeeps DEF history, marked
<1>1. NoneBorn
  <2> SUFFICES ASSUME NEW j \in Items, items[j] = NoItem, seen[j] = NoItem
               PROVE  items'[j] = NoItem /\ seen'[j] = NoItem
    BY <1>k DEF NoneBorn
  <2>1. CASE j = i
    BY <2>1 DEF StillGone
  <2>2. CASE j # i
    BY <2>2
  <2> QED  BY <2>1, <2>2
<1>2. i \notin misled' \cup revived' =>
        /\ items'[i].status \in Underway /\ seen'[i].status \in Underway
        /\ flush'[i].status \in Underway
  BY <1>k DEF Kept, WorkedIsLive, Free, StillUnderway
<1>3. StopsStay
  BY WorkStops
<1>4. \/ i \in misled' \cup revived'
      \/ /\ \E v \in Workers : run[v].item = i
         /\ items'[i].status \in Underway /\ seen'[i].status \in Underway
         /\ flush'[i].status \in Underway
  BY <1>2
<1>5. \A j \in Items \ {i} :
        /\ seen'[j] = seen[j] /\ flush'[j] = flush[j]
        /\ \/ items'[j] = items[j]
           \/ items'[j] = seen[j] /\ \E v \in Workers : run[v].item = i
  OBVIOUS
<1> QED  BY <1>k, <1>1, <1>3, <1>4, <1>5, OwnKept

LEMMA QuietKept ==
  ASSUME TypeOK, Mutex, Kept, render # "sync", NEW w \in Workers, Works(w),
         \/ StatMissing(w) \/ StatReplaces(w) \/ StatRenames(w) \/ Prepared(w) \/ Rename(w)
         \/ Begin(w) /\ Known(w).status \in {"pending", "active"}
  PROVE  Kept' /\ OverStays
<1> DEFINE i == run[w].item
<1>t. items \in Lists /\ i \in Items
  BY TypeParts, CallOfBusy DEF ListTypes, RunTypes, Works, Call
<1>w. Work(w) /\ GoesOn
  BY WorkGoesOn DEF Work, StatMissing, StatReplaces, StatRenames, Prepared, Rename, Goto, Begin
<1>1. seen' = seen /\ flush' = flush
  BY DEF StatMissing, StatReplaces, StatRenames, Prepared, Rename, Begin, list
<1>2. PICK r : (items' = items \/ items' = Put(items, i, r)) /\ r.status = items[i].status
  <2>1. CASE StatMissing(w) \/ StatRenames(w) \/ Prepared(w)
    BY <2>1 DEF StatMissing, StatRenames, Prepared, list
  <2>2. CASE StatReplaces(w)
    <3>1. items' = Put(items, i, [items[i] EXCEPT !.overwrite = TRUE])
      BY <2>2 DEF StatReplaces, Queue
    <3>2. [items[i] EXCEPT !.overwrite = TRUE].status = items[i].status
      BY <1>t DEF Lists, Item, Row, NoItem
    <3> QED  BY <3>1, <3>2
  <2>3. CASE Rename(w) \/ (Begin(w) /\ Known(w).status \in {"pending", "active"})
    <3>1. PICK p : items' = Put(items, i, [items[i] EXCEPT !.dest = p])
      BY <2>3 DEF Rename, Begin, Queue, MoveTo
    <3>2. [items[i] EXCEPT !.dest = p].status = items[i].status
      BY <1>t DEF Lists, Item, Row, NoItem
    <3> QED  BY <3>1, <3>2
  <2> QED  BY <2>1, <2>2, <2>3
<1>3. /\ \A j \in Items \ {i} : items'[j] = items[j]
      /\ items'[i].status = items[i].status
      /\ items[i] = NoItem => items'[i] = NoItem
  <2>1. /\ \A j \in Items \ {i} : Put(items, i, r)[j] = items[j]
        /\ Put(items, i, r)[i].status = items[i].status
        /\ items[i] = NoItem => Put(items, i, r)[i] = NoItem
    BY <1>2, <1>t DEF Put, Present, NoItem, Lists
  <2> QED  BY <1>2, <2>1
<1>4. StillGone(i) /\ StillUnderway(i)
  BY <1>1, <1>3 DEF StillGone, StillUnderway
<1> QED  BY <1>t, <1>w, <1>1, <1>3, <1>4, GoingKept

\* A patch of the row of the call.
LEMMA PatchKept ==
  ASSUME TypeOK, Mutex, Kept, render # "sync", NEW w \in Workers, Work(w), Works(w), GoesOn,
         NEW r, Patch(run[w].item, r),
         \/ r.status \in Underway
         \/ r.status = seen[run[w].item].status,
         \/ flush' = flush
         \/ flush' = [flush EXCEPT ![run[w].item] = NoItem]
  PROVE  Kept' /\ OverStays
<1> DEFINE i == run[w].item
<1>t. seen \in Lists /\ flush \in Lists /\ i \in Items
  BY TypeParts, CallOfBusy DEF ListTypes, RunTypes, Works, Call
<1>1. items' = Put(seen, i, r) /\ seen' = Put(seen, i, r)
  BY DEF Patch, Queue
<1>2. /\ \A j \in Items \ {i} : items'[j] = seen[j] /\ seen'[j] = seen[j]
      /\ items'[i] = seen'[i] /\ (seen'[i] = r \/ (seen'[i] = seen[i] /\ seen[i] = NoItem))
      /\ seen[i] = NoItem => seen'[i] = NoItem
  BY <1>1, <1>t, PutAt, NothingIsAbsent DEF Present
<1>3. /\ \A j \in Items \ {i} : flush'[j] = flush[j]
      /\ flush'[i] = flush[i] \/ flush'[i].status \in Underway
  BY <1>t, NothingIsAbsent DEF Lists
<1>4. StillGone(i) /\ StillUnderway(i)
  BY <1>2, <1>3 DEF StillGone, StillUnderway
<1> QED  BY <1>t, <1>2, <1>3, <1>4, GoingKept

LEMMA PatchesKept ==
  ASSUME TypeOK, Mutex, Kept, render # "sync", NEW w \in Workers, Works(w),
         Hash(w) \/ UploadStarts(w) \/ Created(w) \/ Transferred(w)
  PROVE  Kept' /\ OverStays
<1> DEFINE i == run[w].item
<1>t. seen \in Lists /\ flush \in Lists /\ i \in Items
  BY TypeParts, CallOfBusy DEF ListTypes, RunTypes, Works, Call
<1>w. Work(w) /\ GoesOn
  BY WorkGoesOn DEF Work, Hash, UploadStarts, Created, Transferred, Goto
<1>1. ASSUME NEW s \in {"hashing", "active", "verifying"}, PatchStatus(i, s)
      PROVE  Kept' /\ OverStays
  <2> DEFINE r == [seen[i] EXCEPT !.status = s]
  <2>1. Patch(i, r) /\ flush' = [flush EXCEPT ![i] = NoItem] /\ r.status \in Underway
    BY <1>1, <1>t DEF PatchStatus, Lists, Item, Row, NoItem, Underway
  <2> HIDE DEF r
  <2> QED  BY <2>1, <1>w, PatchKept
<1>2. CASE Hash(w) \/ Transferred(w)
  BY <1>2, <1>1 DEF Hash, Transferred
<1>3. CASE UploadStarts(w)
  <2>1. CASE i \in cancelled
    <3>1. items' = items /\ seen' = seen /\ flush' = flush
      BY <2>1, <1>3 DEF UploadStarts, list
    <3>2. StillGone(i) /\ StillUnderway(i)
      BY <3>1 DEF StillGone, StillUnderway
    <3> QED  BY <3>1, <3>2, <1>t, <1>w, GoingKept
  <2>2. CASE i \notin cancelled
    BY <2>2, <1>3, <1>1 DEF UploadStarts
  <2> QED  BY <2>1, <2>2
<1>4. CASE Created(w)
  <2>1. PICK s \in Made : Patch(i, [seen[i] EXCEPT !.session = s, !.resume = s]) /\ flush' = flush
    BY <1>4 DEF Created
  <2> DEFINE r == [seen[i] EXCEPT !.session = s, !.resume = s]
  <2>2. Patch(i, r) /\ r.status = seen[i].status
    BY <2>1, <1>t DEF Lists, Item, Row, NoItem
  <2> HIDE DEF r
  <2> QED  BY <2>1, <2>2, <1>w, PatchKept
<1> QED  BY <1>2, <1>3, <1>4

LEMMA CommitsKept ==
  ASSUME TypeOK, Mutex, Kept, render # "sync", NEW w \in Workers, Work(w), Works(w), Finish(w),
         NEW r, Commit(run[w].item, r), Stopped(run[w]) => r.status \in AtRest
  PROVE  Kept' /\ OverStays
<1> DEFINE i == run[w].item
<1>t. items \in Lists /\ flush \in Lists /\ i \in Items
  BY TypeParts, CallOfBusy DEF ListTypes, RunTypes, Works, Call
<1>1. items' = Put(items, i, r) /\ flush' = [flush EXCEPT ![i] = NoItem] /\ seen' = seen
  BY DEF Commit, Queue
<1>2. \A j \in Items \ {i} : items'[j] = items[j] /\ flush'[j] = flush[j]
  BY <1>1, <1>t, PutAt DEF Lists
<1>3. /\ items'[i] = r \/ items'[i] = NoItem
      /\ items[i] = NoItem => items'[i] = NoItem
  BY <1>1, <1>t, PutAt, NothingIsAbsent DEF Present
<1>4. Ends(w) /\ UNCHANGED <<seen, history, bounds>>
  BY <1>1, WorkKeeps DEF Ends
<1>5. Stopped(run[w]) => items'[i].status \in AtRest
  BY <1>3 DEF AtRest, NoItem
<1> QED  BY <1>t, <1>2, <1>3, <1>4, <1>5, EndKept

LEMMA EarlyEndsKept ==
  ASSUME TypeOK, Mutex, Kept, render # "sync", NEW w \in Workers, Works(w), Finish(w),
         StatAsks(w) \/ StatSkips(w) \/ (Begin(w) /\ items' = items)
  PROVE  Kept' /\ OverStays
<1> DEFINE i == run[w].item
<1>t. items \in Lists /\ i \in Items
  BY TypeParts, CallOfBusy DEF ListTypes, RunTypes, Works, Call
<1>1. Work(w) /\ seen' = seen /\ flush' = flush /\ run[w].pc \in Early
  BY DEF Work, StatAsks, StatSkips, Begin, At, Early
<1>2. Ends(w) /\ UNCHANGED <<seen, history, bounds>> /\ ~Stopped(run[w])
  BY <1>1, WorkKeeps DEF Ends, Stopped
<1>3. PICK r : items' = items \/ items' = Put(items, i, r)
  BY DEF StatAsks, StatSkips, Queue, Status
<1>4. /\ \A j \in Items \ {i} : items'[j] = items[j]
      /\ items[i] = NoItem => items'[i] = NoItem
  BY <1>3, <1>t, PutAt, NothingIsAbsent DEF Present
<1> QED  BY <1>t, <1>1, <1>2, <1>4, EndKept
LEMMA CaughtKept ==
  ASSUME TypeOK, Mutex, Kept, render # "sync", NEW w \in Workers, Works(w),
         Throw(w) \/ ThrowInCreate(w)
  PROVE  Kept' /\ OverStays
<1> DEFINE i == run[w].item
<1>t. flush \in Lists /\ i \in Items
  BY TypeParts, CallOfBusy DEF ListTypes, RunTypes, Works, Call
<1>c. Caught(w) /\ Work(w)
  BY DEF Throw, ThrowInCreate, Work
<1>1. CASE i \in paused
  <2>1. GoesOn
    BY <1>c, <1>1, WorkGoesOn DEF Caught
  <2>2. items' = items /\ seen' = seen /\ flush' = [flush EXCEPT ![i] = NoItem]
    BY <1>c, <1>1 DEF Caught
  <2>3. StillGone(i) /\ StillUnderway(i) /\ \A j \in Items \ {i} : flush'[j] = flush[j]
    BY <2>2, <1>t, NothingIsAbsent DEF Lists, StillGone, StillUnderway
  <2> QED  BY <2>1, <2>2, <2>3, <1>t, <1>c, GoingKept
<1>2. CASE i \notin paused
  <2> DEFINE s == IF i \in cancelled \/ run[w].signal = "fired" THEN "cancelled" ELSE "failed"
             r == [Known(w) EXCEPT !.status = s]
  <2>1. Finish(w) /\ Commit(i, r)
    BY <1>c, <1>2 DEF Caught
  <2>2. Known(w) \in Row
    BY TypeParts, KnownType DEF ListTypes, RunTypes, Works
  <2>3. s \in AtRest
    BY DEF AtRest
  <2>4. r.status = s
    <3> HIDE DEF s
    <3> QED  BY <2>2 DEF Row
  <2> HIDE DEF r, s
  <2> QED  BY <2>1, <2>3, <2>4, <1>c, CommitsKept
<1> QED  BY <1>1, <1>2

LEMMA WorkKept ==
  ASSUME TypeOK, Mutex, Kept, render # "sync", NEW w \in Workers, Work(w)
  PROVE  Kept' /\ OverStays
<1>t. run \in Runs /\ seen \in Lists
  BY TypeParts DEF ListTypes, RunTypes
<1>w. Works(w)
  BY DEF Work, StatMissing, StatAsks, StatSkips, StatReplaces, StatRenames, Rename, Begin,
         Prepared, Hash, UploadStarts, Created, Transferred, Verified, Throw, ThrowInCreate,
         Caught, Settled, At, Works, Uploading
<1>1. CASE StatAsks(w) \/ StatSkips(w)
  <2>1. Finish(w)
    BY <1>1 DEF StatAsks, StatSkips
  <2> QED  BY <2>1, <1>1, <1>w, EarlyEndsKept
<1>2. CASE Begin(w)
  <2>1. CASE Known(w).status \in {"pending", "active"}
    BY <2>1, <1>2, <1>w, QuietKept
  <2>2. CASE Known(w).status \notin {"pending", "active"}
    <3>1. Finish(w) /\ items' = items
      BY <2>2, <1>2 DEF Begin
    <3> QED  BY <3>1, <1>2, <1>w, EarlyEndsKept
  <2> QED  BY <2>1, <2>2
<1>3. CASE Verified(w)
  <2>1. Finish(w) /\ ~Stopped(run[w]) /\ Commit(run[w].item, [Known(w) EXCEPT !.status = "done"])
    BY <1>3 DEF Verified, At, Stopped
  <2> QED  BY <2>1, <1>w, CommitsKept
<1>4. CASE Settled(w)
  <2> DEFINE r == [run[w].was EXCEPT !.status = "paused"]
  <2>1. Finish(w) /\ Commit(run[w].item, r)
    BY <1>4 DEF Settled
  <2>2. r.status \in AtRest
    BY <1>t, <1>w, CallOfBusy DEF Row, Works, Call, AtRest
  <2> HIDE DEF r
  <2> QED  BY <2>1, <2>2, <1>w, CommitsKept
<1>5. CASE StatMissing(w) \/ StatReplaces(w) \/ StatRenames(w) \/ Rename(w) \/ Prepared(w)
  BY <1>5, <1>w, QuietKept
<1>6. CASE Hash(w) \/ UploadStarts(w) \/ Created(w) \/ Transferred(w)
  BY <1>6, <1>w, PatchesKept
<1>7. CASE Throw(w) \/ ThrowInCreate(w)
  BY <1>7, <1>w, CaughtKept
<1> QED  BY <1>1, <1>2, <1>3, <1>4, <1>5, <1>6, <1>7 DEF Work

\* A snapshot of a row, shown or deferred.
LEMMA SnapshotKept ==
  ASSUME TypeOK, Mutex, Kept, render # "sync", run' = run, busy' = busy, seen' = seen,
         misled \subseteq misled', revived' = revived, refused' = refused, added' = added,
         NEW i \in Items, NEW r,
         items' = items \/ items' = Put(items, i, r),
         flush' = [flush EXCEPT ![i] = NoItem] \/ flush' = [flush EXCEPT ![i] = r],
         i \in misled' \cup revived' \/ (r.status \in Underway /\ \E w \in Workers : run[w].item = i)
  PROVE  Kept' /\ OverStays
<1>t. items \in Lists /\ flush \in Lists
  BY TypeParts DEF ListTypes
<1>g. GoesOn /\ Grows /\ StopsStay
  BY DEF GoesOn, Works, Grows, StopsStay
<1>1. /\ \A j \in Items \ {i} : items'[j] = items[j] /\ flush'[j] = flush[j]
      /\ items'[i] = items[i] \/ items'[i] = r
      /\ items[i] = NoItem => items'[i] = NoItem
      /\ flush'[i] = NoItem \/ flush'[i] = r
  BY <1>t, PutAt, NothingIsAbsent DEF Present, Lists
<1>2. NoneBorn
  <2> SUFFICES ASSUME NEW j \in Items, items[j] = NoItem
               PROVE  items'[j] = NoItem
    BY DEF NoneBorn
  <2>1. CASE j = i
    BY <2>1, <1>1
  <2>2. CASE j # i
    BY <2>2, <1>1
  <2> QED  BY <2>1, <2>2
<1>3. \/ i \in misled' \cup revived'
      \/ /\ \E w \in Workers : run[w].item = i
         /\ items'[i].status \in Underway /\ seen'[i].status \in Underway
         /\ flush'[i].status \in Underway
  <2> SUFFICES ASSUME i \notin misled' \cup revived'
               PROVE  /\ \E w \in Workers : run[w].item = i
                      /\ items'[i].status \in Underway /\ seen'[i].status \in Underway
                      /\ flush'[i].status \in Underway
    OBVIOUS
  <2>1. PICK w \in Workers : run[w].item = i
    OBVIOUS
  <2>2. items[i].status \in Underway /\ seen[i].status \in Underway
    BY <2>1, <1>g DEF Kept, WorkedIsLive, Free, Grows
  <2> QED  BY <2>1, <2>2, <1>1, NothingIsAbsent
<1> QED  BY <1>g, <1>1, <1>2, <1>3, OwnKept

LEMMA ProgressKept ==
  ASSUME TypeOK, Mutex, Shown, Kept, render # "sync",
         \/ \E w \in Workers : Progress(w)
         \/ \E i \in Items : FlushProgress(i)
         \/ \E s \in {Foreign} \cup {t \in Made : target[t] # None} : RemoteProgress(s)
  PROVE  Kept' /\ OverStays
<1>t. items \in Lists /\ flush \in Lists /\ seen \in Lists
  BY TypeParts DEF ListTypes
<1>g. run' = run /\ busy' = busy /\ seen' = seen
  BY DEF Progress, FlushProgress, RemoteProgress, worker
<1>m. /\ misled \subseteq misled' /\ revived' = revived /\ refused' = refused
      /\ added' = added
  BY DEF Progress, FlushProgress, RemoteProgress, history, marked, bounds
<1>1. ASSUME NEW w \in Workers, Progress(w)
      PROVE  Kept' /\ OverStays
  <2> DEFINE i == run[w].item
             r == [seen[i] EXCEPT !.status = StatusFor(ProgressId(w)), !.session = ProgressId(w)]
  <2>1. i \in Items
    BY <1>1, TypeParts, CallOfBusy DEF Progress, RunTypes, Call
  <2>2. Snapshot(i, r)
    BY <1>1 DEF Progress
  <2>3. r.status \in Underway
    BY <2>1, <1>t DEF Lists, Item, Row, NoItem, StatusFor, Underway
  <2> HIDE DEF r
  <2>4. /\ items' = items \/ items' = Put(items, i, r)
        /\ flush' = [flush EXCEPT ![i] = NoItem] \/ flush' = [flush EXCEPT ![i] = r]
    BY <2>2 DEF Snapshot, Queue
  <2> QED  BY <2>1, <2>3, <2>4, <1>g, <1>m, SnapshotKept
<1>2. ASSUME NEW i \in Items, FlushProgress(i)
      PROVE  Kept' /\ OverStays
  <2>1. items' = Put(items, i, flush[i]) /\ flush' = [flush EXCEPT ![i] = NoItem]
    BY <1>2 DEF FlushProgress, Queue
  <2>2. \/ i \in misled' \cup revived'
        \/ flush[i].status \in Underway /\ \E w \in Workers : run[w].item = i
    BY <1>2, <1>m DEF FlushProgress, Shown, DeferredIsWorked, Untouched, Kept, WorkedIsLive, Free
  <2> QED  BY <2>1, <2>2, <1>g, <1>m, SnapshotKept
<1>3. ASSUME NEW s, RemoteProgress(s)
      PROVE  Kept' /\ OverStays
  <2>1. PICK i \in Items :
       /\ First(i, {j \in Items : seen[j].status = "active" /\ seen[j].session \in {s, None}})
       /\ Snapshot(i, [seen[i] EXCEPT !.session = s])
       /\ misled' = IF \E w \in Workers : run[w].item = i THEN misled ELSE misled \cup {i}
    BY <1>3 DEF RemoteProgress
  <2> DEFINE r == [seen[i] EXCEPT !.session = s]
  <2>2. r.status \in Underway
    BY <2>1, <1>t DEF First, Lists, Item, Row, NoItem, Underway
  <2>3. i \in misled' \cup revived' \/ (r.status \in Underway /\ \E w \in Workers : run[w].item = i)
    BY <2>1, <2>2
  <2> HIDE DEF r
  <2>4. /\ items' = items \/ items' = Put(items, i, r)
        /\ flush' = [flush EXCEPT ![i] = NoItem] \/ flush' = [flush EXCEPT ![i] = r]
    BY <2>1 DEF Snapshot, Queue, r
  <2> QED  BY <2>3, <2>4, <1>g, <1>m, SnapshotKept
<1> QED  BY <1>1, <1>2, <1>3
\* What a click or an answer may do to one row: nothing, take it away, or change
\* it as its status, on the screen or in the list, allows.
Clicked(i) ==
  \/ items'[i] = items[i]
  \/ items'[i] = NoItem
  \/ /\ render' = "sync" /\ seen[i].status = "paused"
     /\ \/ items'[i].status = "cancelled"
        \/ items[i].status = "paused" /\ items'[i].status = "pending" /\ i \notin refused'
  \/ /\ render' = "sync" /\ seen[i].status = "awaiting_conflict"
     /\ items'[i].status \in {"cancelled", "pending"}
  \/ items[i].status = "awaiting_conflict" /\ items'[i].status = "pending"
  \/ i \in revived'
  \/ items'[i].status = "pending" /\ i = added + 1 /\ added' = i

LEMMA ClickKept ==
  ASSUME TypeOK, Mutex, Kept, render # "sync", GoesOn, Grows, StopsStay, Born',
         seen' = seen, \A j \in Items : flush'[j] \in {flush[j], NoItem},
         \A j \in Items : Clicked(j),
         \A j \in refused' : \/ j \in refused
                             \/ /\ \E w \in Workers : run[w].item = j
                                /\ \A w \in Workers : run[w].item = j /\ j \in Free => Stopped(run'[w])
  PROVE  Kept' /\ OverStays
<1> USE DEF Kept
<1>f. Free' \subseteq Free /\ \A j \in Free' : j \in Items /\ j \notin misled' \cup revived'
  BY FreeShrinks DEF Free
<1>w. /\ \A w \in Workers : run'[w].item = run[w].item
      /\ Working' <=> Working
  BY DEF GoesOn, Working
<1>2. WorkedIsLive'
  <2> SUFFICES ASSUME NEW w \in Workers, NEW j \in Free', run[w].item = j
               PROVE  /\ items'[j].status \in Underway /\ seen'[j].status \in Underway
                      /\ flush'[j].status \in Underway
    BY <1>w DEF WorkedIsLive
  <2>1. items[j].status \in Underway /\ seen[j].status \in Underway /\ flush[j].status \in Underway
    BY <1>f DEF WorkedIsLive
  <2>2. seen[j].status \notin {"paused", "awaiting_conflict"} /\ items[j].status # "awaiting_conflict"
    BY <2>1 DEF Underway
  <2>3. items'[j] \in {items[j], NoItem} \/ items'[j].status = "pending"
    BY <2>2, <1>f DEF Clicked
  <2>4. "pending" \in Underway
    BY DEF Underway
  <2> QED  BY <2>1, <2>3, <2>4, <1>f, NothingIsAbsent
<1>3. OverIsSeen'
  <2> SUFFICES ASSUME NEW j \in Free', items'[j].status \in Over, render' # "sync"
               PROVE  \/ seen[j].status = items'[j].status
                      \/ seen[j].status \in Underway /\ ~Working
    BY <1>w DEF OverIsSeen
  <2>1. items'[j] = items[j]
    BY <1>f DEF Clicked, Over, NoItem
  <2> QED  BY <2>1, <1>f DEF OverIsSeen
<1>4. RefusedIsStopped'
  <2> SUFFICES ASSUME NEW w \in Workers, NEW j \in Free' \cap refused', run[w].item = j
               PROVE  Stopped(run'[w])
    BY <1>w DEF RefusedIsStopped
  <2>1. CASE j \in refused
    BY <2>1, <1>f DEF RefusedIsStopped, StopsStay
  <2>2. CASE j \notin refused
    BY <2>2, <1>f
  <2> QED  BY <2>1, <2>2
<1>5. RefusedRests'
  <2> SUFFICES ASSUME NEW j \in Free' \cap refused', \A w \in Workers : run[w].item # j
               PROVE  /\ items'[j].status \in AtRest
                      /\ seen[j].status \in AtRest \cup Underway
                      /\ Working => seen[j].status \in AtRest
    BY <1>w DEF RefusedRests
  <2>1. j \in refused /\ j \in Free /\ j \in Items
    BY <1>f
  <2>2. /\ items[j].status \in AtRest
        /\ seen[j].status \in AtRest \cup Underway
        /\ Working => seen[j].status \in AtRest
    BY <2>1 DEF RefusedRests
  <2>3. seen[j].status # "awaiting_conflict" /\ items[j].status # "awaiting_conflict" /\ j # added + 1
    BY <2>1, <2>2, TypeParts DEF AtRest, Underway, Born, RestTypes
  <2>4. items'[j] \in {items[j], NoItem} \/ items'[j].status = "cancelled"
    BY <2>1, <2>3, <1>f DEF Clicked
  <2>5. "cancelled" \in AtRest
    BY DEF AtRest
  <2> QED  BY <2>2, <2>4, <2>5, NothingIsAbsent
<1>6. OverStays
  <2> SUFFICES ASSUME NEW j \in Items, items[j].status \in Over, j \notin misled' \cup revived'
               PROVE  items'[j].status \in {items[j].status, "absent"}
    BY DEF OverStays
  <2>1. j \in Free
    BY DEF Free, Grows
  <2>2. seen[j].status \notin {"paused", "awaiting_conflict"}
    BY <2>1 DEF OverIsSeen, Over, Underway
  <2>3. items[j].status \notin {"awaiting_conflict", "absent"} /\ j # added + 1
    <3>1. items[j] # NoItem
      BY DEF Over, NoItem
    <3>2. j # added + 1
      BY <3>1, TypeParts DEF Born, RestTypes
    <3> QED  BY <3>2 DEF Over
  <2>4. items'[j] \in {items[j], NoItem}
    BY <2>2, <2>3 DEF Clicked
  <2> QED  BY <2>4, NothingIsAbsent
<1> QED  BY <1>2, <1>3, <1>4, <1>5, <1>6
Handled(j) == Clicked(j) /\ (items[j] = NoItem => items'[j] = NoItem \/ j = added')

LEMMA PutHandled ==
  ASSUME TypeOK, NEW i \in Items, NEW r, items' = Put(items, i, r), Present(items, i),
         items'[i] = r => Clicked(i)
  PROVE  \A j \in Items : Handled(j)
<1>1. items \in Lists
  BY TypeParts DEF ListTypes
<1>2. \A j \in Items \ {i} : items'[j] = items[j]
  BY <1>1, PutAt
<1>3. items'[i] = r /\ items[i] # NoItem
  BY <1>1, PutAt, NothingIsAbsent DEF Present
<1> QED  BY <1>2, <1>3 DEF Handled, Clicked

LEMMA SameHandled ==
  ASSUME items' = items
  PROVE  \A j \in Items : Handled(j)
BY DEF Handled, Clicked

LEMMA AbsentPut ==
  ASSUME NEW i, NEW r, items' = Put(items, i, r), ~Present(items, i)
  PROVE  items' = items
BY DEF Put

LEMMA GoneHandled ==
  ASSUME TypeOK, NEW i \in Items, items' = [items EXCEPT ![i] = NoItem]
  PROVE  \A j \in Items : Handled(j)
BY TypeParts DEF ListTypes, Lists, Handled, Clicked

LEMMA StatusOf ==
  ASSUME TypeOK, NEW i \in Items, NEW s
  PROVE  [items[i] EXCEPT !.status = s].status = s
BY TypeParts DEF ListTypes, Lists, Item, Row, NoItem

LEMMA RowClicks ==
  ASSUME TypeOK, NEW i \in Items, Cancel(i) \/ Pause(i) \/ Resume(i) \/ ClearDone(i)
  PROVE  \A j \in Items : Handled(j)
<1>1. CASE CancelWaiting(i)
  BY <1>1, GoneHandled DEF CancelWaiting, Click
<1>2. CASE CancelRunning(i) \/ Pause(i)
  BY <1>2, SameHandled DEF CancelRunning, Pause
<1>3. CASE CancelPaused(i)
  <2> DEFINE r == [items[i] EXCEPT !.status = "cancelled"]
  <2>1. items' = Put(items, i, r) /\ render' = "sync" /\ seen[i].status = "paused"
    BY <1>3 DEF CancelPaused, Click, Status
  <2>2. r.status = "cancelled"
    BY StatusOf
  <2> HIDE DEF r
  <2> QED  BY <2>1, <2>2, PutHandled, AbsentPut, SameHandled DEF Clicked
<1>4. CASE Resume(i)
  <2>1. CASE items[i].status = "paused"
    <3> DEFINE r == [items[i] EXCEPT !.status = "pending"]
    <3>1. /\ items' = Put(items, i, r) /\ render' = "sync" /\ seen[i].status = "paused"
          /\ i \notin refused'
      BY <1>4, <2>1 DEF Resume, Click, Status
    <3>2. r.status = "pending"
      BY StatusOf
    <3> HIDE DEF r
    <3> QED  BY <2>1, <3>1, <3>2, PutHandled, AbsentPut, SameHandled DEF Clicked
  <2>2. CASE items[i].status # "paused"
    BY <1>4, <2>2, SameHandled DEF Resume, Click
  <2> QED  BY <2>1, <2>2
<1>5. CASE ClearDone(i)
  BY <1>5, GoneHandled, SameHandled DEF ClearDone, Click
<1> QED  BY <1>1, <1>2, <1>3, <1>4, <1>5 DEF Cancel

LEMMA OtherClicks ==
  ASSUME TypeOK, Born,
         \/ \E p \in Dropped : AddFile(p)
         \/ \E e \in records : ResumeRecord(e)
         \/ \E i \in Items, p \in Paths : Named(i, p)
         \/ \E choice \in Resolutions, all \in BOOLEAN : Resolve(choice, all)
         \/ ClearFinished
         \/ \E d \in deletes, ok \in BOOLEAN : Deleted(d, ok)
  PROVE  \A j \in Items : Handled(j)
<1>t. items \in Lists
  BY TypeParts DEF ListTypes
<1>1. ASSUME NEW r, Enqueue(r), r.status = "pending"
      PROVE  \A j \in Items : Handled(j)
  <2>1. /\ added + 1 \in Items /\ items' = [items EXCEPT ![added + 1] = r]
        /\ added' = added + 1
    BY <1>1, TypeParts, QueueAssumption DEF Enqueue, Queue, RestTypes, Items
  <2>2. \A j \in Items \ {added + 1} : items'[j] = items[j]
    BY <2>1, <1>t DEF Lists
  <2>3. items'[added + 1].status = "pending"
    BY <2>1, <1>1, <1>t DEF Lists
  <2> QED  BY <2>1, <2>2, <2>3 DEF Handled, Clicked
<1>2. CASE \E p \in Dropped : AddFile(p)
  BY <1>2, <1>1 DEF AddFile, NoItem
<1>3. CASE \E e \in records : ResumeRecord(e)
  BY <1>3, <1>1 DEF ResumeRecord
<1>4. ASSUME NEW i \in Items, NEW p \in Paths, Named(i, p)
      PROVE  \A j \in Items : Handled(j)
  <2> DEFINE r == [items[i] EXCEPT !.dest = Renamed[p], !.status = "pending"]
  <2>1. /\ items' = Put(items, i, r)
        /\ items[i].status # "awaiting_conflict" => i \in revived'
    BY <1>4 DEF Named, Queue
  <2>2. r.status = "pending"
    BY <1>t DEF Lists, Item, Row, NoItem
  <2> HIDE DEF r
  <2>3. items'[i] = r => Clicked(i)
    BY <2>1, <2>2 DEF Clicked
  <2> QED  BY <2>1, <2>3, PutHandled, AbsentPut, SameHandled
<1>5. ASSUME NEW choice \in Resolutions, NEW all \in BOOLEAN, Resolve(choice, all)
      PROVE  \A j \in Items : Handled(j)
  <2>1. CASE choice = "keep_both"
    BY <2>1, <1>5, SameHandled DEF Resolve
  <2>2. CASE choice # "keep_both"
    <3>1. PICK i \in Items :
            /\ seen[i].status = "awaiting_conflict" /\ render' = "sync"
            /\ \/ items' = Put(items, i, [items[i] EXCEPT !.status = "cancelled"])
               \/ items' = Put(items, i, [items[i] EXCEPT !.status = "pending", !.overwrite = TRUE])
      BY <2>2, <1>5 DEF Resolve, Click, Resolutions, Status, First, Asked
    <3>2. PICK r : items' = Put(items, i, r) /\ r.status \in {"cancelled", "pending"}
      <4>1. [items[i] EXCEPT !.status = "pending", !.overwrite = TRUE].status = "pending"
        BY <1>t DEF Lists, Item, Row, NoItem
      <4>2. CASE items' = Put(items, i, [items[i] EXCEPT !.status = "cancelled"])
        BY <4>2, StatusOf
      <4>3. CASE items' = Put(items, i, [items[i] EXCEPT !.status = "pending", !.overwrite = TRUE])
        BY <4>1, <4>3
      <4> QED  BY <3>1, <4>2, <4>3
    <3>3. items'[i] = r => Clicked(i)
      BY <3>1, <3>2 DEF Clicked
    <3> QED  BY <3>2, <3>3, PutHandled, AbsentPut, SameHandled
  <2> QED  BY <2>1, <2>2
<1>6. CASE ClearFinished
  <2>1. \A j \in Items : items'[j] = items[j] \/ items'[j] = NoItem
    BY <1>6 DEF ClearFinished, Click
  <2> QED  BY <2>1 DEF Handled, Clicked
<1>7. CASE \E d \in deletes, ok \in BOOLEAN : Deleted(d, ok)
  BY <1>7, SameHandled DEF Deleted, list
<1> QED  BY <1>2, <1>3, <1>4, <1>5, <1>6, <1>7

LEMMA UserKept ==
  ASSUME TypeOK, Mutex, Shown, Kept, render # "sync",
         \/ \E i \in Items : Cancel(i) \/ Pause(i) \/ Resume(i) \/ ClearDone(i)
         \/ \E p \in Dropped : AddFile(p)
         \/ \E i \in Items, p \in Paths : Named(i, p)
         \/ \E e \in records : ResumeRecord(e)
         \/ \E choice \in Resolutions, all \in BOOLEAN : Resolve(choice, all)
         \/ ClearFinished
         \/ \E d \in deletes, ok \in BOOLEAN : Deleted(d, ok)
  PROVE  Kept' /\ OverStays
<1>h. \A j \in Items : Handled(j)
  BY RowClicks, OtherClicks DEF Kept
<1>g. GoesOn /\ seen' = seen /\ \A j \in Items : flush'[j] \in {flush[j], NoItem}
  BY UserGoesOn
<1>m. Grows /\ (added' = added \/ added' = added + 1)
  BY DEF Cancel, CancelWaiting, CancelPaused, CancelRunning, Pause, Resume, ClearDone,
         AddFile, ResumeRecord, Enqueue, Named, Resolve, ClearFinished, Deleted,
         history, marked, bounds, Grows
<1>s. StopsStay
  <2>1. ASSUME NEW i \in Items, CancelRunning(i) \/ Pause(i)
        PROVE  StopsStay
    BY <2>1, AbortStops DEF CancelRunning, Pause
  <2>2. CASE run' = run
    BY <2>2 DEF StopsStay
  <2>3. run' = run \/ \E i \in Items : CancelRunning(i) \/ Pause(i)
    BY DEF Cancel, CancelWaiting, CancelPaused, Resume, ClearDone, AddFile, ResumeRecord,
           Enqueue, Named, Resolve, ClearFinished, Deleted, worker
  <2> QED  BY <2>1, <2>2, <2>3
<1>r. \A j \in refused' : \/ j \in refused
                          \/ /\ j \in Items /\ seen[j] # NoItem
                             /\ \E w \in Workers : run[w].item = j
                             /\ \A w \in Workers : run[w].item = j /\ j \in Free => Stopped(run'[w])
  <2>1. ASSUME NEW i \in Items, CancelRunning(i), NEW j \in refused', j \notin refused
        PROVE  /\ j \in Items /\ seen[j] # NoItem /\ \E w \in Workers : run[w].item = j
               /\ \A w \in Workers : run[w].item = j /\ j \in Free => Stopped(run'[w])
    <3>1. j = i /\ ~Calm(seen[i]) /\ run' = Abort(i) /\ \E w \in Workers : run[w].item = j
      BY <2>1 DEF CancelRunning, Calm, BusyStatus
    <3>2. \A w \in Workers : run[w].item = i /\ i \in Free => run[w].pc \notin Early
      BY <3>1 DEF Shown, EarlyIsQuiet, Untouched, Free
    <3>3. seen[j] # NoItem
      BY <3>1, NoItemCalm
    <3> QED  BY <3>1, <3>2, <3>3, AbortStops
  <2>2. refused' \subseteq refused \/ \E i \in Items : CancelRunning(i)
    BY DEF Cancel, CancelWaiting, CancelPaused, Pause, Resume, ClearDone, AddFile, ResumeRecord,
           Enqueue, Named, Resolve, ClearFinished, Deleted, history, marked
  <2> QED  BY <2>1, <2>2
<1>b. Born'
  <2>1. added \in Nat /\ \A j \in Items : j \in Nat
    BY TypeParts, QueueAssumption DEF RestTypes, Items
  <2>2. refused' \subseteq Items
    BY <1>r, TypeParts DEF RestTypes
  <2>3. \A j \in refused' : j <= added
    BY <1>r, <2>1, <2>2 DEF Kept, Born
  <2>4. \A j \in Items : j > added' => items'[j] = NoItem /\ seen[j] = NoItem
    BY <1>h, <1>m, <2>1 DEF Kept, Born, Handled
  <2> QED  BY <1>g, <1>m, <2>1, <2>2, <2>3, <2>4 DEF Born
<1> QED  BY <1>h, <1>g, <1>m, <1>s, <1>r, <1>b, ClickKept DEF Handled

LEMMA RefusedRow ==
  ASSUME TypeOK, Kept
  PROVE  RefusedNeverFinishes
<1> SUFFICES ASSUME NEW i \in Free \cap refused
             PROVE  items[i].status # "done"
  BY TypeParts DEF RefusedNeverFinishes, Free, RestTypes
<1>1. items[i].status \in Underway \cup AtRest
  BY DEF Kept, WorkedIsLive, RefusedRests
<1> QED  BY <1>1 DEF Underway, AtRest

LEMMA KeptStep ==
  ASSUME TypeOK, Mutex, Shown, Kept, [Next]_vars
  PROVE  Kept' /\ OverStays
<1>1. CASE Next
  <2>1. Render \/ (render # "sync" /\ Task)
    BY <1>1 DEF Next, Microtask, Urgent, Task
  <2> QED  BY <2>1, RenderKept, WorkKept, ProgressKept, UserKept DEF Task
<1>2. CASE UNCHANGED vars
  <2>1. UNCHANGED <<items, seen, render, flush, run, misled, revived, refused, added>>
    BY <1>2 DEF vars, list, worker, history, marked, bounds
  <2> QED  BY <2>1 DEF Kept, Born, WorkedIsLive, OverIsSeen, RefusedIsStopped, RefusedRests, Free,
                       Working, Works, OverStays, Stopped
<1> QED  BY <1>1, <1>2
LEMMA KeptFirst == Init => Mutex /\ Shown /\ Kept
<1> SUFFICES ASSUME Init
             PROVE  Mutex /\ Shown /\ Kept
  OBVIOUS
<1>1. Mutex /\ Shown
  BY DEF Init, Mutex, OneUploadAtATime, BusyTells, Works, NoRun, NoItem, Shown, SeenIsOld,
         ShownBusyIsWorked, DeferredIsWorked, EarlyIsQuiet, Untouched, Early, BusyStatus
<1>2. \A i \in Items : items[i] = NoItem /\ seen[i] = NoItem /\ refused = {}
  BY DEF Init
<1>3. \A w \in Workers, i \in Items : run[w].item # i
  BY QueueAssumption DEF Init, NoRun
<1>4. Kept
  BY <1>2, <1>3 DEF Init, Kept, Born, WorkedIsLive, OverIsSeen, RefusedIsStopped, RefusedRests,
                    Free, NoItem, Over
<1> QED  BY <1>1, <1>4

\* A file whose upload the user cancelled while it ran never finishes: the signal
\* that stops it stays fired until the row is at rest, and a row at rest is not
\* started again unless the user resumes it (upload-queue.ts:703, 736-741,
\* 1211-1213).
THEOREM RefusedUploadsStop == Spec => []RefusedNeverFinishes
<1>1. TypeOK /\ Mutex /\ Shown /\ Kept /\ [Next]_vars => Mutex' /\ Shown' /\ Kept'
  BY MutexStep, ShownStep, KeptStep
<1> QED  BY <1>1, KeptFirst, RefusedRow, QueueTypeCorrect, PTL DEF Spec

\* A row that is over stays as it is until it is cleared: no patch of the list as
\* it was rendered, no deferred snapshot and no click on an old rendering brings
\* it back (upload-queue.ts:481, 933-943, 1211-1240).
THEOREM OverRowsStay == Spec => OverIsOver
<1>1. TypeOK /\ Mutex /\ Shown /\ Kept /\ [Next]_vars => Mutex' /\ Shown' /\ Kept'
  BY MutexStep, ShownStep, KeptStep
<1>2. TypeOK /\ Mutex /\ Shown /\ Kept /\ [Next]_vars =>
        [\A i \in Items :
           items[i].status \in Over /\ i \notin misled' \cup revived'
             => items'[i].status \in {items[i].status, "absent"}]_vars
  BY KeptStep DEF OverStays
<1> QED  BY <1>1, <1>2, KeptFirst, QueueTypeCorrect, PTL DEF Spec, OverIsOver
=============================================================================
