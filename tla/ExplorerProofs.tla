---------------------------- MODULE ExplorerProofs ----------------------------
(***************************************************************************)
(* Proofs about Explorer: the types, that the entries on screen are those  *)
(* of the directory the page names, that the address bar names it too, and *)
(* that a listing which is out of date is noticed, for any directories,    *)
(* any number of changes, loads, failures and lost connections.  And about *)
(* Selection: what operations act on is shown, and a refresh keeps what is *)
(* selected, for any entries, listing order and gestures.                  *)
(***************************************************************************)
EXTENDS Explorer, Selection, TLAPS, SequenceTheorems, FiniteSetTheorems

-----------------------------------------------------------------------------
(* The invariant. *)

(* Loads: each has a number of its own, the newest one is for the current path,
   and what it left is in the snapshot unless it keeps the selection. *)
LoadsInOrder ==
  /\ \A l \in loads : l.gen <= generation
  /\ \A l, k \in loads : Newest(l) /\ Newest(k) => l = k
  /\ loading <=> \E l \in loads : Newest(l)
LoadsKnowTheirPath ==
  /\ \A l \in loads : Newest(l) => l.path = current
  /\ \A l \in loads : l.kind = "refresh" => l.back = l.path
  /\ \A l \in loads : l.kind # "refresh" => ~l.keep
SnapshotIsOfTheLoad ==
  /\ \A l \in loads : Newest(l) /\ l.keep => snapshot = NoSnapshot
  /\ \A l \in loads : Newest(l) /\ ~l.keep => snapshot # NoSnapshot /\ snapshot.path = l.back
  /\ ~loading => snapshot = NoSnapshot

(* Kernel listings have one page, in the snapshot too. *)
OnePage ==
  mode = "kernel" /\ snapshot # NoSnapshot => snapshot.cursor = None /\ snapshot.shown.tail = {}

(* The entries: they belong to one directory, with their cursor and the page
   under way; a navigation leaves the listing of the path it comes from. *)
CursorFollows ==
  /\ cursor # None => cursor = shown.dir
  /\ snapshot # NoSnapshot /\ snapshot.cursor # None => snapshot.cursor = snapshot.shown.dir
EntriesBelong ==
  ~overlapped =>
    /\ shown.tail \subseteq {shown.dir}
    /\ page # None => page = shown.dir
    /\ snapshot = NoSnapshot => shown.dir = current
    /\ snapshot # NoSnapshot => /\ snapshot.path = shown.dir /\ snapshot.shown.dir = shown.dir
                          /\ snapshot.shown.tail \subseteq {shown.dir}

(* The address: a navigation pushes its path when it is loaded, a step in the
   history has moved already and is undone when its load does not count. *)
Moves == {l \in loads : l.kind # "refresh"}
AddressFollows ==
  ~crossed =>
    /\ \A l, k \in Moves : l = k
    /\ \A l \in Moves : ~Newest(l) => ~loading
    /\ Moves = {} => urls[pos] = current
    /\ \A l \in Moves : l.kind = "navigate" =>
          urls[pos] = IF Newest(l) THEN l.back ELSE current
    /\ \A l \in Moves : l.kind = "back" =>
          IF Newest(l) THEN urls[pos] = l.path ELSE current = l.back

(* What is out of date: any listing that is kept, and any answer on its way. *)
Announced(d) ==
  \/ pending # None /\ Covers(pending, d)
  \/ \E i \in DOMAIN queue : Covers(queue[i], d)
Noticed(s) == s.version # version[s.dir] => s.dir \in missed \/ OnItsWay(s.dir)
StaleIsNoticed ==
  /\ Noticed(shown)
  /\ snapshot # NoSnapshot => Noticed(snapshot.shown)
  /\ \A l \in loads : Newest(l) /\ l.seen # None /\ l.seen # version[l.path] =>
        l.path \in missed \/ Announced(l.path)

KernelTypes ==
  /\ mode \in {"kernel", "bucket"}
  /\ version \in [Dirs -> Nat] /\ acting \in SUBSET Dirs
  /\ pending \in Event \cup {None} /\ socket \in {"closed", "greeted", "open"}
QueueTypes == queue \in Seq(Event) /\ Len(queue) <= Capacity
Snapshot == [path : Dirs, shown : Listing, cursor : Dirs \cup {None}]
ListingTypes ==
  /\ current \in Dirs /\ shown \in Listing /\ cursor \in Dirs \cup {None}
  /\ loading \in BOOLEAN /\ generation \in Nat
  /\ snapshot # NoSnapshot => snapshot \in Snapshot
  /\ loads \in SUBSET Load_
PageTypes ==
  /\ page \in Dirs \cup {None} /\ editing \in BOOLEAN
  /\ mode = "kernel" => cursor = None /\ page = None /\ shown.tail = {}
HistoryTypes == urls \in Seq(Dirs) /\ pos \in DOMAIN urls
LossTypes == missed \in SUBSET Dirs /\ overlapped \in BOOLEAN /\ crossed \in BOOLEAN

LEMMA TypeParts ==
  TypeOK <=> /\ KernelTypes /\ QueueTypes /\ ListingTypes /\ PageTypes
             /\ HistoryTypes /\ LossTypes
BY DEF TypeOK, KernelTypes, QueueTypes, ListingTypes, PageTypes, HistoryTypes, LossTypes,
       Snapshot

LEMMA NextTypeParts ==
  TypeOK' <=> /\ KernelTypes' /\ QueueTypes' /\ ListingTypes' /\ PageTypes'
              /\ HistoryTypes' /\ LossTypes'
BY DEF TypeOK, KernelTypes, QueueTypes, ListingTypes, PageTypes, HistoryTypes, LossTypes,
       Snapshot

ScreenInv ==
  /\ LoadsInOrder /\ LoadsKnowTheirPath /\ SnapshotIsOfTheLoad
  /\ OnePage /\ CursorFollows /\ EntriesBelong
IInv == TypeOK /\ ScreenInv /\ AddressFollows /\ StaleIsNoticed

-----------------------------------------------------------------------------
(* Paths and events. *)

LEMMA DirsAreSequences ==
  ASSUME NEW d \in Dirs
  PROVE  /\ d \in Seq({d[i] : i \in DOMAIN d}) /\ Len(d) \in Nat
         /\ Entry(d) \in Event /\ d \in Event
BY ExplorerAssumption DEF Event

LEMMA DirsOver ==
  ASSUME NEW d \in Dirs, NEW S, \A i \in DOMAIN d : d[i] \in S
  PROVE  d \in Seq(S)
<1> DEFINE T == {d[i] : i \in DOMAIN d}
<1>1. d \in Seq(T)
  BY DirsAreSequences
<1> HIDE DEF T
<1>2. d \in [1 .. Len(d) -> T] /\ Len(d) \in Nat
  BY <1>1
<1>3. d \in [1 .. Len(d) -> S]
  BY <1>2
<1> QED  BY <1>2, <1>3, SeqDef

LEMMA EntryCovers ==
  ASSUME NEW d \in Dirs
  PROVE  Covers(Entry(d), d)
<1> DEFINE S == {d[i] : i \in DOMAIN d} \cup {File}
<1>1. d \in Seq(S) /\ File \in S
  BY DirsOver
<1> HIDE DEF S
<1>2. /\ Entry(d) \in Seq(S) /\ Len(Entry(d)) = Len(d) + 1 /\ Len(d) \in Nat
      /\ \A i \in 1 .. Len(d) : Entry(d)[i] = d[i]
  BY <1>1 DEF Entry
<1>3. SubSeq(Entry(d), 1, Len(d)) = d
  <2>1. /\ SubSeq(Entry(d), 1, Len(d)) \in Seq(S)
        /\ Len(SubSeq(Entry(d), 1, Len(d))) = Len(d)
        /\ \A i \in 1 .. Len(d) : SubSeq(Entry(d), 1, Len(d))[i] = Entry(d)[i]
    BY <1>2
  <2> QED  BY <1>1, <1>2, <2>1, SeqEqual
<1>4. d = Root => Len(Entry(d)) <= 1
  BY <1>2 DEF Root
<1> QED  BY <1>2, <1>3, <1>4 DEF Covers

LEMMA PublishType ==
  ASSUME QueueTypes, LossTypes, NEW path \in Event, Publish(path)
  PROVE  QueueTypes' /\ missed' \in SUBSET Dirs
<1>1. CASE socket # "open"
  BY <1>1 DEF Publish, QueueTypes, LossTypes, About
<1>2. CASE socket = "open" /\ Len(queue) < Capacity
  BY <1>2, ExplorerAssumption DEF Publish, QueueTypes, LossTypes
<1>3. CASE socket = "open" /\ ~(Len(queue) < Capacity)
  <2>1. queue # <<>> /\ Len(queue) \in Nat \ {0}
    BY <1>3, ExplorerAssumption DEF QueueTypes
  <2>2. Tail(queue) \in Seq(Event) /\ Len(Tail(queue)) = Len(queue) - 1
    BY <2>1 DEF QueueTypes
  <2> QED  BY <1>3, <2>1, <2>2, ExplorerAssumption DEF Publish, QueueTypes, LossTypes, About
<1> QED  BY <1>1, <1>2, <1>3

Queued(d) == \E i \in DOMAIN queue : Covers(queue[i], d)

(* No event gets lost unnoticed: what was queued or is published is queued, or
   its directories are counted as missed. *)
LEMMA PublishKeeps ==
  ASSUME QueueTypes, NEW path \in Event, Publish(path), NEW d \in Dirs,
         Queued(d) \/ Covers(path, d)
  PROVE  d \in missed' \/ Queued(d)'
<1>1. CASE socket # "open"
  BY <1>1 DEF Publish, About, Queued
<1>2. CASE socket = "open" /\ Len(queue) < Capacity
  <2>1. queue' = Append(queue, path) /\ queue \in Seq(Event)
    BY <1>2 DEF Publish, QueueTypes
  <2>2. /\ DOMAIN queue' = 1 .. Len(queue) + 1 /\ DOMAIN queue = 1 .. Len(queue)
        /\ queue'[Len(queue) + 1] = path /\ Len(queue) \in Nat
        /\ \A i \in 1 .. Len(queue) : queue'[i] = queue[i]
    BY <2>1
  <2> QED  BY <2>2 DEF Queued
<1>3. CASE socket = "open" /\ ~(Len(queue) < Capacity)
  <2>1. /\ queue' = Append(Tail(queue), path) /\ queue \in Seq(Event)
        /\ missed' = missed \cup About(Head(queue))
    BY <1>3 DEF Publish, QueueTypes
  <2>2. queue # <<>> /\ Len(queue) \in Nat \ {0}
    BY <1>3, ExplorerAssumption DEF QueueTypes
  <2>3. /\ Tail(queue) \in Seq(Event) /\ Len(Tail(queue)) = Len(queue) - 1
        /\ \A i \in 1 .. Len(queue) - 1 : Tail(queue)[i] = queue[i + 1]
        /\ Head(queue) = queue[1]
    BY <2>1, <2>2
  <2>4. /\ DOMAIN queue' = 1 .. Len(queue) /\ DOMAIN queue = 1 .. Len(queue)
        /\ queue'[Len(queue)] = path
        /\ \A i \in 1 .. Len(queue) - 1 : queue'[i] = queue[i + 1]
    BY <2>1, <2>2, <2>3
  <2>5. CASE Covers(path, d)
    BY <2>2, <2>4, <2>5 DEF Queued
  <2>6. ASSUME NEW i \in DOMAIN queue, Covers(queue[i], d)
        PROVE  d \in missed' \/ Queued(d)'
    <3>1. CASE i = 1
      BY <2>1, <2>3, <2>6, <3>1 DEF About
    <3>2. CASE i # 1
      <4>1. i - 1 \in 1 .. Len(queue) - 1 /\ queue'[i - 1] = queue[i]
        BY <2>2, <2>4, <3>2
      <4>2. i - 1 \in DOMAIN queue'
        BY <2>2, <2>4, <4>1
      <4> QED  BY <2>6, <4>1, <4>2 DEF Queued
    <3> QED  BY <3>1, <3>2
  <2> QED  BY <2>5, <2>6 DEF Queued
<1> QED  BY <1>1, <1>2, <1>3

-----------------------------------------------------------------------------
(* Steps of the kernel: the screen stays as it is. *)

LEMMA ScreenStays ==
  ASSUME TypeOK, ScreenInv, AddressFollows, Screen, mode' = mode
  PROVE  /\ ListingTypes' /\ PageTypes' /\ HistoryTypes'
         /\ overlapped' \in BOOLEAN /\ crossed' \in BOOLEAN
         /\ ScreenInv' /\ AddressFollows'
<1> USE TypeParts
<1>1. ListingTypes' /\ PageTypes' /\ HistoryTypes'
  BY DEF Screen, listing, history, ListingTypes, PageTypes, HistoryTypes
<1>2. overlapped' \in BOOLEAN /\ crossed' \in BOOLEAN
  BY DEF Screen, LossTypes
<1>3. LoadsInOrder' /\ LoadsKnowTheirPath' /\ SnapshotIsOfTheLoad'
  BY DEF ScreenInv, Screen, listing, LoadsInOrder, LoadsKnowTheirPath,
         SnapshotIsOfTheLoad, Newest
<1>4. OnePage' /\ CursorFollows' /\ EntriesBelong'
  BY DEF ScreenInv, Screen, listing, OnePage, CursorFollows, EntriesBelong
<1>5. AddressFollows'
  BY DEF AddressFollows, Screen, listing, history, Moves, Newest
<1> QED  BY <1>1, <1>2, <1>3, <1>4, <1>5 DEF ScreenInv

(* What is out of date stays noticed when no event is lost unnoticed. *)
LEMMA NoticedStays ==
  ASSUME TypeOK, StaleIsNoticed, UNCHANGED <<listing, version>>, missed \subseteq missed',
         \A d \in Dirs : Announced(d) => d \in missed' \/ Announced(d)'
  PROVE  StaleIsNoticed'
<1> USE TypeParts
<1>1. ASSUME NEW s \in Listing, Noticed(s)
      PROVE  Noticed(s)'
  <2>1. s.dir \in Dirs
    BY DEF Listing
  <2> QED  BY <1>1, <2>1 DEF Noticed, OnItsWay, Announced, listing, Newest
<1>2. ASSUME NEW l \in loads', Newest(l)', l.seen # None, l.seen # version[l.path]
      PROVE  l.path \in missed' \/ Announced(l.path)'
  <2>1. l.path \in Dirs /\ l \in loads /\ Newest(l)
    BY <1>2 DEF ListingTypes, Load_, listing, Newest
  <2> QED  BY <1>2, <2>1 DEF StaleIsNoticed
<1>3. shown \in Listing /\ (snapshot # NoSnapshot => snapshot.shown \in Listing)
  BY DEF ListingTypes, Snapshot
<1> QED  BY <1>1, <1>2, <1>3 DEF StaleIsNoticed, listing, Noticed

LEMMA ChangeStep ==
  ASSUME IInv, NEW d \in Dirs, NEW byAction \in BOOLEAN, Change(d, byAction)
  PROVE  IInv'
<1> USE TypeParts, NextTypeParts
<1>1. /\ version' = [version EXCEPT ![d] = @ + 1]
      /\ UNCHANGED <<mode, socket, queue>> /\ Screen
  BY DEF Change
<1>2. /\ pending' \in Event \cup {None} /\ acting' \in SUBSET Dirs
      /\ missed' \in SUBSET Dirs
  BY DirsAreSequences DEF Change, IInv, KernelTypes, LossTypes, About
<1>3. TypeOK' /\ ScreenInv' /\ AddressFollows'
  <2>1. version' \in [Dirs -> Nat]
    BY <1>1 DEF IInv, KernelTypes
  <2>2. KernelTypes' /\ QueueTypes'
    BY <1>1, <1>2, <2>1 DEF IInv, KernelTypes, QueueTypes
  <2> QED  BY <1>1, <1>2, <2>2, ScreenStays DEF IInv, LossTypes
<1>4. /\ missed \subseteq missed'
      /\ d \in missed' \/ Announced(d)'
      /\ \A e \in Dirs : Announced(e) => e \in missed' \/ Announced(e)'
  <2>1. CASE mode = "kernel"
    <3>1. /\ pending' = Entry(d)
          /\ missed' = IF pending = None THEN missed
                       ELSE missed \cup (About(pending) \ About(Entry(d)))
      BY <2>1 DEF Change
    <3>2. pending' # None
      BY <3>1, ExplorerAssumption DEF Entry
    <3>3. Announced(d)'
      BY <3>1, <3>2, EntryCovers DEF Announced
    <3>4. ASSUME NEW e \in Dirs, Announced(e)
          PROVE  e \in missed' \/ Announced(e)'
      BY <1>1, <3>1, <3>2, <3>4 DEF Announced, About
    <3> QED  BY <3>1, <3>3, <3>4
  <2>2. CASE mode # "kernel"
    <3>1. missed' = missed \cup {d} /\ UNCHANGED pending
      BY <2>2 DEF Change
    <3> QED  BY <1>1, <3>1 DEF Announced
  <2> QED  BY <2>1, <2>2
<1>5. StaleIsNoticed'
  <2>1. ASSUME NEW s \in Listing, Noticed(s)
        PROVE  Noticed(s)'
    <3>1. s.dir \in Dirs
      BY DEF Listing
    <3>2. CASE s.dir = d
      BY <1>4, <3>2 DEF Noticed, OnItsWay, Announced
    <3>3. CASE s.dir # d
      <4>1. version'[s.dir] = version[s.dir]
        BY <1>1, <3>1, <3>3 DEF IInv, KernelTypes
      <4> QED  BY <1>1, <1>4, <2>1, <3>1, <4>1
               DEF Noticed, OnItsWay, Announced, Screen, listing, Newest
    <3> QED  BY <3>2, <3>3
  <2>2. ASSUME NEW l \in loads', Newest(l)', l.seen # None, l.seen # version'[l.path]
        PROVE  l.path \in missed' \/ Announced(l.path)'
    <3>1. l.path \in Dirs /\ l \in loads /\ Newest(l)
      BY <1>1, <2>2 DEF IInv, ListingTypes, Load_, Screen, listing, Newest
    <3>2. CASE l.path = d
      BY <1>4, <3>2
    <3>3. CASE l.path # d
      <4>1. version'[l.path] = version[l.path]
        BY <1>1, <3>1, <3>3 DEF IInv, KernelTypes
      <4> QED  BY <1>4, <2>2, <3>1, <4>1 DEF IInv, StaleIsNoticed
    <3> QED  BY <3>2, <3>3
  <2>3. shown \in Listing /\ (snapshot # NoSnapshot => snapshot.shown \in Listing)
    BY DEF IInv, ListingTypes, Snapshot
  <2>4. UNCHANGED <<shown, snapshot>>
    BY <1>1 DEF Screen, listing
  <2>5. Noticed(shown)' /\ (snapshot' # NoSnapshot => Noticed(snapshot.shown)')
    BY <2>1, <2>3, <2>4 DEF IInv, StaleIsNoticed, Noticed
  <2> QED  BY <2>2, <2>4, <2>5 DEF StaleIsNoticed
<1> QED  BY <1>3, <1>5 DEF IInv

LEMMA KernelStep ==
  ASSUME IInv, Screen, UNCHANGED <<mode, version>>, KernelTypes', QueueTypes',
         missed' \in SUBSET Dirs, missed \subseteq missed',
         \A d \in Dirs : Announced(d) => d \in missed' \/ Announced(d)'
  PROVE  IInv'
<1> USE TypeParts, NextTypeParts
<1>1. /\ ListingTypes' /\ PageTypes' /\ HistoryTypes'
      /\ overlapped' \in BOOLEAN /\ crossed' \in BOOLEAN
      /\ ScreenInv' /\ AddressFollows'
  BY ScreenStays DEF IInv
<1>2. LossTypes'
  BY <1>1 DEF LossTypes
<1>3. StaleIsNoticed'
  BY NoticedStays DEF IInv, Screen
<1> QED  BY <1>1, <1>2, <1>3 DEF IInv

LEMMA ActionEndsStep ==
  ASSUME IInv, NEW d \in Dirs, ActionEnds(d)
  PROVE  IInv'
<1> USE TypeParts
<1>1. /\ acting' = acting \ {d} /\ Publish(d) /\ Screen
      /\ UNCHANGED <<mode, version, pending, socket>>
  BY DEF ActionEnds
<1>2. QueueTypes' /\ missed' \in SUBSET Dirs
  BY <1>1, DirsAreSequences, PublishType DEF IInv
<1>3. KernelTypes'
  BY <1>1 DEF IInv, KernelTypes
<1>4. missed \subseteq missed'
  BY <1>1 DEF Publish
<1>5. ASSUME NEW e \in Dirs, Announced(e)
      PROVE  e \in missed' \/ Announced(e)'
  BY <1>1, <1>5, DirsAreSequences, PublishKeeps DEF IInv, Announced, Queued
<1> QED  BY <1>1, <1>2, <1>3, <1>4, <1>5, KernelStep

LEMMA WatchFiresStep ==
  ASSUME IInv, WatchFires
  PROVE  IInv'
<1> USE TypeParts
<1>1. /\ pending # None /\ pending' = None /\ Publish(pending) /\ Screen
      /\ UNCHANGED <<mode, version, acting, socket>>
  BY DEF WatchFires
<1>2. pending \in Event
  BY <1>1 DEF IInv, KernelTypes
<1>3. QueueTypes' /\ missed' \in SUBSET Dirs
  BY <1>1, <1>2, PublishType DEF IInv
<1>4. KernelTypes'
  BY <1>1 DEF IInv, KernelTypes
<1>5. missed \subseteq missed'
  BY <1>1 DEF Publish
<1>6. ASSUME NEW e \in Dirs, Announced(e)
      PROVE  e \in missed' \/ Announced(e)'
  BY <1>1, <1>2, <1>6, PublishKeeps DEF IInv, Announced, Queued
<1> QED  BY <1>1, <1>3, <1>4, <1>5, <1>6, KernelStep

LEMMA SocketStep ==
  ASSUME IInv,
         Greet \/ Subscribe \/ Disconnect \/ \E d \in Dirs : ActionFails(d)
  PROVE  IInv'
<1> USE TypeParts
<1>1. Screen /\ UNCHANGED <<mode, version, pending>>
  BY DEF Greet, Subscribe, Disconnect, ActionFails
<1>2. KernelTypes'
  BY DEF Greet, Subscribe, Disconnect, ActionFails, IInv, KernelTypes
<1>3. CASE UNCHANGED <<queue, missed>>
  <2>1. QueueTypes' /\ missed' \in SUBSET Dirs
    BY <1>3 DEF IInv, QueueTypes, LossTypes
  <2>2. \A d \in Dirs : Announced(d) => Announced(d)'
    BY <1>1, <1>3 DEF Announced
  <2> QED  BY <1>1, <1>2, <1>3, <2>1, <2>2, KernelStep
<1>4. CASE Disconnect
  <2>1. /\ queue' = <<>>
        /\ missed' = missed \cup UNION {About(queue[i]) : i \in DOMAIN queue}
    BY <1>4 DEF Disconnect
  <2>2. QueueTypes'
    BY <2>1, ExplorerAssumption DEF QueueTypes
  <2>3. missed' \in SUBSET Dirs /\ missed \subseteq missed'
    BY <2>1 DEF IInv, LossTypes, About
  <2>4. ASSUME NEW d \in Dirs, Announced(d)
        PROVE  d \in missed' \/ Announced(d)'
    BY <1>1, <2>1, <2>4 DEF Announced, About
  <2> QED  BY <1>1, <1>2, <2>2, <2>3, <2>4, KernelStep
<1> QED  BY <1>3, <1>4 DEF Greet, Subscribe, ActionFails

-----------------------------------------------------------------------------
(* A load starts. *)

LEMMA NewLoad ==
  ASSUME ListingTypes, LoadsInOrder, NEW path \in Dirs, NEW keep \in BOOLEAN,
         NEW kind \in Kinds, Load(path, keep, kind)
  PROVE  \E n \in Load_ :
           /\ n.path = path /\ (n.keep <=> keep) /\ n.kind = kind
           /\ n.back = current /\ n.seen = None /\ n.gen = generation'
           /\ loads' = loads \cup {n} /\ generation' \in Nat
           /\ \A l \in loads : ~(Newest(l)')
<1> DEFINE n == [gen |-> generation + 1, path |-> path, keep |-> keep, kind |-> kind,
                 back |-> current, seen |-> None]
<1>1. n \in Load_
  BY DEF ListingTypes, Load_
<1>2. /\ n.path = path /\ (n.keep <=> keep) /\ n.kind = kind
      /\ n.back = current /\ n.seen = None /\ n.gen = generation + 1
  OBVIOUS
<1>3. loads' = loads \cup {n} /\ generation' = generation + 1
  BY DEF Load
<1> HIDE DEF n
<1>4. generation' \in Nat
  BY <1>3 DEF ListingTypes
<1>5. ASSUME NEW l \in loads
      PROVE  ~(Newest(l)')
  <2>1. l.gen \in Nat /\ l.gen <= generation /\ generation \in Nat
    BY DEF ListingTypes, Load_, LoadsInOrder
  <2> QED  BY <1>3, <2>1 DEF Newest
<1> QED  BY <1>1, <1>2, <1>3, <1>4, <1>5

LEMMA SnapshotType ==
  ASSUME ListingTypes
  PROVE  /\ [path |-> current, shown |-> shown, cursor |-> cursor] \in Snapshot
         /\ [path |-> current, shown |-> shown, cursor |-> cursor] # NoSnapshot
BY ExplorerAssumption DEF ListingTypes, Snapshot, NoSnapshot

LEMMA LoadScreen ==
  ASSUME TypeOK, ScreenInv, NEW path \in Dirs, NEW keep \in BOOLEAN, NEW kind \in Kinds,
         Load(path, keep, kind), kind = "refresh" => path = current,
         kind # "refresh" => ~keep, UNCHANGED <<mode, page, editing>>
  PROVE  ListingTypes' /\ PageTypes' /\ ScreenInv'
<1> USE TypeParts
<1>1. PICK n \in Load_ :
           /\ n.path = path /\ (n.keep <=> keep) /\ n.kind = kind
           /\ n.back = current /\ n.seen = None /\ n.gen = generation'
           /\ loads' = loads \cup {n} /\ generation' \in Nat
           /\ \A l \in loads : ~(Newest(l)')
  BY NewLoad DEF ScreenInv
<1>2. /\ loading' = TRUE /\ UNCHANGED <<shown, cursor>>
      /\ keep => snapshot' = NoSnapshot /\ UNCHANGED current
      /\ ~keep => /\ snapshot' = [path |-> current, shown |-> shown, cursor |-> cursor]
                  /\ current' = path
  BY DEF Load
<1>3. /\ [path |-> current, shown |-> shown, cursor |-> cursor] \in Snapshot
      /\ [path |-> current, shown |-> shown, cursor |-> cursor] # NoSnapshot
  BY SnapshotType
<1>4. current' = path
  BY <1>2
<1>5. ListingTypes'
  <2>1. current' \in Dirs /\ shown' \in Listing /\ cursor' \in Dirs \cup {None}
    BY <1>2, <1>4 DEF ListingTypes
  <2>2. snapshot' # NoSnapshot => snapshot' \in Snapshot
    BY <1>2, <1>3
  <2>3. loading' \in BOOLEAN
    BY <1>2
  <2>4. loads' \in SUBSET Load_
    BY <1>1 DEF ListingTypes
  <2> QED  BY <1>1, <2>1, <2>2, <2>3, <2>4 DEF ListingTypes
<1>6. PageTypes'
  BY <1>2 DEF PageTypes
<1>7. Newest(n)'
  BY <1>1 DEF Newest
<1>8. LoadsInOrder'
  <2>1. \A l \in loads' : l.gen <= generation'
    <3>1. generation' = generation + 1
      BY DEF Load
    <3>2. \A l \in loads : l.gen \in Nat /\ l.gen <= generation
      BY DEF ScreenInv, LoadsInOrder, ListingTypes, Load_
    <3> QED  BY <1>1, <3>1, <3>2 DEF ListingTypes
  <2>2. \A l, k \in loads' : Newest(l)' /\ Newest(k)' => l = k
    BY <1>1
  <2>3. \E l \in loads' : Newest(l)'
    BY <1>1, <1>7
  <2> QED  BY <1>2, <2>1, <2>2, <2>3 DEF LoadsInOrder
<1>9. LoadsKnowTheirPath'
  BY <1>1, <1>4 DEF ScreenInv, LoadsKnowTheirPath
<1>10. SnapshotIsOfTheLoad'
  <2>1. keep => snapshot' = NoSnapshot
    BY <1>2
  <2>2. ~keep => snapshot' # NoSnapshot /\ snapshot'.path = current
    BY <1>2, <1>3
  <2> QED  BY <1>1, <1>2, <2>1, <2>2 DEF SnapshotIsOfTheLoad
<1>11. OnePage' /\ CursorFollows'
  <2>1. CASE keep
    BY <1>2, <2>1 DEF ScreenInv, OnePage, CursorFollows
  <2>2. CASE ~keep
    BY <1>2, <2>2 DEF ScreenInv, OnePage, CursorFollows, PageTypes
  <2> QED  BY <2>1, <2>2
<1>12. EntriesBelong'
  <2> SUFFICES ASSUME ~overlapped'
               PROVE  EntriesBelong'
    BY DEF EntriesBelong
  <2>1. /\ ~overlapped /\ shown.dir = current
    BY DEF Load
  <2>2. /\ shown.tail \subseteq {shown.dir}
        /\ page # None => page = shown.dir
    BY <2>1 DEF ScreenInv, EntriesBelong
  <2>3. CASE keep
    BY <1>2, <2>1, <2>2, <2>3 DEF EntriesBelong
  <2>4. CASE ~keep
    BY <1>2, <1>3, <2>1, <2>2, <2>4 DEF EntriesBelong
  <2> QED  BY <2>3, <2>4
<1> QED  BY <1>5, <1>6, <1>8, <1>9, <1>10, <1>11, <1>12 DEF ScreenInv

LEMMA LoadAddress ==
  ASSUME TypeOK, ScreenInv, AddressFollows, NEW path \in Dirs, NEW keep \in BOOLEAN,
         NEW kind \in Kinds, Load(path, keep, kind), kind = "refresh" => path = current,
         kind # "refresh" => ~keep,
         kind # "back" => UNCHANGED <<urls, pos>>,
         kind = "back" => urls'[pos'] = path
  PROVE  AddressFollows' /\ crossed' \in BOOLEAN /\ overlapped' \in BOOLEAN
<1> USE TypeParts
<1>1. PICK n \in Load_ :
           /\ n.path = path /\ (n.keep <=> keep) /\ n.kind = kind
           /\ n.back = current /\ n.seen = None /\ n.gen = generation'
           /\ loads' = loads \cup {n} /\ generation' \in Nat
           /\ \A l \in loads : ~(Newest(l)')
  BY NewLoad DEF ScreenInv
<1>2. crossed' = (crossed \/ \E l \in loads : l.kind # "refresh")
  BY DEF Load
<1>3. overlapped' \in BOOLEAN
  BY DEF Load
<1>4. crossed' \in BOOLEAN
  BY <1>2
<1>5. Newest(n)' /\ current' = path
  BY <1>1 DEF Newest, Load
<1>6. ASSUME ~crossed'
      PROVE  AddressFollows'
  <2>1. ~crossed /\ Moves = {} /\ urls[pos] = current
    BY <1>2, <1>6 DEF AddressFollows, Moves
  <2>2. CASE kind = "refresh"
    <3>1. Moves' = {}
      BY <1>1, <2>1, <2>2 DEF Moves
    <3> QED  BY <1>5, <2>1, <2>2, <3>1 DEF AddressFollows
  <2>3. CASE kind # "refresh"
    <3>1. Moves' = {n}
      BY <1>1, <2>1, <2>3 DEF Moves
    <3>2. kind = "navigate" => urls'[pos'] = n.back
      BY <1>1, <2>1
    <3>3. kind = "back" => urls'[pos'] = n.path
      BY <1>1
    <3> QED  BY <1>1, <1>5, <3>1, <3>2, <3>3 DEF AddressFollows
  <2> QED  BY <2>2, <2>3
<1> QED  BY <1>3, <1>4, <1>6 DEF AddressFollows

(* What the new load makes void counts as missed; its own directory is read. *)
LEMMA LoadNoticed ==
  ASSUME TypeOK, ScreenInv, StaleIsNoticed, NEW path \in Dirs, NEW keep \in BOOLEAN,
         NEW kind \in Kinds, Load(path, keep, kind), UNCHANGED version,
         missed \cup GivenUp(path) \subseteq missed',
         \A d \in Dirs \ {path} : Announced(d) => d \in missed' \/ Announced(d)'
  PROVE  StaleIsNoticed'
<1> USE TypeParts
<1>1. PICK n \in Load_ :
           /\ n.path = path /\ (n.keep <=> keep) /\ n.kind = kind
           /\ n.back = current /\ n.seen = None /\ n.gen = generation'
           /\ loads' = loads \cup {n} /\ generation' \in Nat
           /\ \A l \in loads : ~(Newest(l)')
  BY NewLoad DEF ScreenInv
<1>2. n \in loads' /\ Newest(n)'
  BY <1>1 DEF Newest
<1>3. ASSUME NEW s \in Listing, Noticed(s)
      PROVE  Noticed(s)'
  <2>1. s.dir \in Dirs
    BY DEF Listing
  <2>2. CASE s.dir = path
    <3>1. OnItsWay(path)'
      BY <1>1, <1>2 DEF OnItsWay
    <3> QED  BY <2>2, <3>1 DEF Noticed
  <2>3. CASE s.dir # path
    <3> SUFFICES ASSUME s.version # version[s.dir]
                 PROVE  s.dir \in missed' \/ OnItsWay(s.dir)'
      BY DEF Noticed
    <3>1. s.dir \in missed \/ OnItsWay(s.dir)
      BY <1>3 DEF Noticed
    <3>2. CASE s.dir \in missed
      BY <3>2
    <3>3. CASE Announced(s.dir)
      BY <2>1, <2>3, <3>3 DEF OnItsWay, Announced
    <3>4. CASE \E l \in loads : Newest(l) /\ l.path = s.dir
      BY <2>3, <3>4 DEF GivenUp
    <3> QED  BY <3>1, <3>2, <3>3, <3>4 DEF OnItsWay, Announced
  <2> QED  BY <2>2, <2>3
<1>4. shown \in Listing /\ (snapshot # NoSnapshot => snapshot.shown \in Listing)
  BY DEF ListingTypes, Snapshot
<1>5. Noticed(shown)'
  BY <1>3, <1>4 DEF StaleIsNoticed, Load, Noticed
<1>6. snapshot' # NoSnapshot => Noticed(snapshot.shown)'
  <2>1. snapshot' # NoSnapshot => snapshot'.shown = shown
    BY DEF Load
  <2> QED  BY <1>3, <1>4, <2>1 DEF StaleIsNoticed, Noticed
<1>7. \A l \in loads' : Newest(l)' => l.seen = None
  BY <1>1
<1> QED  BY <1>5, <1>6, <1>7 DEF StaleIsNoticed

LEMMA GivenUpType ==
  ASSUME ListingTypes, NEW path
  PROVE  GivenUp(path) \in SUBSET Dirs
BY DEF ListingTypes, GivenUp, Load_

LEMMA UserLoadStep ==
  ASSUME IInv, NEW path \in Dirs, NEW keep \in BOOLEAN, NEW kind \in Kinds,
         Load(path, keep, kind), kind = "refresh" => path = current,
         kind # "refresh" => ~keep, UNCHANGED <<kernel, queue, page, editing>>,
         missed' = missed \cup GivenUp(path), HistoryTypes',
         kind # "back" => UNCHANGED <<urls, pos>>,
         kind = "back" => urls'[pos'] = path
  PROVE  IInv'
<1> USE TypeParts, NextTypeParts
<1>1. KernelTypes' /\ QueueTypes' /\ UNCHANGED <<mode, version>>
  BY DEF IInv, KernelTypes, QueueTypes, kernel
<1>2. ListingTypes' /\ PageTypes' /\ ScreenInv'
  BY <1>1, LoadScreen DEF IInv
<1>3. AddressFollows' /\ crossed' \in BOOLEAN /\ overlapped' \in BOOLEAN
  BY LoadAddress DEF IInv
<1>4. LossTypes'
  BY <1>3, GivenUpType DEF IInv, LossTypes
<1>5. \A d \in Dirs : Announced(d) => Announced(d)'
  BY DEF Announced, kernel
<1>6. StaleIsNoticed'
  BY <1>1, <1>5, LoadNoticed DEF IInv
<1> QED  BY <1>1, <1>2, <1>3, <1>4, <1>6 DEF IInv

LEMMA RefreshStep ==
  ASSUME IInv, Refresh
  PROVE  IInv'
<1>1. PICK keep \in BOOLEAN : Load(current, keep, "refresh")
  BY DEF Refresh
<1>2. /\ missed' = missed \cup GivenUp(current)
      /\ UNCHANGED <<kernel, queue, page, editing, urls, pos>>
  BY DEF Refresh, Kernel, history
<1>3. current \in Dirs /\ HistoryTypes'
  BY <1>2, TypeParts DEF IInv, ListingTypes, HistoryTypes
<1> QED  BY <1>1, <1>2, <1>3, UserLoadStep DEF Kinds

LEMMA NavigateStep ==
  ASSUME IInv, NEW d \in Dirs, Navigate(d)
  PROVE  IInv'
<1>1. /\ Load(d, FALSE, "navigate") /\ missed' = missed \cup GivenUp(d)
      /\ UNCHANGED <<kernel, queue, page, editing, urls, pos>>
  BY DEF Navigate, Kernel, history
<1>2. HistoryTypes'
  BY <1>1, TypeParts DEF IInv, HistoryTypes
<1> QED  BY <1>1, <1>2, UserLoadStep DEF Kinds

LEMMA PopStateStep ==
  ASSUME IInv, PopState
  PROVE  IInv'
<1> USE TypeParts
<1>1. PICK i \in {pos - 1, pos + 1} \cap DOMAIN urls :
        /\ pos' = i
        /\ Load(urls[i], FALSE, "back")
        /\ missed' = missed \cup GivenUp(urls[i])
  BY DEF PopState
<1>2. UNCHANGED <<kernel, queue, page, editing, urls>>
  BY DEF PopState, Kernel
<1>3. urls[i] \in Dirs /\ HistoryTypes'
  BY <1>1, <1>2 DEF IInv, HistoryTypes
<1> QED  BY <1>1, <1>2, <1>3, UserLoadStep DEF Kinds

LEMMA ReceiveStep ==
  ASSUME IInv, Receive
  PROVE  IInv'
<1> USE TypeParts, NextTypeParts
<1>1. /\ queue # <<>> /\ queue' = Tail(queue)
      /\ UNCHANGED <<kernel, page, editing, history>>
  BY DEF Receive, Kernel
<1>2. /\ queue \in Seq(Event) /\ Len(queue) \in Nat \ {0} /\ Head(queue) = queue[1]
      /\ queue' \in Seq(Event) /\ Len(queue') = Len(queue) - 1
      /\ \A i \in 1 .. Len(queue) - 1 : queue'[i] = queue[i + 1]
  BY <1>1 DEF IInv, QueueTypes
<1>3. QueueTypes'
  BY <1>2, ExplorerAssumption DEF IInv, QueueTypes
<1>4. KernelTypes' /\ HistoryTypes' /\ UNCHANGED <<mode, version, pending, urls, pos>>
  BY <1>1 DEF IInv, KernelTypes, HistoryTypes, kernel, history
<1>5. ASSUME NEW d \in Dirs, Announced(d)
      PROVE  d \in About(Head(queue)) \/ Announced(d)'
  <2>1. CASE pending # None /\ Covers(pending, d)
    BY <1>4, <2>1 DEF Announced
  <2>2. ASSUME NEW i \in DOMAIN queue, Covers(queue[i], d)
        PROVE  d \in About(Head(queue)) \/ Announced(d)'
    <3>1. CASE i = 1
      BY <1>2, <2>2, <3>1 DEF About
    <3>2. CASE i # 1
      <4>1. i - 1 \in 1 .. Len(queue) - 1 /\ i - 1 \in DOMAIN queue'
        BY <1>2, <3>2
      <4>2. queue'[i - 1] = queue[i]
        BY <1>2, <4>1
      <4> QED  BY <2>2, <4>1, <4>2 DEF Announced
    <3> QED  BY <3>1, <3>2
  <2> QED  BY <1>5, <2>1, <2>2 DEF Announced
<1>6. CASE Covers(Head(queue), current) /\ ~editing
  <2>1. /\ Load(current, TRUE, "refresh")
        /\ missed' = missed \cup GivenUp(current) \cup (About(Head(queue)) \ {current})
    BY <1>6 DEF Receive
  <2>2. current \in Dirs /\ TRUE \in BOOLEAN /\ "refresh" \in Kinds
    BY DEF IInv, ListingTypes, Kinds
  <2>3. ListingTypes' /\ PageTypes' /\ ScreenInv'
    BY <1>1, <1>4, <2>1, <2>2, LoadScreen DEF IInv
  <2>4. AddressFollows' /\ crossed' \in BOOLEAN /\ overlapped' \in BOOLEAN
    BY <1>4, <2>1, <2>2, LoadAddress DEF IInv
  <2>5. LossTypes'
    BY <2>1, <2>4, GivenUpType DEF IInv, LossTypes, About
  <2>6. \A d \in Dirs \ {current} : Announced(d) => d \in missed' \/ Announced(d)'
    BY <1>5, <2>1
  <2>7. StaleIsNoticed'
    BY <1>4, <2>1, <2>2, <2>6, LoadNoticed DEF IInv
  <2> QED  BY <1>3, <1>4, <2>3, <2>4, <2>5, <2>7 DEF IInv
<1>7. CASE ~(Covers(Head(queue), current) /\ ~editing)
  <2>1. /\ missed' = missed \cup About(Head(queue))
        /\ UNCHANGED <<listing, overlapped, crossed>>
    BY <1>7 DEF Receive
  <2>2. Screen
    BY <1>1, <2>1 DEF Screen
  <2>3. missed' \in SUBSET Dirs /\ missed \subseteq missed'
    BY <2>1 DEF IInv, LossTypes, About
  <2>4. \A d \in Dirs : Announced(d) => d \in missed' \/ Announced(d)'
    BY <1>5, <2>1
  <2> QED  BY <1>3, <1>4, <2>2, <2>3, <2>4, KernelStep
<1> QED  BY <1>6, <1>7

-----------------------------------------------------------------------------
(* A load is read, answered, fails, or ends too late. *)

LEMMA ReadStep ==
  ASSUME IInv, NEW l \in loads, Read(l)
  PROVE  IInv'
<1> USE TypeParts, NextTypeParts
<1>0. PICK m : m = [l EXCEPT !.seen = version[l.path]]
  OBVIOUS
<1>1. l \in Load_ /\ l.seen = None /\ Newest(l)
  BY DEF Read, IInv, ListingTypes
<1>2. version[l.path] \in Nat
  BY <1>1 DEF IInv, KernelTypes, Load_
<1>3. /\ m \in Load_ /\ m.gen = l.gen /\ m.path = l.path /\ (m.keep <=> l.keep)
      /\ m.kind = l.kind /\ m.back = l.back /\ m.seen = version[l.path]
  BY <1>0, <1>1, <1>2 DEF Load_
<1>4. /\ loads' = (loads \ {l}) \cup {m}
      /\ UNCHANGED <<current, shown, cursor, loading, generation, snapshot, queue, page,
                     editing, history, calls, trouble, missed, overlapped, crossed>>
      /\ UNCHANGED kernel
  BY <1>0 DEF Read, Kernel
<1>5. TypeOK'
  <2>1. KernelTypes' /\ QueueTypes' /\ PageTypes'
    BY <1>4 DEF IInv, KernelTypes, QueueTypes, PageTypes, kernel
  <2>2. HistoryTypes' /\ LossTypes'
    BY <1>4 DEF IInv, HistoryTypes, LossTypes, history
  <2>3. loads' \in SUBSET Load_
    BY <1>3, <1>4 DEF IInv, ListingTypes
  <2>4. ListingTypes'
    BY <1>4, <2>3 DEF IInv, ListingTypes
  <2> QED  BY <2>1, <2>2, <2>4
<1>6. LoadsInOrder'
  <2>1. \A k \in loads' : k.gen <= generation'
    BY <1>3, <1>4 DEF IInv, ScreenInv, LoadsInOrder
  <2>2. Newest(m)'
    BY <1>1, <1>3, <1>4 DEF Newest
  <2>3. \A k, j \in loads' : Newest(k)' /\ Newest(j)' => k = j
    BY <1>1, <1>3, <1>4 DEF IInv, ScreenInv, LoadsInOrder, Newest
  <2>4. loading'
    BY <1>1, <1>4 DEF IInv, ScreenInv, LoadsInOrder
  <2> QED  BY <1>4, <2>1, <2>2, <2>3, <2>4 DEF LoadsInOrder
<1>7. LoadsKnowTheirPath' /\ SnapshotIsOfTheLoad'
  BY <1>1, <1>3, <1>4
  DEF IInv, ScreenInv, LoadsKnowTheirPath, SnapshotIsOfTheLoad, Newest
<1>8. OnePage' /\ CursorFollows' /\ EntriesBelong'
  BY <1>4 DEF IInv, ScreenInv, OnePage, CursorFollows, EntriesBelong, kernel
<1>9. AddressFollows'
  <2> SUFFICES ASSUME ~crossed'
               PROVE  AddressFollows'
    BY DEF AddressFollows
  <2>1. ~crossed /\ UNCHANGED <<urls, pos, current, loading, generation>>
    BY <1>4 DEF history
  <2>2. CASE l.kind = "refresh"
    <3>1. Moves' = Moves
      BY <1>3, <1>4, <2>2 DEF Moves
    <3> QED  BY <2>1, <3>1 DEF IInv, AddressFollows, Newest
  <2>3. CASE l.kind # "refresh"
    <3>1. Moves = {l}
      BY <2>1, <2>3 DEF Moves, IInv, AddressFollows
    <3>2. Moves' = {m}
      BY <1>3, <1>4, <2>3, <3>1 DEF Moves
    <3>3. Newest(m)'
      BY <1>1, <1>3, <1>4 DEF Newest
    <3> QED  BY <1>1, <1>3, <2>1, <3>1, <3>2, <3>3 DEF IInv, AddressFollows
  <2> QED  BY <2>2, <2>3
<1>10. StaleIsNoticed'
  <2>1. UNCHANGED <<version, missed, pending, queue, shown, snapshot>>
    BY <1>4 DEF kernel
  <2>2. ASSUME NEW d, OnItsWay(d)
        PROVE  OnItsWay(d)'
    <3>1. CASE Announced(d)
      BY <2>1, <3>1 DEF OnItsWay, Announced
    <3>2. ASSUME NEW k \in loads, Newest(k), k.path = d, k.seen \in {None, version[d]}
          PROVE  OnItsWay(d)'
      <4>1. CASE k = l
        <5>1. m \in loads' /\ Newest(m)' /\ m.path = d /\ m.seen = version'[d]
          BY <1>1, <1>3, <1>4, <2>1, <3>2, <4>1 DEF Newest
        <5> QED  BY <5>1 DEF OnItsWay
      <4>2. CASE k # l
        BY <1>4, <2>1, <3>2, <4>2 DEF OnItsWay, Newest
      <4> QED  BY <4>1, <4>2
    <3> QED  BY <2>2, <3>1, <3>2 DEF OnItsWay, Announced
  <2>3. ASSUME NEW s, Noticed(s)
        PROVE  Noticed(s)'
    BY <2>1, <2>2, <2>3 DEF Noticed
  <2>4. Noticed(shown)' /\ (snapshot' # NoSnapshot => Noticed(snapshot.shown)')
    BY <2>1, <2>3 DEF IInv, StaleIsNoticed, Noticed
  <2>5. ASSUME NEW k \in loads', Newest(k)', k.seen # None, k.seen # version'[k.path]
        PROVE  k.path \in missed' \/ Announced(k.path)'
    <3>1. k # m
      BY <1>3, <2>1, <2>5
    <3>2. k \in loads /\ Newest(k)
      BY <1>4, <2>5, <3>1 DEF Newest
    <3>3. k.path \in missed \/ Announced(k.path)
      BY <2>1, <2>5, <3>2 DEF IInv, StaleIsNoticed
    <3> QED  BY <2>1, <3>3 DEF Announced
  <2> QED  BY <2>1, <2>4, <2>5 DEF StaleIsNoticed
<1> QED  BY <1>5, <1>6, <1>7, <1>8, <1>9, <1>10 DEF IInv, ScreenInv

(* What the end of a load does to the history of the tab. *)
LEMMA NavigationType ==
  ASSUME ListingTypes, HistoryTypes, LossTypes, NEW l \in loads, NEW loaded \in BOOLEAN,
         NavigationEnds(l, loaded)
  PROVE  HistoryTypes' /\ crossed' \in BOOLEAN
<1>1. l.path \in Dirs /\ l.back \in Dirs
  BY DEF ListingTypes, Load_
<1>2. urls \in Seq(Dirs) /\ pos \in 1 .. Len(urls) /\ Len(urls) \in Nat
  BY DEF HistoryTypes
<1>3. crossed' \in BOOLEAN
  BY DEF NavigationEnds, LossTypes
<1>4. CASE l.kind = "navigate" /\ loaded
  <2>1. urls' = Append(SubSeq(urls, 1, pos), l.path) /\ pos' = pos + 1
    BY <1>4 DEF NavigationEnds
  <2>2. SubSeq(urls, 1, pos) \in Seq(Dirs) /\ Len(SubSeq(urls, 1, pos)) = pos
    BY <1>2
  <2> QED  BY <1>1, <1>2, <1>3, <2>1, <2>2 DEF HistoryTypes
<1>5. CASE l.kind = "back" /\ ~loaded
  <2>1. urls' = [urls EXCEPT ![pos] = l.back] /\ pos' = pos
    BY <1>5 DEF NavigationEnds
  <2>2. urls' \in Seq(Dirs) /\ Len(urls') = Len(urls)
    BY <1>1, <1>2, <2>1
  <2> QED  BY <1>2, <1>3, <2>1, <2>2 DEF HistoryTypes
<1>6. CASE ~(l.kind = "navigate" /\ loaded) /\ ~(l.kind = "back" /\ ~loaded)
  BY <1>3, <1>6 DEF NavigationEnds, HistoryTypes, history
<1> QED  BY <1>4, <1>5, <1>6

LEMMA NavigationPushed ==
  ASSUME HistoryTypes, NEW l, l.kind = "navigate", NEW loaded, loaded,
         NavigationEnds(l, loaded)
  PROVE  urls'[pos'] = l.path
<1>1. urls' = Append(SubSeq(urls, 1, pos), l.path) /\ pos' = pos + 1
  BY DEF NavigationEnds
<1>2. urls \in Seq(Dirs) /\ pos \in 1 .. Len(urls) /\ Len(urls) \in Nat
  BY DEF HistoryTypes
<1> DEFINE s == SubSeq(urls, 1, pos)
<1>3. s \in Seq(Dirs) /\ Len(s) = pos
  BY <1>2
<1> HIDE DEF s
<1>4. Append(s, l.path)[Len(s) + 1] = l.path
  <2>1. s \in Seq(Dirs \cup {l.path})
    BY <1>3
  <2> QED  BY <2>1
<1> QED  BY <1>1, <1>3, <1>4 DEF s

LEMMA NavigationUndone ==
  ASSUME HistoryTypes, NEW l, l.kind = "back", NEW loaded, ~loaded,
         NavigationEnds(l, loaded)
  PROVE  urls'[pos'] = l.back
<1>1. urls' = [urls EXCEPT ![pos] = l.back] /\ pos' = pos
  BY DEF NavigationEnds
<1> QED  BY <1>1 DEF HistoryTypes

(* A load that is no longer under way, newest or not. *)
LEMMA GoneScreen ==
  ASSUME TypeOK, LoadsInOrder, NEW l \in loads, loads' = loads \ {l},
         generation' = generation
  PROVE  /\ \A k \in loads' : k.gen <= generation'
         /\ \A k, j \in loads' : Newest(k)' /\ Newest(j)' => k = j
         /\ \A k \in loads' : Newest(k)' <=> Newest(k)
         /\ Newest(l) => \A k \in loads' : ~(Newest(k)')
BY DEF LoadsInOrder, Newest

LEMMA VoidStep ==
  ASSUME IInv, NEW l \in loads, Void(l)
  PROVE  IInv'
<1> USE TypeParts, NextTypeParts
<1>1. /\ ~Newest(l) /\ loads' = loads \ {l} /\ NavigationEnds(l, FALSE)
      /\ UNCHANGED <<current, shown, cursor, loading, generation, snapshot, queue, page,
                     editing, calls, trouble, missed, overlapped>>
      /\ UNCHANGED kernel
  BY DEF Void, Kernel
<1>2. /\ \A k \in loads' : k.gen <= generation'
      /\ \A k, j \in loads' : Newest(k)' /\ Newest(j)' => k = j
      /\ \A k \in loads' : Newest(k)' <=> Newest(k)
  BY <1>1, GoneScreen DEF IInv, ScreenInv
<1>3. HistoryTypes' /\ crossed' \in BOOLEAN
  BY <1>1, NavigationType DEF IInv
<1>4. TypeOK'
  <2>1. KernelTypes' /\ QueueTypes' /\ PageTypes'
    BY <1>1 DEF IInv, KernelTypes, QueueTypes, PageTypes, kernel
  <2>2. LossTypes'
    BY <1>1, <1>3 DEF IInv, LossTypes
  <2>3. ListingTypes'
    BY <1>1 DEF IInv, ListingTypes
  <2> QED  BY <1>3, <2>1, <2>2, <2>3
<1>5. LoadsInOrder'
  BY <1>1, <1>2 DEF IInv, ScreenInv, LoadsInOrder
<1>6. LoadsKnowTheirPath' /\ SnapshotIsOfTheLoad'
  BY <1>1, <1>2 DEF IInv, ScreenInv, LoadsKnowTheirPath, SnapshotIsOfTheLoad
<1>7. OnePage' /\ CursorFollows' /\ EntriesBelong'
  BY <1>1 DEF IInv, ScreenInv, OnePage, CursorFollows, EntriesBelong, kernel
<1>8. AddressFollows'
  <2> SUFFICES ASSUME ~crossed'
               PROVE  AddressFollows'
    BY DEF AddressFollows
  <2>1. ~crossed
    BY <1>1 DEF NavigationEnds
  <2>2. CASE l.kind = "refresh"
    <3>1. Moves' = Moves
      BY <1>1, <2>2 DEF Moves
    <3>2. UNCHANGED <<urls, pos>>
      BY <1>1, <2>2 DEF NavigationEnds, history
    <3> QED  BY <1>1, <2>1, <3>1, <3>2 DEF IInv, AddressFollows, Newest
  <2>3. CASE l.kind # "refresh"
    <3>1. Moves = {l}
      BY <2>1, <2>3 DEF Moves, IInv, AddressFollows
    <3>2. Moves' = {}
      BY <1>1, <3>1 DEF Moves
    <3>3. l.kind \in {"navigate", "back"}
      BY <2>3 DEF IInv, ListingTypes, Load_, Kinds
    <3>4. CASE l.kind = "navigate"
      <4>1. urls[pos] = current
        BY <1>1, <2>1, <3>1, <3>4 DEF IInv, AddressFollows
      <4>2. UNCHANGED <<urls, pos>>
        BY <1>1, <3>4 DEF NavigationEnds, history
      <4> QED  BY <1>1, <3>2, <4>1, <4>2 DEF AddressFollows
    <3>5. CASE l.kind = "back"
      <4>1. current = l.back
        BY <1>1, <2>1, <3>1, <3>5 DEF IInv, AddressFollows
      <4>2. urls'[pos'] = l.back
        BY <1>1, <3>5, NavigationUndone DEF IInv
      <4> QED  BY <1>1, <3>2, <4>1, <4>2 DEF AddressFollows
    <3> QED  BY <3>3, <3>4, <3>5
  <2> QED  BY <2>2, <2>3
<1>9. StaleIsNoticed'
  <2>1. UNCHANGED <<version, missed, pending, queue, shown, snapshot>>
    BY <1>1 DEF kernel
  <2>2. ASSUME NEW s, Noticed(s)
        PROVE  Noticed(s)'
    BY <1>1, <2>1, <2>2 DEF Noticed, OnItsWay, Newest
  <2>3. Noticed(shown)' /\ (snapshot' # NoSnapshot => Noticed(snapshot.shown)')
    BY <2>1, <2>2 DEF IInv, StaleIsNoticed, Noticed
  <2>4. ASSUME NEW k \in loads', Newest(k)', k.seen # None, k.seen # version'[k.path]
        PROVE  k.path \in missed' \/ Announced(k.path)'
    <3>1. k.path \in missed \/ Announced(k.path)
      BY <1>1, <1>2, <2>1, <2>4 DEF IInv, StaleIsNoticed
    <3> QED  BY <2>1, <3>1 DEF Announced
  <2> QED  BY <2>1, <2>3, <2>4 DEF StaleIsNoticed
<1> QED  BY <1>4, <1>5, <1>6, <1>7, <1>8, <1>9 DEF IInv, ScreenInv

LEMMA AnswerStep ==
  ASSUME IInv, NEW l \in loads, Answer(l)
  PROVE  IInv'
<1> USE TypeParts, NextTypeParts
<1>1. /\ l \in Load_ /\ l.seen # None /\ Newest(l)
      /\ l.path \in Dirs /\ l.seen \in Nat /\ l.path = current
  BY DEF Answer, IInv, ListingTypes, Load_, ScreenInv, LoadsKnowTheirPath
<1>2. /\ loads' = loads \ {l} /\ shown' = ListingOf(l) /\ current' = l.path
      /\ cursor' = (IF mode = "bucket" THEN l.path ELSE None)
      /\ loading' = FALSE /\ snapshot' = NoSnapshot
      /\ missed' = (IF l.seen = version[l.path] THEN missed \ {l.path} ELSE missed)
      /\ overlapped' = (page # None /\ page # l.path)
      /\ NavigationEnds(l, TRUE)
      /\ UNCHANGED <<generation, queue, page, editing, kernel>>
  BY DEF Answer, Kernel
<1>3. /\ shown' \in Listing /\ shown'.dir = l.path /\ shown'.version = l.seen
      /\ shown'.tail = {}
  BY <1>1, <1>2 DEF ListingOf, Listing
<1>4. /\ \A k \in loads' : k.gen <= generation'
      /\ \A k, j \in loads' : Newest(k)' /\ Newest(j)' => k = j
      /\ \A k \in loads' : ~(Newest(k)')
  BY <1>1, <1>2, GoneScreen DEF IInv, ScreenInv
<1>5. HistoryTypes' /\ crossed' \in BOOLEAN
  BY <1>2, NavigationType DEF IInv
<1>6. TypeOK'
  <2>1. KernelTypes' /\ QueueTypes'
    BY <1>2 DEF IInv, KernelTypes, QueueTypes, kernel
  <2>2. PageTypes'
    BY <1>2, <1>3 DEF IInv, PageTypes, kernel
  <2>3. overlapped' \in BOOLEAN
    BY <1>2
  <2>4. LossTypes'
    BY <1>2, <1>5, <2>3 DEF IInv, LossTypes
  <2>5. cursor' \in Dirs \cup {None} /\ current' \in Dirs
    BY <1>1, <1>2
  <2>6. ListingTypes'
    BY <1>2, <1>3, <2>5 DEF IInv, ListingTypes
  <2> QED  BY <1>5, <2>1, <2>2, <2>4, <2>6
<1>7. LoadsInOrder'
  BY <1>2, <1>4 DEF LoadsInOrder
<1>8. LoadsKnowTheirPath' /\ SnapshotIsOfTheLoad'
  BY <1>2, <1>4 DEF IInv, ScreenInv, LoadsKnowTheirPath, SnapshotIsOfTheLoad
<1>9. OnePage' /\ CursorFollows' /\ EntriesBelong'
  BY <1>2, <1>3 DEF OnePage, CursorFollows, EntriesBelong
<1>10. AddressFollows'
  <2> SUFFICES ASSUME ~crossed'
               PROVE  AddressFollows'
    BY DEF AddressFollows
  <2>1. CASE crossed
    <3>1. /\ l.kind = "navigate"
          /\ \A k \in loads \ {l} : k.kind = "refresh"
      BY <1>2, <2>1 DEF NavigationEnds
    <3>2. Moves' = {}
      BY <1>2, <3>1 DEF Moves
    <3>3. urls'[pos'] = l.path
      BY <1>2, <3>1, NavigationPushed DEF IInv
    <3> QED  BY <1>2, <3>2, <3>3 DEF AddressFollows
  <2>2. CASE ~crossed
    <3>1. \A k \in Moves : k = l
      BY <1>1, <2>2 DEF IInv, AddressFollows, ScreenInv, LoadsInOrder, Moves
    <3>2. Moves' = {}
      BY <1>2, <3>1 DEF Moves
    <3>3. l.kind \in Kinds
      BY <1>1 DEF Load_
    <3>4. CASE l.kind = "navigate"
      <4>1. urls'[pos'] = l.path
        BY <1>2, <3>4, NavigationPushed DEF IInv
      <4> QED  BY <1>2, <3>2, <4>1 DEF AddressFollows
    <3>5. CASE l.kind # "navigate"
      <4>1. UNCHANGED <<urls, pos>>
        BY <1>2, <3>5 DEF NavigationEnds, history
      <4>2. urls[pos] = l.path
        <5>1. CASE l.kind = "refresh"
          <6>1. Moves = {}
            BY <3>1, <5>1 DEF Moves
          <6> QED  BY <1>1, <2>2, <6>1 DEF IInv, AddressFollows
        <5>2. CASE l.kind = "back"
          <6>1. l \in Moves
            BY <5>2 DEF Moves
          <6> QED  BY <1>1, <2>2, <5>2, <6>1 DEF IInv, AddressFollows
        <5> QED  BY <3>3, <3>5, <5>1, <5>2 DEF Kinds
      <4> QED  BY <1>2, <3>2, <4>1, <4>2 DEF AddressFollows
    <3> QED  BY <3>4, <3>5
  <2> QED  BY <2>1, <2>2
<1>11. StaleIsNoticed'
  <2>1. UNCHANGED <<version, pending, queue>>
    BY <1>2 DEF kernel
  <2>2. Noticed(shown)'
    <3> SUFFICES ASSUME l.seen # version[l.path]
                 PROVE  l.path \in missed' \/ OnItsWay(l.path)'
      BY <1>3, <2>1 DEF Noticed
    <3>1. l.path \in missed \/ Announced(l.path)
      BY <1>1 DEF IInv, StaleIsNoticed
    <3> QED  BY <1>2, <2>1, <3>1 DEF Announced, OnItsWay
  <2> QED  BY <1>2, <1>4, <2>2 DEF StaleIsNoticed
<1> QED  BY <1>6, <1>7, <1>8, <1>9, <1>10, <1>11 DEF IInv, ScreenInv

LEMMA LoadFailsStep ==
  ASSUME IInv, NEW l \in loads, LoadFails(l)
  PROVE  IInv'
<1> USE TypeParts, NextTypeParts
<1>1. /\ l \in Load_ /\ Newest(l) /\ loading
      /\ l.path \in Dirs /\ l.back \in Dirs /\ l.path = current
  BY DEF LoadFails, IInv, ListingTypes, Load_, ScreenInv, LoadsKnowTheirPath, LoadsInOrder
<1>2. /\ loads' = loads \ {l}
      /\ current' = (IF l.keep THEN current ELSE l.back)
      /\ loading' = FALSE /\ snapshot' = NoSnapshot
      /\ missed' = missed \cup {l.path}
      /\ NavigationEnds(l, FALSE)
      /\ UNCHANGED <<shown, cursor, generation, queue, page, editing, overlapped, kernel>>
  BY DEF LoadFails, Kernel
<1>3. /\ \A k \in loads' : k.gen <= generation'
      /\ \A k, j \in loads' : Newest(k)' /\ Newest(j)' => k = j
      /\ \A k \in loads' : ~(Newest(k)')
  BY <1>1, <1>2, GoneScreen DEF IInv, ScreenInv
<1>4. HistoryTypes' /\ crossed' \in BOOLEAN
  BY <1>2, NavigationType DEF IInv
<1>5. TypeOK'
  <2>1. KernelTypes' /\ QueueTypes' /\ PageTypes'
    BY <1>2 DEF IInv, KernelTypes, QueueTypes, PageTypes, kernel
  <2>2. LossTypes'
    BY <1>1, <1>2, <1>4 DEF IInv, LossTypes
  <2>3. current' \in Dirs
    BY <1>1, <1>2
  <2>4. ListingTypes'
    BY <1>2, <2>3 DEF IInv, ListingTypes
  <2> QED  BY <1>4, <2>1, <2>2, <2>4
<1>6. LoadsInOrder'
  BY <1>2, <1>3 DEF LoadsInOrder
<1>7. LoadsKnowTheirPath' /\ SnapshotIsOfTheLoad'
  BY <1>2, <1>3 DEF IInv, ScreenInv, LoadsKnowTheirPath, SnapshotIsOfTheLoad
<1>8. OnePage' /\ CursorFollows'
  BY <1>2 DEF IInv, ScreenInv, OnePage, CursorFollows
<1>9. EntriesBelong'
  <2> SUFFICES ASSUME ~overlapped
               PROVE  current' = shown.dir
    BY <1>2 DEF IInv, ScreenInv, EntriesBelong
  <2>1. CASE l.keep
    <3>1. snapshot = NoSnapshot
      BY <1>1, <2>1 DEF IInv, ScreenInv, SnapshotIsOfTheLoad
    <3> QED  BY <1>2, <2>1, <3>1 DEF IInv, ScreenInv, EntriesBelong
  <2>2. CASE ~l.keep
    <3>1. snapshot # NoSnapshot /\ snapshot.path = l.back
      BY <1>1, <2>2 DEF IInv, ScreenInv, SnapshotIsOfTheLoad
    <3> QED  BY <1>2, <2>2, <3>1 DEF IInv, ScreenInv, EntriesBelong
  <2> QED  BY <2>1, <2>2
<1>10. AddressFollows'
  <2> SUFFICES ASSUME ~crossed'
               PROVE  AddressFollows'
    BY DEF AddressFollows
  <2>1. ~crossed
    BY <1>2 DEF NavigationEnds
  <2>2. \A k \in Moves : k = l
    BY <1>1, <2>1 DEF IInv, AddressFollows, ScreenInv, LoadsInOrder, Moves
  <2>3. Moves' = {}
    BY <1>2, <2>2 DEF Moves
  <2>4. l.kind \in Kinds
    BY <1>1 DEF Load_
  <2>5. CASE l.kind = "refresh"
    <3>1. Moves = {}
      BY <2>2, <2>5 DEF Moves
    <3>2. l.back = l.path
      BY <2>5 DEF IInv, ScreenInv, LoadsKnowTheirPath
    <3>3. UNCHANGED <<urls, pos>>
      BY <1>2, <2>5 DEF NavigationEnds, history
    <3> QED  BY <1>1, <1>2, <2>1, <2>3, <3>1, <3>2, <3>3 DEF IInv, AddressFollows
  <2>6. CASE l.kind = "navigate"
    <3>1. l \in Moves /\ ~l.keep
      BY <2>6 DEF Moves, IInv, ScreenInv, LoadsKnowTheirPath
    <3>2. urls[pos] = l.back
      BY <1>1, <2>1, <2>6, <3>1 DEF IInv, AddressFollows
    <3>3. UNCHANGED <<urls, pos>>
      BY <1>2, <2>6 DEF NavigationEnds, history
    <3> QED  BY <1>2, <2>3, <3>1, <3>2, <3>3 DEF AddressFollows
  <2>7. CASE l.kind = "back"
    <3>1. ~l.keep
      BY <2>7 DEF IInv, ScreenInv, LoadsKnowTheirPath
    <3>2. urls'[pos'] = l.back
      BY <1>2, <2>7, NavigationUndone DEF IInv
    <3> QED  BY <1>2, <2>3, <3>1, <3>2 DEF AddressFollows
  <2> QED  BY <2>4, <2>5, <2>6, <2>7 DEF Kinds
<1>11. StaleIsNoticed'
  <2>1. UNCHANGED <<version, pending, queue, shown>>
    BY <1>2 DEF kernel
  <2>2. Noticed(shown)'
    <3> SUFFICES ASSUME shown.version # version[shown.dir]
                 PROVE  shown.dir \in missed' \/ OnItsWay(shown.dir)'
      BY <2>1 DEF Noticed
    <3>1. shown.dir \in missed \/ OnItsWay(shown.dir)
      BY DEF IInv, StaleIsNoticed, Noticed
    <3>2. CASE \E k \in loads : Newest(k) /\ k.path = shown.dir
      <4>1. shown.dir = l.path
        BY <1>1, <3>2 DEF IInv, ScreenInv, LoadsInOrder
      <4> QED  BY <1>2, <4>1
    <3> QED  BY <1>2, <2>1, <3>1, <3>2 DEF OnItsWay
  <2> QED  BY <1>2, <1>3, <2>2 DEF StaleIsNoticed
<1> QED  BY <1>5, <1>6, <1>7, <1>8, <1>9, <1>10, <1>11 DEF IInv, ScreenInv

LEMMA CancelStep ==
  ASSUME IInv, Cancel
  PROVE  IInv'
<1> USE TypeParts, NextTypeParts
<1>1. /\ loading /\ loading' = FALSE /\ generation' = generation + 1
      /\ snapshot' = NoSnapshot
      /\ missed' = missed \cup {l.path : l \in {k \in loads : Newest(k)}}
      /\ UNCHANGED <<loads, queue, page, editing, history, overlapped, crossed, kernel>>
  BY DEF Cancel, Kernel
<1>2. \/ snapshot = NoSnapshot /\ UNCHANGED <<current, shown, cursor>>
      \/ /\ snapshot # NoSnapshot
         /\ current' = snapshot.path /\ shown' = snapshot.shown /\ cursor' = snapshot.cursor
  BY DEF Cancel
<1>3. PICK l \in loads : Newest(l)
  BY <1>1 DEF IInv, ScreenInv, LoadsInOrder
<1>4. \A k \in loads : ~(Newest(k)') /\ k.gen <= generation'
  <2>1. \A k \in loads : k.gen \in Nat /\ k.gen <= generation /\ generation \in Nat
    BY DEF IInv, ListingTypes, Load_, ScreenInv, LoadsInOrder
  <2> QED  BY <1>1, <2>1 DEF Newest
<1>5. snapshot # NoSnapshot => snapshot \in Snapshot
  BY DEF IInv, ListingTypes
<1>6. TypeOK'
  <2>1. KernelTypes' /\ QueueTypes' /\ HistoryTypes'
    BY <1>1 DEF IInv, KernelTypes, QueueTypes, HistoryTypes, kernel, history
  <2>2. current' \in Dirs /\ shown' \in Listing /\ cursor' \in Dirs \cup {None}
    BY <1>2, <1>5 DEF IInv, ListingTypes, Snapshot
  <2>3. ListingTypes'
    <3>1. loading' = FALSE /\ snapshot' = NoSnapshot /\ loads' = loads
      BY <1>1
    <3>2. generation' \in Nat /\ loads \in SUBSET Load_
      BY <1>1 DEF IInv, ListingTypes
    <3> QED  BY <2>2, <3>1, <3>2 DEF ListingTypes
  <2>4. PageTypes'
    BY <1>1, <1>2 DEF IInv, PageTypes, ScreenInv, OnePage, kernel
  <2>5. LossTypes'
    BY <1>1 DEF IInv, LossTypes, ListingTypes, Load_
  <2> QED  BY <2>1, <2>3, <2>4, <2>5
<1>7. LoadsInOrder'
  BY <1>1, <1>4 DEF LoadsInOrder
<1>8. LoadsKnowTheirPath' /\ SnapshotIsOfTheLoad'
  BY <1>1, <1>4 DEF IInv, ScreenInv, LoadsKnowTheirPath, SnapshotIsOfTheLoad
<1>9. OnePage' /\ CursorFollows' /\ EntriesBelong'
  BY <1>1, <1>2 DEF IInv, ScreenInv, OnePage, CursorFollows, EntriesBelong
<1>10. AddressFollows'
  <2> SUFFICES ASSUME ~crossed'
               PROVE  AddressFollows'
    BY DEF AddressFollows
  <2>1. ~crossed /\ Moves' = Moves /\ UNCHANGED <<urls, pos>>
    BY <1>1 DEF Moves, history
  <2>2. \A k \in Moves : k = l
    BY <1>1, <1>3, <2>1 DEF IInv, AddressFollows, ScreenInv, LoadsInOrder, Moves
  <2>3. l.path = current /\ l.kind \in Kinds
    BY <1>3 DEF IInv, ScreenInv, LoadsKnowTheirPath, ListingTypes, Load_
  <2>4. current' = IF l.keep THEN current ELSE l.back
    BY <1>2, <1>3 DEF IInv, ScreenInv, SnapshotIsOfTheLoad
  <2>5. CASE l.kind = "refresh"
    <3>1. l.back = l.path /\ Moves = {}
      BY <2>2, <2>5 DEF Moves, IInv, ScreenInv, LoadsKnowTheirPath
    <3> QED  BY <2>1, <2>3, <2>4, <3>1 DEF IInv, AddressFollows
  <2>6. CASE l.kind # "refresh"
    <3>1. Moves = {l} /\ ~l.keep /\ current' = l.back
      BY <2>2, <2>4, <2>6 DEF Moves, IInv, ScreenInv, LoadsKnowTheirPath
    <3>2. l.kind = "navigate" => urls[pos] = l.back
      BY <1>3, <2>1, <3>1 DEF IInv, AddressFollows
    <3> QED  BY <1>1, <1>4, <2>1, <3>1, <3>2 DEF AddressFollows
  <2> QED  BY <2>5, <2>6
<1>11. StaleIsNoticed'
  <2>1. UNCHANGED <<version, pending, queue>>
    BY <1>1 DEF kernel
  <2>2. ASSUME NEW s, Noticed(s)
        PROVE  Noticed(s)'
    BY <1>1, <2>1, <2>2 DEF Noticed, OnItsWay
  <2>3. Noticed(shown)'
    BY <1>2, <2>2 DEF IInv, StaleIsNoticed, Noticed
  <2> QED  BY <1>1, <1>4, <2>3 DEF StaleIsNoticed
<1> QED  BY <1>6, <1>7, <1>8, <1>9, <1>10, <1>11 DEF IInv, ScreenInv

(* Pages and the name editor. *)
LEMMA PageStep ==
  ASSUME IInv, LoadMore \/ PageEnds \/ Edit
  PROVE  IInv'
<1> USE TypeParts, NextTypeParts
<1>1. /\ UNCHANGED <<current, loading, generation, snapshot, loads, queue, history,
                     missed, crossed, kernel>>
      /\ shown'.dir = shown.dir /\ shown'.version = shown.version
      /\ cursor' = cursor \/ cursor' = None
  BY DEF LoadMore, PageEnds, Edit, Kernel, listing, IInv, ListingTypes, Listing
<1>2. page' \in Dirs \cup {None} /\ shown' \in Listing
  BY DEF LoadMore, PageEnds, Edit, listing, IInv, ListingTypes, PageTypes, Listing
<1>3. editing' \in BOOLEAN
  BY DEF LoadMore, PageEnds, Edit, IInv, PageTypes
<1>4. overlapped' \in BOOLEAN
  BY DEF LoadMore, PageEnds, Edit, IInv, LossTypes
<1>5. TypeOK'
  <2>1. KernelTypes' /\ QueueTypes' /\ HistoryTypes' /\ LossTypes'
    BY <1>1, <1>4 DEF IInv, KernelTypes, QueueTypes, HistoryTypes, LossTypes, kernel, history
  <2>2. ListingTypes'
    BY <1>1, <1>2 DEF IInv, ListingTypes
  <2>3. mode = "kernel" => cursor' = None /\ page' = None /\ shown'.tail = {}
    BY DEF LoadMore, PageEnds, Edit, listing, IInv, PageTypes
  <2>4. PageTypes'
    BY <1>1, <1>2, <1>3, <2>3 DEF PageTypes, kernel
  <2> QED  BY <2>1, <2>2, <2>4
<1>6. LoadsInOrder' /\ LoadsKnowTheirPath' /\ SnapshotIsOfTheLoad' /\ AddressFollows'
  BY <1>1
  DEF IInv, ScreenInv, LoadsInOrder, LoadsKnowTheirPath, SnapshotIsOfTheLoad,
      AddressFollows, Moves, Newest, history
<1>7. OnePage' /\ CursorFollows'
  BY <1>1 DEF IInv, ScreenInv, OnePage, CursorFollows, kernel
<1>8. EntriesBelong'
  <2>1. CASE LoadMore
    BY <1>1, <2>1
    DEF LoadMore, listing, IInv, ScreenInv, EntriesBelong, CursorFollows
  <2>2. CASE PageEnds
    <3>1. page # None /\ page' = None /\ overlapped' = overlapped
      BY <2>2 DEF PageEnds
    <3>2. shown'.tail \subseteq shown.tail \cup {page}
      BY <2>2 DEF PageEnds, IInv, ListingTypes, Listing
    <3> QED  BY <1>1, <3>1, <3>2 DEF IInv, ScreenInv, EntriesBelong
  <2>3. CASE Edit
    BY <2>3 DEF Edit, listing, IInv, ScreenInv, EntriesBelong
  <2> QED  BY <2>1, <2>2, <2>3
<1>9. StaleIsNoticed'
  <2>1. UNCHANGED <<version, pending, queue, missed, generation, loads>>
    BY <1>1 DEF kernel
  <2> QED  BY <1>1, <2>1
           DEF IInv, StaleIsNoticed, Noticed, OnItsWay, Announced, Newest
<1> QED  BY <1>5, <1>6, <1>7, <1>8, <1>9 DEF IInv, ScreenInv

-----------------------------------------------------------------------------
(* The invariant. *)

LEMMA InitInv == Init => IInv
<1> SUFFICES ASSUME Init
             PROVE  IInv
  OBVIOUS
<1>1. /\ shown = [dir |-> Root, version |-> 0, tail |-> {}]
      /\ shown \in Listing /\ shown.dir = Root /\ shown.tail = {} /\ shown.version = 0
  BY ExplorerAssumption DEF Init, Listing
<1>2. TypeOK
  <2>1. KernelTypes /\ QueueTypes
    BY ExplorerAssumption DEF Init, KernelTypes, QueueTypes
  <2>2. loading = FALSE /\ editing = FALSE /\ overlapped = FALSE /\ crossed = FALSE
    BY DEF Init
  <2>3. ListingTypes
    BY <1>1, <2>2, ExplorerAssumption DEF Init, ListingTypes
  <2>4. PageTypes
    BY <1>1, <2>2 DEF Init, PageTypes
  <2>5. HistoryTypes
    BY ExplorerAssumption DEF Init, HistoryTypes
  <2>6. LossTypes
    BY <2>2 DEF Init, LossTypes
  <2> QED  BY <2>1, <2>3, <2>4, <2>5, <2>6, TypeParts
<1>3. ScreenInv
  BY <1>1
  DEF Init, ScreenInv, LoadsInOrder, LoadsKnowTheirPath, SnapshotIsOfTheLoad, OnePage,
      CursorFollows, EntriesBelong
<1>4. AddressFollows
  BY DEF Init, AddressFollows, Moves
<1>5. StaleIsNoticed
  BY <1>1, ExplorerAssumption DEF Init, StaleIsNoticed, Noticed
<1> QED  BY <1>2, <1>3, <1>4, <1>5 DEF IInv

LEMMA StepInv == IInv /\ [Next]_vars => IInv'
<1> SUFFICES ASSUME IInv, [Next]_vars
             PROVE  IInv'
  OBVIOUS
<1>1. ASSUME NEW d \in Dirs, NEW byAction \in BOOLEAN, Change(d, byAction)
      PROVE  IInv'
  BY <1>1, ChangeStep
<1>2. ASSUME NEW d \in Dirs, ActionEnds(d) \/ ActionFails(d) \/ Navigate(d)
      PROVE  IInv'
  BY <1>2, ActionEndsStep, SocketStep, NavigateStep
<1>3. CASE WatchFires \/ Greet \/ Subscribe \/ Disconnect
  BY <1>3, WatchFiresStep, SocketStep
<1>4. CASE Refresh \/ PopState \/ Receive \/ Cancel
  BY <1>4, RefreshStep, PopStateStep, ReceiveStep, CancelStep
<1>5. ASSUME NEW l \in loads, Read(l) \/ Answer(l) \/ LoadFails(l) \/ Void(l)
      PROVE  IInv'
  BY <1>5, ReadStep, AnswerStep, LoadFailsStep, VoidStep
<1>6. CASE LoadMore \/ PageEnds \/ Edit
  BY <1>6, PageStep
<1>7. CASE UNCHANGED vars
  <2>1. Screen /\ UNCHANGED <<kernel, mode, version, queue, missed, pending>>
    BY <1>7 DEF vars, Screen, kernel
  <2>2. KernelTypes' /\ QueueTypes' /\ missed' \in SUBSET Dirs
    BY <2>1, TypeParts DEF IInv, KernelTypes, QueueTypes, LossTypes, kernel
  <2>3. \A d \in Dirs : Announced(d) => Announced(d)'
    BY <2>1 DEF Announced
  <2> QED  BY <2>1, <2>2, <2>3, KernelStep
<1> QED  BY <1>1, <1>2, <1>3, <1>4, <1>5, <1>6, <1>7 DEF Next

LEMMA Invariant == Spec => []IInv
BY InitInv, StepInv, PTL DEF Spec

\* The variables keep their types; in particular the event channel never holds
\* more than its capacity and a kernel listing has one page.
THEOREM Types == Spec => []TypeOK
BY Invariant, PTL DEF IInv

\* A listing is out of date only while an event or a load will tell, or a loss
\* of one is on record, for any directories and any number of steps.
THEOREM StaleIsAlwaysNoticed == Spec => []StaleListingIsNoticed
<1>1. IInv => StaleListingIsNoticed
  BY DEF IInv, StaleIsNoticed, Noticed, StaleListingIsNoticed, Stale
<1> QED  BY <1>1, Invariant, PTL

\* The entries on screen are those of the directory the page names, however
\* navigations, cancellations and pages fall together, unless they overlapped.
THEOREM EntriesAreAlwaysOfThePath == Spec => []EntriesAreOfThePath
<1>1. IInv => EntriesAreOfThePath
  BY DEF IInv, ScreenInv, EntriesBelong, SnapshotIsOfTheLoad, EntriesAreOfThePath
<1> QED  BY <1>1, Invariant, PTL

\* The address bar names the directory on screen once no load is under way,
\* unless navigations overlapped.
THEOREM AddressAlwaysNamesThePath == Spec => []AddressNamesThePath
<1>1. IInv => AddressNamesThePath
  BY DEF IInv, AddressFollows, Moves, AddressNamesThePath
<1> QED  BY <1>1, Invariant, PTL

-----------------------------------------------------------------------------
(* Rows and effects of the selection. *)

ScreenFields == {"path", "entries", "dots", "reversed", "query", "selected", "focus", "index",
                 "touch", "finger", "mode", "armed"}

ScreenFits(s) ==
  /\ DOMAIN s = ScreenFields
  /\ s.entries \subseteq Items /\ s.selected \subseteq Items /\ s.focus \in Items \cup {Unset}
  /\ s.index \in Nat /\ s.dots \in BOOLEAN /\ s.touch \in BOOLEAN /\ s.finger \in BOOLEAN /\ s.mode \in BOOLEAN
  /\ s.armed # Unset => s.armed.base \subseteq Items

IsRow(s, e) ==
  /\ e \in s.entries
  /\ s.query = Unset => s.dots \/ e \notin Dotted
  /\ s.query # Unset => e \in Matches[s.query]

LEMMA ReverseRange ==
  ASSUME NEW S, NEW q \in Seq(S)
  PROVE  Reverse(q) \in Seq(S) /\ Range(Reverse(q)) = Range(q)
<1>1. Len(q) \in Nat /\ DOMAIN q = 1..Len(q) /\ q \in [1..Len(q) -> S]
  OBVIOUS
<1>2. /\ DOMAIN Reverse(q) = 1..Len(q)
      /\ \A i \in 1..Len(q) : Reverse(q)[i] = q[(Len(q) - i) + 1]
  BY <1>1 DEF Reverse
<1>3. Reverse(q) \in [1..Len(q) -> S]
  BY <1>1, <1>2 DEF Reverse
<1>4. \A i \in 1..Len(q) : (Len(q) - i) + 1 \in 1..Len(q)
  BY <1>1
<1>5. \A i \in 1..Len(q) : Reverse(q)[(Len(q) - i) + 1] = q[i]
  BY <1>1, <1>2
<1>6. \A x : x \in Range(Reverse(q)) <=> x \in Range(q)
  BY <1>1, <1>2, <1>4, <1>5 DEF Range
<1>7. Reverse(q) \in Seq(S)
  BY <1>1, <1>3
<1> QED
  BY <1>6, <1>7

(* The rows are the entries the filters leave. *)
LEMMA RowsAre ==
  ASSUME NEW s, s.entries \subseteq Items
  PROVE  /\ rows(s) \in Seq(Items)
         /\ \A e : e \in Range(rows(s)) <=> IsRow(s, e)
         /\ \A i \in DOMAIN rows(s) : rows(s)[i] \in Range(rows(s))
         /\ \A e \in Range(rows(s)) : IndexIn(rows(s), e) \in DOMAIN rows(s)
                                      /\ rows(s)[IndexIn(rows(s), e)] = e
         /\ rows(s) # <<>> => 1 \in DOMAIN rows(s)
<1> DEFINE seen == {e \in visibleEntries(s) : quickFilterActive(s) => e \in Matches[s.query]}
<1>1. rows(s) = IF s.reversed THEN Reverse(Sorted[seen]) ELSE Sorted[seen]
  BY DEF rows
<1>2. seen \subseteq Items /\ \A e : e \in seen <=> IsRow(s, e)
  BY DEF visibleEntries, quickFilterActive, IsRow
<1> HIDE DEF seen
<1>3. Sorted[seen] \in Seq(seen) /\ Range(Sorted[seen]) = seen
  BY <1>2, SelectionAssumption
<1>4. rows(s) \in Seq(seen) /\ Range(rows(s)) = seen
  BY <1>1, <1>3, ReverseRange
<1>5. rows(s) \in Seq(Items)
  BY <1>2, <1>4
<1>6. \A i \in DOMAIN rows(s) : rows(s)[i] \in Range(rows(s))
  BY DEF Range
<1>7. \A e \in Range(rows(s)) : IndexIn(rows(s), e) \in DOMAIN rows(s)
                                /\ rows(s)[IndexIn(rows(s), e)] = e
  BY DEF IndexIn, Range
<1>8. rows(s) # <<>> => 1 \in DOMAIN rows(s)
  <2> DEFINE r == rows(s)
  <2>1. r \in Seq(Items)
    BY <1>5
  <2> HIDE DEF r
  <2>2. r # <<>> => 1 \in DOMAIN r
    BY <2>1
  <2> QED
    BY <2>2 DEF r
<1> QED
  BY <1>2, <1>4, <1>5, <1>6, <1>7, <1>8

LEMMA SameRows ==
  ASSUME NEW s, NEW t, t.entries = s.entries, t.dots = s.dots, t.query = s.query,
         t.reversed = s.reversed
  PROVE  rows(t) = rows(s) /\ \A e : IsRow(t, e) <=> IsRow(s, e)
  BY DEF rows, visibleEntries, quickFilterActive, IsRow

(* What the effects after a render may set: only rows are selected and focused,
   and the path, filters and listing stay, but for the quick filter of a path
   that was left. *)
Near(n, moved, m) ==
  /\ ScreenFits(m)
  /\ m.path = n.path /\ m.entries = n.entries /\ m.dots = n.dots /\ m.reversed = n.reversed
  /\ m.touch = n.touch /\ m.finger = n.finger /\ m.armed = n.armed
  /\ m.query = n.query \/ (moved /\ m.query = Unset)
  /\ m.mode = n.mode \/ (moved /\ m.mode = FALSE)
  /\ \/ m.selected = n.selected \/ m.selected = {}
     \/ \E e \in Range(rows(n)) : m.selected = {e}
  /\ m.focus = n.focus \/ m.focus = Unset \/ m.focus \in Range(rows(n))

Changed(o, n) == <<o.mode, Cardinality(o.selected)>> # <<n.mode, Cardinality(n.selected)>>

Many(s) == s.touch /\ s.finger /\ ~s.mode /\ \E x, y \in s.selected : x # y

LEMMA EffectsAre ==
  ASSUME NEW o, NEW n, ScreenFits(n), NEW listed \in BOOLEAN, NEW m, m = Effects(o, n, listed)
  PROVE  /\ Near(n, o.path # n.path, m)
         /\ Changed(o, n) /\ Many(n) => ~Many(m) /\ m.selected # n.selected
<1> DEFINE r     == rows(n)
           moved == o.path # n.path
           K(x)  == Changed(o, n) /\ Many(n) => ~Many(x) /\ x.selected # n.selected
<1>1. PICK m1 : m1 = LeaveSelectionMode(o, n, n)
  OBVIOUS
<1>2. PICK m2 : m2 = ClearTouchSelection(o, n, m1)
  OBVIOUS
<1>3. PICK m3 : m3 = ResetQuickFilter(o, n, m2)
  OBVIOUS
<1>4. PICK m4 : m4 = FollowFocus(o, n, listed, m3)
  OBVIOUS
<1>5. PICK m5 : m5 = SelectFirstMatch(o, n, listed, m4)
  OBVIOUS
<1>6. m = FocusIndex(o, n, listed, m5)
  BY <1>1, <1>2, <1>3, <1>4, <1>5 DEF Effects
<1>7. /\ \A i \in DOMAIN r : r[i] \in Range(r)
      /\ Range(r) \subseteq Items
      /\ r # <<>> => 1 \in DOMAIN r
      /\ \A e \in Range(r) : IndexIn(r, e) \in Nat
  BY RowsAre DEF ScreenFits, IsRow
<1> HIDE DEF r
<1>8. Near(n, moved, m1) /\ m1.selected = n.selected
  BY <1>1 DEF Near, LeaveSelectionMode, ScreenFits, ScreenFields
<1>9. Near(n, moved, m2) /\ K(m2)
  BY <1>2, <1>8 DEF Near, ClearTouchSelection, clearSelection, ScreenFits, ScreenFields, Many, Changed
<1>10. Near(n, moved, m3) /\ K(m3)
  BY <1>3, <1>9 DEF Near, ResetQuickFilter, ScreenFits, ScreenFields, Many
<1>11. Near(n, moved, m4) /\ K(m4)
  BY <1>4, <1>7, <1>10 DEF Near, FollowFocus, r, ScreenFits, ScreenFields, Many
<1>12. Near(n, moved, m5) /\ K(m5)
  BY <1>5, <1>7, <1>11 DEF Near, SelectFirstMatch, Select, ScreenFits, ScreenFields, Many, r
<1>13. Near(n, moved, m) /\ K(m)
  BY <1>6, <1>7, <1>12 DEF Near, FocusIndex, ScreenFits, ScreenFields, Many, r
<1> QED
  BY <1>13 DEF moved

LEMMA NearIs ==
  ASSUME NEW n, ScreenFits(n), NEW m, Near(n, FALSE, m)
  PROVE  /\ ScreenFits(m) /\ m.path = n.path /\ rows(m) = rows(n)
         /\ m.entries = n.entries /\ m.query = n.query /\ m.mode = n.mode
         /\ Chosen(m) \subseteq Chosen(n) \cup Range(rows(n))
<1>1. rows(m) = rows(n)
  BY SameRows DEF Near
<1> QED
  BY <1>1 DEF Near, Chosen

(* A selection of several that a touch screen must not show is cleared, because
   their number has just changed. *)
LEMMA ManyNext ==
  ASSUME NEW o, NEW n, ScreenFits(n), NEW moved \in BOOLEAN, NEW m, Near(n, moved, m),
         Many(n) => Changed(o, n),
         Changed(o, n) /\ Many(n) => ~Many(m) /\ m.selected # n.selected
  PROVE  /\ Many(m) => Changed(n, m) /\ moved
         /\ m = n => ~Many(n)
<1>1. ASSUME Many(m) PROVE Changed(n, m) /\ moved
  <2>1. ~Many(n) /\ m.selected = n.selected /\ m.touch = n.touch /\ m.finger = n.finger
    BY <1>1 DEF Near, Many
  <2>2. n.mode # m.mode
    BY <1>1, <2>1 DEF Many, Near, ScreenFits
  <2> QED
    BY <2>2 DEF Changed, Near
<1> QED
  BY <1>1

(* The screen after a handler and its effects. *)
LEMMA SettledIs ==
  ASSUME NEW n, ScreenFits(n), NEW listed \in BOOLEAN, NEW s, s = Settled(n, listed),
         Many(n) => Changed(scr, n)
  PROVE  /\ ScreenFits(s) /\ s.path = n.path /\ ~Many(s)
         /\ scr.path = n.path =>
              /\ rows(s) = rows(n) /\ s.entries = n.entries /\ s.query = n.query
              /\ Chosen(s) \subseteq Chosen(n) \cup Range(rows(n))
         /\ Chosen(s) \subseteq Chosen(Effects(scr, n, listed)) \cup Chosen(n) \cup Range(rows(s))
<1>1. PICK n1 : n1 = Effects(scr, n, listed)
  OBVIOUS
<1>2. PICK n2 : n2 = Effects(n, n1, FALSE)
  OBVIOUS
<1>3. PICK n3 : n3 = Effects(n1, n2, FALSE)
  OBVIOUS
<1>4. PICK n4 : n4 = Effects(n2, n3, FALSE)
  OBVIOUS
<1>5. s = IF n1 = n THEN n ELSE IF n2 = n1 THEN n1 ELSE IF n3 = n2 THEN n2 ELSE n4
  BY <1>1, <1>2, <1>3, <1>4 DEF Settled
<1>6. /\ Near(n, scr.path # n.path, n1)
      /\ Changed(scr, n) /\ Many(n) => ~Many(n1) /\ n1.selected # n.selected
  BY <1>1, EffectsAre
<1>7. ScreenFits(n1) /\ n1.path = n.path
  BY <1>6 DEF Near
<1>8. /\ Near(n1, FALSE, n2)
      /\ Changed(n, n1) /\ Many(n1) => ~Many(n2) /\ n2.selected # n1.selected
  BY <1>2, <1>7, EffectsAre
<1>9. /\ ScreenFits(n2) /\ n2.path = n1.path /\ rows(n2) = rows(n1)
      /\ n2.entries = n1.entries /\ n2.query = n1.query
      /\ Chosen(n2) \subseteq Chosen(n1) \cup Range(rows(n1))
  BY <1>7, <1>8, NearIs
<1>10. /\ Near(n2, FALSE, n3)
       /\ Changed(n1, n2) /\ Many(n2) => ~Many(n3) /\ n3.selected # n2.selected
  BY <1>3, <1>9, EffectsAre
<1>11. /\ ScreenFits(n3) /\ n3.path = n2.path /\ rows(n3) = rows(n2)
       /\ n3.entries = n2.entries /\ n3.query = n2.query
       /\ Chosen(n3) \subseteq Chosen(n2) \cup Range(rows(n2))
  BY <1>9, <1>10, NearIs
<1>12. /\ Near(n3, FALSE, n4)
       /\ Changed(n2, n3) /\ Many(n3) => ~Many(n4) /\ n4.selected # n3.selected
  BY <1>4, <1>11, EffectsAre
<1>13. /\ ScreenFits(n4) /\ n4.path = n3.path /\ rows(n4) = rows(n3)
       /\ n4.entries = n3.entries /\ n4.query = n3.query
       /\ Chosen(n4) \subseteq Chosen(n3) \cup Range(rows(n3))
  BY <1>11, <1>12, NearIs
<1>14. (Many(n1) => Changed(n, n1)) /\ (n1 = n => ~Many(n))
  BY <1>6, ManyNext
<1>15. (Many(n2) => Changed(n1, n2)) /\ (n2 = n1 => ~Many(n1))
  BY <1>7, <1>8, <1>14, ManyNext
<1>16. (Many(n3) => Changed(n2, n3)) /\ (n3 = n2 => ~Many(n2))
  BY <1>9, <1>10, <1>15, ManyNext
<1>17. ~Many(n4)
  BY <1>11, <1>12, <1>16, ManyNext
<1>18. ~Many(s)
  BY <1>5, <1>14, <1>15, <1>16, <1>17
<1>19. /\ ScreenFits(s) /\ s.path = n.path
       /\ Chosen(s) \subseteq Chosen(n1) \cup Chosen(n) \cup Range(rows(s))
  BY <1>5, <1>7, <1>9, <1>11, <1>13
<1>20. ASSUME scr.path = n.path
       PROVE  /\ rows(s) = rows(n) /\ s.entries = n.entries /\ s.query = n.query
              /\ Chosen(s) \subseteq Chosen(n) \cup Range(rows(n))
  <2>1. /\ rows(n1) = rows(n) /\ n1.entries = n.entries /\ n1.query = n.query
        /\ Chosen(n1) \subseteq Chosen(n) \cup Range(rows(n))
    BY <1>6, <1>20, NearIs
  <2> QED
    BY <1>5, <1>9, <1>11, <1>13, <2>1
<1> QED
  BY <1>1, <1>18, <1>19, <1>20

(* Leaving a path selects nothing. *)
LEMMA LeavingIs ==
  ASSUME ScreenFits(scr), NEW p, NEW n, n = [scr EXCEPT !.path = p]
  PROVE  /\ ScreenFits(n) /\ n.path = p /\ n.touch = scr.touch /\ n.finger = scr.finger
         /\ Chosen(n) = Chosen(scr) /\ n.selected = scr.selected /\ n.mode = scr.mode
         /\ Chosen(Effects(scr, n, FALSE)) \subseteq Chosen(scr)
<1>1. /\ DOMAIN n = ScreenFields /\ n.path = p
      /\ \A x \in ScreenFields \ {"path"} : n[x] = scr[x]
  BY DEF ScreenFits, ScreenFields
<1>2. /\ n.query = scr.query /\ n.reversed = scr.reversed /\ n.dots = scr.dots /\ n.index = scr.index
      /\ n.selected = scr.selected /\ n.focus = scr.focus /\ n.touch = scr.touch
      /\ n.finger = scr.finger /\ n.mode = scr.mode /\ n.entries = scr.entries /\ n.armed = scr.armed
  BY <1>1 DEF ScreenFields
<1>3. ScreenFits(n)
  BY <1>1, <1>2 DEF ScreenFits
<1>4. PICK m1 : m1 = LeaveSelectionMode(scr, n, n)
  OBVIOUS
<1>5. PICK m2 : m2 = ClearTouchSelection(scr, n, m1)
  OBVIOUS
<1>6. PICK m3 : m3 = ResetQuickFilter(scr, n, m2)
  OBVIOUS
<1>7. ~Redrawn(scr, n, FALSE) /\ scr.index = n.index
  BY <1>2 DEF Redrawn
<1>8. Effects(scr, n, FALSE) = m3
  <2>1. PICK m4 : m4 = FollowFocus(scr, n, FALSE, m3)
    OBVIOUS
  <2>2. PICK m5 : m5 = SelectFirstMatch(scr, n, FALSE, m4)
    OBVIOUS
  <2>3. Effects(scr, n, FALSE) = FocusIndex(scr, n, FALSE, m5)
    BY <1>4, <1>5, <1>6, <2>1, <2>2 DEF Effects
  <2>4. m4 = m3
    BY <1>7, <2>1 DEF FollowFocus
  <2>5. m5 = m4
    BY <1>7, <2>2 DEF SelectFirstMatch
  <2>6. FocusIndex(scr, n, FALSE, m5) = m5
    BY <1>7 DEF FocusIndex
  <2> QED
    BY <2>3, <2>4, <2>5, <2>6
<1>9. m1.selected = n.selected /\ m1.focus = n.focus /\ DOMAIN m1 = ScreenFields
  BY <1>1, <1>4 DEF LeaveSelectionMode, ScreenFields
<1>10. /\ DOMAIN m2 = ScreenFields
       /\ m2.selected \in {n.selected, {}} /\ m2.focus \in {n.focus, Unset}
  BY <1>5, <1>9 DEF ClearTouchSelection, clearSelection, ScreenFields
<1>11. m3.selected = m2.selected /\ m3.focus = m2.focus
  BY <1>6, <1>10 DEF ResetQuickFilter, ScreenFields
<1> QED
  BY <1>1, <1>2, <1>3, <1>8, <1>10, <1>11 DEF Chosen

-----------------------------------------------------------------------------
(* What the handlers do to the screen. *)

(* The fields that choose the rows, and those a selection leaves alone. *)
Like(n, m) ==
  /\ n.path = m.path /\ n.entries = m.entries /\ n.dots = m.dots /\ n.reversed = m.reversed
  /\ n.query = m.query /\ n.touch = m.touch

LEMMA LikeRows ==
  ASSUME NEW n, NEW m, Like(n, m)
  PROVE  rows(n) = rows(m) /\ \A e : IsRow(n, e) <=> IsRow(m, e)
  BY SameRows DEF Like

LEMMA SelectIs ==
  ASSUME NEW m, ScreenFits(m), NEW P \in SUBSET Items, NEW f \in Items \cup {Unset}, NEW i \in Nat,
         NEW n, n = Select(m, P, f, i)
  PROVE  /\ ScreenFits(n) /\ Like(n, m)
         /\ n.selected = P /\ n.focus = f /\ n.finger = m.finger /\ n.mode = m.mode
  BY DEF Select, ScreenFits, ScreenFields, Like

LEMMA ClearIs ==
  ASSUME NEW m, ScreenFits(m), NEW n, n = clearSelection(m)
  PROVE  /\ ScreenFits(n) /\ Like(n, m)
         /\ n.selected = {} /\ n.focus = Unset /\ n.finger = m.finger /\ n.mode = m.mode
  BY DEF clearSelection, ScreenFits, ScreenFields, Like

LEMMA PressedIs ==
  ASSUME ScreenFits(scr), NEW n, n = Pressed
  PROVE  /\ ScreenFits(n) /\ Like(n, scr)
         /\ n.selected = scr.selected /\ n.focus = scr.focus /\ n.mode = scr.mode
         /\ ~n.touch => ~n.finger
  BY DEF Pressed, ScreenFits, ScreenFields, Like

LEMMA RangeOfIndices ==
  ASSUME NEW s, s.entries \subseteq Items, NEW i, NEW j
  PROVE  pathsInIndexRange(rows(s), i, j) \subseteq Range(rows(s))
  BY RowsAre DEF pathsInIndexRange

LEMMA IndexIsNat ==
  ASSUME NEW S, NEW q \in Seq(S), NEW e
  PROVE  IndexIn(q, e) \in Nat /\ (IndexIn(q, e) # 0 => e \in Range(q))
<1>1. CASE e \in Range(q)
  <2>1. \E i \in DOMAIN q : q[i] = e
    BY <1>1 DEF Range
  <2>2. IndexIn(q, e) \in DOMAIN q
    BY <1>1, <2>1 DEF IndexIn
  <2>3. DOMAIN q \subseteq Nat
    OBVIOUS
  <2> QED
    BY <1>1, <2>2, <2>3
<1>2. CASE e \notin Range(q)
  BY <1>2 DEF IndexIn
<1> QED
  BY <1>1, <1>2

(* A set with two members has another size than one with at most one. *)
LEMMA TwoAreNotOne ==
  ASSUME NEW S \in SUBSET Items, NEW T \in SUBSET Items,
         \E x, y \in S : x # y, ~\E x, y \in T : x # y
  PROVE  Cardinality(S) # Cardinality(T)
<1>1. IsFiniteSet(S) /\ IsFiniteSet(T)
  BY FS_Subset, SelectionAssumption
<1>2. PICK x \in S, y \in S : x # y
  OBVIOUS
<1>3. Cardinality({x, y}) <= Cardinality(S)
  BY <1>1, FS_Subset
<1>4. Cardinality({x, y}) = 2
  <2>1. Cardinality({x}) = 1 /\ IsFiniteSet({x})
    BY FS_Singleton
  <2>2. Cardinality({x} \cup {y}) = Cardinality({x}) + 1
    BY <1>2, <2>1, FS_AddElement
  <2>3. {x} \cup {y} = {x, y}
    OBVIOUS
  <2> QED
    BY <2>1, <2>2, <2>3
<1>5. T = {} \/ \E t : T = {t}
  OBVIOUS
<1>6. Cardinality(T) = 0 \/ Cardinality(T) = 1
  BY <1>5, FS_EmptySet, FS_Singleton
<1>7. Cardinality(S) \in Nat
  BY <1>1, FS_CardinalityType
<1> QED
  BY <1>3, <1>4, <1>6, <1>7

Fingered(n) == n.finger = scr.finger \/ n.mode \/ n.selected = {} \/ ~n.touch

LEMMA ManyChanged ==
  ASSUME ScreenFits(scr), ~Many(scr), NEW n, ScreenFits(n), n.touch = scr.touch, Fingered(n)
  PROVE  Many(n) => Changed(scr, n)
<1> SUFFICES ASSUME Many(n) PROVE Changed(scr, n)
  OBVIOUS
<1>1. scr.touch /\ scr.finger /\ ~n.mode
  BY DEF Many, Fingered
<1>2. CASE scr.mode
  BY <1>1, <1>2 DEF Changed
<1>3. CASE ~scr.mode
  <2>1. \E x, y \in n.selected : x # y
    BY DEF Many
  <2>2. ~\E x, y \in scr.selected : x # y
    BY <1>1, <1>3 DEF Many
  <2>3. Cardinality(n.selected) # Cardinality(scr.selected)
    BY <2>1, <2>2, TwoAreNotOne DEF ScreenFits
  <2> QED
    BY <2>3 DEF Changed
<1> QED
  BY <1>2, <1>3

-----------------------------------------------------------------------------
(* The invariant.  What is chosen is a row or known to be out of sight; a touch
   screen outside selection mode shows at most one selected entry after a press;
   and while a refresh is under way and nothing was chosen, its snapshot is the
   selection on screen. *)
LoadFields == {"path", "keep", "focusPath", "chosen", "sel"}

LoadFits(l, s) ==
  l # Unset =>
    /\ DOMAIN l = LoadFields /\ l.path = s.path /\ l.focusPath \in Items \cup {Unset}
    /\ l.keep \in BOOLEAN /\ l.chosen \in BOOLEAN
    /\ l.keep => l.focusPath = Unset /\ l.sel.paths \subseteq Items
    /\ l.keep /\ ~l.chosen =>
         /\ l.sel.paths = s.selected
         /\ s.selected # {} => l.sel.focus = s.focus

ChosenKnown == Chosen(scr) \subseteq Range(rows(scr)) \cup unseen

SelectionInv ==
  /\ ScreenFits(scr) /\ ~Many(scr)
  /\ ChosenKnown
  /\ disk \subseteq Items
  /\ drag # Unset => drag.base \subseteq Items
  /\ LoadFits(load, scr)

LEMMA UnseenKept ==
  ASSUME NEW put, KeepUnseen(put), Chosen(scr') \subseteq Range(rows(scr')) \cup unseen \cup put
  PROVE  ChosenKnown'
  BY DEF KeepUnseen, ChosenKnown

(* A screen a handler leaves behind. *)
Reaches(n, put) ==
  /\ ScreenFits(n) /\ n.path = scr.path /\ n.touch = scr.touch /\ Fingered(n)
  /\ Chosen(n) \subseteq Range(rows(n)) \cup unseen \cup put

LEMMA BecomeKeeps ==
  ASSUME SelectionInv, NEW n, NEW put, Reaches(n, put), Become(n, put), disk' \subseteq Items,
         drag' # Unset => drag'.base \subseteq Items
  PROVE  SelectionInv'
<1>1. scr' = Settled(n, FALSE) /\ KeepUnseen(put)
  BY DEF Become
<1>2. ScreenFits(scr) /\ ~Many(scr) /\ ScreenFits(n) /\ n.path = scr.path
  BY DEF SelectionInv, Reaches
<1>3. Many(n) => Changed(scr, n)
  BY <1>2, ManyChanged DEF Reaches
<1>4. /\ ScreenFits(scr') /\ scr'.path = scr.path /\ ~Many(scr')
      /\ rows(scr') = rows(n) /\ Chosen(scr') \subseteq Chosen(n) \cup Range(rows(n))
  BY <1>1, <1>2, <1>3, SettledIs
<1>5. ChosenKnown'
  BY <1>1, <1>4, UnseenKept DEF Reaches
<1>6. LoadFits(load', scr')
  <2>1. CASE load = Unset \/ <<scr'.selected, scr'.focus>> = <<scr.selected, scr.focus>>
    BY <1>4, <2>1 DEF Become, LoadFits, SelectionInv
  <2>2. CASE ~(load = Unset \/ <<scr'.selected, scr'.focus>> = <<scr.selected, scr.focus>>)
    <3>1. load' = [load EXCEPT !.chosen = TRUE] /\ load # Unset
      BY <2>2 DEF Become
    <3>2. DOMAIN load = LoadFields
      BY <3>1 DEF LoadFits, SelectionInv
    <3>3. /\ DOMAIN load' = LoadFields /\ load'.path = load.path /\ load'.keep = load.keep
          /\ load'.focusPath = load.focusPath /\ load'.chosen = TRUE /\ load'.sel = load.sel
      BY <3>1, <3>2 DEF LoadFields
    <3> QED
      BY <1>4, <3>1, <3>3 DEF LoadFits, SelectionInv
  <2> QED
    BY <2>1, <2>2
<1>7. ScreenFits(scr)' /\ (~Many(scr))' /\ LoadFits(load, scr)'
  BY <1>4, <1>6 DEF ScreenFits, Many, LoadFits, ScreenFields, LoadFields
<1> QED
  BY <1>5, <1>7 DEF SelectionInv

LEMMA HandledKeeps ==
  ASSUME SelectionInv, NEW n, Reaches(n, {}), Handled(n)
  PROVE  SelectionInv'
<1>1. Become(n, {}) /\ disk' \subseteq Items /\ (drag' # Unset => drag'.base \subseteq Items)
  BY DEF Handled, SelectionInv
<1> QED
  BY <1>1, BecomeKeeps

(* What a gesture selects is a row. *)
LEMMA SelectReaches ==
  ASSUME SelectionInv, NEW m, ScreenFits(m), Like(m, scr),
         NEW P \in SUBSET (Range(rows(scr)) \cup unseen), P \subseteq Items,
         NEW f \in P \cup Range(rows(scr)) \cup {Unset}, f \in Items \cup {Unset}, NEW i \in Nat,
         m.finger = scr.finger \/ m.mode \/ ~m.touch
  PROVE  Reaches(Select(m, P, f, i), {})
<1> DEFINE n == Select(m, P, f, i)
<1>1. /\ ScreenFits(n) /\ Like(n, m)
      /\ n.selected = P /\ n.focus = f /\ n.finger = m.finger /\ n.mode = m.mode
  BY SelectIs
<1> HIDE DEF n
<1>2. rows(n) = rows(scr)
  BY <1>1, LikeRows
<1>3. Chosen(n) \subseteq Range(rows(n)) \cup unseen
  BY <1>1, <1>2 DEF Chosen
<1>4. n.path = scr.path /\ n.touch = scr.touch /\ Fingered(n)
  BY <1>1 DEF Like, Fingered
<1>5. Reaches(n, {})
  BY <1>1, <1>3, <1>4 DEF Reaches
<1> QED
  BY <1>5 DEF n

(* What the screen shows and what is chosen are known. *)
LEMMA ShownIs ==
  ASSUME SelectionInv
  PROVE  /\ ScreenFits(scr) /\ scr.entries \subseteq Items
         /\ Range(rows(scr)) \subseteq Items /\ rows(scr) \in Seq(Items)
         /\ \A i \in DOMAIN rows(scr) : At(i) \in Range(rows(scr)) /\ i \in Nat
         /\ scr.selected \subseteq Range(rows(scr)) \cup unseen
         /\ scr.focus \in Range(rows(scr)) \cup unseen \cup {Unset}
         /\ scr.selected \subseteq Items /\ scr.focus \in Items \cup {Unset}
<1>1. ScreenFits(scr) /\ scr.entries \subseteq Items /\ scr.selected \subseteq Items
      /\ scr.focus \in Items \cup {Unset}
  BY DEF SelectionInv, ScreenFits
<1>2. /\ Range(rows(scr)) \subseteq Items /\ rows(scr) \in Seq(Items)
      /\ \A i \in DOMAIN rows(scr) : At(i) \in Range(rows(scr))
  BY <1>1, RowsAre DEF IsRow, At
<1>3. \A i \in DOMAIN rows(scr) : i \in Nat
  <2> DEFINE r == rows(scr)
  <2>1. r \in Seq(Items)
    BY <1>2
  <2> HIDE DEF r
  <2>2. \A i \in DOMAIN r : i \in Nat
    BY <2>1
  <2> QED
    BY <2>2 DEF r
<1>4. Unset \notin scr.selected
  BY <1>1, SelectionAssumption
<1>5. Chosen(scr) \subseteq Range(rows(scr)) \cup unseen
  BY DEF SelectionInv, ChosenKnown
<1> QED
  BY <1>1, <1>2, <1>3, <1>4, <1>5 DEF Chosen

(* A handler that leaves the listing and its filters alone. *)
LEMMA StaysReaches ==
  ASSUME SelectionInv, NEW n, ScreenFits(n), n.path = scr.path, n.touch = scr.touch,
         n.entries = scr.entries, n.dots = scr.dots, n.query = scr.query, Fingered(n),
         Chosen(n) \subseteq Range(rows(scr)) \cup unseen
  PROVE  Reaches(n, {})
<1>1. n.entries \subseteq Items /\ scr.entries \subseteq Items
  BY DEF ScreenFits, SelectionInv
<1>2. Range(rows(n)) = Range(rows(scr))
  <2>1. \A e : IsRow(n, e) <=> IsRow(scr, e)
    BY DEF IsRow
  <2>2. \A e : e \in Range(rows(n)) <=> e \in Range(rows(scr))
    BY <1>1, <2>1, RowsAre
  <2> QED
    BY <2>2
<1> QED
  BY <1>2 DEF Reaches

LEMMA ClearReaches ==
  ASSUME SelectionInv, NEW m, ScreenFits(m), Like(m, scr), NEW n, n = clearSelection(m)
  PROVE  Reaches(n, {})
<1>1. /\ ScreenFits(n) /\ Like(n, m)
      /\ n.selected = {} /\ n.focus = Unset /\ n.finger = m.finger /\ n.mode = m.mode
  BY ClearIs
<1>2. /\ n.path = scr.path /\ n.touch = scr.touch /\ n.entries = scr.entries /\ n.dots = scr.dots
      /\ n.query = scr.query /\ Fingered(n) /\ Chosen(n) = {}
  BY <1>1 DEF Like, Fingered, Chosen
<1> QED
  BY <1>1, <1>2, StaysReaches

LEMMA OnSelectKeeps ==
  ASSUME SelectionInv, NEW i \in DOMAIN rows(scr), NEW toggle \in BOOLEAN, onSelect(i, toggle)
  PROVE  SelectionInv'
<1> DEFINE P == WithToggled(At(i))
<1>1. ScreenFits(Pressed) /\ Like(Pressed, scr)
      /\ Pressed.mode = scr.mode /\ (~Pressed.touch => ~Pressed.finger)
  BY PressedIs DEF SelectionInv
<1>2. Pressed.finger = scr.finger \/ Pressed.mode \/ ~Pressed.touch
  BY <1>1 DEF onSelect, Like
<1>3. At(i) \in Range(rows(scr)) /\ At(i) \in Items /\ i \in Nat
  BY ShownIs
<1>4. CASE scr.mode \/ toggle
  <2>1. PICK f \in ToggledFocus(At(i), P) : Handled(Select(Pressed, P, f, i))
    BY <1>4 DEF onSelect
  <2>2. P \subseteq Range(rows(scr)) \cup unseen /\ P \subseteq Items
    BY <1>3, ShownIs DEF WithToggled
  <2>3. f \in P \cup Range(rows(scr)) \cup {Unset} /\ f \in Items \cup {Unset}
    BY <1>3, <2>1, <2>2 DEF ToggledFocus
  <2> HIDE DEF P
  <2>4. Reaches(Select(Pressed, P, f, i), {})
    BY <1>1, <1>2, <1>3, <2>2, <2>3, SelectReaches
  <2> QED
    BY <2>1, <2>4, HandledKeeps
<1>5. CASE ~(scr.mode \/ toggle)
  <2>1. Handled(Select(Pressed, {At(i)}, At(i), i))
    BY <1>5 DEF onSelect
  <2>2. Reaches(Select(Pressed, {At(i)}, At(i), i), {})
    BY <1>1, <1>2, <1>3, SelectReaches
  <2> QED
    BY <2>1, <2>2, HandledKeeps
<1> QED
  BY <1>4, <1>5

LEMMA OnSelectRangeKeeps ==
  ASSUME SelectionInv, NEW i \in DOMAIN rows(scr), onSelectRange(i)
  PROVE  SelectionInv'
<1>1. PICK anchor \in Anchors :
        Handled(Select(Pressed, pathsInIndexRange(rows(scr), anchor, i), At(i), i))
  BY DEF onSelectRange
<1>2. ScreenFits(Pressed) /\ Like(Pressed, scr)
      /\ Pressed.mode = scr.mode /\ (~Pressed.touch => ~Pressed.finger)
  BY PressedIs DEF SelectionInv
<1>3. Pressed.finger = scr.finger \/ Pressed.mode \/ ~Pressed.touch
  BY <1>2 DEF onSelectRange, Like
<1>4. At(i) \in Range(rows(scr)) /\ At(i) \in Items /\ i \in Nat
  BY ShownIs
<1>5. pathsInIndexRange(rows(scr), anchor, i) \subseteq Range(rows(scr))
      /\ pathsInIndexRange(rows(scr), anchor, i) \subseteq Items
  BY ShownIs, RangeOfIndices
<1>6. Reaches(Select(Pressed, pathsInIndexRange(rows(scr), anchor, i), At(i), i), {})
  BY <1>2, <1>3, <1>4, <1>5, SelectReaches
<1> QED
  BY <1>1, <1>6, HandledKeeps

LEMMA TapKeeps ==
  ASSUME SelectionInv, Tap
  PROVE  SelectionInv'
<1>1. ScreenFits(Pressed) /\ Like(Pressed, scr)
  BY PressedIs DEF SelectionInv
<1>2. Reaches(clearSelection(Pressed), {})
  BY <1>1, ClearReaches
<1> QED
  BY <1>2, HandledKeeps DEF Tap

LEMMA OnListingEmptyClickKeeps ==
  ASSUME SelectionInv, onListingEmptyClick
  PROVE  SelectionInv'
<1>1. PICK n : n = [Pressed EXCEPT !.selected = {}]
  OBVIOUS
<1>2. Handled(n)
  BY <1>1 DEF onListingEmptyClick
<1>3. ScreenFits(Pressed) /\ Like(Pressed, scr) /\ Pressed.focus = scr.focus
  BY PressedIs DEF SelectionInv
<1>4. ScreenFits(n) /\ Like(n, scr) /\ n.selected = {} /\ n.focus = scr.focus
  BY <1>1, <1>3 DEF ScreenFits, ScreenFields, Like
<1>5. Chosen(n) \subseteq Range(rows(scr)) \cup unseen
  BY <1>4, ShownIs DEF Chosen
<1>6. Reaches(n, {})
  BY <1>4, <1>5, StaysReaches DEF Like, Fingered
<1> QED
  BY <1>2, <1>6, HandledKeeps

LEMMA OpenContextMenuKeeps ==
  ASSUME SelectionInv, NEW path \in Items \cup {Unset}, openContextMenu(path)
  PROVE  SelectionInv'
<1>1. ScreenFits(scr) /\ Like(scr, scr)
  BY DEF SelectionInv, Like
<1>2. CASE path = Unset
  <2>1. Handled(clearSelection(scr))
    BY <1>2 DEF openContextMenu
  <2> QED
    BY <1>1, <2>1, ClearReaches, HandledKeeps
<1>3. CASE path # Unset
  <2>1. path \in Range(rows(scr)) /\ Handled(Select(scr, {path}, path, IndexIn(rows(scr), path)))
    BY <1>3 DEF openContextMenu
  <2>2. IndexIn(rows(scr), path) \in Nat /\ path \in Items
    BY <2>1, ShownIs, IndexIsNat
  <2>3. Reaches(Select(scr, {path}, path, IndexIn(rows(scr), path)), {})
    BY <1>1, <2>1, <2>2, SelectReaches
  <2> QED
    BY <2>1, <2>3, HandledKeeps
<1> QED
  BY <1>2, <1>3

LEMMA SlideshowKeeps ==
  ASSUME SelectionInv, NEW path, handleSlideshowCurrentPathChange(path)
  PROVE  SelectionInv'
<1>1. PICK n : n = [scr EXCEPT !.focus = path, !.index = IndexIn(rows(scr), path)]
  OBVIOUS
<1>2. Handled(n) /\ path \in Range(rows(scr))
  BY <1>1 DEF handleSlideshowCurrentPathChange
<1>3. ScreenFits(scr) /\ path \in Items /\ IndexIn(rows(scr), path) \in Nat
  BY <1>2, ShownIs, IndexIsNat
<1>4. ScreenFits(n) /\ Like(n, scr) /\ n.selected = scr.selected /\ n.focus = path
      /\ n.finger = scr.finger
  BY <1>1, <1>3 DEF ScreenFits, ScreenFields, Like
<1>5. Chosen(n) \subseteq Range(rows(scr)) \cup unseen
  BY <1>2, <1>4, ShownIs DEF Chosen
<1>6. Reaches(n, {})
  BY <1>4, <1>5, StaysReaches DEF Like, Fingered
<1> QED
  BY <1>2, <1>6, HandledKeeps

LEMMA MoveSelectedIndexKeeps ==
  ASSUME SelectionInv, NEW down \in BOOLEAN, NEW extend \in BOOLEAN, moveSelectedIndex(down, extend)
  PROVE  SelectionInv'
<1> DEFINE to   == IF down THEN scr.index + 1 ELSE IF scr.index = 0 THEN 0 ELSE scr.index - 1
           last == Len(rows(scr))
           next == IF to < 1 THEN 1 ELSE IF to > last THEN last ELSE to
<1>1. scr.index \in Nat /\ rows(scr) \in Seq(Items)
  BY ShownIs DEF ScreenFits
<1>2. last \in Nat /\ DOMAIN rows(scr) = 1..last
  <2> DEFINE r == rows(scr)
  <2> HIDE DEF r
  <2>1. r \in Seq(Items)
    BY <1>1 DEF r
  <2>2. Len(r) \in Nat /\ DOMAIN r = 1..Len(r)
    BY <2>1
  <2> QED
    BY <2>2 DEF r
<1> HIDE DEF last
<1>3. last > 0
  BY DEF moveSelectedIndex, last
<1>4. next \in DOMAIN rows(scr)
  BY <1>1, <1>2, <1>3
<1>5. \E anchor \in IF extend THEN Anchors ELSE {next} :
        Handled(Select(scr, pathsInIndexRange(rows(scr), anchor, next), At(next), next))
  BY DEF moveSelectedIndex, last
<1> HIDE DEF next
<1>6. PICK anchor :
        Handled(Select(scr, pathsInIndexRange(rows(scr), anchor, next), At(next), next))
  BY <1>5
<1>7. At(next) \in Range(rows(scr)) /\ At(next) \in Items /\ next \in Nat
  BY <1>4, ShownIs
<1>8. pathsInIndexRange(rows(scr), anchor, next) \subseteq Range(rows(scr))
      /\ pathsInIndexRange(rows(scr), anchor, next) \subseteq Items
  BY ShownIs, RangeOfIndices
<1>9. ScreenFits(scr) /\ Like(scr, scr)
  BY DEF SelectionInv, Like
<1>10. Reaches(Select(scr, pathsInIndexRange(rows(scr), anchor, next), At(next), next), {})
  BY <1>7, <1>8, <1>9, SelectReaches
<1> QED
  BY <1>6, <1>10, HandledKeeps

LEMMA ToggleMultiSelectKeeps ==
  ASSUME SelectionInv, toggleMultiSelect
  PROVE  SelectionInv'
<1> DEFINE next == WithToggled(At(scr.index))
<1>1. PICK n : n = [scr EXCEPT !.selected = next, !.focus = IF next = {} THEN Unset ELSE @]
  OBVIOUS
<1>2. Handled(n) /\ scr.index \in DOMAIN rows(scr)
  BY <1>1 DEF toggleMultiSelect
<1>3. next \subseteq Range(rows(scr)) \cup unseen /\ next \subseteq Items
  BY <1>2, ShownIs DEF WithToggled
<1> HIDE DEF next
<1>4. ScreenFits(scr)
  BY DEF SelectionInv
<1>5. ScreenFits(n) /\ Like(n, scr) /\ n.selected = next /\ n.focus \in {scr.focus, Unset}
      /\ n.finger = scr.finger
  BY <1>1, <1>3, <1>4 DEF ScreenFits, ScreenFields, Like
<1>6. Chosen(n) \subseteq Range(rows(scr)) \cup unseen
  BY <1>3, <1>5, ShownIs DEF Chosen
<1>7. Reaches(n, {})
  BY <1>5, <1>6, StaysReaches DEF Like, Fingered
<1> QED
  BY <1>2, <1>7, HandledKeeps

LEMMA SelectAllVisibleKeeps ==
  ASSUME SelectionInv, selectAllVisible
  PROVE  SelectionInv'
<1> DEFINE last == Len(rows(scr))
<1>1. Handled(Select(scr, Range(rows(scr)), At(last), last)) /\ last > 0
  BY DEF selectAllVisible
<1>2. last \in DOMAIN rows(scr)
  <2> DEFINE r == rows(scr)
  <2>1. r \in Seq(Items) /\ Len(r) > 0
    BY <1>1, ShownIs
  <2> HIDE DEF r
  <2>2. Len(r) \in DOMAIN r
    BY <2>1
  <2> QED
    BY <2>2 DEF r
<1> HIDE DEF last
<1>3. At(last) \in Range(rows(scr)) /\ At(last) \in Items /\ last \in Nat /\ Range(rows(scr)) \subseteq Items
  BY <1>2, ShownIs
<1>4. ScreenFits(scr) /\ Like(scr, scr)
  BY DEF SelectionInv, Like
<1>5. Reaches(Select(scr, Range(rows(scr)), At(last), last), {})
  BY <1>3, <1>4, SelectReaches
<1> QED
  BY <1>1, <1>5, HandledKeeps

LEMMA ClearSelectionActionKeeps ==
  ASSUME SelectionInv, clearSelectionAction
  PROVE  SelectionInv'
<1>1. ScreenFits(scr) /\ Like(scr, scr)
  BY DEF SelectionInv, Like
<1>2. Handled(clearSelection(scr))
  BY DEF clearSelectionAction
<1> QED
  BY <1>1, <1>2, ClearReaches, HandledKeeps

LEMMA ToggleSelectionModeKeeps ==
  ASSUME SelectionInv, toggleSelectionMode
  PROVE  SelectionInv'
<1>1. ScreenFits(scr) /\ Like(scr, scr)
  BY DEF SelectionInv, Like
<1>2. CASE scr.mode
  <2>1. PICK n : n = [clearSelection(scr) EXCEPT !.mode = FALSE, !.armed = Unset]
    OBVIOUS
  <2>2. Handled(n)
    BY <1>2, <2>1 DEF toggleSelectionMode
  <2>3. PICK m : m = clearSelection(scr)
    OBVIOUS
  <2>4. ScreenFits(m) /\ Like(m, scr) /\ m.selected = {} /\ m.focus = Unset
    BY <1>1, <2>3, ClearIs
  <2>5. ScreenFits(n) /\ Like(n, scr) /\ n.selected = {} /\ n.focus = Unset
    BY <2>1, <2>3, <2>4 DEF ScreenFits, ScreenFields, Like
  <2>6. Reaches(n, {})
    BY <2>5, StaysReaches DEF Like, Fingered, Chosen
  <2> QED
    BY <2>2, <2>6, HandledKeeps
<1>3. CASE ~scr.mode
  <2>1. PICK n : n = [scr EXCEPT !.mode = TRUE]
    OBVIOUS
  <2>2. Handled(n)
    BY <1>3, <2>1 DEF toggleSelectionMode
  <2>3. /\ ScreenFits(n) /\ Like(n, scr) /\ n.selected = scr.selected /\ n.focus = scr.focus /\ n.mode
    BY <1>1, <2>1 DEF ScreenFits, ScreenFields, Like
  <2>4. Chosen(n) \subseteq Range(rows(scr)) \cup unseen
    BY <2>3, ShownIs DEF Chosen
  <2>5. Reaches(n, {})
    BY <2>3, <2>4, StaysReaches DEF Like, Fingered
  <2> QED
    BY <2>2, <2>5, HandledKeeps
<1> QED
  BY <1>2, <1>3

LEMMA PressNothingKeeps ==
  ASSUME SelectionInv, PressNothing
  PROVE  SelectionInv'
<1>1. PICK m : m = clearSelection(Pressed)
  OBVIOUS
<1>2. PICK n : n = [m EXCEPT !.mode = TRUE]
  OBVIOUS
<1>3. Handled(n)
  BY <1>1, <1>2 DEF PressNothing
<1>4. ScreenFits(Pressed) /\ Like(Pressed, scr)
  BY PressedIs DEF SelectionInv
<1>5. ScreenFits(m) /\ Like(m, scr) /\ m.selected = {} /\ m.focus = Unset
  BY <1>1, <1>4, ClearIs DEF Like
<1>6. ScreenFits(n) /\ Like(n, scr) /\ n.selected = {} /\ n.focus = Unset
  BY <1>2, <1>5 DEF ScreenFits, ScreenFields, Like
<1>7. Reaches(n, {})
  BY <1>6, StaysReaches DEF Like, Fingered, Chosen
<1> QED
  BY <1>3, <1>7, HandledKeeps

LEMMA EndLongPressKeeps ==
  ASSUME SelectionInv, endLongPress
  PROVE  SelectionInv'
<1>1. PICK n : n = [scr EXCEPT !.armed = Unset]
  OBVIOUS
<1>2. Handled(n)
  BY <1>1 DEF endLongPress
<1>3. ScreenFits(scr)
  BY DEF SelectionInv
<1>4. /\ ScreenFits(n) /\ Like(n, scr) /\ n.selected = scr.selected /\ n.focus = scr.focus
      /\ n.finger = scr.finger
  BY <1>1, <1>3 DEF ScreenFits, ScreenFields, Like
<1>5. Chosen(n) \subseteq Range(rows(scr)) \cup unseen
  BY <1>4, ShownIs DEF Chosen
<1>6. Reaches(n, {})
  BY <1>4, <1>5, StaysReaches DEF Like, Fingered
<1> QED
  BY <1>2, <1>6, HandledKeeps

(* A filter may hide what is chosen, which is then known to be out of sight. *)
LEMMA FilteredKeeps ==
  ASSUME SelectionInv, NEW n, ScreenFits(n), n.path = scr.path, n.touch = scr.touch,
         n.finger = scr.finger, n.selected = scr.selected, n.focus = scr.focus, Filtered(n)
  PROVE  SelectionInv'
<1>1. Chosen(n) = Chosen(scr)
  BY DEF Chosen
<1>2. Reaches(n, Chosen(scr))
  BY <1>1 DEF Reaches, Fingered
<1>3. Become(n, Chosen(scr)) /\ disk' \subseteq Items /\ (drag' # Unset => drag'.base \subseteq Items)
  BY DEF Filtered, SelectionInv
<1> QED
  BY <1>2, <1>3, BecomeKeeps

LEMMA FiltersKeep ==
  ASSUME SelectionInv, (\E query : setQuickFilter(query)) \/ toggleDotEntries
  PROVE  SelectionInv'
<1>1. ScreenFits(scr)
  BY DEF SelectionInv
<1>2. ASSUME NEW query, setQuickFilter(query) PROVE SelectionInv'
  <2>1. PICK n : n = [scr EXCEPT !.query = query]
    OBVIOUS
  <2>2. Filtered(n)
    BY <1>2, <2>1 DEF setQuickFilter
  <2>3. /\ ScreenFits(n) /\ n.path = scr.path /\ n.touch = scr.touch /\ n.finger = scr.finger
        /\ n.selected = scr.selected /\ n.focus = scr.focus
    BY <1>1, <2>1 DEF ScreenFits, ScreenFields
  <2> QED
    BY <2>2, <2>3, FilteredKeeps
<1>3. ASSUME toggleDotEntries PROVE SelectionInv'
  <2>1. PICK n : n = [scr EXCEPT !.dots = ~@]
    OBVIOUS
  <2>2. Filtered(n)
    BY <1>3, <2>1 DEF toggleDotEntries
  <2>3. /\ ScreenFits(n) /\ n.path = scr.path /\ n.touch = scr.touch /\ n.finger = scr.finger
        /\ n.selected = scr.selected /\ n.focus = scr.focus
    BY <1>1, <2>1 DEF ScreenFits, ScreenFields
  <2> QED
    BY <2>2, <2>3, FilteredKeeps
<1> QED
  BY <1>2, <1>3

LEMMA SortListingKeeps ==
  ASSUME SelectionInv, sortListing
  PROVE  SelectionInv'
<1>1. PICK n : n = [scr EXCEPT !.reversed = ~@]
  OBVIOUS
<1>2. Handled(n)
  BY <1>1 DEF sortListing
<1>3. ScreenFits(scr)
  BY DEF SelectionInv
<1>4. /\ ScreenFits(n) /\ n.path = scr.path /\ n.touch = scr.touch /\ n.entries = scr.entries
      /\ n.dots = scr.dots /\ n.query = scr.query
      /\ n.selected = scr.selected /\ n.focus = scr.focus /\ n.finger = scr.finger
  BY <1>1, <1>3 DEF ScreenFits, ScreenFields
<1>5. Chosen(n) \subseteq Range(rows(scr)) \cup unseen
  BY <1>4, ShownIs DEF Chosen
<1>6. Reaches(n, {})
  BY <1>4, <1>5, StaysReaches DEF Fingered
<1> QED
  BY <1>2, <1>6, HandledKeeps

-----------------------------------------------------------------------------
(* Marquee and long press: what they put back is known to be out of sight. *)
LEMMA MarqueeIs ==
  ASSUME NEW m, ScreenFits(m), NEW P \in SUBSET Items, NEW primary, NEW n,
         n = applyMarqueeSelection(m, P, primary)
  PROVE  /\ ScreenFits(n) /\ Like(n, m)
         /\ n.selected = P /\ n.focus \in P \cup {Unset} /\ n.finger = m.finger /\ n.mode = m.mode
<1> DEFINE R    == rows(m)
           path == IF primary \in P THEN primary
                   ELSE IF m.focus \in P THEN m.focus
                   ELSE IF P \cap Range(R) # {} THEN CHOOSE p \in P \cap Range(R) : TRUE
                   ELSE Unset
           i    == IF IndexIn(R, primary) # 0 THEN IndexIn(R, primary) ELSE IndexIn(R, path)
<1>1. n = IF path = Unset THEN [m EXCEPT !.selected = P, !.focus = Unset]
          ELSE IF i = 0 THEN [m EXCEPT !.selected = P, !.focus = path]
          ELSE Select(m, P, path, i)
  BY DEF applyMarqueeSelection
<1>2. path \in P \cup {Unset}
  OBVIOUS
<1>3. R \in Seq(Items)
  BY RowsAre DEF ScreenFits
<1> HIDE DEF R
<1>4. i \in Nat
  BY <1>3, IndexIsNat
<1> HIDE DEF path, i
<1>5. path \in Items \cup {Unset}
  BY <1>2
<1>6. CASE path = Unset
  BY <1>1, <1>6 DEF ScreenFits, ScreenFields, Like
<1>7. CASE path # Unset /\ i = 0
  <2>1. n = [m EXCEPT !.selected = P, !.focus = path]
    BY <1>1, <1>7
  <2> QED
    BY <2>1, <1>2, <1>5 DEF ScreenFits, ScreenFields, Like
<1>8. CASE path # Unset /\ i # 0
  <2>1. n = Select(m, P, path, i)
    BY <1>1, <1>8
  <2> QED
    BY <2>1, <1>2, <1>4, <1>5, SelectIs
<1> QED
  BY <1>6, <1>7, <1>8

LEMMA BeginMarqueeKeeps ==
  ASSUME SelectionInv, NEW modifier, BeginMarquee(modifier)
  PROVE  SelectionInv'
<1>1. /\ UNCHANGED <<disk, scr, load, unseen>>
      /\ drag' # Unset => drag'.base \subseteq Items
  BY ShownIs DEF BeginMarquee
<1> QED
  BY <1>1 DEF SelectionInv, ChosenKnown, Chosen, LoadFits, ScreenFits, Many, rows, visibleEntries,
              quickFilterActive

LEMMA EndMarqueeKeeps ==
  ASSUME SelectionInv, NEW hit, NEW hovered, EndMarquee(hit, hovered)
  PROVE  SelectionInv'
<1> DEFINE P == computeMarqueeSelection(drag.base, hit, drag.modifier)
<1>1. PICK n : n = applyMarqueeSelection(scr, P, hovered)
  OBVIOUS
<1>2. /\ Become(n, drag.base) /\ hit \subseteq Range(rows(scr)) /\ drag # Unset
      /\ drag' = Unset /\ disk' = disk
  BY <1>1 DEF EndMarquee
<1>3. drag.base \subseteq Items
  BY <1>2 DEF SelectionInv
<1>4. P \subseteq drag.base \cup hit
  BY DEF computeMarqueeSelection
<1> HIDE DEF P
<1>5. P \subseteq Items /\ ScreenFits(scr)
  BY <1>2, <1>3, <1>4, ShownIs
<1>6. /\ ScreenFits(n) /\ Like(n, scr)
      /\ n.selected = P /\ n.focus \in P \cup {Unset} /\ n.finger = scr.finger
  BY <1>1, <1>5, MarqueeIs
<1>7. rows(n) = rows(scr)
  BY <1>6, LikeRows
<1>8. Reaches(n, drag.base)
  BY <1>2, <1>4, <1>6, <1>7 DEF Reaches, Like, Fingered, Chosen
<1>9. disk' \subseteq Items
  BY <1>2 DEF SelectionInv
<1> QED
  BY <1>2, <1>8, <1>9, BecomeKeeps

LEMMA ArmLongPressRangeKeeps ==
  ASSUME SelectionInv, NEW path \in Items, armLongPressRange(path)
  PROVE  SelectionInv'
<1> DEFINE base == IF scr.mode THEN scr.selected ELSE {}
           way  == IF path \in base THEN "subtract" ELSE "add"
           P    == armedRangeSelection(base, {path}, way)
           arm  == [base |-> base, mode |-> way, path |-> path, index |-> IndexIn(rows(scr), path)]
<1>1. PICK m : m = applyMarqueeSelection(Pressed, P, path)
  OBVIOUS
<1>2. PICK n : n = [m EXCEPT !.mode = TRUE, !.armed = arm]
  OBVIOUS
<1>3. Handled(n) /\ IndexIn(rows(scr), path) # 0
  BY <1>1, <1>2 DEF armLongPressRange
<1>4. path \in Range(rows(scr))
  BY <1>3, ShownIs, IndexIsNat
<1>5. base \subseteq scr.selected /\ arm.base = base
  OBVIOUS
<1>6. P \subseteq base \cup {path}
  BY DEF armedRangeSelection
<1> HIDE DEF P, arm, way, base
<1>7. P \subseteq Items /\ base \subseteq Items /\ P \subseteq Range(rows(scr)) \cup unseen
  BY <1>4, <1>5, <1>6, ShownIs
<1>8. ScreenFits(Pressed) /\ Like(Pressed, scr)
  BY PressedIs DEF SelectionInv
<1>9. ScreenFits(m) /\ Like(m, Pressed) /\ m.selected = P /\ m.focus \in P \cup {Unset}
  BY <1>1, <1>7, <1>8, MarqueeIs
<1>10. ScreenFits(n) /\ Like(n, m) /\ n.selected = P /\ n.focus = m.focus /\ n.mode
  BY <1>2, <1>5, <1>7, <1>9 DEF ScreenFits, ScreenFields, Like
<1>11. Chosen(n) \subseteq Range(rows(scr)) \cup unseen
  BY <1>7, <1>9, <1>10 DEF Chosen
<1>12. Reaches(n, {})
  BY <1>8, <1>9, <1>10, <1>11, StaysReaches DEF Like, Fingered
<1> QED
  BY <1>3, <1>12, HandledKeeps

LEMMA ExtendLongPressRangeKeeps ==
  ASSUME SelectionInv, NEW target, extendLongPressRange(target)
  PROVE  SelectionInv'
<1> DEFINE press == scr.armed
           to    == IF IndexIn(rows(scr), target) = 0 THEN press.index ELSE IndexIn(rows(scr), target)
           range == pathsInIndexRange(rows(scr), press.index, to)
           P     == armedRangeSelection(press.base, range, press.mode)
           row   == IF target = Unset THEN press.path ELSE target
<1>1. PICK n : n = applyMarqueeSelection(scr, P, row)
  OBVIOUS
<1>2. Become(n, press.base) /\ press # Unset /\ disk' = disk /\ drag' = drag
  BY <1>1 DEF extendLongPressRange
<1>3. press.base \subseteq Items /\ ScreenFits(scr)
  BY <1>2 DEF SelectionInv, ScreenFits
<1>4. range \subseteq Range(rows(scr))
  BY ShownIs, RangeOfIndices
<1> HIDE DEF range, row
<1>5. P \subseteq press.base \cup range
  BY DEF armedRangeSelection
<1> HIDE DEF P, press
<1>6. P \subseteq Items
  BY <1>3, <1>4, <1>5, ShownIs
<1>7. /\ ScreenFits(n) /\ Like(n, scr)
      /\ n.selected = P /\ n.focus \in P \cup {Unset} /\ n.finger = scr.finger
  BY <1>1, <1>3, <1>6, MarqueeIs
<1>8. rows(n) = rows(scr)
  BY <1>7, LikeRows
<1>9. Reaches(n, press.base)
  BY <1>4, <1>5, <1>7, <1>8 DEF Reaches, Like, Fingered, Chosen
<1>10. disk' \subseteq Items /\ (drag' # Unset => drag'.base \subseteq Items)
  BY <1>2 DEF SelectionInv
<1> QED
  BY <1>2, <1>9, <1>10, BecomeKeeps

-----------------------------------------------------------------------------
(* Listings. *)
LEMMA RestoreIs ==
  ASSUME NEW m, ScreenFits(m), NEW P, NEW path, NEW n, n = restoreSelectionFromListing(m, P, path)
  PROVE  /\ ScreenFits(n) /\ Like(n, m)
         /\ n.selected = P \cap m.entries /\ n.focus \in n.selected \cup {Unset}
         /\ n.finger = m.finger /\ n.mode = m.mode
         /\ path \in n.selected => n.focus = path
<1> DEFINE data == Sorted[m.entries]
           kept == P \cap m.entries
           f    == IF path \in kept THEN path ELSE CHOOSE p \in kept : TRUE
<1>1. n = IF kept = {} THEN [clearSelection(m) EXCEPT !.index = 1]
          ELSE Select(m, kept, f, IndexIn(data, f))
  BY DEF restoreSelectionFromListing
<1>2. kept \subseteq Items /\ data \in Seq(m.entries)
  BY SelectionAssumption DEF ScreenFits
<1>3. kept # {} => f \in kept
  OBVIOUS
<1>4. path \in kept => f = path
  OBVIOUS
<1> HIDE DEF f, data
<1>5. IndexIn(data, f) \in Nat
  BY <1>2, IndexIsNat
<1>6. CASE kept = {}
  <2>1. PICK c : c = clearSelection(m)
    OBVIOUS
  <2>2. ScreenFits(c) /\ Like(c, m) /\ c.selected = {} /\ c.focus = Unset
        /\ c.finger = m.finger /\ c.mode = m.mode
    BY <2>1, ClearIs
  <2>3. n = [c EXCEPT !.index = 1]
    BY <1>1, <1>6, <2>1
  <2> QED
    BY <1>6, <2>2, <2>3 DEF ScreenFits, ScreenFields, Like
<1>7. CASE kept # {}
  <2>1. n = Select(m, kept, f, IndexIn(data, f))
    BY <1>1, <1>7
  <2>2. f \in Items
    BY <1>2, <1>3, <1>7
  <2> HIDE DEF kept
  <2>3. /\ ScreenFits(n) /\ Like(n, m)
        /\ n.selected = kept /\ n.focus = f /\ n.finger = m.finger /\ n.mode = m.mode
    BY <1>2, <1>5, <2>1, <2>2, SelectIs
  <2>4. f \in kept /\ (path \in kept => f = path)
    BY <1>3, <1>4, <1>7
  <2> QED
    BY <2>3, <2>4 DEF kept
<1> QED
  BY <1>6, <1>7

(* The screen with the new listing, before the effects. *)
LEMMA ListedIs ==
  ASSUME SelectionInv, load # Unset, NEW n, n = Listed
  PROVE  /\ ScreenFits(n) /\ n.path = scr.path /\ n.touch = scr.touch /\ n.finger = scr.finger
         /\ n.query = scr.query /\ n.dots = scr.dots /\ n.reversed = scr.reversed
         /\ n.mode = scr.mode
         /\ Chosen(n) \subseteq Range(rows(n)) \cup unseen \cup {load.focusPath}
                                 \cup (IF load.chosen THEN load.sel.paths ELSE {})
         /\ load.keep /\ ~load.chosen =>
              /\ n.selected = scr.selected \cap n.entries
              /\ scr.focus \in n.selected => n.focus = scr.focus
<1>1. PICK m : m = [scr EXCEPT !.entries = {e \in disk : DirOf[e] = load.path}, !.path = load.path]
  OBVIOUS
<1>2. n = CASE load.focusPath # Unset ->
                 restoreSelectionFromListing(m, {load.focusPath}, load.focusPath)
            [] load.keep -> restoreSelectionFromListing(m, load.sel.paths, load.sel.focus)
            [] OTHER -> [clearSelection(m) EXCEPT !.index = 1]
  BY <1>1 DEF Listed
<1>3. /\ load.path = scr.path /\ load.focusPath \in Items \cup {Unset}
      /\ load.keep \in BOOLEAN /\ load.chosen \in BOOLEAN
      /\ load.keep => load.focusPath = Unset
      /\ load.keep /\ ~load.chosen =>
           /\ load.sel.paths = scr.selected
           /\ scr.selected # {} => load.sel.focus = scr.focus
  BY DEF SelectionInv, LoadFits
<1>4. ScreenFits(scr) /\ disk \subseteq Items
  BY DEF SelectionInv
<1>5. /\ ScreenFits(m) /\ m.path = scr.path /\ m.touch = scr.touch /\ m.finger = scr.finger
      /\ m.query = scr.query /\ m.dots = scr.dots /\ m.reversed = scr.reversed
      /\ m.mode = scr.mode
  BY <1>1, <1>3, <1>4 DEF ScreenFits, ScreenFields
<1>6. CASE load.focusPath # Unset
  <2>1. n = restoreSelectionFromListing(m, {load.focusPath}, load.focusPath)
    BY <1>2, <1>3, <1>6
  <2>2. /\ ScreenFits(n) /\ Like(n, m)
        /\ n.selected = {load.focusPath} \cap m.entries /\ n.focus \in n.selected \cup {Unset}
        /\ n.finger = m.finger /\ n.mode = m.mode
    BY <1>5, <2>1, RestoreIs
  <2> QED
    BY <1>3, <1>5, <1>6, <2>2 DEF Like, Chosen
<1>7. CASE load.focusPath = Unset /\ load.keep
  <2>1. n = restoreSelectionFromListing(m, load.sel.paths, load.sel.focus)
    BY <1>2, <1>7
  <2>2. /\ ScreenFits(n) /\ Like(n, m)
        /\ n.selected = load.sel.paths \cap m.entries /\ n.focus \in n.selected \cup {Unset}
        /\ n.finger = m.finger /\ n.mode = m.mode
        /\ load.sel.focus \in n.selected => n.focus = load.sel.focus
    BY <1>5, <2>1, RestoreIs
  <2>3. CASE load.chosen
    BY <1>5, <2>2, <2>3 DEF Like, Chosen
  <2>4. CASE ~load.chosen
    <3>1. n.selected = scr.selected \cap n.entries /\ (scr.focus \in n.selected => n.focus = scr.focus)
      BY <1>3, <1>7, <2>2, <2>4 DEF Like
    <3>2. \A e \in n.entries : IsRow(scr, e) => IsRow(n, e)
      BY <1>5, <2>2 DEF IsRow, Like
    <3>3. n.selected \subseteq Range(rows(n)) \cup unseen
      BY <1>4, <2>2, <3>1, <3>2, ShownIs, RowsAre DEF ScreenFits
    <3>4. Chosen(n) \subseteq Range(rows(n)) \cup unseen
      BY <2>2, <3>3 DEF Chosen
    <3> QED
      BY <1>5, <2>2, <3>1, <3>4 DEF Like
  <2> QED
    BY <1>3, <2>3, <2>4
<1>8. CASE load.focusPath = Unset /\ ~load.keep
  <2>1. PICK c : c = clearSelection(m)
    OBVIOUS
  <2>2. n = [c EXCEPT !.index = 1]
    <3>1. n = [clearSelection(m) EXCEPT !.index = 1]
      BY <1>2, <1>8
    <3> QED
      BY <2>1, <3>1
  <2>3. /\ ScreenFits(c) /\ Like(c, m) /\ c.selected = {} /\ c.focus = Unset
        /\ c.finger = m.finger /\ c.mode = m.mode
    BY <1>5, <2>1, ClearIs
  <2>4. /\ ScreenFits(n) /\ Like(n, m) /\ n.selected = {} /\ n.focus = Unset
        /\ n.finger = m.finger /\ n.mode = m.mode
    BY <2>2, <2>3 DEF ScreenFits, ScreenFields, Like
  <2> QED
    BY <1>5, <1>8, <2>4 DEF Like, Chosen
<1> QED
  BY <1>3, <1>6, <1>7, <1>8

LEMMA LoadListingKeeps ==
  ASSUME SelectionInv, LoadListing
  PROVE  SelectionInv'
<1> DEFINE put == {load.focusPath} \cup (IF load.chosen THEN load.sel.paths ELSE {})
<1>1. /\ load # Unset /\ scr' = Settled(Listed, TRUE) /\ load' = Unset /\ KeepUnseen(put)
      /\ disk' = disk /\ drag' = drag
  BY DEF LoadListing
<1>2. PICK n : n = Listed
  OBVIOUS
<1>3. /\ ScreenFits(n) /\ n.path = scr.path /\ n.touch = scr.touch /\ n.finger = scr.finger
      /\ Chosen(n) \subseteq Range(rows(n)) \cup unseen \cup put
  BY <1>1, <1>2, ListedIs
<1>4. ScreenFits(scr) /\ ~Many(scr)
  BY DEF SelectionInv
<1>5. Many(n) => Changed(scr, n)
  BY <1>3, <1>4, ManyChanged DEF Fingered
<1>6. scr' = Settled(n, TRUE)
  BY <1>1, <1>2
<1>7. /\ ScreenFits(scr') /\ ~Many(scr')
      /\ rows(scr') = rows(n) /\ Chosen(scr') \subseteq Chosen(n) \cup Range(rows(n))
  BY <1>3, <1>5, <1>6, SettledIs
<1> HIDE DEF put
<1>8. ChosenKnown'
  BY <1>1, <1>3, <1>7, UnseenKept
<1>9. ScreenFits(scr)' /\ (~Many(scr))' /\ LoadFits(load, scr)'
  BY <1>1, <1>7 DEF ScreenFits, Many, LoadFits, ScreenFields, LoadFields
<1> QED
  BY <1>1, <1>8, <1>9 DEF SelectionInv

(* The path on screen is left, or comes back. *)
LEMMA PathLeft ==
  ASSUME SelectionInv, NEW p, scr' = Settled([scr EXCEPT !.path = p], FALSE), KeepUnseen(Chosen(scr))
  PROVE  ScreenFits(scr)' /\ (~Many(scr))' /\ ChosenKnown' /\ scr'.path = p
<1>1. PICK n : n = [scr EXCEPT !.path = p]
  OBVIOUS
<1>2. scr' = Settled(n, FALSE)
  BY <1>1
<1>3. ScreenFits(scr) /\ ~Many(scr)
  BY DEF SelectionInv
<1>4. /\ ScreenFits(n) /\ n.path = p /\ n.touch = scr.touch /\ n.finger = scr.finger
      /\ Chosen(n) = Chosen(scr)
      /\ Chosen(Effects(scr, n, FALSE)) \subseteq Chosen(scr)
  BY <1>1, <1>3, LeavingIs
<1>5. Many(n) => Changed(scr, n)
  BY <1>3, <1>4, ManyChanged DEF Fingered
<1>6. /\ ScreenFits(scr') /\ scr'.path = p /\ ~Many(scr')
      /\ Chosen(scr') \subseteq Chosen(Effects(scr, n, FALSE)) \cup Chosen(n) \cup Range(rows(scr'))
  BY <1>2, <1>4, <1>5, SettledIs
<1>7. ChosenKnown'
  BY <1>4, <1>6, UnseenKept
<1> QED
  BY <1>6, <1>7 DEF ScreenFits, Many, ScreenFields

LEMMA OpenListingKeeps ==
  ASSUME SelectionInv, NEW path, NEW focusPath \in Items \cup {Unset}, OpenListing(path, focusPath)
  PROVE  SelectionInv'
<1>1. /\ scr' = Settled([scr EXCEPT !.path = path], FALSE) /\ KeepUnseen(Chosen(scr))
      /\ disk' = disk /\ drag' = drag
      /\ DOMAIN load' = LoadFields /\ load'.path = path /\ load'.keep = FALSE
      /\ load'.focusPath = focusPath /\ load'.chosen = FALSE
  BY DEF OpenListing, LoadFields
<1>2. ScreenFits(scr)' /\ (~Many(scr))' /\ ChosenKnown' /\ scr'.path = path
  BY <1>1, PathLeft
<1>3. LoadFits(load, scr)'
  BY <1>1, <1>2 DEF LoadFits, LoadFields
<1> QED
  BY <1>1, <1>2, <1>3 DEF SelectionInv

LEMMA ListingFailsKeeps ==
  ASSUME SelectionInv, ListingFails
  PROVE  SelectionInv'
<1>1. PICK p : p = IF load.keep THEN scr.path ELSE load.sel.focus
  OBVIOUS
<1>2. /\ scr' = Settled([scr EXCEPT !.path = p], FALSE) /\ KeepUnseen(Chosen(scr))
      /\ disk' = disk /\ drag' = drag /\ load' = Unset
  BY <1>1 DEF ListingFails
<1>3. ScreenFits(scr)' /\ (~Many(scr))' /\ ChosenKnown'
  BY <1>2, PathLeft
<1>4. LoadFits(load, scr)'
  BY <1>2 DEF LoadFits
<1> QED
  BY <1>2, <1>3, <1>4 DEF SelectionInv

LEMMA RefreshListingKeeps ==
  ASSUME SelectionInv, RefreshListing
  PROVE  SelectionInv'
<1>1. /\ UNCHANGED <<disk, scr, drag, unseen>>
      /\ DOMAIN load' = LoadFields /\ load'.path = scr.path /\ load'.keep = TRUE
      /\ load'.focusPath = Unset /\ load'.chosen = FALSE
      /\ load'.sel.paths = scr.selected
      /\ load'.sel.focus = IF scr.selected = {} THEN Unset ELSE scr.focus
  BY DEF RefreshListing, LoadFields, selectionSnapshotForRefresh
<1>2. LoadFits(load, scr)'
  BY <1>1, ShownIs DEF LoadFits, LoadFields
<1> QED
  BY <1>1, <1>2 DEF SelectionInv, ChosenKnown, Chosen, ScreenFits, Many, rows, visibleEntries,
                    quickFilterActive

LEMMA DeleteTargetsKeeps ==
  ASSUME SelectionInv, DeleteTargets
  PROVE  SelectionInv'
<1>1. /\ scr' = Settled(clearSelection(scr), FALSE) /\ disk' \subseteq disk /\ drag' = drag
      /\ DOMAIN load' = LoadFields /\ load'.path = scr.path /\ load'.keep = FALSE
      /\ load'.focusPath = Unset /\ load'.chosen = FALSE
  BY DEF DeleteTargets, LoadFields
<1>2. PICK n : n = clearSelection(scr)
  OBVIOUS
<1>3. ScreenFits(scr) /\ ~Many(scr)
  BY DEF SelectionInv
<1>4. /\ ScreenFits(n) /\ Like(n, scr) /\ n.selected = {} /\ n.focus = Unset
  BY <1>2, <1>3, ClearIs
<1>5. Many(n) => Changed(scr, n)
  BY <1>4 DEF Many
<1>6. scr' = Settled(n, FALSE) /\ scr.path = n.path /\ Chosen(n) = {}
  BY <1>1, <1>2, <1>4 DEF Like, Chosen
<1>7. /\ ScreenFits(scr') /\ ~Many(scr') /\ scr'.path = scr.path
      /\ rows(scr') = rows(n) /\ Chosen(scr') \subseteq Chosen(n) \cup Range(rows(n))
  BY <1>4, <1>5, <1>6, SettledIs
<1>8. ChosenKnown'
  BY <1>6, <1>7 DEF ChosenKnown
<1>9. ScreenFits(scr)' /\ (~Many(scr))' /\ LoadFits(load, scr)'
  BY <1>1, <1>7 DEF ScreenFits, Many, LoadFits, ScreenFields, LoadFields
<1> QED
  BY <1>1, <1>8, <1>9 DEF SelectionInv

LEMMA DiskChangesKeeps ==
  ASSUME SelectionInv, NEW e \in Items, DiskChanges(e)
  PROVE  SelectionInv'
<1>1. UNCHANGED <<scr, load, drag, unseen>> /\ disk' \subseteq Items
  BY DEF DiskChanges, SelectionInv
<1> QED
  BY <1>1 DEF SelectionInv, ChosenKnown, Chosen, LoadFits, ScreenFits, Many, rows, visibleEntries,
              quickFilterActive

LEMMA SelectionInvInit ==
  ASSUME SelectionInit
  PROVE  SelectionInv
<1>1. ScreenFits(scr) /\ scr.selected = {} /\ scr.focus = Unset
  BY DEF SelectionInit, ScreenFits, ScreenFields
<1>2. ~Many(scr) /\ ChosenKnown
  BY <1>1 DEF Many, ChosenKnown, Chosen
<1> QED
  BY <1>1, <1>2 DEF SelectionInit, SelectionInv, LoadFits

LEMMA SelectionInvNext ==
  ASSUME SelectionInv, [SelectionNext]_selectionVars
  PROVE  SelectionInv'
<1>1. CASE Mouse
  BY <1>1, OnSelectKeeps, OnSelectRangeKeeps, TapKeeps, OnListingEmptyClickKeeps,
     OpenContextMenuKeeps, SlideshowKeeps DEF Mouse
<1>2. CASE Keyboard
  BY <1>2, MoveSelectedIndexKeeps, ToggleMultiSelectKeeps, SelectAllVisibleKeeps,
     ClearSelectionActionKeeps, ToggleSelectionModeKeeps DEF Keyboard
<1>3. CASE Ranges
  BY <1>3, EndMarqueeKeeps, ArmLongPressRangeKeeps, ExtendLongPressRangeKeeps DEF Ranges
<1>4. CASE \E modifier \in {"none", "ctrl", "shift"} : BeginMarquee(modifier)
  BY <1>4, BeginMarqueeKeeps
<1>5. CASE PressNothing \/ endLongPress
  BY <1>5, PressNothingKeeps, EndLongPressKeeps
<1>6. CASE \/ \E query \in DOMAIN Matches \cup {Unset} : setQuickFilter(query)
           \/ toggleDotEntries
  BY <1>6, FiltersKeep
<1>7. CASE sortListing \/ RefreshListing
  BY <1>7, SortListingKeeps, RefreshListingKeeps
<1>8. CASE \E path \in Folders, focusPath \in Items \cup {Unset} : OpenListing(path, focusPath)
  BY <1>8, OpenListingKeeps
<1>9. CASE LoadListing \/ ListingFails \/ DeleteTargets
  BY <1>9, LoadListingKeeps, ListingFailsKeeps, DeleteTargetsKeeps
<1>10. CASE \E e \in Items : DiskChanges(e)
  BY <1>10, DiskChangesKeeps
<1>11. CASE UNCHANGED selectionVars
  BY <1>11 DEF SelectionInv, ChosenKnown, Chosen, LoadFits, ScreenFits, Many, rows, visibleEntries,
               quickFilterActive, selectionVars
<1> QED
  BY <1>1, <1>2, <1>3, <1>4, <1>5, <1>6, <1>7, <1>8, <1>9, <1>10, <1>11 DEF SelectionNext

LEMMA SelectionInvAlways == SelectionSpec => []SelectionInv
<1>1. SelectionInit => SelectionInv
  BY SelectionInvInit
<1>2. SelectionInv /\ [SelectionNext]_selectionVars => SelectionInv'
  BY SelectionInvNext
<1> QED
  BY <1>1, <1>2, PTL DEF SelectionSpec

(* What an operation would act on is a row of the listing, or an entry that a
   filter hid or an unfinished drag put back: getOperationTargets after every
   gesture, listing, failure and effect. *)
THEOREM TargetsShown == SelectionSpec => []TargetsAreShown
<1>1. SelectionInv => TargetsAreShown
  <2>1. getOperationTargets(scr) \subseteq scr.selected \cup ({scr.focus} \ {Unset})
    BY DEF getOperationTargets
  <2> QED
    BY <2>1, ShownIs DEF TargetsAreShown
<1> QED
  BY <1>1, SelectionInvAlways, PTL

(* shouldClearTouchSelectionOutsideSelectionMode: outside selection mode a touch
   screen that was pressed never has several entries selected.  The effect runs
   when their number changes, and no handler, listing or effect makes them many
   without changing it. *)
THEOREM TouchSelectsOne ==
  SelectionSpec => [](scr.touch /\ scr.finger /\ ~scr.mode => \A x, y \in scr.selected : x = y)
<1>1. SelectionInv => (scr.touch /\ scr.finger /\ ~scr.mode => \A x, y \in scr.selected : x = y)
  BY DEF SelectionInv, Many
<1> QED
  BY <1>1, SelectionInvAlways, PTL

-----------------------------------------------------------------------------
(* A refresh. *)

(* Only the focus and its index are set. *)
Quiet(o, n, listed, m) ==
  /\ DOMAIN m = ScreenFields
  /\ \A x \in ScreenFields \ {"focus", "index"} : m[x] = n[x]
  /\ m.index = IF Redrawn(o, n, listed) /\ n.focus \in Range(rows(n))
               THEN IndexIn(rows(n), n.focus) ELSE n.index
  /\ m.focus = IF /\ Redrawn(o, n, listed) \/ o.index # n.index
                  /\ n.selected # {} /\ n.index \in DOMAIN rows(n)
               THEN rows(n)[n.index] ELSE n.focus
  /\ ~Redrawn(o, n, listed) /\ o.index = n.index => m = n

(* Without a quick filter, on one path and with nothing to clear, the effects
   set the focus and its index only. *)
LEMMA QuietEffects ==
  ASSUME NEW o, NEW n, ScreenFits(n), o.path = n.path, n.query = Unset,
         ~(Changed(o, n) /\ n.touch /\ n.finger /\ ~n.mode /\ n.selected # {}),
         NEW listed \in BOOLEAN, NEW m, m = Effects(o, n, listed)
  PROVE  Quiet(o, n, listed, m)
<1>1. PICK m1 : m1 = LeaveSelectionMode(o, n, n)
  OBVIOUS
<1>2. PICK m2 : m2 = ClearTouchSelection(o, n, m1)
  OBVIOUS
<1>3. PICK m3 : m3 = ResetQuickFilter(o, n, m2)
  OBVIOUS
<1>4. PICK m4 : m4 = FollowFocus(o, n, listed, m3)
  OBVIOUS
<1>5. PICK m5 : m5 = SelectFirstMatch(o, n, listed, m4)
  OBVIOUS
<1>6. m = FocusIndex(o, n, listed, m5)
  BY <1>1, <1>2, <1>3, <1>4, <1>5 DEF Effects
<1>7. m1 = n
  BY <1>1 DEF LeaveSelectionMode
<1>8. m2 = n
  BY <1>2, <1>7 DEF ClearTouchSelection, Changed
<1>9. m3 = n
  BY <1>3, <1>8 DEF ResetQuickFilter
<1>10. m5 = m4
  BY <1>5 DEF SelectFirstMatch, quickFilterActive
<1> DEFINE r == rows(n)
<1> HIDE DEF r
<1>11. DOMAIN n = ScreenFields
  BY DEF ScreenFits
<1>12. /\ DOMAIN m4 = ScreenFields
       /\ \A x \in ScreenFields \ {"index"} : m4[x] = n[x]
       /\ m4.index = IF Redrawn(o, n, listed) /\ n.focus \in Range(r)
                     THEN IndexIn(r, n.focus) ELSE n.index
       /\ ~Redrawn(o, n, listed) => m4 = n
  BY <1>4, <1>9, <1>11 DEF FollowFocus, ScreenFields, r
<1>13. /\ DOMAIN m = ScreenFields
       /\ \A x \in ScreenFields \ {"focus"} : m[x] = m4[x]
       /\ m.focus = IF /\ Redrawn(o, n, listed) \/ o.index # n.index
                       /\ n.selected # {} /\ n.index \in DOMAIN r
                    THEN r[n.index] ELSE m4.focus
       /\ ~Redrawn(o, n, listed) /\ o.index = n.index => m = m4
  BY <1>6, <1>10, <1>12 DEF FocusIndex, ScreenFields, r
<1>14. m4.focus = n.focus /\ m.index = m4.index
  BY <1>12, <1>13 DEF ScreenFields
<1> QED
  BY <1>12, <1>13, <1>14 DEF r, Quiet

(* The focus of a new listing may move with the old index, and comes back with
   the index that follows it. *)
LEMMA RefreshSettles ==
  ASSUME ScreenFits(scr), NEW n, ScreenFits(n), scr.path = n.path, n.query = Unset,
         ~(Changed(scr, n) /\ n.touch /\ n.finger /\ ~n.mode /\ n.selected # {}),
         NEW s, s = Settled(n, TRUE)
  PROVE  /\ s.selected = n.selected
         /\ n.focus \in n.selected \cap Range(rows(n)) => s.focus = n.focus
<1>1. PICK n1 : n1 = Effects(scr, n, TRUE)
  OBVIOUS
<1>2. PICK n2 : n2 = Effects(n, n1, FALSE)
  OBVIOUS
<1>3. PICK n3 : n3 = Effects(n1, n2, FALSE)
  OBVIOUS
<1>4. PICK n4 : n4 = Effects(n2, n3, FALSE)
  OBVIOUS
<1>5. s = IF n1 = n THEN n ELSE IF n2 = n1 THEN n1 ELSE IF n3 = n2 THEN n2 ELSE n4
  BY <1>1, <1>2, <1>3, <1>4 DEF Settled
<1> DEFINE r == rows(n)
<1>6. /\ \A i \in DOMAIN r : r[i] \in Items
      /\ \A e \in Range(r) : IndexIn(r, e) \in DOMAIN r /\ r[IndexIn(r, e)] = e
      /\ DOMAIN r \subseteq Nat
  BY RowsAre DEF ScreenFits, IsRow
<1>7. Redrawn(scr, n, TRUE)
  BY DEF Redrawn
<1>8. /\ DOMAIN n1 = ScreenFields
      /\ \A x \in ScreenFields \ {"focus", "index"} : n1[x] = n[x]
      /\ n1.index = IF n.focus \in Range(r) THEN IndexIn(r, n.focus) ELSE n.index
      /\ n1.focus = IF n.selected # {} /\ n.index \in DOMAIN r THEN r[n.index] ELSE n.focus
  <2>1. ~(Changed(scr, n) /\ n.touch /\ n.finger /\ ~n.mode /\ n.selected # {})
    OBVIOUS
  <2>2. Quiet(scr, n, TRUE, n1)
    BY <1>1, <2>1, QuietEffects
  <2> QED
    BY <1>7, <2>2 DEF Quiet
<1>9. /\ n1.path = n.path /\ n1.query = n.query /\ n1.selected = n.selected
      /\ n1.mode = n.mode /\ n1.reversed = n.reversed /\ n1.dots = n.dots
      /\ n1.entries = n.entries
  BY <1>8 DEF ScreenFields
<1>10. rows(n1) = r
  BY <1>9, SameRows
<1> HIDE DEF r
<1>11. ScreenFits(n1)
  BY <1>6, <1>8 DEF ScreenFits, ScreenFields
<1>12. ~Redrawn(n, n1, FALSE) /\ ~Changed(n, n1)
  BY <1>9 DEF Redrawn, Changed
<1>13. /\ DOMAIN n2 = ScreenFields
       /\ \A x \in ScreenFields \ {"focus", "index"} : n2[x] = n1[x]
       /\ n2.index = n1.index
       /\ n2.focus = IF n.index # n1.index /\ n1.selected # {} /\ n1.index \in DOMAIN r
                     THEN r[n1.index] ELSE n1.focus
  <2>1. Quiet(n, n1, FALSE, n2)
    BY <1>2, <1>9, <1>11, <1>12, QuietEffects
  <2> QED
    BY <1>10, <1>12, <2>1 DEF Quiet
<1>14. /\ n2.path = n.path /\ n2.query = n.query /\ n2.selected = n.selected
       /\ n2.mode = n.mode /\ n2.reversed = n.reversed /\ n2.dots = n.dots
  BY <1>9, <1>13 DEF ScreenFields
<1>15. ScreenFits(n2)
  BY <1>6, <1>11, <1>13 DEF ScreenFits, ScreenFields
<1>16. ~Redrawn(n1, n2, FALSE) /\ ~Changed(n1, n2)
  BY <1>9, <1>14 DEF Redrawn, Changed
<1>17. n3 = n2
  <2>1. Quiet(n1, n2, FALSE, n3)
    BY <1>3, <1>9, <1>14, <1>15, <1>16, QuietEffects
  <2> QED
    BY <1>13, <1>16, <2>1 DEF Quiet
<1>18. n.focus \in n.selected \cap Range(r) => n2.focus = n.focus
  BY <1>6, <1>8, <1>9, <1>13
<1> QED
  BY <1>5, <1>9, <1>14, <1>17, <1>18 DEF r

(* One entry of one is all there is: a refresh on a touch screen does not make
   the selection count change. *)
LEMMA FewerOfOne ==
  ASSUME ScreenFits(scr), ~Many(scr), NEW n, n.touch = scr.touch, n.finger = scr.finger,
         n.mode = scr.mode, n.selected \subseteq scr.selected
  PROVE  ~(Changed(scr, n) /\ n.touch /\ n.finger /\ ~n.mode /\ n.selected # {})
<1> SUFFICES ASSUME n.touch, n.finger, ~n.mode, n.selected # {} PROVE ~Changed(scr, n)
  OBVIOUS
<1>1. \A x, y \in scr.selected : x = y
  BY DEF Many
<1>2. n.selected = scr.selected
  BY <1>1
<1> QED
  BY <1>2 DEF Changed

(* loadListing with preserveSelection: unless the selection was changed
   meanwhile or a quick filter is on, a refresh leaves selected what is still
   there, and the focus where it was. *)
THEOREM RefreshKeeps == SelectionSpec => RefreshKeepsSelection
<1> DEFINE Refreshed == LoadListing /\ load.keep /\ ~load.chosen /\ ~quickFilterActive(scr)
           Kept == /\ scr'.selected = scr.selected \cap scr'.entries
                   /\ scr.focus \in scr.selected \cap Range(rows(scr')) => scr'.focus = scr.focus
<1>1. ASSUME SelectionInv, Refreshed PROVE Kept
  <2>1. /\ load # Unset /\ scr' = Settled(Listed, TRUE) /\ load.keep /\ ~load.chosen
        /\ scr.query = Unset
    BY <1>1 DEF LoadListing, quickFilterActive
  <2>2. PICK n : n = Listed
    OBVIOUS
  <2>3. /\ ScreenFits(n) /\ n.path = scr.path /\ n.touch = scr.touch /\ n.finger = scr.finger
        /\ n.query = Unset /\ n.mode = scr.mode
        /\ n.selected = scr.selected \cap n.entries
        /\ scr.focus \in n.selected => n.focus = scr.focus
    BY <1>1, <2>1, <2>2, ListedIs
  <2>4. ScreenFits(scr) /\ ~Many(scr)
    BY <1>1 DEF SelectionInv
  <2>5. ~(Changed(scr, n) /\ n.touch /\ n.finger /\ ~n.mode /\ n.selected # {})
    BY <2>3, <2>4, FewerOfOne
  <2>6. Many(n) => Changed(scr, n)
    BY <2>3, <2>4, ManyChanged DEF Fingered
  <2>7. scr' = Settled(n, TRUE)
    BY <2>1, <2>2
  <2>8. rows(scr') = rows(n) /\ scr'.entries = n.entries
    BY <2>3, <2>6, <2>7, SettledIs
  <2>9. /\ scr'.selected = n.selected
        /\ n.focus \in n.selected \cap Range(rows(n)) => scr'.focus = n.focus
    BY <2>3, <2>4, <2>5, <2>7, RefreshSettles
  <2>10. \A e \in Range(rows(n)) : e \in n.entries
    BY <2>3, RowsAre DEF ScreenFits, IsRow
  <2> QED
    BY <2>3, <2>8, <2>9, <2>10
<1>2. SelectionInv => [Refreshed => Kept]_selectionVars
  BY <1>1
<1> QED
  BY <1>2, SelectionInvAlways, PTL DEF RefreshKeepsSelection

====
