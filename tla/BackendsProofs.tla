--------------------------- MODULE BackendsProofs ---------------------------
(***************************************************************************)
(* Proofs about the volume in the browser (BrowserFs) and the files of a   *)
(* bucket (S3Objects), for any number of tabs, operations and entries and  *)
(* any bounds.  What sequences are prefixes of which is proved in          *)
(* LocalFsProofs.                                                          *)
(***************************************************************************)
EXTENDS S3Objects, BrowserFs, LocalFsProofs, FiniteSetTheorems

-----------------------------------------------------------------------------
(* Places *)

(* A place is a short sequence of entry names. *)
LEMMA PlacesAre ==
  ASSUME NEW p
  PROVE  p \in Places <=> (p \in Seq(EntryNames) /\ Len(p) <= MaxDepth)
<1>1. ASSUME NEW n \in 0..MaxDepth, p \in [1..n -> EntryNames]
      PROVE  p \in Seq(EntryNames) /\ Len(p) <= MaxDepth
  <2>1. n \in Nat /\ n <= MaxDepth /\ MaxDepth \in Nat
    BY ExplorerPathsAssumption
  <2>2. p \in Seq(EntryNames) /\ Len(p) = n
    BY <1>1, <2>1, IsASeq
  <2> QED
    BY <2>1, <2>2
<1>2. ASSUME p \in Seq(EntryNames), Len(p) <= MaxDepth
      PROVE  \E n \in 0..MaxDepth : p \in [1..n -> EntryNames]
  <2>1. Len(p) \in 0..MaxDepth /\ p \in [1..Len(p) -> EntryNames]
    BY <1>2, ExplorerPathsAssumption
  <2> QED
    BY <2>1
<1>3. p \in UNION {[1..n -> EntryNames] : n \in 0..MaxDepth} <=>
        \E n \in 0..MaxDepth : p \in [1..n -> EntryNames]
  BY Zenon
<1> QED
  BY <1>1, <1>2, <1>3 DEF Places

LEMMA TopIs == Top \in Places /\ Top = <<>> /\ Places \subseteq Seq(EntryNames)
<1>1. Top \in Seq(EntryNames) /\ Len(Top) = 0
  BY DEF Top
<1>2. Len(Top) <= MaxDepth
  BY <1>1, ExplorerPathsAssumption
<1> QED
  BY <1>1, <1>2, PlacesAre DEF Top

(* The backends and the lemmas about prefixes name the same relation. *)
LEMMA Within ==
  /\ \A p, q : pathIsWithin(p, q) <=> Under(q, p)
  /\ \A p, q : isDescendantPath(p, q) <=> Under(q, p)
  /\ \A p, q : IsPrefix(q, p) <=> Under(q, p)
  /\ \A p : pathParent(p) = Parent(p)
  BY Zenon DEF pathIsWithin, isDescendantPath, Under, pathParent, Parent

(* What a place lies in is a place. *)
LEMMA AbovePlace ==
  ASSUME NEW p \in Places, NEW q \in Seq(EntryNames), Under(q, p)
  PROVE  q \in Places
<1>1. p \in Seq(EntryNames) /\ Len(p) <= MaxDepth /\ Len(p) \in Nat /\ Len(q) \in Nat
  BY PlacesAre
<1>2. Len(q) <= Len(p)
  BY <1>1, UnderIs
<1>3. Len(q) <= MaxDepth
  BY <1>1, <1>2, ExplorerPathsAssumption
<1> QED
  BY <1>3, PlacesAre

(* The directory a place is in. *)
LEMMA ParentPlace ==
  ASSUME NEW p \in Places, p # Top
  PROVE  /\ Parent(p) \in Places /\ Parent(p) # p /\ Under(Parent(p), p)
         /\ Last(p) \in EntryNames
<1>1. p \in Seq(EntryNames) /\ p # <<>>
  BY PlacesAre, TopIs
<1>2. Parent(p) \in Seq(EntryNames) /\ Last(p) \in EntryNames /\ Under(Parent(p), p) /\ Parent(p) # p
  BY <1>1, ParentIs
<1> QED
  BY <1>2, AbovePlace

(* What lies strictly above a place that is not the top lies above its parent. *)
LEMMA AboveParent ==
  ASSUME NEW p \in Places, NEW q \in Places, Under(q, p), q # p
  PROVE  p # Top /\ Under(q, Parent(p))
<1>1. p \in Seq(EntryNames) /\ q \in Seq(EntryNames)
  BY PlacesAre
<1> QED
  BY <1>1, UnderParent, TopIs

(* Being under is an order among places, and what is above the same place is
   comparable. *)
LEMMA PlaceOrder ==
  /\ \A p \in Places : Under(p, p) /\ Under(Top, p)
  /\ \A p, q, r \in Places : Under(p, q) /\ Under(q, r) => Under(p, r)
  /\ \A p, q \in Places : Under(p, q) /\ Under(q, p) => p = q
  /\ \A p, q, r \in Places : Under(p, r) /\ Under(q, r) => Under(p, q) \/ Under(q, p)
<1>1. Places \subseteq Seq(EntryNames) /\ Top = <<>>
  BY TopIs
<1>2. \A p, q, r \in Places : Under(p, r) /\ Under(q, r) => Under(p, q) \/ Under(q, p)
  BY <1>1, UnderComparable
<1> QED
  BY <1>1, <1>2, UnderOrder
-----------------------------------------------------------------------------
(* The two stores of the volume, and what a transaction may make of them. *)

(* A pair of stores is sound when the nodes are a tree, no two files have the
   same record, every record has its file and every file its record, but for
   those of h. *)
Sound(n, b, h) ==
  /\ n \in [Places -> BlobIds \cup {Directory, Missing}]
  /\ IsTree(n) /\ Distinct(n)
  /\ b \subseteq BlobIds
  /\ \A i \in b : \E p \in Places : n[p] = i
  /\ \A p \in Places : n[p] \in BlobIds => n[p] \in b \cup h

(* The stores x are these. *)
Holding(x, n, b) == x = [node |-> n, blobs |-> b]

(* Files change only under the places of R. *)
Changes(n, m, R) ==
  \A q \in Places : n[q] \in BlobIds /\ m[q] # n[q] => \E p \in R : Under(p, q)

(* In m nothing is left of what is under p in n. *)
Pruned(n, p, m) == \A q \in Places : m[q] = IF Under(p, q) THEN Missing ELSE n[q]

LEMMA KindsOfNode ==
  /\ Directory # Missing /\ Directory \notin BlobIds /\ Missing \notin BlobIds
  BY VolumeAssumption

(* A tree, in terms of what is above what. *)
LEMMA TreeIs ==
  ASSUME NEW n
  PROVE  IsTree(n) <=>
           \A p, q \in Places : q # Top /\ q # p /\ Under(q, p) /\ n[p] # Missing => n[q] = Directory
  BY Within, Zenon DEF IsTree

(* Deleting what is under p leaves sound stores, and nothing under p. *)
LEMMA DeleteSound ==
  ASSUME NEW n, NEW b, NEW h, Sound(n, b, h), NEW s, Holding(s, n, b), NEW p \in Places,
         NEW m, NEW c, Holding(deleteSubtree(s, p), m, c)
  PROVE  Sound(m, c, h) /\ Changes(n, m, {p}) /\ Pruned(n, p, m)
<1> DEFINE gone == {n[q] : q \in {x \in Places : Under(p, x) /\ n[x] # Missing}}
<1>1. m = [q \in Places |-> IF Under(p, q) THEN Missing ELSE n[q]] /\ c = b \ gone
  <2>1. {q \in Places : pathIsWithin(q, p) /\ n[q] # Missing}
          = {x \in Places : Under(p, x) /\ n[x] # Missing}
    BY Within
  <2>2. [q \in Places |-> IF pathIsWithin(q, p) THEN Missing ELSE n[q]]
          = [q \in Places |-> IF Under(p, q) THEN Missing ELSE n[q]]
    BY Within
  <2> QED
    BY <2>1, <2>2 DEF deleteSubtree, Subtree, Holding
<1> HIDE DEF gone
<1>2. \A q \in Places : m[q] = IF Under(p, q) THEN Missing ELSE n[q]
  BY <1>1
<1>3. \A i : i \in gone <=> \E q \in Places : Under(p, q) /\ n[q] # Missing /\ n[q] = i
  BY DEF gone
<1>4. /\ n \in [Places -> BlobIds \cup {Directory, Missing}] /\ b \subseteq BlobIds
      /\ IsTree(n) /\ Distinct(n)
      /\ \A i \in b : \E q \in Places : n[q] = i
      /\ \A q \in Places : n[q] \in BlobIds => n[q] \in b \cup h
  BY Zenon DEF Sound
<1>5. m \in [Places -> BlobIds \cup {Directory, Missing}] /\ c \subseteq BlobIds /\ c \subseteq b
  BY <1>1, <1>4
<1>6. IsTree(m)
  <2> SUFFICES ASSUME NEW x \in Places, NEW y \in Places, y # Top, y # x, Under(y, x), m[x] # Missing
               PROVE  m[y] = Directory
    BY TreeIs
  <2>1. ~Under(p, x) /\ n[x] # Missing
    BY <1>2
  <2>2. ~Under(p, y)
    BY <2>1, PlaceOrder
  <2>3. n[y] = Directory
    BY <1>4, <2>1, TreeIs
  <2> QED
    BY <1>2, <2>2, <2>3
<1>7. Distinct(m)
  BY <1>2, <1>4, KindsOfNode DEF Distinct
<1>8. \A i \in c : \E q \in Places : m[q] = i
  <2> SUFFICES ASSUME NEW i \in c PROVE \E q \in Places : m[q] = i
    OBVIOUS
  <2>1. i \in b /\ i \notin gone
    BY <1>1
  <2>2. PICK q \in Places : n[q] = i
    BY <1>4, <2>1
  <2>3. n[q] # Missing
    BY <2>1, <2>2, <1>4, KindsOfNode
  <2>4. ~Under(p, q)
    BY <1>3, <2>1, <2>2, <2>3
  <2> QED
    BY <1>2, <2>2, <2>4
<1>9. \A q \in Places : m[q] \in BlobIds => m[q] \in c \cup h
  <2> SUFFICES ASSUME NEW q \in Places, m[q] \in BlobIds PROVE m[q] \in c \cup h
    OBVIOUS
  <2>1. ~Under(p, q) /\ m[q] = n[q]
    BY <1>2, KindsOfNode
  <2>2. n[q] \in b \cup h
    BY <1>4, <2>1
  <2>3. n[q] \notin gone
    <3> SUFFICES ASSUME n[q] \in gone PROVE FALSE
      OBVIOUS
    <3>1. PICK x \in Places : Under(p, x) /\ n[x] = n[q]
      BY <1>3
    <3>2. x = q
      BY <3>1, <1>4, <2>1 DEF Distinct
    <3> QED
      BY <2>1, <3>1, <3>2
  <2> QED
    BY <1>1, <2>1, <2>2, <2>3
<1>10. Changes(n, m, {p})
  BY <1>2 DEF Changes
<1> QED
  BY <1>2, <1>5, <1>6, <1>7, <1>8, <1>9, <1>10 DEF Sound, Pruned

(* An id that is free is new to both stores. *)
LEMMA FreeIs ==
  ASSUME NEW n, NEW b, NEW s, Holding(s, n, b), NEW i \in FreeIds(s)
  PROVE  i \in BlobIds /\ i \notin b /\ i \notin hollow /\ \A p \in Places : n[p] # i
  BY DEF FreeIds, Holding

(* Directories as far down as p. *)
LEMMA EnsureIs ==
  ASSUME NEW n, NEW b, NEW s, Holding(s, n, b), NEW p \in Places
  PROVE  Holding(ensureDirectory(s, p),
                 [q \in Places |-> IF q # Top /\ Under(q, p) THEN Directory ELSE n[q]], b)
<1>1. [q \in Places |-> IF q # Top /\ IsPrefix(q, p) THEN Directory ELSE n[q]]
        = [q \in Places |-> IF q # Top /\ Under(q, p) THEN Directory ELSE n[q]]
  BY Within
<1> QED
  BY <1>1 DEF ensureDirectory, Holding

LEMMA EnsureSound ==
  ASSUME NEW n, NEW b, NEW h, Sound(n, b, h), NEW p \in Places,
         \A q \in Places : Under(q, p) => n[q] \notin BlobIds,
         NEW m, m = [q \in Places |-> IF q # Top /\ Under(q, p) THEN Directory ELSE n[q]]
  PROVE  Sound(m, b, h) /\ Changes(n, m, {})
<1>1. /\ n \in [Places -> BlobIds \cup {Directory, Missing}] /\ b \subseteq BlobIds
      /\ IsTree(n) /\ Distinct(n)
      /\ \A i \in b : \E q \in Places : n[q] = i
      /\ \A q \in Places : n[q] \in BlobIds => n[q] \in b \cup h
  BY Zenon DEF Sound
<1>2. m \in [Places -> BlobIds \cup {Directory, Missing}]
  BY <1>1
<1>3. \A q \in Places : n[q] \in BlobIds \/ m[q] \in BlobIds => m[q] = n[q]
  BY KindsOfNode
<1>4. IsTree(m)
  <2> SUFFICES ASSUME NEW x \in Places, NEW y \in Places, y # Top, y # x, Under(y, x), m[x] # Missing
               PROVE  m[y] = Directory
    BY TreeIs
  <2>1. CASE x # Top /\ Under(x, p)
    <3>1. Under(y, p)
      BY <2>1, PlaceOrder
    <3> QED
      BY <3>1
  <2>2. CASE ~(x # Top /\ Under(x, p))
    <3>1. n[x] # Missing
      BY <2>2
    <3>2. n[y] = Directory
      BY <1>1, <3>1, TreeIs
    <3> QED
      BY <3>2
  <2> QED
    BY <2>1, <2>2
<1>5. Distinct(m)
  BY <1>1, <1>3 DEF Distinct
<1>6. \A i \in b : \E q \in Places : m[q] = i
  BY <1>1, <1>3
<1>7. \A q \in Places : m[q] \in BlobIds => m[q] \in b \cup h
  BY <1>1, <1>3
<1> QED
  BY <1>1, <1>2, <1>3, <1>4, <1>5, <1>6, <1>7 DEF Sound, Changes

(* A file put where there was a file or nothing, under directories. *)
LEMMA PutSound ==
  ASSUME NEW n, NEW b, NEW h, Sound(n, b, h), NEW p \in Places, NEW i \in BlobIds,
         n[p] # Directory, \A q \in Places : n[q] # i,
         \A q \in Places : q # Top /\ q # p /\ Under(q, p) => n[q] = Directory,
         NEW m, m = [n EXCEPT ![p] = i], NEW c, c = (b \ {n[p]}) \cup {i}
  PROVE  Sound(m, c, h) /\ Changes(n, m, {p})
<1>1. /\ n \in [Places -> BlobIds \cup {Directory, Missing}] /\ b \subseteq BlobIds
      /\ IsTree(n) /\ Distinct(n)
      /\ \A j \in b : \E q \in Places : n[q] = j
      /\ \A q \in Places : n[q] \in BlobIds => n[q] \in b \cup h
  BY Zenon DEF Sound
<1>2. /\ m \in [Places -> BlobIds \cup {Directory, Missing}]
      /\ m[p] = i /\ \A q \in Places : q # p => m[q] = n[q]
  BY <1>1
<1>3. IsTree(m)
  <2> SUFFICES ASSUME NEW x \in Places, NEW y \in Places, y # Top, y # x, Under(y, x), m[x] # Missing
               PROVE  m[y] = Directory
    BY TreeIs
  <2>1. n[y] = Directory
    <3>1. CASE x = p
      BY <3>1
    <3>2. CASE x # p
      BY <1>1, <1>2, <3>2, TreeIs
    <3> QED
      BY <3>1, <3>2
  <2>2. y # p
    BY <2>1
  <2> QED
    BY <1>2, <2>1, <2>2
<1>4. Distinct(m)
  <2> SUFFICES ASSUME NEW x \in Places, NEW y \in Places, m[x] = m[y], m[x] \in BlobIds
               PROVE  x = y
    BY DEF Distinct
  <2>1. CASE x # p /\ y # p
    BY <1>1, <1>2, <2>1 DEF Distinct
  <2>2. CASE x = p \/ y = p
    BY <1>2, <2>2
  <2> QED
    BY <2>1, <2>2
<1>5. \A j \in c : \E q \in Places : m[q] = j
  <2> SUFFICES ASSUME NEW j \in c, j # i PROVE \E q \in Places : m[q] = j
    BY <1>2
  <2>1. j \in b /\ j # n[p]
    OBVIOUS
  <2>2. PICK q \in Places : n[q] = j
    BY <1>1, <2>1
  <2> QED
    BY <1>2, <2>1, <2>2
<1>6. \A q \in Places : m[q] \in BlobIds => m[q] \in c \cup h
  <2> SUFFICES ASSUME NEW q \in Places, q # p, m[q] \in BlobIds PROVE m[q] \in c \cup h
    BY <1>2
  <2>1. n[q] # n[p]
    BY <1>1, <1>2 DEF Distinct
  <2> QED
    BY <1>1, <1>2, <2>1
<1>7. Changes(n, m, {p})
  BY <1>2, PlaceOrder DEF Changes
<1> QED
  BY <1>1, <1>2, <1>3, <1>4, <1>5, <1>6, <1>7 DEF Sound

LEMMA WriteSound ==
  ASSUME NEW n, NEW b, Sound(n, b, hollow), NEW s, Holding(s, n, b), NEW p \in Places, p # Top,
         CanWrite(s, p),
         NEW m, NEW c, Holding(writeFile(s, p), m, c)
  PROVE  Sound(m, c, hollow) /\ Changes(n, m, {p})
<1> DEFINE i == CHOOSE j \in FreeIds(s) : TRUE
           u == Parent(p)
           d == [q \in Places |-> IF q # Top /\ Under(q, u) THEN Directory ELSE n[q]]
<1>1. u \in Places /\ u # p /\ Under(u, p)
  BY ParentPlace
<1>2. i \in FreeIds(s)
  BY DEF CanWrite
<1>3. i \in BlobIds /\ i \notin b /\ \A q \in Places : n[q] # i
  BY <1>2, FreeIs
<1>4. n[p] # Directory /\ \A q \in Places : Under(q, u) => n[q] \notin BlobIds
  BY Within DEF CanWrite, CanEnsure, HoldsFile, Holding
<1>5. pathParent(p) = u
  BY Within
<1>6. Holding(ensureDirectory(s, u), d, b)
  BY <1>1, EnsureIs
<1>7. m = [d EXCEPT ![p] = i] /\ c = (b \ {n[p]}) \cup {i}
  BY <1>5, <1>6 DEF writeFile, Holding
<1> HIDE DEF i, u
<1>8. ~Under(p, u)
  BY <1>1, PlaceOrder
<1>9. d[p] = n[p]
  BY <1>8
<1>10. Sound(d, b, hollow) /\ Changes(n, d, {})
  BY <1>1, <1>4, EnsureSound
<1>11. \A q \in Places : d[q] # i
  BY <1>3, KindsOfNode
<1>12. \A q \in Places : q # Top /\ q # p /\ Under(q, p) => d[q] = Directory
  BY AboveParent DEF u
<1>13. \A q \in Places : n[q] \in BlobIds => d[q] = n[q]
  BY <1>10 DEF Changes
<1> HIDE DEF d
<1>14. Sound(m, c, hollow) /\ Changes(d, m, {p})
  BY <1>3, <1>4, <1>7, <1>9, <1>10, <1>11, <1>12, PutSound
<1>15. Changes(n, m, {p})
  BY <1>13, <1>14 DEF Changes
<1> QED
  BY <1>14, <1>15

LEMMA MakeSound ==
  ASSUME NEW n, NEW b, Sound(n, b, hollow), NEW s, Holding(s, n, b), NEW p \in Places, p # Top,
         CanMake(s, p),
         NEW m, NEW c, Holding(ensureDirectory(s, p), m, c)
  PROVE  Sound(m, c, hollow) /\ Changes(n, m, {})
<1> DEFINE d == [q \in Places |-> IF q # Top /\ Under(q, p) THEN Directory ELSE n[q]]
<1>1. Holding(ensureDirectory(s, p), d, b)
  BY EnsureIs
<1>2. m = d /\ c = b
  BY <1>1 DEF Holding
<1>3. \A q \in Places : Under(q, p) => n[q] \notin BlobIds
  <2> SUFFICES ASSUME NEW q \in Places, Under(q, p) PROVE n[q] \notin BlobIds
    OBVIOUS
  <2>1. n[p] = Missing
    BY DEF CanMake, Holding
  <2>2. CASE q = p
    BY <2>1, <2>2, KindsOfNode
  <2>3. CASE q # p
    <3>1. Under(q, Parent(p))
      BY <2>3, AboveParent
    <3> QED
      BY <3>1, Within DEF CanMake, CanEnsure, HoldsFile, Holding
  <2> QED
    BY <2>2, <2>3
<1> QED
  BY <1>2, <1>3, EnsureSound
-----------------------------------------------------------------------------
(* Moving what is under one place below another one. *)

(* q, which is under a, as it is called under b. *)
Shift(a, b, q) == b \o SubSeq(q, Len(a) + 1, Len(q))

LEMMA ShiftIs ==
  ASSUME NEW S, NEW a \in Seq(S), NEW b \in Seq(S), NEW q \in Seq(S), Under(a, q)
  PROVE  /\ Shift(a, b, q) \in Seq(S) /\ Under(b, Shift(a, b, q))
         /\ Len(Shift(a, b, q)) = Len(b) + Len(q) - Len(a)
         /\ Shift(b, a, Shift(a, b, q)) = q
<1> DEFINE t == SubSeq(q, Len(a) + 1, Len(q))
<1>1. t \in Seq(S) /\ q = a \o t
  BY UnderSplit
<1>2. Shift(a, b, q) = b \o t
  BY DEF Shift
<1> HIDE DEF t
<1>3. /\ b \o t \in Seq(S) /\ Len(b \o t) = Len(b) + Len(t) /\ Under(b, b \o t)
      /\ Len(a \o t) = Len(a) + Len(t)
  BY <1>1, UnderConcat
<1> DEFINE z == b \o t
           u == SubSeq(z, Len(b) + 1, Len(z))
<1>4. u \in Seq(S) /\ z = b \o u
  BY <1>3, UnderSplit
<1>5. Shift(b, a, z) = a \o u
  BY DEF Shift
<1> HIDE DEF u
<1>6. u = t
  BY <1>1, <1>4, UnderSame
<1>7. Len(q) = Len(a) + Len(t) /\ Len(t) \in Nat /\ Len(a) \in Nat /\ Len(b) \in Nat
  BY <1>1, <1>3
<1>8. Len(z) = Len(b) + Len(q) - Len(a)
  BY <1>3, <1>7
<1> QED
  BY <1>1, <1>2, <1>3, <1>5, <1>6, <1>8

(* Nothing changes in what is above what, *)
LEMMA ShiftOrder ==
  ASSUME NEW S, NEW a \in Seq(S), NEW b \in Seq(S), NEW x \in Seq(S), NEW y \in Seq(S),
         Under(a, x), Under(a, y)
  PROVE  Under(x, y) <=> Under(Shift(a, b, x), Shift(a, b, y))
<1> DEFINE t == SubSeq(x, Len(a) + 1, Len(x))
           u == SubSeq(y, Len(a) + 1, Len(y))
<1>1. t \in Seq(S) /\ x = a \o t /\ Shift(a, b, x) = b \o t
  BY UnderSplit DEF Shift
<1>2. u \in Seq(S) /\ y = a \o u /\ Shift(a, b, y) = b \o u
  BY UnderSplit DEF Shift
<1> HIDE DEF t, u
<1>3. (Under(a \o t, a \o u) <=> Under(t, u)) /\ (Under(b \o t, b \o u) <=> Under(t, u))
  BY <1>1, <1>2, UnderSame
<1> QED
  BY <1>1, <1>2, <1>3

(* and the place itself becomes the other one. *)
LEMMA ShiftSelf ==
  ASSUME NEW S, NEW a \in Seq(S), NEW b \in Seq(S)
  PROVE  Shift(a, b, a) = b
<1> DEFINE t == SubSeq(a, Len(a) + 1, Len(a))
<1>1. t = <<>> /\ b \o <<>> = b
  OBVIOUS
<1> QED
  BY <1>1 DEF Shift

-----------------------------------------------------------------------------
(* What a transfer takes to its destination. *)

(* Nothing is under a place that is free. *)
LEMMA NothingBelow ==
  ASSUME NEW n, NEW b, NEW h, Sound(n, b, h), NEW p \in Places, p # Top, n[p] = Missing,
         NEW q \in Places, Under(p, q)
  PROVE  n[q] = Missing
<1>1. IsTree(n)
  BY DEF Sound
<1>2. q # p /\ n[q] # Missing => n[p] = Directory
  BY <1>1, TreeIs
<1> QED
  BY <1>2, KindsOfNode

LEMMA DestFreeIs ==
  ASSUME NEW n, NEW b, NEW h, Sound(n, b, h), NEW s, Holding(s, n, b), NEW p \in Places, p # Top
  PROVE  DestFree(s, p) = deleteSubtree(s, p)
<1>1. CASE n[p] # Missing
  BY <1>1 DEF DestFree, Holding
<1>2. CASE n[p] = Missing
  <2>1. \A q \in Places : pathIsWithin(q, p) => n[q] = Missing
    BY <1>2, NothingBelow, Within
  <2>2. Subtree(n, p) = {}
    BY <2>1 DEF Subtree
  <2>3. [q \in Places |-> IF pathIsWithin(q, p) THEN Missing ELSE n[q]] = n
    BY <2>1 DEF Sound
  <2>4. b \ {n[q] : q \in Subtree(n, p)} = b
    BY <2>2
  <2>5. deleteSubtree(s, p) = s
    BY <2>3, <2>4 DEF deleteSubtree, Holding
  <2> QED
    BY <1>2, <2>5 DEF DestFree, Holding
<1> QED
  BY <1>1, <1>2

(* A transfer of stores n from one place to another one that is not within it,
   with l for what lands there. *)
Transfers(n, from, to, l) ==
  /\ from \in Places /\ to \in Places /\ from # Top /\ to # Top
  /\ ~Under(from, to) /\ n[from] # Missing
  /\ Parent(to) = Top \/ n[Parent(to)] = Directory
  /\ \A q \in Places : Under(from, q) /\ n[q] # Missing => Len(q) - Len(from) + Len(to) <= MaxDepth
  /\ \A q \in Places : Under(to, q) =>
       l[q] = IF q = to THEN n[from]
              ELSE IF Shift(to, from, q) \in Places /\ ~Under(to, Shift(to, from, q))
              THEN n[Shift(to, from, q)] ELSE Missing

(* It lands as what it was, or its destination took it away with it. *)
LEMMA LandsAs ==
  ASSUME NEW n, NEW from, NEW to, NEW l, Transfers(n, from, to, l)
  PROVE  /\ l[to] = n[from]
         /\ Under(to, from) => \A q \in Places : Under(to, q) /\ q # to => l[q] = Missing
         /\ ~Under(to, from) => \A q \in Places : Under(to, q) =>
              l[q] = IF Shift(to, from, q) \in Places THEN n[Shift(to, from, q)] ELSE Missing
<1> USE DEF Transfers
<1>1. from \in Seq(EntryNames) /\ to \in Seq(EntryNames) /\ Under(to, to)
  BY PlacesAre, PlaceOrder
<1>2. l[to] = n[from] /\ Shift(to, from, to) = from
  BY <1>1, ShiftSelf
<1>3. \A q \in Places : Under(to, q) => Under(from, Shift(to, from, q))
  BY <1>1, ShiftIs, TopIs
<1>4. ASSUME Under(to, from), NEW q \in Places, Under(to, q), q # to PROVE l[q] = Missing
  <2>1. CASE Shift(to, from, q) \in Places
    BY <1>3, <1>4, <2>1, PlaceOrder
  <2>2. CASE Shift(to, from, q) \notin Places
    BY <1>4, <2>2
  <2> QED
    BY <2>1, <2>2
<1>5. ASSUME ~Under(to, from), NEW q \in Places, Under(to, q)
      PROVE l[q] = IF Shift(to, from, q) \in Places THEN n[Shift(to, from, q)] ELSE Missing
  <2>1. CASE q = to
    BY <1>2, <2>1
  <2>2. CASE q # to /\ Shift(to, from, q) \in Places
    <3>1. ~Under(to, Shift(to, from, q))
      BY <1>3, <1>5, <2>2, PlaceOrder
    <3> QED
      BY <1>5, <2>2, <3>1
  <2>3. CASE q # to /\ Shift(to, from, q) \notin Places
    BY <1>5, <2>3
  <2> QED
    BY <2>1, <2>2, <2>3
<1> QED
  BY <1>2, <1>4, <1>5

(* Where a place of the destination comes from. *)
LEMMA SourceOf ==
  ASSUME NEW n, NEW from, NEW to, NEW l, Transfers(n, from, to, l), ~Under(to, from),
         NEW q \in Places, Under(to, q), l[q] # Missing,
         NEW z, z = Shift(to, from, q)
  PROVE  z \in Places /\ Under(from, z) /\ l[q] = n[z] /\ Shift(from, to, z) = q
<1>1. from \in Seq(EntryNames) /\ to \in Seq(EntryNames) /\ q \in Seq(EntryNames)
  BY PlacesAre DEF Transfers
<1>2. Under(from, z) /\ Shift(from, to, z) = q
  BY <1>1, ShiftIs
<1> QED
  BY <1>2, LandsAs

(* What lands is a tree. *)
LEMMA LandsTree ==
  ASSUME NEW n, NEW from, NEW to, NEW l, Transfers(n, from, to, l), IsTree(n),
         NEW x \in Places, NEW y \in Places, Under(to, y), y # x, Under(y, x), l[x] # Missing
  PROVE  l[y] = Directory
<1>t. /\ from \in Places /\ to \in Places /\ from # Top /\ to # Top /\ ~Under(from, to)
      /\ Parent(to) = Top \/ n[Parent(to)] = Directory
      /\ \A q \in Places : Under(from, q) /\ n[q] # Missing
                          => Len(q) - Len(from) + Len(to) <= MaxDepth
  BY DEF Transfers
<1>1. from \in Seq(EntryNames) /\ to \in Seq(EntryNames) /\ x \in Seq(EntryNames) /\ y \in Seq(EntryNames)
  BY <1>t, PlacesAre
<1>2. Under(to, x) /\ x # to
  BY <1>t, PlaceOrder
<1>3. ~Under(to, from)
  BY <1>2, LandsAs
<1> DEFINE u == Shift(to, from, x)
           v == Shift(to, from, y)
<1>4. u \in Places /\ Under(from, u) /\ l[x] = n[u] /\ Shift(from, to, u) = x
  BY <1>2, <1>3, SourceOf
<1>5. v \in Seq(EntryNames) /\ Under(from, v) /\ Shift(from, to, v) = y
  BY <1>1, ShiftIs
<1>6. Under(v, u)
  BY <1>1, <1>2, ShiftOrder
<1> HIDE DEF u
<1>7. v \in Places
  BY <1>4, <1>5, <1>6, AbovePlace
<1>8. v # u
  BY <1>4, <1>5
<1>9. v # Top
  BY <1>t, <1>5, <1>7, PlaceOrder
<1>10. l[y] = n[v]
  BY <1>3, <1>7, LandsAs
<1> HIDE DEF v
<1>11. n[v] = Directory
  BY <1>4, <1>6, <1>7, <1>8, <1>9, TreeIs
<1> QED
  BY <1>10, <1>11

(* Two files that land are two files of the source. *)
LEMMA LandsDistinct ==
  ASSUME NEW n, NEW from, NEW to, NEW l, Transfers(n, from, to, l), Distinct(n),
         NEW x \in Places, NEW y \in Places, Under(to, x), Under(to, y),
         l[x] = l[y], l[x] \in BlobIds
  PROVE  x = y
<1>1. l[x] # Missing
  BY KindsOfNode
<1>2. CASE Under(to, from)
  BY <1>1, <1>2, LandsAs
<1>3. CASE ~Under(to, from)
  <2> DEFINE u == Shift(to, from, x)
             v == Shift(to, from, y)
  <2>1. u \in Places /\ l[x] = n[u] /\ Shift(from, to, u) = x
    BY <1>1, <1>3, SourceOf
  <2>2. v \in Places /\ l[y] = n[v] /\ Shift(from, to, v) = y
    BY <1>1, <1>3, SourceOf
  <2> HIDE DEF u, v
  <2>3. u = v
    BY <2>1, <2>2 DEF Distinct
  <2> QED
    BY <2>1, <2>2, <2>3
<1> QED
  BY <1>2, <1>3

(* Everything of the source lands, when the destination does not contain it. *)
LEMMA LandsWhole ==
  ASSUME NEW n, NEW from, NEW to, NEW l, Transfers(n, from, to, l), ~Under(to, from),
         NEW z \in Places, Under(from, z), n[z] # Missing
  PROVE  \E x \in Places : Under(to, x) /\ l[x] = n[z]
<1>t. /\ from \in Places /\ to \in Places /\ from # Top /\ to # Top /\ ~Under(from, to)
      /\ Parent(to) = Top \/ n[Parent(to)] = Directory
      /\ \A q \in Places : Under(from, q) /\ n[q] # Missing
                          => Len(q) - Len(from) + Len(to) <= MaxDepth
  BY DEF Transfers
<1>1. from \in Seq(EntryNames) /\ to \in Seq(EntryNames) /\ z \in Seq(EntryNames)
  BY <1>t, PlacesAre
<1> DEFINE x == Shift(from, to, z)
<1>2. /\ x \in Seq(EntryNames) /\ Under(to, x) /\ Shift(to, from, x) = z
      /\ Len(x) = Len(to) + Len(z) - Len(from)
  BY <1>1, ShiftIs
<1> HIDE DEF x
<1>3. Len(x) <= MaxDepth
  <2>1. Len(z) - Len(from) + Len(to) <= MaxDepth
    BY <1>t
  <2>2. Len(z) \in Nat /\ Len(from) \in Nat /\ Len(to) \in Nat
    BY <1>1
  <2> QED
    BY <1>2, <2>1, <2>2, ExplorerPathsAssumption
<1>4. x \in Places
  BY <1>2, <1>3, PlacesAre
<1>5. l[x] = n[z]
  BY <1>2, <1>4, LandsAs
<1> QED
  BY <1>2, <1>4, <1>5

(* Above the destination are directories that stay where they are. *)
LEMMA AboveDest ==
  ASSUME NEW n, NEW from, NEW to, NEW l, Transfers(n, from, to, l), IsTree(n),
         NEW y \in Places, y # Top, y # to, Under(y, to)
  PROVE  n[y] = Directory /\ ~Under(to, y) /\ ~Under(from, y)
<1>t. /\ from \in Places /\ to \in Places /\ from # Top /\ to # Top /\ ~Under(from, to)
      /\ Parent(to) = Top \/ n[Parent(to)] = Directory
      /\ \A q \in Places : Under(from, q) /\ n[q] # Missing
                          => Len(q) - Len(from) + Len(to) <= MaxDepth
  BY DEF Transfers
<1>1. Under(y, Parent(to)) /\ Parent(to) \in Places
  BY <1>t, AboveParent, ParentPlace
<1>2. Parent(to) # Top
  BY <1>1, PlaceOrder
<1>3. n[y] = Directory
  <2>1. CASE y = Parent(to)
    BY <1>t, <1>2, <2>1
  <2>2. CASE y # Parent(to)
    BY <1>t, <1>1, <1>2, <2>2, TreeIs, KindsOfNode
  <2> QED
    BY <2>1, <2>2
<1> QED
  BY <1>t, <1>3, PlaceOrder

(* A tree w that stands where the destination was, in a tree from which what
   was at the destination, and the source when "gone" says so, is taken. *)
LEMMA GraftTree ==
  ASSUME NEW n, NEW from, NEW to, NEW l, Transfers(n, from, to, l), IsTree(n),
         NEW w,
         \A x, y \in Places : (Under(to, y) /\ y # x /\ Under(y, x) /\ w[x] # Missing)
                                => w[y] = Directory,
         NEW gone \in BOOLEAN,
         NEW g, \A q \in Places :
                  g[q] = IF Under(to, q) THEN w[q]
                         ELSE IF gone /\ Under(from, q) THEN Missing ELSE n[q]
  PROVE  IsTree(g)
<1>t. /\ from \in Places /\ to \in Places /\ from # Top /\ to # Top /\ ~Under(from, to)
      /\ Parent(to) = Top \/ n[Parent(to)] = Directory
      /\ \A q \in Places : Under(from, q) /\ n[q] # Missing
                          => Len(q) - Len(from) + Len(to) <= MaxDepth
  BY DEF Transfers
<1> SUFFICES ASSUME NEW x \in Places, NEW y \in Places, y # Top, y # x, Under(y, x), g[x] # Missing
             PROVE  g[y] = Directory
  BY TreeIs
<1>1. CASE Under(to, x) /\ Under(to, y)
  BY <1>1
<1>2. CASE Under(to, x) /\ ~Under(to, y)
  <2>1. Under(y, to) /\ y # to
    BY <1>t, <1>2, PlaceOrder
  <2>2. n[y] = Directory /\ ~Under(from, y)
    BY <2>1, AboveDest
  <2> QED
    BY <1>2, <2>2
<1>3. CASE ~Under(to, x)
  <2>1. ~Under(to, y)
    BY <1>t, <1>3, PlaceOrder
  <2>2. n[x] # Missing /\ ~(gone /\ Under(from, x))
    BY <1>3
  <2>3. n[y] = Directory
    BY <2>2, TreeIs
  <2>4. ~(gone /\ Under(from, y))
    BY <1>t, <2>2, PlaceOrder
  <2> QED
    BY <2>1, <2>3, <2>4
<1> QED
  BY <1>1, <1>2, <1>3

(* A transfer that may be made takes what its definition says. *)
LEMMA TransferIs ==
  ASSUME NEW n, NEW b, NEW h, Sound(n, b, h), NEW s, Holding(s, n, b),
         NEW from \in Places, NEW to \in Seq(EntryNames), from # Top, to # Top, NEW o,
         CanTransfer(s, from, to, o),
         Fits(s, from, to),
         NEW l, l = Relocated(s, from, to),
         NEW m, NEW c, Holding(deleteSubtree(s, to), m, c)
  PROVE  /\ Transfers(n, from, to, l)
         /\ \A q : q \in DOMAIN l <=> q \in Places /\ Under(to, q)
         /\ Holding(DestFree(s, to), m, c)
         /\ Sound(m, c, h) /\ Pruned(n, to, m)
<1>1. /\ ~Under(from, to) /\ n[from] # Missing
      /\ Parent(to) = Top \/ n[Parent(to)] = Directory
  BY Within DEF CanTransfer, Holding
<1>2. \A q \in Places : Under(from, q) /\ n[q] # Missing => Len(q) - Len(from) + Len(to) <= MaxDepth
  BY Within DEF Fits, Subtree, Holding
<1>3. to \in Places
  <2>1. Len(from) - Len(from) + Len(to) <= MaxDepth
    BY <1>1, <1>2, PlaceOrder
  <2>2. Len(from) \in Nat /\ Len(to) \in Nat
    BY PlacesAre
  <2>3. Len(to) <= MaxDepth
    BY <2>1, <2>2, ExplorerPathsAssumption
  <2> QED
    BY <2>3, PlacesAre
<1>5. Holding(DestFree(s, to), m, c)
  BY <1>3, DestFreeIs
<1>6. Sound(m, c, h) /\ Pruned(n, to, m)
  BY <1>3, DeleteSound, Zenon
<1>7. {p \in Places : pathIsWithin(p, to)} = {q \in Places : Under(to, q)}
  BY Within
<1>8. l = [q \in {p \in Places : pathIsWithin(p, to)} |->
             IF q = to THEN n[from]
             ELSE IF Shift(to, from, q) \in Places THEN m[Shift(to, from, q)] ELSE Missing]
  BY <1>5 DEF Relocated, Shift, Holding
<1>9. \A q : q \in DOMAIN l <=> q \in Places /\ Under(to, q)
  BY <1>7, <1>8
<1>10. ASSUME NEW q \in Places, Under(to, q)
       PROVE  l[q] = IF q = to THEN n[from]
                     ELSE IF Shift(to, from, q) \in Places /\ ~Under(to, Shift(to, from, q))
                     THEN n[Shift(to, from, q)] ELSE Missing
  <2> DEFINE z == Shift(to, from, q)
  <2>1. l[q] = IF q = to THEN n[from] ELSE IF z \in Places THEN m[z] ELSE Missing
    BY <1>7, <1>8, <1>10
  <2> HIDE DEF z
  <2>2. z \in Places => m[z] = IF Under(to, z) THEN Missing ELSE n[z]
    BY <1>6 DEF Pruned
  <2>3. l[q] = IF q = to THEN n[from]
               ELSE IF z \in Places /\ ~Under(to, z) THEN n[z] ELSE Missing
    BY <2>1, <2>2
  <2> QED
    BY <2>3 DEF z
<1>11. Transfers(n, from, to, l)
  BY <1>1, <1>2, <1>3, <1>10, Zenon DEF Transfers
<1> QED
  BY <1>5, <1>6, <1>9, <1>11

(* A move leaves sound stores, but for a file that takes the place of a
   directory it was in: that file has no record any more. *)
LEMMA MoveSound ==
  ASSUME NEW n, NEW b, NEW h, Sound(n, b, h), NEW s, Holding(s, n, b),
         NEW from \in Places, NEW to \in Seq(EntryNames), from # Top, to # Top, NEW o,
         CanTransfer(s, from, to, o),
         Fits(s, from, to),
         NEW g, NEW c, Holding(move(s, from, to), g, c),
         NEW k, k = IF Under(to, from) THEN h \cup ({n[from]} \cap BlobIds) ELSE h
  PROVE  Sound(g, c, k) /\ Changes(n, g, {from, to})
<1> DEFINE l == Relocated(s, from, to)
           m == deleteSubtree(s, to).node
           d == deleteSubtree(s, to).blobs
<1>0. Holding(deleteSubtree(s, to), m, d)
  BY DEF deleteSubtree, Holding
<1> HIDE DEF m, d
<1>1. /\ Transfers(n, from, to, l)
      /\ \A q : q \in DOMAIN l <=> q \in Places /\ Under(to, q)
      /\ Holding(DestFree(s, to), m, d)
      /\ Sound(m, d, h) /\ Pruned(n, to, m)
  BY <1>0, TransferIs, Zenon
<1>p. \A q \in Places : m[q] = IF Under(to, q) THEN Missing ELSE n[q]
  BY <1>1 DEF Pruned
<1>2. /\ g = [q \in Places |-> IF q \in DOMAIN l THEN l[q]
                               ELSE IF pathIsWithin(q, from) THEN Missing ELSE m[q]]
      /\ c = d
  BY <1>1 DEF move, Holding
<1>n. /\ n \in [Places -> BlobIds \cup {Directory, Missing}]
      /\ IsTree(n) /\ Distinct(n)
  BY DEF Sound
<1>m. /\ m \in [Places -> BlobIds \cup {Directory, Missing}]
      /\ d \subseteq BlobIds
      /\ \A i \in d : \E p \in Places : m[p] = i
      /\ \A p \in Places : m[p] \in BlobIds => m[p] \in d \cup h
  BY <1>1, Zenon DEF Sound
<1> HIDE DEF l
<1>3. \A q \in Places :
        g[q] = IF Under(to, q) THEN l[q] ELSE IF Under(from, q) THEN Missing ELSE n[q]
  BY <1>1, <1>p, <1>2, Within
<1>t. to \in Places /\ from # Top /\ to # Top /\ ~Under(from, to) /\ n[from] # Missing
  BY <1>1 DEF Transfers
<1>4. ASSUME NEW q \in Places, Under(to, q), l[q] # Missing
      PROVE  \E z \in Places : Under(from, z) /\ n[z] = l[q] /\ (Under(to, from) => q = to /\ z = from)
  <2>1. CASE Under(to, from)
    <3>1. q = to /\ l[q] = n[from]
      BY <1>1, <1>4, <2>1, LandsAs
    <3> QED
      BY <3>1, PlaceOrder
  <2>2. CASE ~Under(to, from)
    BY <1>1, <1>4, <2>2, SourceOf
  <2> QED
    BY <2>1, <2>2
<1>5. g \in [Places -> BlobIds \cup {Directory, Missing}]
  <2>1. \A q \in Places : g[q] \in BlobIds \cup {Directory, Missing}
    <3> SUFFICES ASSUME NEW q \in Places PROVE g[q] \in BlobIds \cup {Directory, Missing}
      OBVIOUS
    <3>1. CASE Under(to, q) /\ l[q] # Missing
      BY <1>3, <1>4, <1>n, <3>1
    <3>2. CASE ~(Under(to, q) /\ l[q] # Missing)
      BY <1>3, <1>n, <3>2
    <3> QED
      BY <3>1, <3>2
  <2> QED
    BY <1>2, <2>1
<1>6. IsTree(g)
  <2>1. \A x, y \in Places : (Under(to, y) /\ y # x /\ Under(y, x) /\ l[x] # Missing)
                               => l[y] = Directory
    BY <1>1, <1>n, LandsTree
  <2> DEFINE gone == TRUE
  <2>2. \A q \in Places :
          g[q] = IF Under(to, q) THEN l[q] ELSE IF gone /\ Under(from, q) THEN Missing ELSE n[q]
    BY <1>3
  <2>3. gone \in BOOLEAN
    OBVIOUS
  <2> HIDE DEF gone
  <2> QED
    BY <1>1, <1>n, <2>1, <2>2, <2>3, GraftTree
<1>7. Distinct(g)
  <2> SUFFICES ASSUME NEW x \in Places, NEW y \in Places, g[x] = g[y], g[x] \in BlobIds, Under(to, x) \/ ~Under(to, y)
               PROVE  x = y
    BY DEF Distinct
  <2>1. g[x] # Missing
    BY KindsOfNode
  <2>2. CASE Under(to, x) /\ Under(to, y)
    BY <1>1, <1>3, <1>n, <2>2, LandsDistinct
  <2>3. CASE Under(to, x) /\ ~Under(to, y)
    <3>1. PICK z \in Places : Under(from, z) /\ n[z] = l[x]
      BY <1>3, <1>4, <2>1, <2>3
    <3>2. ~Under(from, y) /\ g[y] = n[y]
      BY <1>3, <2>1, <2>3
    <3>3. z = y
      BY <1>3, <1>n, <2>3, <3>1, <3>2 DEF Distinct
    <3> QED
      BY <3>1, <3>2, <3>3
  <2>4. CASE ~Under(to, x) /\ ~Under(to, y)
    <3>1. g[x] = n[x] /\ g[y] = n[y]
      BY <1>3, <2>1, <2>4
    <3> QED
      BY <1>n, <3>1 DEF Distinct
  <2> QED
    BY <2>2, <2>3, <2>4
<1>8. \A i \in d : \E p \in Places : g[p] = i
  <2> SUFFICES ASSUME NEW i \in d PROVE \E p \in Places : g[p] = i
    OBVIOUS
  <2>1. PICK q \in Places : m[q] = i
    BY <1>m
  <2>2. i # Missing
    BY <1>m, KindsOfNode
  <2>3. ~Under(to, q) /\ n[q] = i
    BY <1>1, <1>p, <2>1, <2>2
  <2>4. CASE Under(from, q)
    <3>1. ~Under(to, from)
      BY <1>t, <2>3, <2>4, PlaceOrder
    <3>2. PICK x \in Places : Under(to, x) /\ l[x] = n[q]
      BY <1>1, <2>2, <2>3, <2>4, <3>1, LandsWhole
    <3> QED
      BY <1>3, <2>3, <3>2
  <2>5. CASE ~Under(from, q)
    BY <1>3, <2>3, <2>5
  <2> QED
    BY <2>4, <2>5
<1>9. \A q \in Places : g[q] \in BlobIds => g[q] \in d \cup k
  <2> SUFFICES ASSUME NEW q \in Places, g[q] \in BlobIds PROVE g[q] \in d \cup k
    OBVIOUS
  <2>1. g[q] # Missing
    BY KindsOfNode
  <2>2. CASE Under(to, q)
    <3>1. PICK z \in Places : Under(from, z) /\ n[z] = l[q] /\ (Under(to, from) => q = to /\ z = from)
      BY <1>3, <1>4, <2>1, <2>2
    <3>2. CASE Under(to, from)
      BY <1>3, <2>2, <3>1, <3>2
    <3>3. CASE ~Under(to, from)
      <4>1. ~Under(to, z)
        BY <1>t, <3>1, <3>3, PlaceOrder
      <4>2. m[z] = g[q]
        BY <1>1, <1>p, <1>3, <2>2, <3>1, <4>1
      <4> QED
        BY <1>m, <3>3, <4>2
    <3> QED
      BY <3>2, <3>3
  <2>3. CASE ~Under(to, q)
    <3>1. m[q] = g[q]
      BY <1>1, <1>p, <1>3, <2>1, <2>3
    <3>2. h \subseteq k
      OBVIOUS
    <3> QED
      BY <1>m, <3>1, <3>2
  <2> QED
    BY <2>2, <2>3
<1>10. Changes(n, g, {from, to})
  BY <1>3 DEF Changes
<1> QED
  BY <1>2, <1>m, <1>5, <1>6, <1>7, <1>8, <1>9, <1>10 DEF Sound

(* A copy leaves sound stores: every file that lands has an id of its own. *)
LEMMA CopySound ==
  ASSUME NEW n, NEW b, Sound(n, b, hollow), NEW s, Holding(s, n, b),
         NEW from \in Places, NEW to \in Seq(EntryNames), from # Top, to # Top, NEW o,
         CanTransfer(s, from, to, o),
         Fits(s, from, to),
         NewIds(s, Landed(s, from, to)) # {},
         NEW g, NEW c, Holding(copy(s, from, to), g, c)
  PROVE  Sound(g, c, hollow) /\ Changes(n, g, {to})
<1> DEFINE l == Relocated(s, from, to)
           m == deleteSubtree(s, to).node
           d == deleteSubtree(s, to).blobs
           files == Landed(s, from, to)
           fresh == CHOOSE f \in NewIds(s, files) : TRUE
<1>0. Holding(deleteSubtree(s, to), m, d)
  BY DEF deleteSubtree, Holding
<1> HIDE DEF m, d
<1>1. /\ Transfers(n, from, to, l)
      /\ \A q : q \in DOMAIN l <=> q \in Places /\ Under(to, q)
      /\ Holding(DestFree(s, to), m, d)
      /\ Sound(m, d, hollow) /\ Pruned(n, to, m)
  BY <1>0, TransferIs, Zenon
<1>p. \A q \in Places : m[q] = IF Under(to, q) THEN Missing ELSE n[q]
  BY <1>1 DEF Pruned
<1>l. \A q : q \in files <=> q \in DOMAIN l /\ l[q] \in BlobIds
  BY DEF Landed
<1>2. /\ g = [q \in Places |-> IF q \in files THEN fresh[q] ELSE IF q \in DOMAIN l THEN l[q] ELSE m[q]]
      /\ c = d \cup {fresh[q] : q \in files}
  <2>1. DestFree(s, to).node = m /\ DestFree(s, to).blobs = d
    BY <1>1 DEF Holding
  <2>2. copy(s, from, to) =
          [node  |-> [q \in Places |->
                        IF q \in files THEN fresh[q]
                        ELSE IF q \in DOMAIN l THEN l[q] ELSE DestFree(s, to).node[q]],
           blobs |-> DestFree(s, to).blobs \cup {fresh[q] : q \in files}]
    BY DEF copy
  <2> HIDE DEF fresh, files, l
  <2> QED
    BY <2>1, <2>2 DEF Holding
<1>f. fresh \in NewIds(s, files)
  OBVIOUS
<1> HIDE DEF fresh
<1>i. /\ fresh \in [files -> FreeIds(s)]
      /\ \A x, y \in files : fresh[x] = fresh[y] => x = y
  BY <1>f DEF NewIds, IsInjective
<1>u. \A x \in files : /\ fresh[x] \in BlobIds /\ fresh[x] \notin b
                       /\ \A q \in Places : n[q] # fresh[x]
  BY <1>i, FreeIs
<1>n. /\ n \in [Places -> BlobIds \cup {Directory, Missing}]
      /\ IsTree(n) /\ Distinct(n)
  BY DEF Sound
<1>m. /\ m \in [Places -> BlobIds \cup {Directory, Missing}]
      /\ d \subseteq BlobIds
      /\ \A i \in d : \E p \in Places : m[p] = i
      /\ \A p \in Places : m[p] \in BlobIds => m[p] \in d \cup hollow
  BY <1>1, Zenon DEF Sound
<1>v. \A q : q \in files <=> q \in Places /\ Under(to, q) /\ l[q] \in BlobIds
  BY <1>1, <1>l
<1>e. \A i : i \in c <=> i \in d \/ \E q \in files : fresh[q] = i
  BY <1>2
<1> HIDE DEF l, files
<1> DEFINE w == [q \in Places |-> IF q \in files THEN fresh[q] ELSE l[q]]
<1>3. \A q \in Places : g[q] = IF Under(to, q) THEN w[q] ELSE n[q]
  BY <1>1, <1>p, <1>2, <1>v
<1>w. \A q \in Places : w[q] = IF q \in files THEN fresh[q] ELSE l[q]
  OBVIOUS
<1> HIDE DEF w
<1>4. ASSUME NEW q \in Places, Under(to, q)
      PROVE  l[q] \in BlobIds \cup {Directory, Missing}
  <2>1. CASE l[q] = Missing
    BY <2>1
  <2>2. CASE l[q] # Missing /\ Under(to, from)
    <3>1. l[q] = n[from] /\ from \in Places
      BY <1>1, <1>4, <2>2, LandsAs DEF Transfers
    <3> QED
      BY <1>n, <3>1
  <2>3. CASE l[q] # Missing /\ ~Under(to, from)
    <3>1. PICK z \in Places : l[q] = n[z]
      BY <1>1, <1>4, <2>3, SourceOf
    <3> QED
      BY <1>n, <3>1
  <2> QED
    BY <2>1, <2>2, <2>3
<1>5. g \in [Places -> BlobIds \cup {Directory, Missing}]
  <2>1. \A q \in Places : g[q] \in BlobIds \cup {Directory, Missing}
    BY <1>3, <1>4, <1>w, <1>u, <1>n
  <2> QED
    BY <1>2, <2>1
<1>6. IsTree(g)
  <2>1. ASSUME NEW x \in Places, NEW y \in Places, Under(to, y), y # x, Under(y, x), w[x] # Missing
        PROVE  w[y] = Directory
    <3>1. l[x] # Missing
      BY <1>w, <1>v, <2>1, KindsOfNode
    <3>2. l[y] = Directory
      BY <1>1, <1>n, <2>1, <3>1, LandsTree
    <3> QED
      BY <1>w, <1>v, <3>2, KindsOfNode
  <2>2. \A x, y \in Places : (Under(to, y) /\ y # x /\ Under(y, x) /\ w[x] # Missing)
                               => w[y] = Directory
    BY <2>1
  <2> DEFINE gone == FALSE
  <2>3. \A q \in Places :
          g[q] = IF Under(to, q) THEN w[q] ELSE IF gone /\ Under(from, q) THEN Missing ELSE n[q]
    BY <1>3
  <2>4. gone \in BOOLEAN
    OBVIOUS
  <2> HIDE DEF gone
  <2> QED
    BY <1>1, <1>n, <2>2, <2>3, <2>4, GraftTree
<1>7. ASSUME NEW q \in Places, g[q] \in BlobIds
      PROVE  \/ q \in files /\ g[q] = fresh[q]
             \/ q \notin files /\ ~Under(to, q) /\ g[q] = n[q]
  BY <1>3, <1>w, <1>v, <1>7
<1>8. Distinct(g)
  <2> SUFFICES ASSUME NEW x \in Places, NEW y \in Places, g[x] = g[y], g[x] \in BlobIds
               PROVE  x = y
    BY DEF Distinct
  <2>1. CASE x \in files /\ y \in files
    BY <1>7, <1>i, <2>1
  <2>2. CASE x \notin files /\ y \notin files
    BY <1>7, <1>n, <2>2 DEF Distinct
  <2>3. CASE x \in files /\ y \notin files
    BY <1>7, <1>u, <2>3
  <2>4. CASE x \notin files /\ y \in files
    BY <1>7, <1>u, <2>4
  <2> QED
    BY <2>1, <2>2, <2>3, <2>4
<1>9. \A i \in c : i \in BlobIds /\ \E p \in Places : g[p] = i
  <2> SUFFICES ASSUME NEW i \in c PROVE i \in BlobIds /\ \E p \in Places : g[p] = i
    OBVIOUS
  <2>1. CASE i \in d
    <3>1. PICK q \in Places : m[q] = i
      BY <1>m, <2>1
    <3>2. i # Missing
      BY <1>m, <2>1, KindsOfNode
    <3>3. ~Under(to, q)
      BY <1>p, <3>1, <3>2
    <3> QED
      BY <1>m, <1>p, <1>3, <2>1, <3>1, <3>3
  <2>2. CASE i \notin d
    <3>1. PICK q \in files : fresh[q] = i
      BY <1>e, <2>2
    <3>2. q \in Places /\ g[q] = fresh[q]
      BY <1>3, <1>v, <1>w
    <3> QED
      BY <1>u, <3>1, <3>2
  <2> QED
    BY <2>1, <2>2
<1>10. \A q \in Places : g[q] \in BlobIds => g[q] \in c \cup hollow
  <2> SUFFICES ASSUME NEW q \in Places, g[q] \in BlobIds PROVE g[q] \in c \cup hollow
    OBVIOUS
  <2>1. CASE q \in files
    BY <1>7, <1>e, <2>1
  <2>2. CASE q \notin files
    <3>1. m[q] = g[q]
      BY <1>7, <1>p, <2>2
    <3> QED
      BY <1>m, <1>e, <3>1
  <2> QED
    BY <2>1, <2>2
<1>11. Changes(n, g, {to})
  BY <1>3 DEF Changes
<1>12. c \subseteq BlobIds
  BY <1>9
<1> QED
  BY <1>5, <1>6, <1>8, <1>9, <1>10, <1>11, <1>12 DEF Sound
-----------------------------------------------------------------------------
(* The requests made of the volume. *)

LEMMA CallIs ==
  ASSUME NEW b \in Calls, NEW p \in Places, p # Top
  PROVE  /\ b.op \in {"upload", "mkdir", "delete", "rename", "copy", "move"}
         /\ b.paths \in Seq(Places \ {Top}) /\ b.paths # <<>>
         /\ Destination(b, p) \in Seq(EntryNames) /\ Destination(b, p) # Top
<1>1. b \in Asked({"upload", "mkdir", "delete", "rename", "copy", "move"}) /\ b.paths # <<>>
  BY VolumeAssumption
<1>2. /\ b.op \in {"upload", "mkdir", "delete", "rename", "copy", "move"}
      /\ b.paths \in Seq(Places \ {Top}) /\ b.dir \in Places
      /\ b.name \in EntryNames \cup {Missing}
  BY <1>1 DEF Asked
<1> DEFINE name == IF b.name # Missing /\ Len(b.paths) = 1 THEN b.name ELSE Last(p)
           dir  == IF b.op = "rename" THEN pathParent(p) ELSE b.dir
<1>3. name \in EntryNames
  BY <1>2, ParentPlace
<1>4. dir \in Seq(EntryNames)
  BY <1>2, ParentPlace, TopIs, Within
<1>5. Destination(b, p) = Append(dir, name)
  BY DEF Destination
<1> HIDE DEF name, dir
<1>6. Append(dir, name) \in Seq(EntryNames) /\ Len(Append(dir, name)) = Len(dir) + 1
  BY <1>3, <1>4
<1>7. Len(dir) \in Nat /\ Len(<<>>) = 0
  BY <1>4
<1>8. Append(dir, name) # <<>>
  <2> SUFFICES ASSUME Append(dir, name) = <<>> PROVE FALSE
    OBVIOUS
  <2>1. Len(dir) + 1 = 0
    BY <1>6, <1>7
  <2> QED
    BY <1>7, <2>1
<1> QED
  BY <1>1, <1>2, <1>5, <1>6, <1>8, TopIs

(* Where a request for p may change files. *)
Touched(b, p) ==
  CASE b.op \in {"upload", "delete"} -> {p}
    [] b.op = "mkdir" -> {}
    [] b.op = "copy"  -> {Destination(b, p)}
    [] OTHER          -> {p, Destination(b, p)}

(* A transaction that commits leaves sound stores; files change only at the
   paths the request names and at their destinations. *)
LEMMA OutcomeSound ==
  ASSUME Sound(nodes, blobs, hollow), NEW b \in Calls, NEW p \in Places, p # Top,
         Outcome(b, p).ok,
         NEW m, m = Outcome(b, p).to.node, NEW c, c = Outcome(b, p).to.blobs,
         NEW k, k = IF b.op \in {"rename", "move"} /\ pathIsWithin(p, Destination(b, p))
                    THEN hollow \cup ({nodes[p]} \cap BlobIds) ELSE hollow
  PROVE  Sound(m, c, k) /\ Changes(nodes, m, Touched(b, p))
<1> DEFINE s == Stores
           to == Destination(b, p)
<1>1. Holding(s, nodes, blobs)
  BY DEF Stores, Holding
<1>2. /\ b.op \in {"upload", "mkdir", "delete", "rename", "copy", "move"}
      /\ to \in Seq(EntryNames) /\ to # Top
  BY CallIs
<1>3. CASE b.op = "upload"
  <2>1. CanWrite(s, p) /\ m = writeFile(s, p).node /\ c = writeFile(s, p).blobs
    BY <1>3 DEF Outcome
  <2>2. Holding(writeFile(s, p), m, c)
    BY <2>1 DEF writeFile, Holding
  <2> HIDE DEF s
  <2>3. Sound(m, c, hollow) /\ Changes(nodes, m, {p})
    BY <1>1, <2>1, <2>2, WriteSound, Zenon
  <2> QED
    BY <1>3, <2>3 DEF Touched
<1>4. CASE b.op = "mkdir"
  <2>1. CanMake(s, p) /\ m = ensureDirectory(s, p).node /\ c = ensureDirectory(s, p).blobs
    BY <1>4 DEF Outcome
  <2>2. Holding(ensureDirectory(s, p), m, c)
    BY <1>1, <2>1, EnsureIs DEF Holding
  <2> HIDE DEF s
  <2>3. Sound(m, c, hollow) /\ Changes(nodes, m, {})
    BY <1>1, <2>1, <2>2, MakeSound, Zenon
  <2> QED
    BY <1>4, <2>3 DEF Touched
<1>5. CASE b.op = "delete"
  <2>1. m = deleteSubtree(s, p).node /\ c = deleteSubtree(s, p).blobs
    BY <1>5 DEF Outcome
  <2>2. Holding(deleteSubtree(s, p), m, c)
    BY <2>1 DEF deleteSubtree, Holding
  <2> HIDE DEF s
  <2>3. Sound(m, c, hollow) /\ Changes(nodes, m, {p})
    BY <1>1, <2>2, DeleteSound, Zenon
  <2> QED
    BY <1>5, <2>3 DEF Touched
<1>6. CASE b.op = "copy"
  <2>1. /\ Fits(s, p, to) /\ CanTransfer(s, p, to, b.overwrite)
        /\ NewIds(s, Landed(s, p, to)) # {}
        /\ m = copy(s, p, to).node /\ c = copy(s, p, to).blobs
    BY <1>6 DEF Outcome
  <2>2. Holding(copy(s, p, to), m, c)
    BY <2>1 DEF copy, Holding
  <2> HIDE DEF s, to
  <2>3. Sound(m, c, hollow) /\ Changes(nodes, m, {to})
    BY <1>1, <1>2, <2>1, <2>2, CopySound, Zenon
  <2> QED
    BY <1>6, <2>3 DEF Touched, to
<1>7. CASE b.op \in {"rename", "move"}
  <2>1. /\ Fits(s, p, to) /\ CanTransfer(s, p, to, b.overwrite)
        /\ m = move(s, p, to).node /\ c = move(s, p, to).blobs
    BY <1>7 DEF Outcome
  <2>2. Holding(move(s, p, to), m, c)
    <3>1. Holding(DestFree(s, to), DestFree(s, to).node, DestFree(s, to).blobs)
      BY DEF DestFree, deleteSubtree, Stores, Holding
    <3> QED
      BY <2>1, <3>1 DEF move, Holding
  <2>3. k = IF Under(to, p) THEN hollow \cup ({nodes[p]} \cap BlobIds) ELSE hollow
    BY <1>7, Within
  <2> HIDE DEF s, to
  <2>4. Sound(m, c, k) /\ Changes(nodes, m, {p, to})
    BY <1>1, <1>2, <2>1, <2>2, <2>3, MoveSound, Zenon
  <2>5. Touched(b, p) = {p, to}
    BY <1>7 DEF Touched, to
  <2> QED
    BY <2>4, <2>5
<1> QED
  BY <1>2, <1>3, <1>4, <1>5, <1>6, <1>7
-----------------------------------------------------------------------------
(* The volume is whole. *)

CallPhases == {"idle", "persist", "run", "done"}

(* A request that is under way is one the explorer makes, of some tab, with the
   paths that are left. *)
AskedFor(a) ==
  /\ a = [phase |-> a.phase, tab |-> a.tab, left |-> a.left, body |-> a.body]
  /\ a.phase \in {"persist", "run"} =>
       /\ a.tab \in Tabs /\ a.body \in Calls
       /\ a.left \in Seq(Places \ {Top}) /\ a.left # <<>>

VolumeInv ==
  /\ Sound(nodes, blobs, hollow)
  /\ ask = [r \in Tasks |-> ask[r]] /\ \A r \in Tasks : AskedFor(ask[r])

LEMMA VolumeInvInit == VolumeInit => VolumeInv
<1> SUFFICES ASSUME VolumeInit PROVE VolumeInv
  OBVIOUS
<1>1. /\ nodes \in [Places -> BlobIds \cup {Directory, Missing}]
      /\ IsTree(nodes) /\ Distinct(nodes)
  BY VolumeAssumption DEF VolumeInit
<1>2. blobs = {nodes[p] : p \in Places} \cap BlobIds
  BY DEF VolumeInit
<1>3. Sound(nodes, blobs, hollow)
  BY <1>1, <1>2 DEF Sound
<1>4. ask = [r \in Tasks |-> Unsent]
  BY DEF VolumeInit
<1>5. AskedFor(Unsent)
  BY DEF AskedFor, Unsent
<1> QED
  BY <1>3, <1>4, <1>5 DEF VolumeInv

(* One request moves on. *)
LEMMA AskMoves ==
  ASSUME VolumeInv, NEW r \in Tasks, NEW a, AskedFor(a), ask' = [ask EXCEPT ![r] = a]
  PROVE  ask' = [x \in Tasks |-> ask'[x]] /\ \A x \in Tasks : AskedFor(ask'[x])
<1>1. ask = [x \in Tasks |-> ask[x]] /\ \A x \in Tasks : AskedFor(ask[x])
  BY DEF VolumeInv
<1>2. \A x \in Tasks : ask'[x] = IF x = r THEN a ELSE ask[x]
  BY <1>1, Zenon
<1>3. \A x \in Tasks : AskedFor(ask'[x])
  BY <1>1, <1>2
<1>4. ask' = [x \in Tasks |-> IF x = r THEN a ELSE ask[x]]
  BY <1>1, Zenon
<1> QED
  BY <1>3, <1>4

LEMMA PhaseMoves ==
  ASSUME VolumeInv, NEW r \in Tasks, InPhase(r, "persist") \/ InPhase(r, "run"),
         NEW p \in {"run", "done"}, ToPhase(r, p)
  PROVE  ask' = [x \in Tasks |-> ask'[x]] /\ \A x \in Tasks : AskedFor(ask'[x])
<1> DEFINE a == [ask[r] EXCEPT !.phase = p]
<1>1. AskedFor(ask[r]) /\ ask[r].phase \in {"persist", "run"}
  BY DEF VolumeInv, InPhase
<1>2. a = [phase |-> p, tab |-> ask[r].tab, left |-> ask[r].left, body |-> ask[r].body]
  BY <1>1 DEF AskedFor
<1>3. AskedFor(a)
  BY <1>1, <1>2 DEF AskedFor
<1>4. ask' = [ask EXCEPT ![r] = a]
  BY DEF ToPhase
<1> HIDE DEF a
<1> QED
  BY <1>3, <1>4, AskMoves, Zenon

(* What a request asks for a path when it runs. *)
LEMMA Asking ==
  ASSUME VolumeInv, NEW r \in Tasks, InPhase(r, "run")
  PROVE  /\ ask[r].body \in Calls /\ ask[r].tab \in Tabs
         /\ Head(ask[r].left) \in Places /\ Head(ask[r].left) # Top
<1>1. /\ ask[r].body \in Calls /\ ask[r].tab \in Tabs
      /\ ask[r].left \in Seq(Places \ {Top}) /\ ask[r].left # <<>>
  BY DEF VolumeInv, InPhase, AskedFor
<1>2. Head(ask[r].left) \in Places \ {Top}
  BY <1>1, HeadTailProperties
<1> QED
  BY <1>1, <1>2

LEMMA AskedOn ==
  ASSUME NEW y, y = [phase |-> y.phase, tab |-> y.tab, left |-> y.left, body |-> y.body],
         NEW u, NEW v
  PROVE  [y EXCEPT !.left = u, !.phase = v]
           = [phase |-> v, tab |-> y.tab, left |-> u, body |-> y.body]
<1> DEFINE z == [y EXCEPT !.left = u]
<1>1. z = [phase |-> y.phase, tab |-> y.tab, left |-> u, body |-> y.body]
  OBVIOUS
<1> HIDE DEF z
<1>2. [z EXCEPT !.phase = v] = [phase |-> v, tab |-> y.tab, left |-> u, body |-> y.body]
  BY <1>1
<1> QED
  BY <1>2 DEF z

LEMMA TransactionKeeps ==
  ASSUME VolumeInv, NEW r \in Tasks, Transaction(r)
  PROVE  /\ VolumeInv'
         /\ Changes(nodes, nodes', Touched(ask[r].body, Head(ask[r].left)))
<1> DEFINE b == ask[r].body
           p == Head(ask[r].left)
           left == ask[r].left
<1>1. InPhase(r, "run")
  BY DEF Transaction
<1>2. b \in Calls /\ p \in Places /\ p # Top
  BY <1>1, Asking
<1>3. /\ Outcome(b, p).ok
      /\ nodes' = Outcome(b, p).to.node /\ blobs' = Outcome(b, p).to.blobs
      /\ hollow' = IF b.op \in {"rename", "move"} /\ pathIsWithin(p, Destination(b, p))
                   THEN hollow \cup ({nodes[p]} \cap BlobIds) ELSE hollow
  BY DEF Transaction
<1> HIDE DEF b, p
<1>4. Sound(nodes', blobs', hollow') /\ Changes(nodes, nodes', Touched(b, p))
  <2> DEFINE m == nodes'
             c == blobs'
             k == hollow'
  <2>1. /\ m = Outcome(b, p).to.node /\ c = Outcome(b, p).to.blobs
        /\ k = IF b.op \in {"rename", "move"} /\ pathIsWithin(p, Destination(b, p))
               THEN hollow \cup ({nodes[p]} \cap BlobIds) ELSE hollow
    BY <1>3
  <2>2. Sound(nodes, blobs, hollow)
    BY DEF VolumeInv
  <2> HIDE DEF m, c, k
  <2>3. Sound(m, c, k) /\ Changes(nodes, m, Touched(b, p))
    BY <1>2, <1>3, <2>1, <2>2, OutcomeSound, Zenon
  <2> QED
    BY <2>3 DEF m, c, k
<1> DEFINE q == IF Len(left) = 1 THEN "done" ELSE "run"
           a == [ask[r] EXCEPT !.left = Tail(left), !.phase = q]
<1>5. AskedFor(ask[r]) /\ left \in Seq(Places \ {Top}) /\ left # <<>>
  BY <1>1 DEF VolumeInv, AskedFor, InPhase
<1>6. a = [phase |-> q, tab |-> ask[r].tab, left |-> Tail(left), body |-> b]
  <2>1. /\ ask[r] = [phase |-> ask[r].phase, tab |-> ask[r].tab, left |-> ask[r].left,
                      body |-> ask[r].body]
    BY <1>5 DEF AskedFor
  <2> HIDE DEF q, left
  <2>2. a = [phase |-> q, tab |-> ask[r].tab, left |-> Tail(left), body |-> ask[r].body]
    BY <2>1, AskedOn, Zenon
  <2> QED
    BY <2>2 DEF b
<1>7. Tail(left) \in Seq(Places \ {Top}) /\ (Len(left) # 1 => Tail(left) # <<>>)
  <2>1. Tail(left) \in Seq(Places \ {Top}) /\ Len(Tail(left)) = Len(left) - 1
    BY <1>5, HeadTailProperties
  <2>2. Len(left) \in Nat /\ Len(<<>>) = 0
    BY <1>5
  <2>3. Tail(left) = <<>> => Len(left) - 1 = 0
    BY <2>1, <2>2
  <2>4. Tail(left) = <<>> => Len(left) = 1
    BY <2>2, <2>3
  <2> QED
    BY <2>1, <2>4
<1>8. AskedFor(a)
  <2>1. ask[r].tab \in Tabs
    BY <1>1, Asking
  <2> HIDE DEF left
  <2> QED
    BY <1>2, <1>6, <1>7, <2>1 DEF AskedFor
<1>9. ask' = [ask EXCEPT ![r] = a]
  BY DEF Transaction
<1> HIDE DEF a
<1>10. ask' = [x \in Tasks |-> ask'[x]] /\ \A x \in Tasks : AskedFor(ask'[x])
  BY <1>8, <1>9, AskMoves, Zenon
<1> QED
  BY <1>4, <1>10 DEF VolumeInv, b, p

LEMMA VolumeInvNext == VolumeInv /\ [VolumeNext]_volumeVars => VolumeInv'
<1> SUFFICES ASSUME VolumeInv, [VolumeNext]_volumeVars PROVE VolumeInv'
  OBVIOUS
<1>1. ASSUME NEW r \in Tasks, NEW t \in Tabs, NEW b \in Calls, Send(r, t, b)
      PROVE  VolumeInv'
  <2> DEFINE a == [phase |-> IF b.op = "upload" /\ t \notin persisted THEN "persist" ELSE "run",
                   tab |-> t, left |-> b.paths, body |-> b]
  <2>1. b.paths \in Seq(Places \ {Top}) /\ b.paths # <<>>
    BY VolumeAssumption DEF Asked
  <2>2. AskedFor(a)
    BY <2>1 DEF AskedFor
  <2>3. ask' = [ask EXCEPT ![r] = a]
    BY <1>1 DEF Send
  <2> HIDE DEF a
  <2>4. ask' = [x \in Tasks |-> ask'[x]] /\ \A x \in Tasks : AskedFor(ask'[x])
    BY <2>2, <2>3, AskMoves, Zenon
  <2>5. nodes' = nodes /\ blobs' = blobs /\ hollow' = hollow
    BY <1>1 DEF Send
  <2> QED
    BY <2>4, <2>5 DEF VolumeInv
<1>2. ASSUME NEW r \in Tasks, Persisted(r) \/ AbortUpload(r) \/ TurnedDown(r)
      PROVE  VolumeInv'
  <2>1. /\ InPhase(r, "persist") \/ InPhase(r, "run")
        /\ ToPhase(r, "run") \/ ToPhase(r, "done")
        /\ nodes' = nodes /\ blobs' = blobs /\ hollow' = hollow
    BY <1>2 DEF Persisted, AbortUpload, TurnedDown
  <2>2. ask' = [x \in Tasks |-> ask'[x]] /\ \A x \in Tasks : AskedFor(ask'[x])
    BY <2>1, PhaseMoves
  <2> QED
    BY <2>1, <2>2 DEF VolumeInv
<1>3. ASSUME NEW r \in Tasks, Transaction(r)
      PROVE  VolumeInv'
  BY <1>3, TransactionKeeps
<1>4. ASSUME NEW t \in Tabs, dispose(t) \/ \E p \in Previewed : downloadUrl(t, p)
      PROVE  VolumeInv'
  BY <1>4 DEF dispose, downloadUrl, VolumeInv
<1>5. CASE UNCHANGED volumeVars
  BY <1>5 DEF volumeVars, VolumeInv
<1> QED
  BY <1>1, <1>2, <1>3, <1>4, <1>5 DEF VolumeNext

(* TreeIsWhole for any entries, tabs, requests and aborts: whatever the requests
   of several tabs make of the database, entries lie in directories, every
   record belongs to one file, and a file lacks its record only when it took the
   place of a directory it was in. *)
THEOREM VolumeTreeIsWhole == VolumeSpec => []TreeIsWhole
<1>1. VolumeInv => TreeIsWhole
  <2> SUFFICES ASSUME VolumeInv PROVE TreeIsWhole
    OBVIOUS
  <2>1. /\ IsTree(nodes) /\ Distinct(nodes) /\ blobs \subseteq BlobIds
        /\ \A i \in blobs : \E p \in Places : nodes[p] = i
        /\ \A p \in Places : nodes[p] \in BlobIds => nodes[p] \in blobs \cup hollow
    BY Zenon DEF VolumeInv, Sound
  <2>2. ASSUME NEW i \in blobs PROVE Cardinality({p \in Places : nodes[p] = i}) = 1
    <3>1. PICK q \in Places : nodes[q] = i
      BY <2>1
    <3>2. {p \in Places : nodes[p] = i} = {q}
      BY <2>1, <3>1 DEF Distinct
    <3> QED
      BY <3>2, FS_Singleton
  <2> QED
    BY <2>1, <2>2 DEF TreeIsWhole, HoldsFile
<1> QED
  BY <1>1, VolumeInvInit, VolumeInvNext, PTL DEF VolumeSpec
-----------------------------------------------------------------------------
(* The URLs of the tabs are current. *)

(* A URL that shows the content of a file. *)
ForFile(u) == u.path \in Places /\ u.id \in BlobIds

Current(t, u) == nodes[u.path] = u.id \/ u.path \in foreign[t]

UrlInv ==
  /\ urls = [t \in Tabs |-> urls[t]] /\ foreign = [t \in Tabs |-> foreign[t]]
  /\ \A t \in Tabs : \A u \in urls[t] : ForFile(u) /\ Current(t, u)

LEMMA ShowingIs ==
  /\ \A t : \A u \in urls[t] : u.path \in Showing(t)
  /\ \A t : \A u \in urls'[t] : u.path \in Showing(t)'
  BY DEF Showing

(* A tab releases what its own request touches, but for the file a rename
   replaces. *)
LEMMA ReleasedIs ==
  ASSUME NEW b \in Calls, NEW p \in Places, p # Top, NEW q \in Touched(b, p)
  PROVE  q \in Released(b, p) \/ (b.op = "rename" /\ q = Destination(b, p))
<1>1. b.op \in {"upload", "mkdir", "delete", "rename", "copy", "move"}
  BY CallIs
<1> QED
  BY <1>1 DEF Touched, Released

LEMMA UrlsInTransaction ==
  ASSUME VolumeInv, UrlInv, NEW r \in Tasks, Transaction(r)
  PROVE  UrlInv'
<1> DEFINE b == ask[r].body
           t == ask[r].tab
           p == Head(ask[r].left)
           diff == {q \in Places : nodes[q] # nodes'[q]}
<1>1. b \in Calls /\ t \in Tabs /\ p \in Places /\ p # Top
  BY Asking DEF Transaction
<1>2. Changes(nodes, nodes', Touched(b, p))
  BY TransactionKeeps
<1>3. urls' = [urls EXCEPT ![t] = invalidate(@, Released(b, p))]
  BY DEF Transaction
<1>4. foreign' = [x \in Tabs |-> Showing(x)' \cap (foreign[x] \cup
            {q \in diff : x # t \/ (b.op = "rename" /\ pathIsWithin(q, Destination(b, p)))})]
  BY DEF Transaction
<1>5. /\ urls = [x \in Tabs |-> urls[x]]
      /\ \A x \in Tabs : \A u \in urls[x] : ForFile(u) /\ Current(x, u)
  BY DEF UrlInv
<1> HIDE DEF b, t, p
<1>6. /\ \A x \in Tabs : x # t => urls'[x] = urls[x]
      /\ urls'[t] = invalidate(urls[t], Released(b, p))
  BY <1>1, <1>3, <1>5, Zenon
<1>7. urls' = [x \in Tabs |-> urls'[x]]
  BY <1>3, <1>5
<1>8. ASSUME NEW x \in Tabs, NEW q, q \in Showing(x)',
             q \in foreign[x] \/ (q \in diff /\ (x # t \/ (b.op = "rename" /\ Under(Destination(b, p), q))))
      PROVE  q \in foreign'[x]
  BY <1>4, <1>8, Within
<1> HIDE DEF diff
<1>9. ASSUME NEW x \in Tabs, NEW u \in urls'[x]
      PROVE  ForFile(u) /\ Current(x, u)'
  <2>1. u \in urls[x] /\ (x = t => \A q \in Released(b, p) : ~Under(q, u.path))
    BY <1>6, <1>9, Within DEF invalidate
  <2>2. ForFile(u) /\ Current(x, u) /\ u.path \in Showing(x)'
    BY <1>5, <2>1, ShowingIs
  <2>3. CASE u.path \in foreign[x]
    BY <1>8, <2>2, <2>3 DEF Current
  <2>4. CASE u.path \notin foreign[x] /\ nodes'[u.path] # nodes[u.path]
    <3>1. nodes[u.path] = u.id /\ u.path \in Places /\ u.id \in BlobIds
      BY <2>2, <2>4 DEF Current, ForFile
    <3>2. PICK q \in Touched(b, p) : Under(q, u.path)
      BY <1>2, <2>4, <3>1 DEF Changes
    <3>3. u.path \in diff
      BY <2>4, <3>1 DEF diff
    <3>4. x # t \/ (b.op = "rename" /\ q = Destination(b, p))
      BY <1>1, <2>1, <3>2, ReleasedIs
    <3>5. u.path \in foreign'[x]
      BY <1>8, <2>2, <3>2, <3>3, <3>4
    <3> QED
      BY <2>2, <3>5 DEF Current
  <2>5. CASE u.path \notin foreign[x] /\ nodes'[u.path] = nodes[u.path]
    BY <2>2, <2>5 DEF Current
  <2> QED
    BY <2>3, <2>4, <2>5
<1>10. foreign' = [x \in Tabs |-> foreign'[x]]
  BY <1>4
<1> QED
  BY <1>7, <1>9, <1>10 DEF UrlInv, ForFile

LEMMA UrlInvNext == VolumeInv /\ UrlInv /\ [VolumeNext]_volumeVars => UrlInv'
<1> SUFFICES ASSUME VolumeInv, UrlInv, [VolumeNext]_volumeVars PROVE UrlInv'
  OBVIOUS
<1>i. /\ urls = [x \in Tabs |-> urls[x]] /\ foreign = [x \in Tabs |-> foreign[x]]
      /\ \A x \in Tabs : \A u \in urls[x] : ForFile(u) /\ Current(x, u)
  BY DEF UrlInv
<1>1. ASSUME NEW r \in Tasks, Transaction(r) PROVE UrlInv'
  BY <1>1, UrlsInTransaction
<1>2. ASSUME NEW t \in Tabs, NEW p \in Previewed, downloadUrl(t, p) PROVE UrlInv'
  <2>1. p \in Places /\ nodes[p] \in BlobIds /\ nodes' = nodes
    BY <1>2, VolumeAssumption DEF downloadUrl, HoldsFile
  <2> DEFINE new == [path |-> p, id |-> nodes[p]]
  <2>2. PICK cache \in set(urls[t], new) : urls' = [urls EXCEPT ![t] = cache]
    BY <1>2 DEF downloadUrl
  <2>3. foreign' = [foreign EXCEPT ![t] = (@ \ {p}) \cap Showing(t)']
    BY <1>2 DEF downloadUrl
  <2>4. new.path = p /\ new.id = nodes[p]
    OBVIOUS
  <2>5. \A u \in cache : u = new \/ (u \in urls[t] /\ u.path # p)
    BY <2>2 DEF set, evict, invalidateExact
  <2> HIDE DEF new
  <2>6. /\ \A x \in Tabs : x # t => urls'[x] = urls[x] /\ foreign'[x] = foreign[x]
        /\ urls'[t] = cache /\ foreign'[t] = (foreign[t] \ {p}) \cap Showing(t)'
    BY <1>i, <2>2, <2>3, Zenon
  <2>7. urls' = [x \in Tabs |-> urls'[x]] /\ foreign' = [x \in Tabs |-> foreign'[x]]
    BY <1>i, <2>2, <2>3
  <2>8. ASSUME NEW x \in Tabs, NEW u \in urls'[x]
        PROVE  ForFile(u) /\ Current(x, u)'
    <3>1. CASE x # t
      BY <1>i, <2>1, <2>6, <2>8, <3>1 DEF Current
    <3>2. CASE x = t /\ u = new
      BY <2>1, <2>4, <3>2 DEF Current, ForFile
    <3>3. CASE x = t /\ u # new
      <4>1. u \in urls[t] /\ u.path # p
        BY <2>5, <2>6, <2>8, <3>3
      <4>2. u.path \in Showing(t)'
        BY <2>8, <3>3, ShowingIs
      <4> QED
        BY <1>i, <2>1, <2>6, <3>3, <4>1, <4>2 DEF Current
    <3> QED
      BY <3>1, <3>2, <3>3
  <2> QED
    BY <2>7, <2>8 DEF UrlInv, ForFile
<1>3. ASSUME NEW t \in Tabs, dispose(t) PROVE UrlInv'
  <2>1. /\ urls' = [urls EXCEPT ![t] = {}] /\ foreign' = [foreign EXCEPT ![t] = {}]
        /\ nodes' = nodes
    BY <1>3 DEF dispose
  <2>2. /\ \A x \in Tabs : x # t => urls'[x] = urls[x] /\ foreign'[x] = foreign[x]
        /\ urls'[t] = {}
    BY <1>i, <2>1, Zenon
  <2>3. urls' = [x \in Tabs |-> urls'[x]] /\ foreign' = [x \in Tabs |-> foreign'[x]]
    BY <1>i, <2>1
  <2>4. ASSUME NEW x \in Tabs, NEW u \in urls'[x]
        PROVE  ForFile(u) /\ Current(x, u)'
    BY <1>i, <2>1, <2>2, <2>4 DEF Current
  <2> QED
    BY <2>3, <2>4 DEF UrlInv, ForFile
<1>4. ASSUME NEW r \in Tasks,
             \/ \E t \in Tabs, b \in Calls : Send(r, t, b)
             \/ Persisted(r) \/ AbortUpload(r) \/ TurnedDown(r)
      PROVE  UrlInv'
  <2>1. nodes' = nodes /\ urls' = urls /\ foreign' = foreign
    BY <1>4 DEF Send, Persisted, AbortUpload, TurnedDown
  <2> QED
    BY <2>1 DEF UrlInv, Current
<1>5. CASE UNCHANGED volumeVars
  BY <1>5 DEF volumeVars, UrlInv, Current
<1> QED
  BY <1>1, <1>2, <1>3, <1>4, <1>5 DEF VolumeNext

(* UrlsAreCurrent for any entries, tabs, requests and size of the cache: a URL a
   tab keeps shows the file that is there, unless another tab changed the file
   or a rename replaced it. *)
THEOREM VolumeUrlsAreCurrent == VolumeSpec => []UrlsAreCurrent
<1>1. VolumeInit => UrlInv
  BY DEF VolumeInit, UrlInv
<1>2. UrlInv => UrlsAreCurrent
  BY DEF UrlInv, UrlsAreCurrent, Current
<1> QED
  BY <1>1, <1>2, VolumeInvInit, VolumeInvNext, UrlInvNext, PTL DEF VolumeSpec
-----------------------------------------------------------------------------
(* The keys of a bucket. *)

LEMMA KeyIs ==
  ASSUME NEW k \in ObjectKeys
  PROVE  /\ k.path \in Places /\ k.path # Top /\ k.marker \in BOOLEAN
         /\ k = [path |-> k.path, marker |-> k.marker]
  BY DEF ObjectKeys

LEMMA NamedKeys ==
  ASSUME NEW p
  PROVE  /\ objectKeyForPath(p).path = p /\ listPrefixForPath(p).path = p
         /\ ~objectKeyForPath(p).marker /\ listPrefixForPath(p).marker
         /\ objectKeyForPath(p) \in ObjectKeys <=> p \in Places /\ p # Top
         /\ listPrefixForPath(p) \in ObjectKeys <=> p \in Places /\ p # Top
  BY DEF objectKeyForPath, listPrefixForPath, ObjectKeys

(* A file's key and a marker hold different things. *)
LEMMA HoldsIs ==
  ASSUME NEW k \in ObjectKeys
  PROVE  /\ Missing \in Holds(k) /\ Missing \notin FileContents /\ Marker \notin FileContents
         /\ \A v \in Holds(k) : v # Missing /\ k.marker => v = Marker
         /\ \A v \in Holds(k) : v # Missing /\ ~k.marker => v \in FileContents
         /\ Marker # Missing
         /\ \A j : j.marker = k.marker => Holds(j) = Holds(k)
  BY KeyIs, BucketAssumption DEF Holds

(* What a key below one path is called below another one. *)
LEMMA BelowIs ==
  ASSUME NEW from \in Seq(EntryNames), NEW to \in Seq(EntryNames), to # Top,
         NEW k \in ObjectKeys, Under(from, k.path),
         NEW j, j = Below(to, from, k)
  PROVE  /\ j.path = Shift(from, to, k.path) /\ j.marker = k.marker
         /\ j = [path |-> j.path, marker |-> j.marker]
         /\ Under(to, j.path) /\ j.path \in Seq(EntryNames) /\ j.path # Top
         /\ Shift(to, from, j.path) = k.path
         /\ Len(j.path) = Len(to) + Len(k.path) - Len(from)
         /\ j \in ObjectKeys <=> j.path \in Places
<1>1. /\ k.path \in Seq(EntryNames) /\ k.marker \in BOOLEAN
      /\ k = [path |-> k.path, marker |-> k.marker]
  BY KeyIs, PlacesAre
<1>2. j = [path |-> Shift(from, to, k.path), marker |-> k.marker]
  BY <1>1 DEF Below, Shift
<1>3. /\ Under(to, Shift(from, to, k.path)) /\ Shift(from, to, k.path) \in Seq(EntryNames)
      /\ Shift(to, from, Shift(from, to, k.path)) = k.path
      /\ Len(Shift(from, to, k.path)) = Len(to) + Len(k.path) - Len(from)
  BY <1>1, ShiftIs
<1>4. Shift(from, to, k.path) # Top
  BY <1>3, TopIs, UnderOrder
<1> QED
  BY <1>1, <1>2, <1>3, <1>4 DEF ObjectKeys

LEMMA BelowOne ==
  ASSUME NEW from \in Seq(EntryNames), NEW to \in Seq(EntryNames), to # Top,
         NEW k \in ObjectKeys, Under(from, k.path), NEW i \in ObjectKeys, Under(from, i.path),
         Below(to, from, k) = Below(to, from, i)
  PROVE  k = i
<1> DEFINE j == Below(to, from, k)
<1>1. Shift(to, from, j.path) = k.path /\ j.marker = k.marker
  BY BelowIs
<1>2. Shift(to, from, j.path) = i.path /\ j.marker = i.marker
  BY BelowIs
<1> HIDE DEF j
<1> QED
  BY <1>1, <1>2, KeyIs

(* A key and what it becomes are two keys when the destination does not lie
   below the source. *)
LEMMA BelowOther ==
  ASSUME NEW from \in Seq(EntryNames), NEW to \in Seq(EntryNames), to # Top, ~Under(from, to),
         NEW k \in ObjectKeys, Under(from, k.path)
  PROVE  Below(to, from, k) # k
<1> DEFINE j == Below(to, from, k)
<1>0. Len(j.path) = Len(to) + Len(k.path) - Len(from) /\ Under(to, j.path)
  BY BelowIs
<1> SUFFICES ASSUME j = k PROVE FALSE
  OBVIOUS
<1>1. Len(k.path) = Len(to) + Len(k.path) - Len(from) /\ Under(to, k.path)
  BY <1>0
<1>2. k.path \in Seq(EntryNames)
  BY KeyIs, PlacesAre
<1>4. Len(k.path) \in Nat /\ Len(to) \in Nat /\ Len(from) \in Nat
  BY <1>2
<1>5. Len(to) = Len(from)
  BY <1>1, <1>4
<1>6. Under(from, to) \/ Under(to, from)
  BY <1>1, <1>2, UnderComparable
<1>7. Under(to, from)
  BY <1>6
<1>8. to = from
  BY <1>4, <1>5, <1>7, UnderIs
<1> QED
  BY <1>8, UnderOrder

(* The paths of a list are those of its head and of its tail. *)
LEMMA ListIs ==
  ASSUME NEW S, NEW s \in Seq(S), s # <<>>
  PROVE  /\ Head(s) \in ToSet(s) /\ Head(s) \in S
         /\ Tail(s) \in Seq(S) /\ ToSet(Tail(s)) \subseteq ToSet(s)
<1>1. s \in Seq(ToSet(s)) /\ Head(s) \in ToSet(s) /\ Head(s) \in S /\ Tail(s) \in Seq(S)
  BY ToSetIs
<1>2. Tail(s) \in Seq(ToSet(s))
  BY <1>1, HeadTailProperties
<1> QED
  BY <1>1, <1>2, ToSetIs
-----------------------------------------------------------------------------
(* The actions on a bucket and how far each is. *)

Fields   == {"at", "body", "left", "from", "to", "victim", "keys", "next"}
Transferring  == {"headSource", "headDest", "copyFile", "listSource", "headKeys", "copyKeys"}
Removing == {"headVictim", "listVictim", "deleteKeys"}
Working  == Transferring \cup Removing \cup {"putMarker"}
Underway == Working \cup {"failed", "end"}

(* The paths that are left are among those of the job. *)
InJob(r, e) ==
  e.body \in Jobs[r] /\ e.left \in Seq(Places \ {Top}) /\ ToSet(e.left) \subseteq ToSet(e.body.paths)

(* It works on one of the paths of the job, *)
Aims(e) ==
  /\ e.from \in ToSet(e.body.paths) /\ e.to = DestPath(e.body, e.from)
  /\ e.body.op \notin {"delete", "mkdir"} => ~Under(e.from, e.to)

(* and removes the source, or what is in the way. *)
Preys(e) ==
  /\ e.body.op # "mkdir"
  /\ \/ e.victim = e.from /\ (e.body.op = "delete" \/ IsMove(e.body))
     \/ e.victim = e.to /\ e.victim # e.from /\ e.body.overwrite

KeysFit(e) ==
  /\ e.keys \subseteq ObjectKeys
  /\ e.at = "deleteKeys" => \A k \in e.keys : Under(e.victim, k.path)
  /\ e.at \in {"headKeys", "copyKeys"} => \A k \in e.keys : Under(e.from, k.path)

Proper(r, e) ==
  /\ DOMAIN e = Fields
  /\ e.at \in Underway \cup {"idle", "done"}
  /\ e.at \in Underway => InJob(r, e)
  /\ e.at \in Working => Aims(e)
  /\ e.at \in Transferring => e.body.op \notin {"delete", "mkdir"}
  /\ e.at = "putMarker" => e.body.op # "delete"
  /\ e.at \in Removing => Preys(e)
  /\ KeysFit(e)

LEMMA ActiveIs ==
  /\ \A r \in Tasks : Proper(r, act[r]) => (r \in Active <=> act[r].at \in Underway)
  /\ "idle" \notin Underway /\ "done" \notin Underway
  BY DEF Proper, Active, Underway, Working, Transferring, Removing

LEMMA JobIs ==
  ASSUME NEW r \in Tasks, NEW b \in Jobs[r]
  PROVE  /\ b.op \in {"delete", "mkdir", "rename", "copy", "move"}
         /\ b.paths \in Seq(Places \ {Top}) /\ b.overwrite \in BOOLEAN
         /\ b.dir \in Places /\ b.name \in EntryNames \cup {Missing}
<1>1. b \in Asked({"delete", "mkdir", "rename", "copy", "move"})
  BY BucketAssumption
<1> QED
  BY <1>1 DEF Asked

LEMMA DestPathIs ==
  ASSUME NEW r \in Tasks, NEW b \in Jobs[r], NEW p \in Places, p # Top
  PROVE  /\ DestPath(b, p) \in Seq(EntryNames) /\ DestPath(b, p) # Top
         /\ b.op \in {"delete", "mkdir"} => DestPath(b, p) = p
<1>1. b.dir \in Places /\ b.name \in EntryNames \cup {Missing}
  BY JobIs
<1>2. p \in Seq(EntryNames)
  BY PlacesAre
<1> DEFINE name == IF b.name # Missing /\ Len(b.paths) = 1 THEN b.name ELSE Last(p)
           dir  == IF b.op = "rename" THEN Front(p) ELSE b.dir
<1>3. name \in EntryNames
  BY <1>1, ParentPlace
<1>4. dir \in Seq(EntryNames)
  BY <1>1, ParentPlace, TopIs DEF Parent
<1>5. DestPath(b, p) = IF b.op \in {"delete", "mkdir"} THEN p ELSE Append(dir, name)
  BY DEF DestPath
<1> HIDE DEF name, dir
<1>6. Append(dir, name) \in Seq(EntryNames) /\ Len(Append(dir, name)) = Len(dir) + 1
  BY <1>3, <1>4
<1>7. Len(dir) \in Nat /\ Len(<<>>) = 0
  BY <1>4
<1>8. Append(dir, name) # <<>>
  <2> SUFFICES ASSUME Append(dir, name) = <<>> PROVE FALSE
    OBVIOUS
  <2>1. Len(dir) + 1 = 0
    BY <1>6, <1>7
  <2> QED
    BY <1>7, <2>1
<1> QED
  BY <1>2, <1>5, <1>6, <1>8, TopIs

(* What an action that works is about. *)
LEMMA AimIs ==
  ASSUME NEW r \in Tasks, NEW e, InJob(r, e), Aims(e)
  PROVE  /\ e.from \in Places /\ e.from # Top /\ e.from \in Seq(EntryNames)
         /\ e.to \in Seq(EntryNames) /\ e.to # Top
         /\ \A q : Under(e.to, q) => Concerns(e.body, q)
         /\ \A q : e.body.op # "copy" /\ Under(e.from, q) => Concerns(e.body, q)
         /\ \A q : Under(e.to, q) /\ (e.body.op = "delete" \/ e.body.overwrite)
                     => Condemned(e.body, q)
         /\ \A q : IsMove(e.body) /\ Under(e.to, q) /\ Under(e.to, e.from)
                     => Condemned(e.body, q)
<1>1. /\ e.body \in Jobs[r] /\ e.from \in ToSet(e.body.paths) /\ e.to = DestPath(e.body, e.from)
      /\ e.body.paths \in Seq(Places \ {Top})
  BY JobIs DEF InJob, Aims
<1>2. e.from \in Places /\ e.from # Top
  BY <1>1, ToSetIs
<1>3. e.to \in Seq(EntryNames) /\ e.to # Top /\ e.from \in Seq(EntryNames)
  BY <1>1, <1>2, DestPathIs, PlacesAre
<1>4. \A q : \/ Under(e.to, q)
             \/ e.body.op # "copy" /\ Under(e.from, q)
             => Concerns(e.body, q)
  BY <1>1, Within DEF Concerns
<1>5. \A q : /\ Under(e.to, q)
             /\ \/ e.body.op = "delete" \/ e.body.overwrite
                \/ IsMove(e.body) /\ Under(e.to, e.from)
             => Condemned(e.body, q)
  BY <1>1, Within DEF Condemned
<1> QED
  BY <1>2, <1>3, <1>4, <1>5

(* The loop over the paths begins anew or ends. *)
LEMMA BeginIs ==
  ASSUME NEW r \in Tasks, NEW e, DOMAIN e = Fields, InJob(r, e), NEW y, y = Begin(e)
  PROVE  /\ Proper(r, y) /\ y.body = e.body
         /\ y.at \in {"end", "failed", "headVictim", "putMarker", "headSource"}
         /\ y.at = "headVictim" => y.body.op = "delete"
         /\ y.at = "putMarker" => y.body.op = "mkdir"
<1> USE DEF Fields, Underway, Working, Transferring, Removing
<1>j. /\ e.body \in Jobs[r] /\ e.left \in Seq(Places \ {Top})
      /\ ToSet(e.left) \subseteq ToSet(e.body.paths)
  BY DEF InJob
<1>1. CASE e.left = <<>>
  <2>1. /\ DOMAIN y = Fields /\ y.at = "end" /\ y.body = e.body /\ y.left = e.left
        /\ y.keys = {}
    BY <1>1 DEF Begin
  <2>2. KeysFit(y) /\ InJob(r, y)
    BY <1>j, <2>1 DEF KeysFit, InJob
  <2> HIDE DEF Fields
  <2> QED
    BY <2>1, <2>2 DEF Proper
<1>2. CASE e.left # <<>>
  <2> DEFINE p == Head(e.left)
             d == DestPath(e.body, p)
             n == [e EXCEPT !.left = Tail(@), !.from = p, !.to = d, !.victim = p, !.keys = {}]
             step == IF e.body.op = "delete" THEN "headVictim"
                     ELSE IF e.body.op = "mkdir" THEN "putMarker"
                     ELSE IF (e.body.op \in {"copy", "move"} /\ e.body.dir = Top)
                             \/ isDescendantPath(d, p)
                     THEN "failed" ELSE "headSource"
  <2>1. y = [n EXCEPT !.at = step]
    BY <1>2 DEF Begin
  <2>2. /\ p \in ToSet(e.left) /\ p \in Places \ {Top}
        /\ Tail(e.left) \in Seq(Places \ {Top}) /\ ToSet(Tail(e.left)) \subseteq ToSet(e.left)
    BY <1>2, <1>j, ListIs
  <2>3. /\ DOMAIN n = Fields /\ n.body = e.body /\ n.left = Tail(e.left) /\ n.from = p
        /\ n.to = d /\ n.victim = p /\ n.keys = {}
    OBVIOUS
  <2> HIDE DEF n, step
  <2>4. /\ DOMAIN y = Fields /\ y.body = e.body /\ y.left = Tail(e.left) /\ y.from = p
        /\ y.to = d /\ y.victim = p /\ y.keys = {} /\ y.at = step
    BY <2>1, <2>3
  <2>5. KeysFit(y) /\ InJob(r, y)
    BY <1>j, <2>2, <2>4 DEF KeysFit, InJob
  <2>6. /\ step \in {"headVictim", "putMarker", "failed", "headSource"}
        /\ step = "headVictim" => e.body.op = "delete"
        /\ step = "putMarker" => e.body.op = "mkdir"
        /\ step = "headSource" => e.body.op \notin {"delete", "mkdir"} /\ ~Under(p, d)
    BY Within DEF step
  <2>7. step # "failed" => Aims(y)
    BY <1>j, <2>2, <2>4, <2>6 DEF Aims
  <2>8. step = "headVictim" => Preys(y)
    BY <2>4, <2>6 DEF Preys
  <2> HIDE DEF Fields, p, d
  <2> QED
    BY <2>4, <2>5, <2>6, <2>7, <2>8 DEF Proper
<1> QED
  BY <1>1, <1>2
-----------------------------------------------------------------------------
(* What an action knows of the bucket when it goes on.  The contents of w are
   those nobody vouches for. *)

SafeIn(c, w) == c \in FileContents /\ c \notin w
There(o, k)  == IF k \in ObjectKeys THEN o[k] ELSE Missing

(* What a move takes from the key k is at its destination. *)
Kept(o, w, e, k) ==
  SafeIn(o[k], w) =>
    Below(e.to, e.from, k) \in ObjectKeys /\ o[Below(e.to, e.from, k)] = o[k]

AllKept(o, w, e, but) ==
  \A k \in ObjectKeys : Under(e.from, k.path) /\ k \notin but => Kept(o, w, e, k)

(* A move has at its destination whatever it will remove, and without overwrite
   nothing is where an action will put something. *)
Pledges(o, w, e) ==
  /\ IsMove(e.body) =>
       /\ e.at = "listSource" => Kept(o, w, e, objectKeyForPath(e.from))
       /\ e.at \in {"headKeys", "copyKeys"} => AllKept(o, w, e, e.keys)
       /\ e.at = "putMarker" => AllKept(o, w, e, {})
       /\ e.at = "headVictim" /\ e.victim = e.from =>
            /\ Kept(o, w, e, objectKeyForPath(e.from))
            /\ o[objectKeyForPath(e.from)] # Missing \/ AllKept(o, w, e, {})
       /\ e.at = "listVictim" /\ e.victim = e.from => AllKept(o, w, e, {})
       /\ e.at = "deleteKeys" /\ e.victim = e.from => \A k \in e.keys : Kept(o, w, e, k)
  /\ ~e.body.overwrite =>
       /\ e.at = "copyFile" => ~SafeIn(There(o, objectKeyForPath(e.to)), w)
       /\ e.at = "copyKeys" /\ e.next \in e.keys =>
            ~SafeIn(There(o, Below(e.to, e.from, e.next)), w)

(* Where an action has no pledge. *)
LEMMA NoPledges ==
  ASSUME NEW o, NEW w, NEW e,
         \/ e.at \in {"idle", "done", "end", "failed", "headSource", "headDest"}
         \/ ~IsMove(e.body) /\ e.at \notin {"copyFile", "copyKeys"}
         \/ e.victim # e.from /\ e.at \in Removing
  PROVE  Pledges(o, w, e)
  BY DEF Pledges, Removing

LEMMA FreshPledges ==
  ASSUME NEW o, NEW w, NEW y,
         y.at \in {"end", "failed", "headVictim", "putMarker", "headSource"},
         y.at = "headVictim" => y.body.op = "delete",
         y.at = "putMarker" => y.body.op = "mkdir"
  PROVE  Pledges(o, w, y)
  BY NoPledges DEF IsMove

(* What others do to the bucket takes no pledge away when it leaves nothing to
   vouch for where the action is at work. *)
LEMMA PledgesLast ==
  ASSUME NEW r \in Tasks, NEW e, Proper(r, e), NEW o, NEW w, Pledges(o, w, e),
         NEW p, NEW v, w \subseteq v,
         \A k \in ObjectKeys : Concerns(e.body, k.path) /\ p[k] # o[k]
                                 => ~SafeIn(o[k], v) /\ ~SafeIn(p[k], v),
         IsMove(e.body) /\ o[objectKeyForPath(e.from)] # Missing
             /\ p[objectKeyForPath(e.from)] = Missing
           => \A k \in ObjectKeys : Under(e.from, k.path) => ~SafeIn(p[k], v)
  PROVE  Pledges(p, v, e)
<1>1. CASE e.at \notin Working
  BY <1>1, NoPledges DEF Proper, Underway, Working, Transferring, Removing, Pledges
<1>2. CASE e.at \in Working
  <2>0. InJob(r, e) /\ Aims(e) /\ KeysFit(e)
    BY <1>2 DEF Proper, Underway
  <2>1. /\ e.from \in Places /\ e.from # Top /\ e.from \in Seq(EntryNames)
        /\ e.to \in Seq(EntryNames) /\ e.to # Top
        /\ \A q : Under(e.to, q) => Concerns(e.body, q)
        /\ \A q : e.body.op # "copy" /\ Under(e.from, q) => Concerns(e.body, q)
    BY <2>0, AimIs
  <2>2. \A c : SafeIn(c, v) => SafeIn(c, w)
    BY DEF SafeIn
  <2>3. ASSUME NEW k \in ObjectKeys, IsMove(e.body), Under(e.from, k.path), Kept(o, w, e, k)
        PROVE  Kept(p, v, e, k)
    <3> DEFINE j == Below(e.to, e.from, k)
    <3> SUFFICES ASSUME SafeIn(p[k], v) PROVE j \in ObjectKeys /\ p[j] = p[k]
      BY DEF Kept
    <3>1. Under(e.to, j.path)
      BY <2>1, <2>3, BelowIs
    <3>2. e.body.op # "copy"
      BY <2>3 DEF IsMove
    <3>3. p[k] = o[k]
      BY <2>1, <2>3, <3>2
    <3>4. j \in ObjectKeys /\ o[j] = o[k]
      BY <2>2, <2>3, <3>3 DEF Kept
    <3> HIDE DEF j
    <3>5. p[j] = o[j]
      BY <2>1, <3>1, <3>3, <3>4
    <3> QED
      BY <3>3, <3>4, <3>5
  <2>4. ASSUME NEW j, Under(e.to, j.path), ~SafeIn(There(o, j), w)
        PROVE  ~SafeIn(There(p, j), v)
    <3>1. CASE j \in ObjectKeys
      <4>1. ~SafeIn(o[j], v)
        BY <2>2, <2>4, <3>1 DEF There
      <4>2. ~SafeIn(p[j], v)
        BY <2>1, <2>4, <3>1, <4>1
      <4> QED
        BY <3>1, <4>2 DEF There
    <3>2. CASE j \notin ObjectKeys
      BY <3>2, BucketAssumption DEF There, SafeIn
    <3> QED
      BY <3>1, <3>2
  <2> DEFINE file == objectKeyForPath(e.from)
  <2>5. file \in ObjectKeys /\ Under(e.from, file.path)
    BY <2>1, NamedKeys, PlaceOrder
  <2>6. ASSUME NEW but, IsMove(e.body), AllKept(o, w, e, but)
        PROVE  AllKept(p, v, e, but)
    BY <2>3, <2>6 DEF AllKept
  <2>7. IsMove(e.body) =>
          /\ e.at = "listSource" => Kept(p, v, e, file)
          /\ e.at \in {"headKeys", "copyKeys"} => AllKept(p, v, e, e.keys)
          /\ e.at = "putMarker" => AllKept(p, v, e, {})
          /\ e.at = "listVictim" /\ e.victim = e.from => AllKept(p, v, e, {})
    BY <2>3, <2>5, <2>6 DEF Pledges
  <2>8. ASSUME IsMove(e.body), e.at = "headVictim", e.victim = e.from
        PROVE  Kept(p, v, e, file) /\ (p[file] # Missing \/ AllKept(p, v, e, {}))
    <3>1. Kept(o, w, e, file) /\ (o[file] # Missing \/ AllKept(o, w, e, {}))
      BY <2>8 DEF Pledges
    <3>2. Kept(p, v, e, file)
      BY <2>3, <2>5, <2>8, <3>1
    <3>3. CASE AllKept(o, w, e, {})
      BY <2>6, <2>8, <3>2, <3>3
    <3>4. CASE o[file] # Missing /\ p[file] = Missing
      <4>1. \A k \in ObjectKeys : Under(e.from, k.path) => ~SafeIn(p[k], v)
        BY <2>8, <3>4
      <4>2. AllKept(p, v, e, {})
        BY <4>1 DEF AllKept, Kept
      <4> QED
        BY <3>2, <4>2
    <3> QED
      BY <3>1, <3>2, <3>3, <3>4
  <2>9. ASSUME IsMove(e.body), e.at = "deleteKeys", e.victim = e.from, NEW k \in e.keys
        PROVE  Kept(p, v, e, k)
    <3>1. k \in ObjectKeys /\ Under(e.from, k.path) /\ Kept(o, w, e, k)
      BY <2>0, <2>9 DEF KeysFit, Pledges
    <3> QED
      BY <2>3, <2>9, <3>1
  <2>10. ASSUME ~e.body.overwrite, e.at = "copyFile"
         PROVE  ~SafeIn(There(p, objectKeyForPath(e.to)), v)
    <3>1. Under(e.to, objectKeyForPath(e.to).path)
      BY <2>1, NamedKeys, UnderOrder
    <3>2. ~SafeIn(There(o, objectKeyForPath(e.to)), w)
      BY <2>10 DEF Pledges
    <3> QED
      BY <2>4, <3>1, <3>2
  <2>11. ASSUME ~e.body.overwrite, e.at = "copyKeys", e.next \in e.keys
         PROVE  ~SafeIn(There(p, Below(e.to, e.from, e.next)), v)
    <3>1. e.next \in ObjectKeys /\ Under(e.from, e.next.path)
      BY <2>0, <2>11 DEF KeysFit
    <3>2. Under(e.to, Below(e.to, e.from, e.next).path)
      BY <2>1, <3>1, BelowIs
    <3>3. ~SafeIn(There(o, Below(e.to, e.from, e.next)), w)
      BY <2>11 DEF Pledges
    <3> QED
      BY <2>4, <3>2, <3>3
  <2> HIDE DEF file
  <2> QED
    BY <2>7, <2>8, <2>9, <2>10, <2>11 DEF Pledges, file
<1> QED
  BY <1>1, <1>2
-----------------------------------------------------------------------------
(* What a step of an action does. *)

Doubted == waived \cup threatened
Watched == threatened' = threatened \cup ThreatNow'

BucketInv ==
  /\ DOMAIN obj = ObjectKeys /\ \A k \in ObjectKeys : obj[k] \in Holds(k)
  /\ DOMAIN act = Tasks
  /\ \A r \in Tasks : Proper(r, act[r]) /\ Pledges(obj, Doubted, act[r])
  /\ ThreatNow \subseteq threatened

(* It puts v at the key j, which is among what the action is about; what it
   removes lies below a path that it is about as a whole. *)
Put(s, j, v) ==
  /\ obj' = [obj EXCEPT ![j] = v]
  /\ act[s].at \in Underway /\ act'[s].at \in Underway /\ act'[s].body = act[s].body
  /\ Concerns(act[s].body, j.path)
  /\ v = Missing => \E x \in Seq(EntryNames) :
       Under(x, j.path) /\ \A q : Under(x, q) => Concerns(act[s].body, q)

Advances(s) ==
  /\ DOMAIN act' = Tasks /\ \A r \in Tasks : r # s => act'[r] = act[r]
  /\ Proper(s, act'[s])
  /\ \/ act'[s].at = "done" /\ act[s].at \in {"failed", "end"}
     \/ act'[s].at \in Underway /\ (act[s].at \in Underway => act'[s].body = act[s].body)
  /\ waived \subseteq waived'
  /\ obj' = obj \/ \E j \in ObjectKeys : \E v \in Holds(j) : Put(s, j, v)

(* Contents nobody doubts stay in the bucket. *)
Spares == \A k \in ObjectKeys : SafeIn(obj[k], Doubted') => \E j \in ObjectKeys : obj'[j] = obj[k]

Proceeds(s) == Advances(s) /\ Pledges(obj', Doubted', act'[s]) /\ Spares

LEMMA DoubtGrows ==
  ASSUME Watched, waived \subseteq waived'
  PROVE  Doubted \subseteq Doubted' /\ ThreatNow' \subseteq Doubted'
  BY DEF Watched, Doubted

(* Contents in doubt, now and after the step. *)
LEMMA ThreatIs ==
  ASSUME BucketInv, Watched, waived \subseteq waived'
  PROVE  /\ \A k \in ObjectKeys : \A r \in Active :
              Condemned(act[r].body, k.path) => ~SafeIn(obj[k], Doubted) /\ ~SafeIn(obj[k], Doubted')
         /\ \A k \in ObjectKeys : \A r, s \in Active :
              r # s /\ Concerns(act[r].body, k.path) /\ Concerns(act[s].body, k.path)
                => ~SafeIn(obj[k], Doubted')
         /\ \A k \in ObjectKeys : \A r \in Active' :
              Condemned(act'[r].body, k.path) => ~SafeIn(obj'[k], Doubted')
         /\ \A k \in ObjectKeys : \A r, s \in Active' :
              r # s /\ Concerns(act'[r].body, k.path) /\ Concerns(act'[s].body, k.path)
                => ~SafeIn(obj'[k], Doubted')
<1>1. ThreatNow \subseteq Doubted /\ Doubted \subseteq Doubted' /\ ThreatNow' \subseteq Doubted'
  BY DoubtGrows DEF BucketInv, Doubted
<1>2. \A k \in ObjectKeys : obj[k] \in FileContents =>
        /\ (\E r \in Active : Condemned(act[r].body, k.path)) => obj[k] \in ThreatNow
        /\ (\E r, s \in Active : r # s /\ Concerns(act[r].body, k.path) /\ Concerns(act[s].body, k.path))
             => obj[k] \in ThreatNow
  BY DEF ThreatNow, Disputed
<1>3. \A k \in ObjectKeys : obj'[k] \in FileContents =>
        /\ (\E r \in Active' : Condemned(act'[r].body, k.path)) => obj'[k] \in ThreatNow'
        /\ (\E r, s \in Active' : r # s /\ Concerns(act'[r].body, k.path) /\ Concerns(act'[s].body, k.path))
             => obj'[k] \in ThreatNow'
  BY Zenon DEF ThreatNow, Disputed, Condemned, Concerns
<1> QED
  BY <1>1, <1>2, <1>3 DEF SafeIn

LEMMA BecomesIs ==
  ASSUME BucketInv, NEW s \in Tasks, NEW y, Becomes(s, y)
  PROVE  /\ DOMAIN act' = Tasks /\ act'[s] = y
         /\ \A r \in Tasks : r # s => act'[r] = act[r]
  BY DEF BucketInv, Becomes

LEMMA TaskIs ==
  ASSUME BucketInv, NEW s \in Tasks
  PROVE  Proper(s, act[s]) /\ Pledges(obj, Doubted, act[s]) /\ DOMAIN act[s] = Fields
  BY DEF BucketInv, Proper

(* A step that leaves the bucket alone. *)
LEMMA Looking ==
  ASSUME BucketInv, NEW s \in Tasks, NEW y, Becomes(s, y), Proper(s, y),
         \/ y.at = "done" /\ act[s].at \in {"failed", "end"}
         \/ y.at \in Underway /\ (act[s].at \in Underway => y.body = act[s].body),
         waived \subseteq waived', obj' = obj, Pledges(obj, Doubted', y)
  PROVE  Proceeds(s)
<1>1. Advances(s) /\ act'[s] = y
  BY BecomesIs DEF Advances
<1> QED
  BY <1>1 DEF Proceeds, Spares

(* An action that stops: it failed, or the explorer heard of it. *)
LEMMA Stops ==
  ASSUME BucketInv, NEW s \in Tasks, NEW at \in {"failed", "done"}, act[s].at \in Underway,
         at = "done" => act[s].at \in {"failed", "end"},
         GoesTo(s, at), waived' = waived, obj' = obj
  PROVE  Proceeds(s)
<1> DEFINE y == [act[s] EXCEPT !.at = at]
<1>1. Proper(s, act[s]) /\ DOMAIN act[s] = Fields
  BY TaskIs
<1>2. /\ DOMAIN y = Fields /\ y.at = at /\ y.body = act[s].body /\ y.left = act[s].left
      /\ y.keys = act[s].keys
  BY <1>1 DEF Fields
<1>3. Becomes(s, y)
  BY DEF GoesTo
<1> HIDE DEF y
<1>4. InJob(s, y) /\ KeysFit(y)
  BY <1>1, <1>2 DEF Proper, InJob, KeysFit
<1>5. Proper(s, y)
  BY <1>2, <1>4 DEF Proper, Underway, Working, Transferring, Removing
<1>6. Pledges(obj, Doubted', y)
  BY <1>2, NoPledges
<1> QED
  BY <1>2, <1>3, <1>5, <1>6, Looking DEF Underway

(* The pledges an action has are pledges about fewer contents later on. *)
LEMMA PledgesStay ==
  ASSUME BucketInv, Watched, waived \subseteq waived', NEW s \in Tasks
  PROVE  Pledges(obj, Doubted', act[s])
<1> DEFINE e == act[s]
           w == Doubted
           v == Doubted'
<1>1. Proper(s, e) /\ Pledges(obj, w, e) /\ w \subseteq v
  BY TaskIs, DoubtGrows
<1> HIDE DEF e, w, v
<1>2. Pledges(obj, v, e)
  BY <1>1, PledgesLast
<1> QED
  BY <1>2 DEF e, v

LEMMA StartProceeds ==
  ASSUME BucketInv, Watched, NEW s \in Tasks, Start(s)
  PROVE  Proceeds(s)
<1>1. PICK b \in Jobs[s] : Becomes(s, Begin([NotStarted(s) EXCEPT !.body = b, !.left = b.paths]))
  BY DEF Start
<1>2. obj' = obj /\ waived' = waived /\ act[s].at = "idle"
  BY DEF Start, Reads, IsAt
<1> DEFINE n == NotStarted(s)
           e == [n EXCEPT !.body = b, !.left = b.paths]
           y == Begin(e)
<1>3. DOMAIN n = Fields
  BY DEF NotStarted, Fields
<1> HIDE DEF n
<1>4. DOMAIN e = Fields /\ e.body = b /\ e.left = b.paths
  BY <1>3 DEF Fields
<1>5. Becomes(s, y)
  BY <1>1 DEF n
<1> HIDE DEF e
<1>6. InJob(s, e)
  BY <1>4, JobIs DEF InJob
<1>7. /\ Proper(s, y) /\ y.at \in {"end", "failed", "headVictim", "putMarker", "headSource"}
      /\ y.at = "headVictim" => y.body.op = "delete"
      /\ y.at = "putMarker" => y.body.op = "mkdir"
  BY <1>4, <1>6, BeginIs
<1> HIDE DEF y
<1>8. Pledges(obj, Doubted', y)
  BY <1>7, FreshPledges
<1>9. y.at \in Underway /\ act[s].at \notin Underway
  BY <1>2, <1>7, ActiveIs DEF Underway, Working, Transferring, Removing
<1> QED
  BY <1>2, <1>5, <1>7, <1>8, <1>9, Looking

(* What is known of an action that works. *)
LEMMA WorkIs ==
  ASSUME BucketInv, NEW s \in Tasks, act[s].at \in Working
  PROVE  /\ DOMAIN act[s] = Fields /\ InJob(s, act[s]) /\ Aims(act[s]) /\ KeysFit(act[s])
         /\ act[s].from \in Places /\ act[s].from # Top /\ act[s].from \in Seq(EntryNames)
         /\ act[s].to \in Seq(EntryNames) /\ act[s].to # Top
         /\ act[s].at \in Underway /\ s \in Active
         /\ Pledges(obj, Doubted, act[s])
         /\ act[s].body.op \notin {"delete", "mkdir"} => ~Under(act[s].from, act[s].to)
         /\ act[s].body.op \in {"delete", "mkdir"} => act[s].to = act[s].from
<1>1. Proper(s, act[s]) /\ Pledges(obj, Doubted, act[s]) /\ act[s].at \in Underway
  BY TaskIs DEF Underway
<1>2. /\ DOMAIN act[s] = Fields /\ InJob(s, act[s]) /\ Aims(act[s]) /\ KeysFit(act[s])
      /\ s \in Active
  BY <1>1, ActiveIs DEF Proper
<1>3. /\ act[s].from \in Places /\ act[s].from # Top /\ act[s].from \in Seq(EntryNames)
      /\ act[s].to \in Seq(EntryNames) /\ act[s].to # Top
  BY <1>2, AimIs
<1>4. act[s].body.op \in {"delete", "mkdir"} => act[s].to = act[s].from
  BY <1>2, <1>3, DestPathIs DEF InJob, Aims
<1> QED
  BY <1>1, <1>2, <1>3, <1>4 DEF Aims

(* The contents of a path that is taken for "not a file" are in doubt. *)
LEMMA HeadIs ==
  ASSUME BucketInv, Watched, NEW p, waived \subseteq waived',
         IF IsFile(p) THEN waived' = waived \cup ContentsIn(p) ELSE TRUE
  PROVE  /\ \A k \in ObjectKeys : IsFile(p) /\ Under(p, k.path) => ~SafeIn(obj[k], Doubted')
         /\ ~SafeIn(There(obj, objectKeyForPath(p)), Doubted')
<1>1. \A k \in ObjectKeys : Under(p, k.path) /\ obj[k] \in FileContents => obj[k] \in ContentsIn(p)
  BY Within DEF ContentsIn
<1>2. IsFile(p) => waived' \subseteq Doubted' /\ ContentsIn(p) \subseteq Doubted'
  BY DEF Doubted
<1>3. \A k \in ObjectKeys : IsFile(p) /\ Under(p, k.path) => ~SafeIn(obj[k], Doubted')
  BY <1>1, <1>2 DEF SafeIn
<1>4. ~IsFile(p) => There(obj, objectKeyForPath(p)) = Missing
  BY DEF IsFile, Object, There
<1>5. IsFile(p) => objectKeyForPath(p) \in ObjectKeys
  BY DEF IsFile, Object
<1>6. IsFile(p) => There(obj, objectKeyForPath(p)) = obj[objectKeyForPath(p)]
  BY <1>5 DEF There
<1>7. IsFile(p) => Under(p, objectKeyForPath(p).path)
  BY <1>5, NamedKeys, PlaceOrder
<1> QED
  BY <1>3, <1>4, <1>5, <1>6, <1>7, BucketAssumption DEF SafeIn

LEMMA HeadSourceProceeds ==
  ASSUME BucketInv, Watched, NEW s \in Tasks, HeadSource(s)
  PROVE  Proceeds(s)
<1> DEFINE e == act[s]
           p == act[s].from
<1>1. obj' = obj /\ waived \subseteq waived' /\ e.at = "headSource"
  BY DEF HeadSource, Reads, IsAt, headIsFile
<1>2. /\ DOMAIN e = Fields /\ InJob(s, e) /\ Aims(e) /\ KeysFit(e) /\ e.at \in Underway
      /\ p \in Places /\ p # Top /\ e.to \in Seq(EntryNames)
  BY <1>1, WorkIs DEF Working, Transferring
<1>3. e.body.op \notin {"delete", "mkdir"}
  BY <1>1, TaskIs DEF Proper, Transferring
<1>4. ~Under(p, e.to) /\ e.to # p
  BY <1>2, <1>3, PlaceOrder DEF Aims
<1>5. CASE e.body.overwrite /\ Becomes(s, [e EXCEPT !.at = "headVictim", !.victim = e.to])
  <2> DEFINE y == [e EXCEPT !.at = "headVictim", !.victim = e.to]
  <2>1. /\ DOMAIN y = Fields /\ y.at = "headVictim" /\ y.victim = e.to /\ y.body = e.body
        /\ y.left = e.left /\ y.from = p /\ y.to = e.to /\ y.keys = e.keys
    BY <1>2 DEF Fields
  <2>b. Becomes(s, y)
    BY <1>5
  <2> HIDE DEF y
  <2>2. InJob(s, y) /\ Aims(y) /\ KeysFit(y) /\ Preys(y)
    BY <1>2, <1>3, <1>4, <1>5, <2>1 DEF InJob, Aims, KeysFit, Preys
  <2>3. Proper(s, y) /\ y.at \in Underway
    BY <2>1, <2>2 DEF Proper, Underway, Working, Transferring, Removing
  <2>4. Pledges(obj, Doubted', y)
    BY <1>4, <2>1, NoPledges DEF Removing
  <2> QED
    BY <1>1, <2>1, <2>b, <2>3, <2>4, Looking
<1>6. CASE ~e.body.overwrite /\ GoesTo(s, "headDest")
  <2> DEFINE y == [e EXCEPT !.at = "headDest"]
  <2>1. /\ DOMAIN y = Fields /\ y.at = "headDest" /\ y.body = e.body
        /\ y.left = e.left /\ y.from = p /\ y.to = e.to /\ y.keys = e.keys
    BY <1>2 DEF Fields
  <2>b. Becomes(s, y)
    BY <1>6 DEF GoesTo
  <2> HIDE DEF y
  <2>2. InJob(s, y) /\ Aims(y) /\ KeysFit(y)
    BY <1>2, <2>1 DEF InJob, Aims, KeysFit
  <2>3. Proper(s, y) /\ y.at \in Underway
    BY <1>3, <2>1, <2>2 DEF Proper, Underway, Working, Transferring, Removing
  <2>4. Pledges(obj, Doubted', y)
    BY <2>1, NoPledges
  <2> QED
    BY <1>1, <2>1, <2>b, <2>3, <2>4, Looking
<1>7. CASE GoesTo(s, "listSource") /\ IF IsFile(p) THEN waived' = waived \cup ContentsIn(p) ELSE TRUE
  <2> DEFINE y == [e EXCEPT !.at = "listSource"]
  <2>1. /\ DOMAIN y = Fields /\ y.at = "listSource" /\ y.body = e.body
        /\ y.left = e.left /\ y.from = p /\ y.to = e.to /\ y.keys = e.keys
    BY <1>2 DEF Fields
  <2>b. Becomes(s, y)
    BY <1>7 DEF GoesTo
  <2> HIDE DEF y
  <2>2. InJob(s, y) /\ Aims(y) /\ KeysFit(y)
    BY <1>2, <2>1 DEF InJob, Aims, KeysFit
  <2>3. Proper(s, y) /\ y.at \in Underway
    BY <1>3, <2>1, <2>2 DEF Proper, Underway, Working, Transferring, Removing
  <2>4. ~SafeIn(There(obj, objectKeyForPath(p)), Doubted')
    BY <1>1, <1>7, HeadIs
  <2>5. objectKeyForPath(p) \in ObjectKeys
    BY <1>2, NamedKeys
  <2>6. Pledges(obj, Doubted', y)
    BY <2>1, <2>4, <2>5 DEF Pledges, Kept, There
  <2> QED
    BY <1>1, <2>1, <2>b, <2>3, <2>6, Looking
<1> QED
  BY <1>5, <1>6, <1>7 DEF HeadSource, headIsFile

LEMMA HeadDestProceeds ==
  ASSUME BucketInv, Watched, NEW s \in Tasks, HeadDest(s)
  PROVE  Proceeds(s)
<1> DEFINE e == act[s]
           p == act[s].to
<1>1. obj' = obj /\ waived \subseteq waived' /\ e.at = "headDest"
  BY DEF HeadDest, Reads, IsAt, headIsFile
<1>2. /\ DOMAIN e = Fields /\ InJob(s, e) /\ Aims(e) /\ KeysFit(e) /\ e.at \in Underway
  BY <1>1, WorkIs DEF Working, Transferring
<1>3. e.body.op \notin {"delete", "mkdir"}
  BY <1>1, TaskIs DEF Proper, Transferring
<1>4. CASE GoesTo(s, "failed") /\ waived' = waived
  BY <1>1, <1>2, <1>4, Stops
<1>5. CASE GoesTo(s, "copyFile") /\ IF IsFile(p) THEN waived' = waived \cup ContentsIn(p) ELSE TRUE
  <2> DEFINE y == [e EXCEPT !.at = "copyFile"]
  <2>1. /\ DOMAIN y = Fields /\ y.at = "copyFile" /\ y.body = e.body
        /\ y.left = e.left /\ y.from = e.from /\ y.to = p /\ y.keys = e.keys
    BY <1>2 DEF Fields
  <2>b. Becomes(s, y)
    BY <1>5 DEF GoesTo
  <2> HIDE DEF y
  <2>2. InJob(s, y) /\ Aims(y) /\ KeysFit(y)
    BY <1>2, <2>1 DEF InJob, Aims, KeysFit
  <2>3. Proper(s, y) /\ y.at \in Underway
    BY <1>3, <2>1, <2>2 DEF Proper, Underway, Working, Transferring, Removing
  <2>4. ~SafeIn(There(obj, objectKeyForPath(p)), Doubted')
    BY <1>1, <1>5, HeadIs
  <2>5. Pledges(obj, Doubted', y)
    BY <2>1, <2>4 DEF Pledges
  <2> QED
    BY <1>1, <2>1, <2>b, <2>3, <2>5, Looking
<1> QED
  BY <1>4, <1>5 DEF HeadDest, headIsFile

LEMMA HeadVictimProceeds ==
  ASSUME BucketInv, Watched, NEW s \in Tasks, HeadVictim(s)
  PROVE  Proceeds(s)
<1> DEFINE e == act[s]
           p == act[s].victim
           file == objectKeyForPath(p)
<1>1. obj' = obj /\ waived \subseteq waived' /\ e.at = "headVictim"
  BY DEF HeadVictim, Reads, IsAt, headIsFile
<1>2. /\ DOMAIN e = Fields /\ InJob(s, e) /\ Aims(e) /\ KeysFit(e) /\ e.at \in Underway
      /\ e.from \in Places /\ e.from # Top
  BY <1>1, WorkIs DEF Working, Removing
<1>3. Preys(e)
  BY <1>1, TaskIs DEF Proper, Removing
<1>c. Pledges(obj, Doubted', e)
  BY <1>1, PledgesStay
<1>4. CASE IsFile(p) /\ Becomes(s, [e EXCEPT !.at = "deleteKeys", !.keys = {file}])
  <2> DEFINE y == [e EXCEPT !.at = "deleteKeys", !.keys = {file}]
  <2>1. /\ DOMAIN y = Fields /\ y.at = "deleteKeys" /\ y.victim = p /\ y.body = e.body
        /\ y.left = e.left /\ y.from = e.from /\ y.to = e.to /\ y.keys = {file}
    BY <1>2 DEF Fields
  <2>b. Becomes(s, y)
    BY <1>4
  <2> HIDE DEF y
  <2>2. file \in ObjectKeys /\ file.path = p /\ Under(p, p)
    BY <1>4, NamedKeys, PlaceOrder DEF IsFile, Object
  <2>3. InJob(s, y) /\ Aims(y) /\ KeysFit(y) /\ Preys(y)
    BY <1>2, <1>3, <2>1, <2>2 DEF InJob, Aims, KeysFit, Preys
  <2>4. Proper(s, y) /\ y.at \in Underway
    BY <2>1, <2>3 DEF Proper, Underway, Working, Transferring, Removing
  <2>5. Pledges(obj, Doubted', y)
    BY <1>1, <1>c, <2>1 DEF Pledges, Kept
  <2> QED
    BY <1>1, <2>1, <2>b, <2>4, <2>5, Looking
<1>5. CASE GoesTo(s, "listVictim") /\ IF IsFile(p) THEN waived' = waived \cup ContentsIn(p) ELSE TRUE
  <2> DEFINE y == [e EXCEPT !.at = "listVictim"]
  <2>1. /\ DOMAIN y = Fields /\ y.at = "listVictim" /\ y.victim = p /\ y.body = e.body
        /\ y.left = e.left /\ y.from = e.from /\ y.to = e.to /\ y.keys = e.keys
    BY <1>2 DEF Fields
  <2>b. Becomes(s, y)
    BY <1>5 DEF GoesTo
  <2> HIDE DEF y
  <2>3. InJob(s, y) /\ Aims(y) /\ KeysFit(y) /\ Preys(y)
    BY <1>2, <1>3, <2>1 DEF InJob, Aims, KeysFit, Preys
  <2>4. Proper(s, y) /\ y.at \in Underway
    BY <2>1, <2>3 DEF Proper, Underway, Working, Transferring, Removing
  <2>5. ASSUME IsMove(e.body), p = e.from
        PROVE  AllKept(obj, Doubted', y, {})
    <3>1. CASE IsFile(p)
      <4>1. \A k \in ObjectKeys : Under(p, k.path) => ~SafeIn(obj[k], Doubted')
        BY <1>1, <1>5, <3>1, HeadIs
      <4> QED
        BY <2>1, <2>5, <4>1 DEF AllKept, Kept
    <3>2. CASE ~IsFile(p)
      <4>1. file \in ObjectKeys
        BY <1>2, <2>5, NamedKeys
      <4>2. obj[file] = Missing
        BY <3>2, <4>1 DEF IsFile, Object
      <4>3. AllKept(obj, Doubted', e, {})
        BY <1>1, <1>c, <2>5, <4>2 DEF Pledges
      <4> QED
        BY <2>1, <4>3 DEF AllKept, Kept
    <3> QED
      BY <3>1, <3>2
  <2>6. Pledges(obj, Doubted', y)
    BY <2>1, <2>5 DEF Pledges
  <2> QED
    BY <1>1, <2>1, <2>b, <2>4, <2>6, Looking
<1> QED
  BY <1>4, <1>5 DEF HeadVictim, headIsFile

LEMMA ListVictimProceeds ==
  ASSUME BucketInv, Watched, NEW s \in Tasks, ListVictim(s)
  PROVE  Proceeds(s)
<1> DEFINE e == act[s]
           p == act[s].victim
           y == [e EXCEPT !.at = "deleteKeys", !.keys = KeysUnder(p)]
<1>1. obj' = obj /\ waived' = waived /\ e.at = "listVictim" /\ Becomes(s, y)
  BY DEF ListVictim, Reads, IsAt
<1>2. /\ DOMAIN e = Fields /\ InJob(s, e) /\ Aims(e) /\ KeysFit(e) /\ e.at \in Underway
  BY <1>1, WorkIs DEF Working, Removing
<1>3. Preys(e)
  BY <1>1, TaskIs DEF Proper, Removing
<1>c. Pledges(obj, Doubted', e)
  BY <1>1, PledgesStay
<1>4. /\ DOMAIN y = Fields /\ y.at = "deleteKeys" /\ y.victim = p /\ y.body = e.body
      /\ y.left = e.left /\ y.from = e.from /\ y.to = e.to /\ y.keys = KeysUnder(p)
  BY <1>2 DEF Fields
<1> HIDE DEF y
<1>5. KeysUnder(p) \subseteq ObjectKeys /\ \A k \in KeysUnder(p) : Under(p, k.path)
  BY Within DEF KeysUnder
<1>6. InJob(s, y) /\ Aims(y) /\ KeysFit(y) /\ Preys(y)
  BY <1>2, <1>3, <1>4, <1>5 DEF InJob, Aims, KeysFit, Preys
<1>7. Proper(s, y) /\ y.at \in Underway
  BY <1>4, <1>6 DEF Proper, Underway, Working, Transferring, Removing
<1>8. ASSUME IsMove(e.body), p = e.from, NEW k \in KeysUnder(p)
      PROVE  Kept(obj, Doubted', y, k)
  <2>1. AllKept(obj, Doubted', e, {})
    BY <1>1, <1>c, <1>8 DEF Pledges
  <2> QED
    BY <1>4, <1>5, <1>8, <2>1 DEF AllKept, Kept
<1>9. Pledges(obj, Doubted', y)
  BY <1>4, <1>8 DEF Pledges
<1> QED
  BY <1>1, <1>4, <1>7, <1>9, Looking

(* One object of the bucket changes. *)
LEMMA ObjectIs ==
  ASSUME BucketInv, NEW j \in ObjectKeys, NEW v, obj' = [obj EXCEPT ![j] = v]
  PROVE  obj'[j] = v /\ \A k \in ObjectKeys : k # j => obj'[k] = obj[k]
  BY DEF BucketInv

(* Where a step puts something, nothing may be lost but what is there. *)
LEMMA Sparing ==
  ASSUME BucketInv, NEW j \in ObjectKeys, NEW v, obj' = [obj EXCEPT ![j] = v],
         SafeIn(obj[j], Doubted') => \E i \in ObjectKeys : i # j /\ obj[i] = obj[j]
  PROVE  Spares
  BY ObjectIs DEF Spares

(* When the source lies below the destination, what a move takes is in doubt. *)
LEMMA MovesUp ==
  ASSUME BucketInv, Watched, waived' = waived, NEW s \in Tasks, act[s].at \in Working,
         IsMove(act[s].body), NEW i \in ObjectKeys, Under(act[s].from, i.path),
         NEW j \in ObjectKeys, Under(act[s].from, j.path), Under(act[s].to, j.path)
  PROVE  /\ ~SafeIn(obj[i], Doubted')
         /\ act'[s].at \in Underway /\ act'[s].body = act[s].body /\ s \in Active'
              => ~SafeIn(obj'[i], Doubted')
<1> DEFINE e == act[s]
<1>1. /\ InJob(s, e) /\ Aims(e) /\ e.from \in Seq(EntryNames) /\ e.to \in Seq(EntryNames)
      /\ ~Under(e.from, e.to) /\ s \in Active
  BY WorkIs DEF IsMove
<1>2. i.path \in Seq(EntryNames) /\ j.path \in Seq(EntryNames)
  BY KeyIs, PlacesAre
<1>3. Under(e.to, e.from)
  BY <1>1, <1>2, UnderComparable
<1>4. Under(e.to, i.path)
  BY <1>1, <1>2, <1>3, UnderOrder
<1>5. Condemned(e.body, i.path)
  BY <1>1, <1>3, <1>4, AimIs
<1> QED
  BY <1>1, <1>5, ThreatIs

LEMMA DeleteKeyProceeds ==
  ASSUME BucketInv, Watched, NEW s \in Tasks, DeleteKey(s)
  PROVE  Proceeds(s)
<1> DEFINE e == act[s]
<1>1. PICK k \in e.keys : /\ Becomes(s, [e EXCEPT !.keys = @ \ {k}])
                          /\ Writes(s, [obj EXCEPT ![k] = Missing])
  BY DEF DeleteKey
<1> DEFINE y == [e EXCEPT !.keys = @ \ {k}]
<1>2. e.at = "deleteKeys" /\ obj' = [obj EXCEPT ![k] = Missing] /\ waived' = waived
  BY <1>1 DEF DeleteKey, IsAt, Writes
<1>3. /\ DOMAIN e = Fields /\ InJob(s, e) /\ Aims(e) /\ KeysFit(e) /\ e.at \in Underway
      /\ e.from \in Places /\ e.from # Top /\ e.from \in Seq(EntryNames)
      /\ e.to \in Seq(EntryNames) /\ e.to # Top
      /\ s \in Active /\ e.at \in Working
      /\ e.body.op \notin {"delete", "mkdir"} => ~Under(e.from, e.to)
      /\ e.body.op \in {"delete", "mkdir"} => e.to = e.from
  BY <1>2, WorkIs DEF Working, Removing
<1>4. Preys(e)
  BY <1>2, TaskIs DEF Proper, Removing
<1>5. k \in ObjectKeys /\ Under(e.victim, k.path) /\ k.path \in Seq(EntryNames)
  BY <1>2, <1>3, KeyIs, PlacesAre DEF KeysFit
<1>6. /\ DOMAIN y = Fields /\ y.at = "deleteKeys" /\ y.victim = e.victim /\ y.body = e.body
      /\ y.left = e.left /\ y.from = e.from /\ y.to = e.to /\ y.keys = e.keys \ {k}
  BY <1>2, <1>3 DEF Fields
<1>b. Becomes(s, y)
  BY <1>1
<1> HIDE DEF y
<1>7. InJob(s, y) /\ Aims(y) /\ KeysFit(y) /\ Preys(y)
  BY <1>2, <1>3, <1>4, <1>6 DEF InJob, Aims, KeysFit, Preys
<1>8. Proper(s, y) /\ y.at \in Underway
  BY <1>6, <1>7 DEF Proper, Underway, Working, Transferring, Removing
<1>9. /\ DOMAIN act' = Tasks /\ act'[s] = y
      /\ \A r \in Tasks : r # s => act'[r] = act[r]
  BY <1>b, BecomesIs
<1>10. Missing \in Holds(k)
  BY <1>5, HoldsIs
<1>11. e.victim \in Seq(EntryNames) /\ \A q : Under(e.victim, q) => Concerns(e.body, q)
  <2>1. /\ \A q : Under(e.to, q) => Concerns(e.body, q)
        /\ \A q : e.body.op # "copy" /\ Under(e.from, q) => Concerns(e.body, q)
    BY <1>3, AimIs
  <2>2. e.victim = e.from => e.body.op # "copy" \/ e.victim = e.to
    BY <1>4 DEF Preys, IsMove
  <2> QED
    BY <1>3, <1>4, <2>1, <2>2 DEF Preys
<1>12. Put(s, k, Missing)
  BY <1>2, <1>3, <1>5, <1>6, <1>8, <1>9, <1>11 DEF Put
<1>13. Advances(s)
  BY <1>2, <1>5, <1>6, <1>8, <1>9, <1>10, <1>12 DEF Advances
<1>14. obj'[k] = Missing /\ \A i \in ObjectKeys : i # k => obj'[i] = obj[i]
  BY <1>2, <1>5, ObjectIs
<1>c. Pledges(obj, Doubted', e)
  BY <1>2, PledgesStay
<1>15. ASSUME IsMove(e.body), e.victim = e.from, NEW i \in y.keys
       PROVE  Kept(obj', Doubted', y, i)
  <2>1. i \in ObjectKeys /\ i # k /\ Under(e.from, i.path)
    BY <1>2, <1>3, <1>6, <1>15 DEF KeysFit
  <2>2. Kept(obj, Doubted', e, i)
    BY <1>2, <1>6, <1>c, <1>15 DEF Pledges
  <2> DEFINE j == Below(e.to, e.from, i)
  <2> SUFFICES ASSUME SafeIn(obj[i], Doubted') PROVE j \in ObjectKeys /\ obj'[j] = obj[i]
    BY <1>6, <1>14, <2>1 DEF Kept
  <2>3. j \in ObjectKeys /\ obj[j] = obj[i]
    BY <2>2 DEF Kept
  <2>4. j # k
    <3>1. Under(e.to, j.path)
      BY <1>3, <2>1, BelowIs
    <3> HIDE DEF j
    <3>2. CASE j = k
      <4>1. Under(e.to, k.path) /\ Under(e.from, k.path)
        BY <1>5, <1>15, <3>1, <3>2
      <4> QED
        BY <1>2, <1>3, <1>5, <1>15, <2>1, <4>1, MovesUp
    <3> QED
      BY <3>2
  <2> QED
    BY <1>14, <2>3, <2>4
<1>16. Pledges(obj', Doubted', y)
  <2>1. CASE IsMove(e.body) /\ e.victim = e.from
    BY <1>6, <1>15, <2>1 DEF Pledges
  <2>2. CASE ~(IsMove(e.body) /\ e.victim = e.from)
    BY <1>6, <2>2, NoPledges DEF Removing
  <2> QED
    BY <2>1, <2>2
<1>17. ASSUME SafeIn(obj[k], Doubted')
       PROVE  \E i \in ObjectKeys : i # k /\ obj[i] = obj[k]
  <2>1. ~Condemned(e.body, k.path)
    BY <1>2, <1>3, <1>5, <1>17, ThreatIs
  <2>2. ~(Under(e.to, k.path) /\ (e.body.op = "delete" \/ e.body.overwrite))
    BY <1>3, <2>1, AimIs
  <2>3. e.victim = e.from /\ IsMove(e.body)
    BY <1>3, <1>4, <1>5, <2>2 DEF Preys
  <2>4. Kept(obj, Doubted', e, k)
    BY <1>2, <1>c, <2>3 DEF Pledges
  <2>5. Below(e.to, e.from, k) \in ObjectKeys /\ obj[Below(e.to, e.from, k)] = obj[k]
    BY <1>17, <2>4 DEF Kept
  <2>6. ~Under(e.from, e.to)
    BY <1>3, <2>3 DEF IsMove
  <2>7. Below(e.to, e.from, k) # k
    BY <1>3, <1>5, <2>3, <2>6, BelowOther
  <2> QED
    BY <2>5, <2>7
<1>18. Spares
  BY <1>2, <1>5, <1>17, Sparing
<1> QED
  BY <1>9, <1>13, <1>16, <1>18 DEF Proceeds

LEMMA DeletedProceeds ==
  ASSUME BucketInv, Watched, NEW s \in Tasks, Deleted(s)
  PROVE  Proceeds(s)
<1> DEFINE e == act[s]
<1>1. obj' = obj /\ waived' = waived /\ e.at = "deleteKeys"
  BY DEF Deleted, Reads, IsAt
<1>2. /\ DOMAIN e = Fields /\ InJob(s, e) /\ Aims(e) /\ KeysFit(e) /\ e.at \in Underway
      /\ e.body.op \in {"delete", "mkdir"} => e.to = e.from
  BY <1>1, WorkIs DEF Working, Removing
<1>3. Preys(e)
  BY <1>1, TaskIs DEF Proper, Removing
<1>4. CASE e.victim = e.from
  <2> DEFINE y == Begin(e)
  <2>1. Becomes(s, y)
    BY <1>4 DEF Deleted
  <2>2. /\ Proper(s, y) /\ y.body = e.body
        /\ y.at \in {"end", "failed", "headVictim", "putMarker", "headSource"}
        /\ y.at = "headVictim" => y.body.op = "delete"
        /\ y.at = "putMarker" => y.body.op = "mkdir"
    BY <1>2, BeginIs
  <2> HIDE DEF y
  <2>3. Pledges(obj, Doubted', y)
    BY <2>2, FreshPledges
  <2>4. y.at \in Underway
    BY <2>2 DEF Underway, Working, Transferring, Removing
  <2> QED
    BY <1>1, <2>1, <2>2, <2>3, <2>4, Looking
<1>5. CASE e.victim # e.from
  <2> DEFINE y == [e EXCEPT !.at = "copyFile"]
  <2>1. Becomes(s, y)
    BY <1>5 DEF Deleted, GoesTo
  <2>2. /\ DOMAIN y = Fields /\ y.at = "copyFile" /\ y.body = e.body
        /\ y.left = e.left /\ y.from = e.from /\ y.to = e.to /\ y.keys = e.keys
    BY <1>2 DEF Fields
  <2> HIDE DEF y
  <2>3. InJob(s, y) /\ Aims(y) /\ KeysFit(y)
    BY <1>2, <2>2 DEF InJob, Aims, KeysFit
  <2>4. e.body.overwrite /\ e.body.op \notin {"delete", "mkdir"}
    BY <1>2, <1>3, <1>5 DEF Preys
  <2>5. Proper(s, y) /\ y.at \in Underway
    BY <2>2, <2>3, <2>4 DEF Proper, Underway, Working, Transferring, Removing
  <2>6. Pledges(obj, Doubted', y)
    BY <2>2, <2>4 DEF Pledges
  <2> QED
    BY <1>1, <2>1, <2>2, <2>5, <2>6, Looking
<1> QED
  BY <1>4, <1>5

(* How an action goes on after a copy. *)
Resumed(e) ==
  IF IsMove(e.body) THEN [e EXCEPT !.keys = {}, !.victim = e.from, !.at = "headVictim"]
  ELSE Begin(e)

LEMMA ResumedIs ==
  ASSUME NEW s \in Tasks, NEW e, DOMAIN e = Fields, InJob(s, e), Aims(e),
         NEW y, y = Resumed(e)
  PROVE  Proper(s, y) /\ y.body = e.body /\ y.at \in Underway
<1>1. CASE IsMove(e.body)
  <2>1. y = [e EXCEPT !.keys = {}, !.victim = e.from, !.at = "headVictim"]
    BY <1>1 DEF Resumed
  <2>2. /\ DOMAIN y = Fields /\ y.at = "headVictim" /\ y.victim = e.from /\ y.body = e.body
        /\ y.left = e.left /\ y.from = e.from /\ y.to = e.to /\ y.keys = {}
    BY <2>1 DEF Fields
  <2>3. InJob(s, y) /\ Aims(y) /\ KeysFit(y) /\ Preys(y)
    BY <1>1, <2>2 DEF InJob, Aims, KeysFit, Preys, IsMove
  <2> QED
    BY <2>2, <2>3 DEF Proper, Underway, Working, Transferring, Removing
<1>2. CASE ~IsMove(e.body)
  <2>1. y = Begin(e)
    BY <1>2 DEF Resumed
  <2>2. /\ Proper(s, y) /\ y.body = e.body
        /\ y.at \in {"end", "failed", "headVictim", "putMarker", "headSource"}
    BY <2>1, BeginIs
  <2> QED
    BY <2>2 DEF Underway, Working, Transferring, Removing
<1> QED
  BY <1>1, <1>2

(* After a copy a move has what it removes next at the destination. *)
LEMMA AfterCopyIs ==
  ASSUME NEW s \in Tasks, NEW e, DOMAIN e = Fields, InJob(s, e), Aims(e),
         NEW y, y = Resumed(e),
         NEW p, NEW v,
         IsMove(e.body) => /\ Kept(p, v, e, objectKeyForPath(e.from))
                           /\ p[objectKeyForPath(e.from)] # Missing \/ AllKept(p, v, e, {})
  PROVE  Pledges(p, v, y)
<1>1. CASE IsMove(e.body)
  <2>1. y = [e EXCEPT !.keys = {}, !.victim = e.from, !.at = "headVictim"]
    BY <1>1 DEF Resumed
  <2>2. /\ y.at = "headVictim" /\ y.victim = e.from /\ y.body = e.body
        /\ y.from = e.from /\ y.to = e.to
    BY <2>1 DEF Fields
  <2>3. Kept(p, v, y, objectKeyForPath(e.from))
    BY <1>1, <2>2 DEF Kept
  <2>4. p[objectKeyForPath(e.from)] # Missing \/ AllKept(p, v, y, {})
    BY <1>1, <2>2 DEF AllKept, Kept
  <2> QED
    BY <2>2, <2>3, <2>4 DEF Pledges
<1>2. CASE ~IsMove(e.body)
  <2>1. y = Begin(e)
    BY <1>2 DEF Resumed
  <2>2. /\ y.body = e.body
        /\ y.at \in {"end", "failed", "headVictim", "putMarker", "headSource"}
        /\ y.at = "headVictim" => y.body.op = "delete"
        /\ y.at = "putMarker" => y.body.op = "mkdir"
    BY <2>1, BeginIs
  <2> QED
    BY <2>2, FreshPledges
<1> QED
  BY <1>1, <1>2

(* Something is put below the destination: it was asked for to replace what is
   there, or nothing is. *)
LEMMA Putting ==
  ASSUME BucketInv, Watched, NEW s \in Tasks, act[s].at \in Working,
         NEW j \in ObjectKeys, Under(act[s].to, j.path), NEW v \in Holds(j), v # Missing,
         obj' = [obj EXCEPT ![j] = v], waived' = waived,
         NEW y, Becomes(s, y), Proper(s, y), y.body = act[s].body, y.at \in Underway,
         Pledges(obj', Doubted', y),
         act[s].body.overwrite \/ ~SafeIn(obj[j], Doubted')
  PROVE  Proceeds(s)
<1> DEFINE e == act[s]
<1>1. InJob(s, e) /\ Aims(e) /\ s \in Active /\ e.at \in Underway
  BY WorkIs
<1>2. /\ DOMAIN act' = Tasks /\ act'[s] = y
      /\ \A r \in Tasks : r # s => act'[r] = act[r]
  BY BecomesIs
<1>3. Concerns(e.body, j.path) /\ (e.body.overwrite => Condemned(e.body, j.path))
  BY <1>1, AimIs
<1>4. Put(s, j, v)
  BY <1>1, <1>2, <1>3 DEF Put
<1>5. Advances(s)
  BY <1>2, <1>4 DEF Advances
<1>6. ~SafeIn(obj[j], Doubted')
  BY <1>1, <1>3, ThreatIs
<1>7. Spares
  BY <1>6, Sparing
<1> QED
  BY <1>2, <1>5, <1>7 DEF Proceeds

LEMMA CopyFileProceeds ==
  ASSUME BucketInv, Watched, NEW s \in Tasks, CopyFile(s)
  PROVE  Proceeds(s)
<1> DEFINE e == act[s]
           source == objectKeyForPath(e.from)
           target == objectKeyForPath(e.to)
<1>1. e.at = "copyFile"
  BY DEF CopyFile, IsAt
<1>2. /\ DOMAIN e = Fields /\ InJob(s, e) /\ Aims(e) /\ e.at \in Underway /\ e.at \in Working
      /\ e.from \in Places /\ e.from # Top /\ e.from \in Seq(EntryNames)
      /\ e.to \in Seq(EntryNames) /\ e.to # Top
      /\ e.body.op \notin {"delete", "mkdir"} => ~Under(e.from, e.to)
  BY <1>1, WorkIs DEF Working, Transferring
<1>3. ~Under(e.from, e.to) /\ e.from # e.to
  BY <1>1, <1>2, TaskIs, PlaceOrder DEF Proper, Transferring
<1>4. CASE Object(source) = Missing \/ target \notin ObjectKeys
  <2>1. GoesTo(s, "failed") /\ obj' = obj /\ waived' = waived
    BY <1>4 DEF CopyFile, Reads
  <2> QED
    BY <1>2, <2>1, Stops
<1>5. CASE Object(source) # Missing /\ target \in ObjectKeys
  <2> DEFINE y == Resumed(e)
  <2>1. Becomes(s, y) /\ obj' = [obj EXCEPT ![target] = obj[source]] /\ waived' = waived
    BY <1>5 DEF CopyFile, AfterCopy, Writes, Resumed
  <2> HIDE DEF y
  <2>2. /\ source \in ObjectKeys /\ obj[source] # Missing
        /\ source.path = e.from /\ target.path = e.to /\ ~source.marker /\ ~target.marker
    BY <1>5, NamedKeys DEF Object
  <2>3. obj[source] \in Holds(target)
    BY <1>5, <2>2 DEF BucketInv, Holds
  <2>4. Under(e.to, target.path) /\ source # target /\ Under(e.from, source.path)
    BY <1>2, <1>3, <2>2, UnderOrder
  <2>5. obj'[target] = obj[source] /\ obj'[source] = obj[source]
    BY <1>5, <2>1, <2>2, <2>4, ObjectIs
  <2>6. Below(e.to, e.from, source) = target
    <3> DEFINE j == Below(e.to, e.from, source)
    <3>1. /\ j = [path |-> j.path, marker |-> j.marker]
          /\ j.path = Shift(e.from, e.to, source.path) /\ j.marker = source.marker
      BY <1>2, <2>2, <2>4, BelowIs
    <3> HIDE DEF j
    <3>2. Shift(e.from, e.to, e.from) = e.to
      BY <1>2, ShiftSelf
    <3>3. j = [path |-> e.to, marker |-> FALSE]
      BY <2>2, <3>1, <3>2 DEF objectKeyForPath
    <3> QED
      BY <3>3 DEF objectKeyForPath, j
  <2>7. Kept(obj', Doubted', e, source) /\ obj'[source] # Missing
    BY <1>5, <2>2, <2>5, <2>6 DEF Kept
  <2>8. Proper(s, y) /\ y.body = e.body /\ y.at \in Underway /\ Pledges(obj', Doubted', y)
    <3> HIDE DEF target
    <3>1. Kept(obj', Doubted', e, objectKeyForPath(e.from)) /\ obj'[objectKeyForPath(e.from)] # Missing
      BY <2>7
    <3> HIDE DEF source
    <3> QED
      BY <1>2, <3>1, ResumedIs, AfterCopyIs DEF y
  <2>9. e.body.overwrite \/ ~SafeIn(obj[target], Doubted')
    BY <1>1, <1>5, <2>1, PledgesStay DEF Pledges, There
  <2> HIDE DEF source, target
  <2> QED
    BY <1>2, <1>5, <2>1, <2>2, <2>3, <2>4, <2>8, <2>9, Putting
<1> QED
  BY <1>4, <1>5

LEMMA ListSourceProceeds ==
  ASSUME BucketInv, Watched, NEW s \in Tasks, ListSource(s)
  PROVE  Proceeds(s)
<1> DEFINE e == act[s]
           keys == KeysUnder(e.from)
           at == IF keys = {} THEN "putMarker"
                 ELSE IF e.body.overwrite THEN "copyKeys" ELSE "headKeys"
           y == [e EXCEPT !.keys = keys, !.at = at]
           file == objectKeyForPath(e.from)
<1>1. obj' = obj /\ waived' = waived /\ e.at = "listSource" /\ Becomes(s, y)
  BY DEF ListSource, Reads, IsAt
<1>2. /\ DOMAIN e = Fields /\ InJob(s, e) /\ Aims(e) /\ KeysFit(e) /\ e.at \in Underway
  BY <1>1, WorkIs DEF Working, Transferring
<1>3. e.body.op \notin {"delete", "mkdir"}
  BY <1>1, TaskIs DEF Proper, Transferring
<1>c. Pledges(obj, Doubted', e)
  BY <1>1, PledgesStay
<1>4. /\ DOMAIN y = Fields /\ y.at = at /\ y.body = e.body
      /\ y.left = e.left /\ y.from = e.from /\ y.to = e.to /\ y.keys = keys
  BY <1>2 DEF Fields
<1> HIDE DEF y
<1>5. /\ \A k \in keys : k \in ObjectKeys /\ Under(e.from, k.path)
      /\ \A k \in ObjectKeys : Under(e.from, k.path) /\ k \notin keys => obj[k] = Missing \/ k = file
  BY Within DEF KeysUnder
<1>6. /\ at \in {"putMarker", "copyKeys", "headKeys"}
      /\ at = "putMarker" => keys = {}
      /\ at = "copyKeys" => e.body.overwrite
  OBVIOUS
<1> HIDE DEF keys, at
<1>7. InJob(s, y) /\ Aims(y) /\ KeysFit(y)
  BY <1>2, <1>4, <1>5, <1>6 DEF InJob, Aims, KeysFit
<1>8. Proper(s, y) /\ y.at \in Underway
  BY <1>3, <1>4, <1>6, <1>7 DEF Proper, Underway, Working, Transferring, Removing
<1>9. ASSUME IsMove(e.body) PROVE AllKept(obj, Doubted', y, keys)
  <2>1. Kept(obj, Doubted', e, file)
    BY <1>1, <1>c, <1>9 DEF Pledges
  <2>2. ASSUME NEW k \in ObjectKeys, Under(e.from, k.path), k \notin keys
        PROVE  Kept(obj, Doubted', y, k)
    <3>1. CASE k = file
      BY <1>4, <2>1, <3>1 DEF Kept
    <3>2. CASE obj[k] = Missing
      BY <3>2, BucketAssumption DEF Kept, SafeIn
    <3> QED
      BY <1>5, <2>2, <3>1, <3>2
  <2> QED
    BY <1>4, <2>2 DEF AllKept
<1>10. Pledges(obj, Doubted', y)
  BY <1>4, <1>6, <1>9 DEF Pledges
<1> QED
  BY <1>1, <1>4, <1>8, <1>10, Looking

LEMMA PutMarkerProceeds ==
  ASSUME BucketInv, Watched, NEW s \in Tasks, PutMarker(s)
  PROVE  Proceeds(s)
<1> DEFINE e == act[s]
           j == listPrefixForPath(e.to)
           file == objectKeyForPath(e.from)
           y == Resumed(e)
<1>1. /\ e.at = "putMarker" /\ j \in ObjectKeys /\ Becomes(s, y)
      /\ obj' = [obj EXCEPT ![j] = Marker] /\ waived' = waived
  BY DEF PutMarker, IsAt, AfterCopy, Writes, Resumed
<1> HIDE DEF y
<1>2. /\ DOMAIN e = Fields /\ InJob(s, e) /\ Aims(e) /\ e.at \in Underway /\ e.at \in Working
      /\ e.from \in Places /\ e.from # Top /\ e.from \in Seq(EntryNames)
      /\ e.to \in Seq(EntryNames) /\ e.to # Top
  BY <1>1, WorkIs DEF Working
<1>c. Pledges(obj, Doubted', e)
  BY <1>1, PledgesStay
<1>3. j.path = e.to /\ j.marker /\ file \in ObjectKeys /\ file.path = e.from
  BY <1>2, NamedKeys
<1>4. Under(e.to, j.path) /\ Under(e.from, file.path)
  BY <1>2, <1>3, UnderOrder
<1> HIDE DEF j, file
<1>5. Marker \in Holds(j) /\ Marker # Missing
  BY <1>3, BucketAssumption DEF Holds
<1>6. \A k \in ObjectKeys : k.marker => obj[k] \notin FileContents
  BY BucketAssumption DEF BucketInv, Holds
<1>7. obj'[j] = Marker /\ \A k \in ObjectKeys : k # j => obj'[k] = obj[k]
  BY <1>1, ObjectIs
<1>8. ASSUME IsMove(e.body) PROVE AllKept(obj', Doubted', e, {})
  <2>1. AllKept(obj, Doubted', e, {})
    BY <1>1, <1>c, <1>8 DEF Pledges
  <2> SUFFICES ASSUME NEW k \in ObjectKeys, Under(e.from, k.path), SafeIn(obj'[k], Doubted')
               PROVE  /\ Below(e.to, e.from, k) \in ObjectKeys
                      /\ obj'[Below(e.to, e.from, k)] = obj'[k]
    BY DEF AllKept, Kept
  <2>2. k # j /\ obj'[k] = obj[k]
    BY <1>7, BucketAssumption DEF SafeIn
  <2>3. Below(e.to, e.from, k) \in ObjectKeys /\ obj[Below(e.to, e.from, k)] = obj[k]
    BY <2>1, <2>2 DEF AllKept, Kept
  <2>4. Below(e.to, e.from, k).marker = k.marker
    BY <1>2, BelowIs
  <2>5. ~k.marker
    BY <1>6, <2>2 DEF SafeIn
  <2> QED
    BY <1>3, <1>7, <2>2, <2>3, <2>4, <2>5
<1>9. IsMove(e.body) => Kept(obj', Doubted', e, file)
  BY <1>3, <1>4, <1>8 DEF AllKept
<1>10. Proper(s, y) /\ y.body = e.body /\ y.at \in Underway /\ Pledges(obj', Doubted', y)
  BY <1>2, <1>8, <1>9, ResumedIs, AfterCopyIs DEF y, file
<1>11. ~SafeIn(obj[j], Doubted')
  BY <1>1, <1>3, <1>6 DEF SafeIn
<1> QED
  BY <1>1, <1>2, <1>4, <1>5, <1>10, <1>11, Putting

LEMMA HeadKeyProceeds ==
  ASSUME BucketInv, Watched, NEW s \in Tasks, HeadKey(s)
  PROVE  Proceeds(s)
<1> DEFINE e == act[s]
<1>1. PICK k \in e.keys :
        LET there == Object(Below(e.to, e.from, k))
            go    == Becomes(s, [e EXCEPT !.at = "copyKeys", !.next = k])
        IN \/ /\ IF there = Missing THEN go ELSE GoesTo(s, "failed")
              /\ UNCHANGED <<mishaps, waived>>
           \/ /\ mishaps < MaxMishaps /\ mishaps' = mishaps + 1
              /\ there # Missing /\ go
              /\ waived' = waived \cup ({there} \cap FileContents)
  BY DEF HeadKey
<1>2. obj' = obj /\ e.at = "headKeys" /\ waived \subseteq waived'
  BY <1>1 DEF HeadKey, Reads, IsAt
<1>3. /\ DOMAIN e = Fields /\ InJob(s, e) /\ Aims(e) /\ KeysFit(e) /\ e.at \in Underway
  BY <1>2, WorkIs DEF Working, Transferring
<1>4. e.body.op \notin {"delete", "mkdir"}
  BY <1>2, TaskIs DEF Proper, Transferring
<1> DEFINE there == Object(Below(e.to, e.from, k))
           y == [e EXCEPT !.at = "copyKeys", !.next = k]
<1>5. CASE GoesTo(s, "failed") /\ waived' = waived
  BY <1>2, <1>3, <1>5, Stops
<1>6. CASE Becomes(s, y) /\ (there # Missing => waived' = waived \cup ({there} \cap FileContents))
  <2>b. Becomes(s, y)
    BY <1>6
  <2>1. /\ DOMAIN y = Fields /\ y.at = "copyKeys" /\ y.body = e.body /\ y.next = k
        /\ y.left = e.left /\ y.from = e.from /\ y.to = e.to /\ y.keys = e.keys
    BY <1>3 DEF Fields
  <2> HIDE DEF y
  <2>2. InJob(s, y) /\ Aims(y) /\ KeysFit(y)
    BY <1>2, <1>3, <2>1 DEF InJob, Aims, KeysFit
  <2>3. Proper(s, y) /\ y.at \in Underway
    BY <1>4, <2>1, <2>2 DEF Proper, Underway, Working, Transferring, Removing
  <2>4. ASSUME IsMove(e.body) PROVE AllKept(obj, Doubted', y, e.keys)
    <3>1. AllKept(obj, Doubted', e, e.keys)
      BY <1>2, <2>4, PledgesStay DEF Pledges
    <3> QED
      BY <2>1, <3>1 DEF AllKept, Kept
  <2>5. there = There(obj, Below(e.to, e.from, k))
    BY DEF Object, There
  <2>6. ~SafeIn(there, Doubted')
    BY <1>6, BucketAssumption DEF SafeIn, Doubted
  <2> HIDE DEF there
  <2>7. Pledges(obj, Doubted', y)
    BY <2>1, <2>4, <2>5, <2>6 DEF Pledges
  <2> QED
    BY <1>2, <2>1, <2>b, <2>3, <2>7, Looking
<1> QED
  BY <1>1, <1>5, <1>6

LEMMA CopyKeyProceeds ==
  ASSUME BucketInv, Watched, NEW s \in Tasks, CopyKey(s)
  PROVE  Proceeds(s)
<1> DEFINE e == act[s]
<1>1. PICK k \in e.keys :
        LET rest   == e.keys \ {k}
            asks   == ~e.body.overwrite
            target == Below(e.to, e.from, k)
        IN /\ asks => k = e.next
           /\ IF obj[k] = Missing \/ target \notin ObjectKeys
              THEN GoesTo(s, "failed") /\ Reads /\ UNCHANGED <<mishaps, waived>>
              ELSE /\ IF rest = {} THEN AfterCopy(s)
                      ELSE Becomes(s, [e EXCEPT !.keys = rest, !.at = IF asks THEN "headKeys" ELSE @])
                   /\ Writes(s, [obj EXCEPT ![target] = obj[k]])
  BY DEF CopyKey
<1> DEFINE rest   == e.keys \ {k}
           target == Below(e.to, e.from, k)
           file == objectKeyForPath(e.from)
<1>2. e.at = "copyKeys"
  BY DEF CopyKey, IsAt
<1>3. /\ DOMAIN e = Fields /\ InJob(s, e) /\ Aims(e) /\ KeysFit(e) /\ e.at \in Underway
      /\ e.at \in Working
      /\ e.from \in Places /\ e.from # Top /\ e.from \in Seq(EntryNames)
      /\ e.to \in Seq(EntryNames) /\ e.to # Top
      /\ e.body.op \notin {"delete", "mkdir"} => ~Under(e.from, e.to)
  BY <1>2, WorkIs DEF Working, Transferring
<1>4. e.body.op \notin {"delete", "mkdir"} /\ ~Under(e.from, e.to)
  BY <1>2, <1>3, TaskIs DEF Proper, Transferring
<1>5. CASE GoesTo(s, "failed") /\ obj' = obj /\ waived' = waived
  BY <1>3, <1>5, Stops
<1>6. CASE /\ obj[k] # Missing /\ target \in ObjectKeys
           /\ IF rest = {} THEN AfterCopy(s)
              ELSE Becomes(s, [e EXCEPT !.keys = rest,
                                        !.at = IF ~e.body.overwrite THEN "headKeys" ELSE @])
           /\ obj' = [obj EXCEPT ![target] = obj[k]] /\ waived' = waived
           /\ ~e.body.overwrite => k = e.next
  <2>1. k \in ObjectKeys /\ Under(e.from, k.path)
    BY <1>2, <1>3 DEF KeysFit
  <2>2. Under(e.to, target.path) /\ target.marker = k.marker /\ target # k
    BY <1>3, <1>4, <2>1, BelowIs, BelowOther
  <2>3. obj[k] \in Holds(target) /\ obj[k] # Missing
    BY <1>6, <2>1, <2>2 DEF BucketInv, Holds
  <2> HIDE DEF target
  <2>4. obj'[target] = obj[k] /\ \A i \in ObjectKeys : i # target => obj'[i] = obj[i]
    BY <1>6, ObjectIs
  <2>5. e.body.overwrite \/ ~SafeIn(obj[target], Doubted')
    BY <1>2, <1>6, PledgesStay DEF Pledges, There, target
  <2> DEFINE y == IF rest = {} THEN Resumed(e)
                  ELSE [e EXCEPT !.keys = rest,
                                 !.at = IF ~e.body.overwrite THEN "headKeys" ELSE @]
  <2>b. Becomes(s, y)
    BY <1>6 DEF AfterCopy, Resumed
  <2>6. ASSUME IsMove(e.body), act'[s].at \in Underway, act'[s].body = e.body, s \in Active'
        PROVE  AllKept(obj', Doubted', e, rest)
    <3>1. AllKept(obj, Doubted', e, e.keys)
      BY <1>2, <1>6, <2>6, PledgesStay DEF Pledges
    <3> SUFFICES ASSUME NEW i \in ObjectKeys, Under(e.from, i.path), i \notin rest,
                        SafeIn(obj'[i], Doubted')
                 PROVE  /\ Below(e.to, e.from, i) \in ObjectKeys
                        /\ obj'[Below(e.to, e.from, i)] = obj'[i]
      BY DEF AllKept, Kept
    <3>2. CASE i = k
      BY <1>6, <2>1, <2>2, <2>4, <3>2 DEF target
    <3>3. CASE i # k
      <4>1. i # target
        <5>1. Under(e.from, target.path) => ~SafeIn(obj'[i], Doubted')
          BY <1>3, <1>6, <2>2, <2>6, MovesUp
        <5> QED
          BY <5>1
      <4>2. i \notin e.keys /\ obj'[i] = obj[i]
        BY <2>4, <3>3, <4>1
      <4>3. Below(e.to, e.from, i) \in ObjectKeys /\ obj[Below(e.to, e.from, i)] = obj[i]
        BY <3>1, <4>2 DEF AllKept, Kept
      <4>4. Below(e.to, e.from, i) # target
        BY <1>3, <2>1, <3>3, BelowOne DEF target
      <4> QED
        BY <2>4, <4>2, <4>3, <4>4
    <3> QED
      BY <3>2, <3>3
  <2>7. act'[s] = y /\ (y.at \in Underway /\ Proper(s, y) => s \in Active')
    <3>1. act'[s] = y
      BY <2>b, BecomesIs
    <3> HIDE DEF y
    <3>2. y.at \in Underway => y.at \notin {"idle", "done"}
      BY DEF Underway, Working, Transferring, Removing
    <3> QED
      BY <3>1, <3>2 DEF Active
  <2>8. CASE rest = {}
    <3>1. y = Resumed(e)
      BY <2>8
    <3> HIDE DEF y
    <3>2. Proper(s, y) /\ y.body = e.body /\ y.at \in Underway
      BY <1>3, <3>1, ResumedIs
    <3>3. IsMove(e.body) => AllKept(obj', Doubted', e, {})
      BY <2>6, <2>7, <2>8, <3>2
    <3>4. file \in ObjectKeys /\ Under(e.from, file.path)
      BY <1>3, NamedKeys, PlaceOrder
    <3> HIDE DEF file
    <3>5. IsMove(e.body) => Kept(obj', Doubted', e, file)
      BY <3>3, <3>4 DEF AllKept
    <3>6. Pledges(obj', Doubted', y)
      BY <1>3, <3>1, <3>3, <3>5, AfterCopyIs DEF file
    <3> QED
      BY <1>3, <1>6, <2>b, <2>2, <2>3, <2>5, <3>2, <3>6, Putting
  <2>9. CASE rest # {}
    <3> DEFINE at == IF ~e.body.overwrite THEN "headKeys" ELSE "copyKeys"
    <3>1. y = [e EXCEPT !.keys = rest, !.at = at]
      BY <1>2, <2>9
    <3> HIDE DEF y, rest, at
    <3>2. /\ DOMAIN y = Fields /\ y.at = at /\ y.body = e.body
          /\ y.left = e.left /\ y.from = e.from /\ y.to = e.to /\ y.keys = rest
      BY <1>3, <3>1 DEF Fields
    <3>3. at \in {"headKeys", "copyKeys"} /\ (at = "copyKeys" => e.body.overwrite)
      BY DEF at
    <3>4. InJob(s, y) /\ Aims(y) /\ KeysFit(y)
      BY <1>2, <1>3, <3>2, <3>3 DEF InJob, Aims, KeysFit, rest
    <3>5. Proper(s, y) /\ y.at \in Underway
      BY <1>4, <3>2, <3>3, <3>4 DEF Proper, Underway, Working, Transferring, Removing
    <3>6. ASSUME IsMove(e.body) PROVE AllKept(obj', Doubted', y, rest)
      <4>1. AllKept(obj', Doubted', e, rest)
        BY <2>6, <2>7, <3>2, <3>5, <3>6
      <4> QED
        BY <3>2, <4>1 DEF AllKept, Kept
    <3>7. Pledges(obj', Doubted', y)
      BY <3>2, <3>3, <3>6 DEF Pledges
    <3> QED
      BY <1>3, <1>6, <2>b, <2>2, <2>3, <2>5, <3>2, <3>5, <3>7, Putting
  <2> QED
    BY <2>8, <2>9
<1> QED
  BY <1>1, <1>5, <1>6 DEF Reads, Writes

(* Every step of an action. *)
LEMMA ActionProceeds ==
  ASSUME BucketInv, Watched, NEW s \in Tasks, ActionStep(s)
  PROVE  Proceeds(s)
<1>1. ASSUME NameTooLong(s) PROVE Proceeds(s)
  <2>1. act[s].at \in Underway /\ GoesTo(s, "failed") /\ waived' = waived /\ obj' = obj
    BY <1>1 DEF NameTooLong, IsAt, Reads, Underway, Working
  <2> QED
    BY <2>1, Stops
<1>2. ASSUME Fails(s) PROVE Proceeds(s)
  <2>1. act[s].at \in Underway
    BY <1>2, TaskIs, ActiveIs DEF Fails
  <2>2. GoesTo(s, "failed") /\ waived' = waived /\ obj' = obj
    BY <1>2 DEF Fails, Reads
  <2> QED
    BY <2>1, <2>2, Stops
<1>3. ASSUME Thrown(s) \/ Succeeds(s) PROVE Proceeds(s)
  <2>1. /\ act[s].at \in Underway /\ act[s].at \in {"failed", "end"} /\ GoesTo(s, "done")
        /\ waived' = waived /\ obj' = obj
    BY <1>3 DEF Thrown, Succeeds, IsAt, Underway
  <2> QED
    BY <2>1, Stops
<1> QED
  BY <1>1, <1>2, <1>3, StartProceeds, HeadSourceProceeds, HeadDestProceeds, HeadVictimProceeds, ListVictimProceeds,
     DeleteKeyProceeds, DeletedProceeds, CopyFileProceeds, ListSourceProceeds, PutMarkerProceeds, HeadKeyProceeds, CopyKeyProceeds
     DEF ActionStep
-----------------------------------------------------------------------------
(* Nothing is lost in a bucket. *)

(* What an action does leaves the others their pledges: where two of them are at
   work, contents are in doubt. *)
LEMMA OthersGo ==
  ASSUME BucketInv, Watched, NEW s \in Tasks, Advances(s), NEW r \in Tasks, r # s
  PROVE  Pledges(obj', Doubted', act'[r])
<1> DEFINE e == act[r]
           w == Doubted
           v == Doubted'
           p == obj'
<1>1. act'[r] = e /\ waived \subseteq waived'
  BY DEF Advances
<1>2. Proper(r, e) /\ Pledges(obj, w, e) /\ w \subseteq v
  BY <1>1, TaskIs, DoubtGrows
<1>3. CASE obj' = obj
  BY <1>1, <1>3, PledgesStay
<1>4. CASE e.at \notin Working
  <2>1. Pledges(p, v, e)
    BY <1>2, <1>4, NoPledges DEF Proper, Underway, Working, Transferring, Removing, Pledges
  <2> QED
    BY <1>1, <2>1
<1>5. ASSUME e.at \in Working, NEW j \in ObjectKeys, NEW x \in Holds(j), Put(s, j, x)
      PROVE  Pledges(obj', Doubted', act'[r])
  <2>1. p[j] = x /\ \A k \in ObjectKeys : k # j => p[k] = obj[k]
    BY <1>5, ObjectIs DEF Put
  <2>2. r \in Active /\ r \in Active' /\ s \in Active /\ s \in Active' /\ act'[s].body = act[s].body
    <3>1. /\ e.at \notin {"idle", "done"} /\ act[s].at \notin {"idle", "done"}
          /\ act'[s].at \notin {"idle", "done"}
      BY <1>5 DEF Put, Underway, Working, Transferring, Removing
    <3> QED
      BY <1>1, <1>5, <3>1 DEF Active, Put
  <2>3. \A k \in ObjectKeys : Concerns(e.body, k.path) /\ Concerns(act[s].body, k.path)
                                => ~SafeIn(obj[k], v) /\ ~SafeIn(p[k], v)
    BY <1>1, <2>2, ThreatIs
  <2>4. \A k \in ObjectKeys : Concerns(e.body, k.path) /\ p[k] # obj[k]
                                => ~SafeIn(obj[k], v) /\ ~SafeIn(p[k], v)
    BY <1>5, <2>1, <2>3 DEF Put
  <2>5. ASSUME IsMove(e.body), obj[objectKeyForPath(e.from)] # Missing,
               p[objectKeyForPath(e.from)] = Missing,
               NEW k \in ObjectKeys, Under(e.from, k.path)
        PROVE  ~SafeIn(p[k], v)
    <3>1. /\ InJob(r, e) /\ Aims(e) /\ e.from \in Places /\ e.from # Top
          /\ e.from \in Seq(EntryNames)
      BY <1>5, WorkIs
    <3>2. objectKeyForPath(e.from) \in ObjectKeys /\ objectKeyForPath(e.from).path = e.from
      BY <3>1, NamedKeys
    <3>3. j = objectKeyForPath(e.from) /\ x = Missing
      BY <2>1, <2>5, <3>2
    <3>4. PICK q \in Seq(EntryNames) :
            Under(q, j.path) /\ \A i : Under(q, i) => Concerns(act[s].body, i)
      BY <1>5, <3>3 DEF Put
    <3>5. k.path \in Seq(EntryNames)
      BY KeyIs, PlacesAre
    <3>6. Under(q, k.path)
      BY <2>5, <3>1, <3>2, <3>3, <3>4, <3>5, UnderOrder
    <3>7. Concerns(e.body, k.path)
      BY <2>5, <3>1, AimIs DEF IsMove
    <3> QED
      BY <2>3, <3>4, <3>6, <3>7
  <2> HIDE DEF e, w, v, p
  <2>6. Pledges(p, v, e)
    BY <1>2, <2>4, <2>5, PledgesLast
  <2> QED
    BY <1>1, <2>6 DEF p, v
<1> QED
  BY <1>3, <1>4, <1>5 DEF Advances

LEMMA ActionKeeps ==
  ASSUME BucketInv, Watched, NEW s \in Tasks, ActionStep(s)
  PROVE  BucketInv' /\ Spares /\ waived \subseteq waived'
<1>1. Advances(s) /\ Pledges(obj', Doubted', act'[s]) /\ Spares
  BY ActionProceeds DEF Proceeds
<1>2. DOMAIN obj' = ObjectKeys /\ \A k \in ObjectKeys : obj'[k] \in Holds(k)
  <2>1. ASSUME NEW j \in ObjectKeys, NEW v \in Holds(j), Put(s, j, v)
        PROVE  DOMAIN obj' = ObjectKeys /\ \A k \in ObjectKeys : obj'[k] \in Holds(k)
    <3>1. obj' = [obj EXCEPT ![j] = v] /\ DOMAIN obj = ObjectKeys
      BY <2>1 DEF Put, BucketInv
    <3>2. obj'[j] = v /\ \A k \in ObjectKeys : k # j => obj'[k] = obj[k]
      BY <3>1, ObjectIs
    <3> QED
      BY <3>1, <3>2 DEF BucketInv
  <2> QED
    BY <1>1, <2>1 DEF Advances, BucketInv
<1>3. \A r \in Tasks : Proper(r, act'[r])
  BY <1>1 DEF Advances, BucketInv
<1>4. \A r \in Tasks : Pledges(obj', Doubted', act'[r])
  BY <1>1, OthersGo
<1>5. ThreatNow' \subseteq threatened'
  BY DEF Watched
<1>6. DOMAIN act' = Tasks /\ waived \subseteq waived'
  BY <1>1 DEF Advances
<1> QED
  BY <1>1, <1>2, <1>3, <1>4, <1>5, <1>6 DEF BucketInv, Doubted

LEMMA UploadKeeps ==
  ASSUME BucketInv, Watched, NEW u \in Uploads, Upload(u)
  PROVE  BucketInv' /\ Spares /\ waived \subseteq waived'
<1> DEFINE key == objectKeyForPath(u.path)
           w == Doubted
           v == Doubted'
           p == obj'
<1>1. u.path \in Places /\ u.path # Top /\ u.content \in FileContents
  BY BucketAssumption
<1>2. key \in ObjectKeys /\ key.path = u.path /\ ~key.marker
  BY <1>1, NamedKeys
<1> HIDE DEF key
<1>3. /\ obj' = [obj EXCEPT ![key] = u.content] /\ act' = act
      /\ waived' = waived \cup ({obj[key]} \cap FileContents)
             \cup (IF \E r \in Active : Concerns(act[r].body, u.path) THEN {u.content} ELSE {})
  BY DEF Upload, key
<1>4. obj'[key] = u.content /\ \A k \in ObjectKeys : k # key => obj'[k] = obj[k]
  BY <1>2, <1>3, ObjectIs
<1>5. waived \subseteq waived' /\ w \subseteq v /\ waived' \subseteq v
  BY <1>3, DoubtGrows DEF Doubted
<1>6. ~SafeIn(obj[key], v)
  BY <1>3, <1>5 DEF SafeIn
<1>7. Spares
  BY <1>2, <1>3, <1>6, Sparing
<1>8. DOMAIN obj' = ObjectKeys /\ \A k \in ObjectKeys : obj'[k] \in Holds(k)
  BY <1>1, <1>2, <1>3, <1>4 DEF BucketInv, Holds
<1>9. ASSUME NEW r \in Tasks PROVE Pledges(p, v, act[r])
  <2> DEFINE e == act[r]
  <2>1. Proper(r, e) /\ Pledges(obj, w, e)
    BY TaskIs
  <2>2. CASE e.at \notin Working
    BY <2>1, <2>2, NoPledges DEF Proper, Underway, Working, Transferring, Removing, Pledges
  <2>3. CASE e.at \in Working
    <3>1. r \in Active
      BY <2>3, WorkIs
    <3>2. \A k \in ObjectKeys : Concerns(e.body, k.path) /\ p[k] # obj[k]
                                  => ~SafeIn(obj[k], v) /\ ~SafeIn(p[k], v)
      BY <1>2, <1>3, <1>4, <1>5, <1>6, <3>1 DEF SafeIn
    <3>3. objectKeyForPath(e.from) \in ObjectKeys
      BY <2>3, WorkIs, NamedKeys
    <3>4. p[objectKeyForPath(e.from)] = Missing => obj[objectKeyForPath(e.from)] = Missing
      BY <1>1, <1>4, <3>3, BucketAssumption
    <3> HIDE DEF e, w, v, p
    <3>5. Pledges(p, v, e)
      BY <1>5, <2>1, <3>2, <3>4, PledgesLast
    <3> QED
      BY <3>5 DEF e
  <2> QED
    BY <2>2, <2>3
<1>10. ThreatNow' \subseteq threatened'
  BY DEF Watched
<1> QED
  BY <1>3, <1>5, <1>7, <1>8, <1>9, <1>10 DEF BucketInv, Doubted

(* The cache of stats does nothing to the bucket. *)
LEMMA CacheKeeps ==
  ASSUME BucketInv, Watched,
         \/ \E l \in Looked : stat(l) \/ StatExpires(l)
         \/ \E f \in fetching : FetchAnswered(f) \/ setStat(f)
  PROVE  BucketInv' /\ Spares /\ waived \subseteq waived'
<1>1. obj' = obj /\ act' = act /\ waived' = waived
  BY DEF stat, StatExpires, FetchAnswered, setStat
<1>2. \A r \in Tasks : Pledges(obj, Doubted', act[r])
  BY <1>1, PledgesStay
<1>3. ThreatNow' \subseteq threatened'
  BY DEF Watched
<1> QED
  BY <1>1, <1>2, <1>3 DEF BucketInv, Doubted, Spares

LEMMA BucketInvInit == BucketInit => BucketInv
<1> SUFFICES ASSUME BucketInit PROVE BucketInv
  OBVIOUS
<1>1. DOMAIN obj = ObjectKeys /\ \A k \in ObjectKeys : obj[k] \in Holds(k)
  BY BucketAssumption DEF BucketInit
<1>2. act = [r \in Tasks |-> NotStarted(r)]
  BY DEF BucketInit
<1>3. ASSUME NEW r \in Tasks
      PROVE  Proper(r, act[r]) /\ Pledges(obj, Doubted, act[r]) /\ act[r].at = "idle"
  <2> DEFINE e == NotStarted(r)
  <2>1. act[r] = e
    BY <1>2
  <2>2. DOMAIN e = Fields /\ e.at = "idle" /\ e.keys = {}
    BY DEF NotStarted, Fields
  <2> HIDE DEF e
  <2>3. Proper(r, e)
    BY <2>2 DEF Proper, KeysFit, Underway, Working, Transferring, Removing
  <2>4. Pledges(obj, Doubted, e)
    BY <2>2, NoPledges
  <2> QED
    BY <2>1, <2>2, <2>3, <2>4
<1>4. Active = {}
  BY <1>3 DEF Active
<1>5. ThreatNow = {}
  BY <1>4 DEF ThreatNow, Disputed
<1> QED
  BY <1>1, <1>2, <1>3, <1>5 DEF BucketInv

LEMMA BucketStep ==
  ASSUME BucketInv, BucketNext
  PROVE  BucketInv' /\ Spares /\ waived \subseteq waived' /\ Watched
<1>1. Watched /\ Move
  BY DEF BucketNext, Watched
<1> QED
  BY <1>1, ActionKeeps, UploadKeeps, CacheKeeps DEF Move

LEMMA BucketInvNext == BucketInv /\ [BucketNext]_bucketVars => BucketInv'
<1> SUFFICES ASSUME BucketInv, [BucketNext]_bucketVars PROVE BucketInv'
  OBVIOUS
<1>1. CASE BucketNext
  BY <1>1, BucketStep
<1>2. CASE UNCHANGED bucketVars
  <2>1. /\ obj' = obj /\ act' = act /\ waived' = waived /\ threatened' = threatened
    BY <1>2 DEF bucketVars
  <2>2. ThreatNow' = ThreatNow
    BY <2>1 DEF ThreatNow, Disputed, Active
  <2> QED
    BY <2>1, <2>2 DEF BucketInv, Doubted
<1> QED
  BY <1>1, <1>2

(* ObjectsAreKept for any keys, actions, tabs and failures: what a file holds
   leaves the bucket only when an action named its place to be deleted or
   replaced or moved something onto a folder above itself, when two actions
   wrote there, or when a HEAD about it failed. *)
THEOREM BucketObjectsAreKept == BucketSpec => []ObjectsAreKept
<1>1. BucketInit => ObjectsAreKept
  BY DEF BucketInit, ObjectsAreKept
<1>2. BucketInv /\ ObjectsAreKept /\ [BucketNext]_bucketVars => ObjectsAreKept'
  <2> SUFFICES ASSUME BucketInv, ObjectsAreKept, [BucketNext]_bucketVars PROVE ObjectsAreKept'
    OBVIOUS
  <2>1. CASE BucketNext
    <3>1. Spares /\ Doubted \subseteq Doubted'
      BY <2>1, BucketStep, DoubtGrows
    <3> SUFFICES ASSUME NEW c \in FileContents, c \notin Doubted',
                        \A b \in Buckets : \E k \in ObjectKeys : b[k] = c
                 PROVE  \E k \in ObjectKeys : obj'[k] = c
      BY DEF ObjectsAreKept, Doubted
    <3>2. PICK k \in ObjectKeys : obj[k] = c
      BY <3>1 DEF ObjectsAreKept, Doubted
    <3> QED
      BY <3>1, <3>2 DEF Spares, SafeIn
  <2>2. CASE UNCHANGED bucketVars
    BY <2>2 DEF bucketVars, ObjectsAreKept
  <2> QED
    BY <2>1, <2>2
<1> QED
  BY <1>1, <1>2, BucketInvInit, BucketInvNext, PTL DEF BucketSpec
-----------------------------------------------------------------------------
(* The cached stats of a bucket. *)

(* An action of the tab is about the path, and tells the cache when it ends: a
   new folder's path is not among what it tells. *)
WillHear(l) == \E r \in Active : act[r].body.op # "mkdir" /\ l \in Affected(TabOf[r], act[r].body)

StatInv ==
  /\ DOMAIN stats = Looked
  /\ \A l \in Looked : stats[l] \in {Missing, Stat(l[2])} \/ l \in excused \/ WillHear(l)

(* While it goes on, and whatever the others do, what it covers stays covered. *)
LEMMA StillHears ==
  ASSUME BucketInv, NEW s \in Tasks, Advances(s), act'[s].at \in Underway, NEW l, WillHear(l)
  PROVE  WillHear(l)'
<1>1. PICK r \in Active : act[r].body.op # "mkdir" /\ l \in Affected(TabOf[r], act[r].body)
  BY DEF WillHear
<1>2. r \in Tasks /\ act[r].at \in Underway
  BY <1>1, TaskIs, ActiveIs DEF Active
<1>3. act'[r].body = act[r].body /\ act'[r].at \in Underway
  BY <1>2 DEF Advances, Underway, Working, Transferring, Removing
<1>4. r \in Active'
  BY <1>2, <1>3 DEF Active, Underway, Working, Transferring, Removing
<1>5. act'[r].body.op # "mkdir" /\ l \in Affected(TabOf[r], act'[r].body)
  BY <1>1, <1>3
<1> QED
  BY <1>4, <1>5 DEF WillHear, Affected, Named, DestPath

LEMMA SameStat ==
  ASSUME obj' = obj, NEW p
  PROVE  Stat(p)' = Stat(p)
  BY DEF Stat, IsFile, KeysUnder, Object

(* A step of an action that only reads. *)
LEMMA ReadingKeepsStats ==
  ASSUME BucketInv, StatInv, NEW s \in Tasks, Advances(s), act'[s].at \in Underway,
         obj' = obj, stats' = stats, excused' = excused
  PROVE  StatInv'
<1> SUFFICES ASSUME NEW l \in Looked
             PROVE  stats'[l] \in {Missing, Stat(l[2])'} \/ l \in excused' \/ WillHear(l)'
  BY DEF StatInv
<1>1. Stat(l[2])' = Stat(l[2])
  BY SameStat
<1>2. WillHear(l) => WillHear(l)'
  BY StillHears
<1> QED
  BY <1>1, <1>2 DEF StatInv

(* A step of an action that writes: what it changes is covered, or known to be
   outdated; of what a new folder changes there was no stat. *)
LEMMA WritingKeepsStats ==
  ASSUME BucketInv, StatInv, NEW s \in Tasks, Advances(s), act'[s].at \in Underway,
         act[s].at \in Underway, stats' = stats, Excuse(TabOf[s], Named(act[s].body)),
         act[s].body.op = "mkdir" =>
            \A l \in Looked : Stat(l[2]) # Missing => Stat(l[2])' = Stat(l[2])
  PROVE  StatInv'
<1> SUFFICES ASSUME NEW l \in Looked, stats[l] # Missing
             PROVE  stats[l] = Stat(l[2])' \/ l \in excused' \/ WillHear(l)'
  BY DEF StatInv
<1>1. l \in excused' <=>
        \/ l \in excused
        \/ Stat(l[2])' # Stat(l[2]) /\ ~(l[1] = TabOf[s] /\ l[2] \in Named(act[s].body))
  BY DEF Excuse
<1>2. WillHear(l) => WillHear(l)'
  BY StillHears
<1>3. ASSUME stats[l] = Stat(l[2]), Stat(l[2])' # Stat(l[2]), l \notin excused'
      PROVE  WillHear(l)'
  <2>1. l[1] = TabOf[s] /\ l[2] \in Named(act[s].body) /\ act[s].body.op # "mkdir"
    BY <1>1, <1>3
  <2>2. s \in Active
    BY TaskIs, ActiveIs
  <2>3. l \in Affected(TabOf[s], act[s].body)
    BY <2>1 DEF Affected
  <2>4. WillHear(l)
    BY <2>1, <2>2, <2>3 DEF WillHear
  <2> QED
    BY <1>2, <2>4
<1> QED
  BY <1>1, <1>2, <1>3 DEF StatInv

(* A marker makes a folder of a path where nothing was, and changes no stat else. *)
LEMMA MarkerStat ==
  ASSUME BucketInv, NEW j \in ObjectKeys, j.marker, obj' = [obj EXCEPT ![j] = Marker],
         NEW p \in Places \ {Top}, Stat(p) # Missing
  PROVE  Stat(p)' = Stat(p)
<1> DEFINE k == objectKeyForPath(p)
<1>1. k \in ObjectKeys /\ k # j
  BY NamedKeys
<1>2. obj'[j] = Marker /\ \A i \in ObjectKeys : i # j => obj'[i] = obj[i]
  BY ObjectIs
<1>3. Object(k)' = Object(k) /\ obj'[k] = obj[k] /\ Object(k) = obj[k]
  BY <1>1, <1>2 DEF Object
<1>4. KeysUnder(p) \subseteq KeysUnder(p)'
  BY <1>2, BucketAssumption DEF KeysUnder
<1>5. /\ Stat(p) = IF obj[k] # Missing THEN obj[k]
                   ELSE IF KeysUnder(p) # {} THEN "dir" ELSE Missing
      /\ Stat(p)' = IF obj'[k] # Missing THEN obj'[k]
                    ELSE IF KeysUnder(p)' # {} THEN "dir" ELSE Missing
  BY <1>3 DEF Stat, IsFile
<1> QED
  BY <1>3, <1>4, <1>5

LEMMA WritesStats ==
  ASSUME NEW s \in Tasks, NEW new, Writes(s, new)
  PROVE  obj' = new /\ stats' = stats /\ Excuse(TabOf[s], Named(act[s].body))
  BY DEF Writes, Local

LEMMA ReadsStats ==
  ASSUME Reads
  PROVE  obj' = obj /\ stats' = stats /\ excused' = excused
  BY DEF Reads, Local

LEMMA ActionKeepsStats ==
  ASSUME BucketInv, StatInv, Watched, NEW s \in Tasks, ActionStep(s)
  PROVE  StatInv'
<1>1. Advances(s)
  BY ActionProceeds DEF Proceeds
<1>2. act[s].at \in Underway \cup {"idle"} /\ act[s].at \notin {"failed", "end"}
        => act'[s].at \in Underway
  BY <1>1 DEF Advances
<1>3. ASSUME Reads, act[s].at \notin {"failed", "end"}, ~IsAt(s, "done")
      PROVE  StatInv'
  <2>1. act'[s].at \in Underway
    BY <1>2, <1>3, TaskIs DEF IsAt, Proper
  <2> QED
    BY <1>1, <1>3, <2>1, ReadsStats, ReadingKeepsStats
<1>4. ASSUME \/ Start(s) \/ HeadSource(s) \/ HeadDest(s) \/ HeadVictim(s) \/ ListVictim(s)
             \/ Deleted(s) \/ ListSource(s) \/ NameTooLong(s) \/ HeadKey(s) \/ Fails(s)
      PROVE  Reads /\ act[s].at \notin {"failed", "end"} /\ ~IsAt(s, "done")
  BY <1>4 DEF Start, HeadSource, HeadDest, HeadVictim, ListVictim, Deleted, ListSource,
              NameTooLong, HeadKey, Fails, IsAt, Active
<1>5. ASSUME NEW new, Writes(s, new), act[s].at \in Working, act[s].body.op # "mkdir"
      PROVE  StatInv'
  <2>1. act'[s].at \in Underway /\ act[s].at \in Underway
    BY <1>2, <1>5 DEF Underway, Working, Transferring, Removing
  <2> QED
    BY <1>1, <1>5, <2>1, WritesStats, WritingKeepsStats
<1>6. ASSUME DeleteKey(s) PROVE StatInv'
  <2>1. act[s].at = "deleteKeys" /\ \E new : Writes(s, new)
    BY <1>6 DEF DeleteKey, IsAt
  <2>2. act[s].body.op # "mkdir" /\ act[s].at \in Working
    BY <2>1, TaskIs DEF Proper, Removing, Working, Preys
  <2> QED
    BY <1>5, <2>1, <2>2
<1>7. ASSUME CopyFile(s) \/ CopyKey(s) PROVE StatInv'
  <2>1. act[s].at \in {"copyFile", "copyKeys"} /\ (Reads \/ \E new : Writes(s, new))
    BY <1>7 DEF CopyFile, CopyKey, IsAt
  <2>2. act[s].body.op # "mkdir" /\ act[s].at \in Working
    BY <2>1, TaskIs DEF Proper, Transferring, Working
  <2> QED
    BY <1>3, <1>5, <2>1, <2>2 DEF IsAt
<1>8. ASSUME PutMarker(s) PROVE StatInv'
  <2> DEFINE j == listPrefixForPath(act[s].to)
             new == [obj EXCEPT ![j] = Marker]
  <2>1. act[s].at = "putMarker" /\ j \in ObjectKeys /\ j.marker /\ Writes(s, new)
    BY <1>8 DEF PutMarker, IsAt, listPrefixForPath
  <2>2. act'[s].at \in Underway /\ act[s].at \in Underway
    BY <1>2, <2>1 DEF Underway, Working
  <2>3. obj' = new /\ stats' = stats /\ Excuse(TabOf[s], Named(act[s].body))
    BY <2>1, WritesStats
  <2>4. \A l \in Looked : Stat(l[2]) # Missing => Stat(l[2])' = Stat(l[2])
    BY <2>1, <2>3, MarkerStat, BucketAssumption
  <2> QED
    BY <1>1, <2>2, <2>3, <2>4, WritingKeepsStats
<1>9. ASSUME Thrown(s) PROVE StatInv'
  <2>1. obj' = obj /\ stats' = stats /\ act[s].at = "failed"
        /\ excused' = excused \cup {l \in Affected(TabOf[s], act[s].body) : stats[l] # Missing}
    BY <1>9 DEF Thrown, Local, IsAt
  <2> SUFFICES ASSUME NEW l \in Looked, stats[l] # Missing
               PROVE  stats[l] = Stat(l[2])' \/ l \in excused' \/ WillHear(l)'
    BY <2>1 DEF StatInv
  <2>2. Stat(l[2])' = Stat(l[2])
    BY <2>1, SameStat
  <2>3. CASE WillHear(l) /\ l \notin Affected(TabOf[s], act[s].body)
    <3>1. PICK r \in Active : act[r].body.op # "mkdir" /\ l \in Affected(TabOf[r], act[r].body)
      BY <2>3 DEF WillHear
    <3>2. r \in Tasks /\ act'[r] = act[r]
      BY <1>1, <2>3, <3>1 DEF Active, Advances
    <3>3. r \in Active' /\ act'[r].body.op # "mkdir" /\ l \in Affected(TabOf[r], act'[r].body)
      BY <3>1, <3>2 DEF Active
    <3> QED
      BY <3>3 DEF WillHear, Affected, Named, DestPath
  <2> QED
    BY <2>1, <2>2, <2>3 DEF StatInv
<1>10. ASSUME Succeeds(s) PROVE StatInv'
  <2> DEFINE hit == {l \in Looked : l[1] = TabOf[s] /\ l[2] \in pathsAffectedByAction(act[s].body)}
  <2>1. /\ obj' = obj /\ Excuse(TabOf[s], {})
        /\ stats' = [l \in Looked |-> IF l \in hit THEN Missing ELSE stats[l]]
    BY <1>10 DEF Succeeds, invalidatePaths
  <2> SUFFICES ASSUME NEW l \in Looked, stats'[l] # Missing
               PROVE  stats'[l] = Stat(l[2])' \/ l \in excused' \/ WillHear(l)'
    BY <2>1 DEF StatInv
  <2>2. Stat(l[2])' = Stat(l[2])
    BY <2>1, SameStat
  <2>3. l \notin hit /\ stats'[l] = stats[l]
    BY <2>1
  <2>4. l \in excused => l \in excused'
    BY <2>1 DEF Excuse
  <2>5. ASSUME WillHear(l) PROVE WillHear(l)'
    <3>1. PICK r \in Active : act[r].body.op # "mkdir" /\ l \in Affected(TabOf[r], act[r].body)
      BY <2>5 DEF WillHear
    <3>2. r # s
      BY <2>3, <3>1 DEF Affected, Named, pathsAffectedByAction
    <3>3. r \in Tasks /\ act'[r] = act[r]
      BY <1>1, <3>1, <3>2 DEF Active, Advances
    <3>4. r \in Active' /\ act'[r].body.op # "mkdir" /\ l \in Affected(TabOf[r], act'[r].body)
      BY <3>1, <3>3 DEF Active
    <3> QED
      BY <3>4 DEF WillHear, Affected, Named, DestPath
  <2> QED
    BY <2>2, <2>3, <2>4, <2>5 DEF StatInv
<1> QED
  BY <1>3, <1>4, <1>6, <1>7, <1>8, <1>9, <1>10 DEF ActionStep

LEMMA UploadKeepsStats ==
  ASSUME BucketInv, StatInv, NEW u \in Uploads, Upload(u)
  PROVE  StatInv'
<1> DEFINE named == IF u.resumed THEN {} ELSE {u.path}
           hit == {l \in Looked : l[1] = u.tab /\ l[2] \in named}
<1>1. /\ stats' = [l \in Looked |-> IF l \in hit THEN Missing ELSE stats[l]]
      /\ Excuse(u.tab, named) /\ act' = act
  BY DEF Upload, invalidatePaths
<1> HIDE DEF named
<1> SUFFICES ASSUME NEW l \in Looked, stats'[l] # Missing
             PROVE  stats'[l] = Stat(l[2])' \/ l \in excused' \/ WillHear(l)'
  BY <1>1 DEF StatInv
<1>2. l \notin hit /\ stats'[l] = stats[l]
  BY <1>1
<1>3. l \in excused \/ Stat(l[2])' # Stat(l[2]) => l \in excused'
  BY <1>1, <1>2 DEF Excuse
<1>4. ASSUME WillHear(l) PROVE WillHear(l)'
  <2>1. PICK r \in Active : act[r].body.op # "mkdir" /\ l \in Affected(TabOf[r], act[r].body)
    BY <1>4 DEF WillHear
  <2>2. r \in Active' /\ act'[r] = act[r]
    BY <1>1, <2>1 DEF Active
  <2>3. Affected(TabOf[r], act[r].body)' = Affected(TabOf[r], act[r].body)
    BY <2>2 DEF Affected, Named, DestPath
  <2> QED
    BY <2>1, <2>2, <2>3 DEF WillHear
<1> QED
  BY <1>2, <1>3, <1>4 DEF StatInv

LEMMA CacheKeepsStats ==
  ASSUME BucketInv, StatInv,
         \/ \E l \in Looked : stat(l) \/ StatExpires(l)
         \/ \E f \in fetching : FetchAnswered(f) \/ setStat(f)
  PROVE  StatInv'
<1>1. obj' = obj /\ act' = act
  BY DEF stat, StatExpires, FetchAnswered, setStat
<1>2. \A l : Stat(l[2])' = Stat(l[2])
  BY <1>1, SameStat
<1>3. \A l : WillHear(l)' <=> WillHear(l)
  BY <1>1 DEF WillHear, Active, Affected, Named, DestPath
<1>4. ASSUME NEW l \in Looked, stat(l) PROVE StatInv'
  BY <1>2, <1>3, <1>4 DEF stat, StatInv
<1>5. ASSUME NEW l \in Looked, StatExpires(l) PROVE StatInv'
  BY <1>2, <1>3, <1>5 DEF StatExpires, StatInv
<1>6. ASSUME NEW f \in fetching, FetchAnswered(f) PROVE StatInv'
  BY <1>2, <1>3, <1>6 DEF FetchAnswered, StatInv
<1>7. ASSUME NEW f \in fetching, setStat(f) PROVE StatInv'
  <2>1. CASE f.said = Missing
    BY <1>2, <1>3, <1>7, <2>1 DEF setStat, StatInv
  <2>2. CASE f.said # Missing
    <3>1. /\ stats' = [stats EXCEPT ![f.at] = f.said]
          /\ excused' = IF f.said = Stat(f.at[2]) THEN excused \ {f.at} ELSE excused \cup {f.at}
      BY <1>7, <2>2 DEF setStat
    <3> SUFFICES ASSUME NEW l \in Looked
                 PROVE  stats'[l] \in {Missing, Stat(l[2])'} \/ l \in excused' \/ WillHear(l)'
      BY <3>1 DEF StatInv
    <3>2. CASE l = f.at
      BY <1>2, <3>1, <3>2 DEF StatInv
    <3>3. CASE l # f.at
      BY <1>2, <1>3, <3>1, <3>3 DEF StatInv
    <3> QED
      BY <3>2, <3>3
  <2> QED
    BY <2>1, <2>2
<1> QED
  BY <1>4, <1>5, <1>6, <1>7

LEMMA StatInvNext == BucketInv /\ StatInv /\ [BucketNext]_bucketVars => StatInv'
<1> SUFFICES ASSUME BucketInv, StatInv, [BucketNext]_bucketVars PROVE StatInv'
  OBVIOUS
<1>1. CASE BucketNext
  <2>1. Watched /\ Move
    BY <1>1 DEF BucketNext, Watched
  <2> QED
    BY <2>1, ActionKeepsStats, UploadKeepsStats, CacheKeepsStats DEF Move
<1>2. CASE UNCHANGED bucketVars
  <2>1. obj' = obj /\ act' = act /\ stats' = stats /\ excused' = excused
    BY <1>2 DEF bucketVars
  <2>2. \A l : Stat(l[2])' = Stat(l[2])
    BY <2>1, SameStat
  <2>3. \A l : WillHear(l)' <=> WillHear(l)
    BY <2>1 DEF WillHear, Active, Affected, Named, DestPath
  <2> QED
    BY <2>1, <2>2, <2>3 DEF StatInv
<1> QED
  BY <1>1, <1>2

(* StatsAreCurrent for any keys, actions, tabs and failures: a stat that a tab has
   cached is what a HEAD or a listing would answer now, unless an action of that
   tab is about the path and will tell the cache, or the stat is one of those
   known to be outdated: changed by another tab, by a resumed upload or by an
   action that failed, above or below what was invalidated, or answered late. *)
THEOREM BucketStatsAreCurrent == BucketSpec => []StatsAreCurrent
<1>1. BucketInit => StatInv
  BY DEF BucketInit, StatInv
<1>2. StatInv => StatsAreCurrent
  BY DEF StatInv, StatsAreCurrent, WillHear
<1> QED
  BY <1>1, <1>2, BucketInvInit, BucketInvNext, StatInvNext, PTL DEF BucketSpec
=============================================================================
