--------------------------- MODULE LocalFsProofs ---------------------------
(***************************************************************************)
(* Proofs about LocalFs: what a file request may destroy, what of its      *)
(* changes is announced, and what a copy or a move leaves, for any served  *)
(* directory, any requests and any number of failures.                     *)
(***************************************************************************)
EXTENDS LocalFs, TLAPS, SequenceTheorems

-----------------------------------------------------------------------------
(* Prefixes of sequences. *)

(* A sequence is under another one when it begins with its elements. *)
LEMMA UnderIs ==
  ASSUME NEW S, NEW p \in Seq(S), NEW q \in Seq(S)
  PROVE  Under(p, q) <=> (Len(p) <= Len(q) /\ \A i \in 1..Len(p) : p[i] = q[i])
  BY DEF Under, IsPrefix

(* Being under is a partial order, *)
LEMMA UnderOrder ==
  ASSUME NEW S
  PROVE  /\ \A p \in Seq(S) : Under(p, p) /\ Under(<<>>, p)
         /\ \A p, q, r \in Seq(S) : Under(p, q) /\ Under(q, r) => Under(p, r)
         /\ \A p, q \in Seq(S) : Under(p, q) /\ Len(p) >= Len(q) => p = q
         /\ \A p, q \in Seq(S) : Under(p, q) /\ Under(q, p) => p = q
<1>1. \A p \in Seq(S) : Under(p, p) /\ Under(<<>>, p)
  <2> SUFFICES ASSUME NEW p \in Seq(S) PROVE Under(p, p) /\ Under(<<>>, p)
    OBVIOUS
  <2>1. Under(p, p)
    BY UnderIs
  <2>2. SubSeq(p, 1, 0) = <<>> /\ Len(<<>>) = 0 /\ SubSeq(<<>>, 1, 0) = <<>> /\ 0 <= Len(p)
    BY SubSeqEmpty
  <2>3. Under(<<>>, p)
    BY <2>2 DEF Under, IsPrefix
  <2> QED
    BY <2>1, <2>3
<1>2. \A p, q, r \in Seq(S) : Under(p, q) /\ Under(q, r) => Under(p, r)
  BY UnderIs
<1>3. \A p, q \in Seq(S) : Under(p, q) /\ Len(p) >= Len(q) => p = q
  <2> SUFFICES ASSUME NEW p \in Seq(S), NEW q \in Seq(S), Under(p, q), Len(p) >= Len(q)
               PROVE  p = q
    OBVIOUS
  <2>1. Len(p) = Len(q) /\ \A i \in 1..Len(p) : p[i] = q[i]
    BY UnderIs
  <2> QED
    BY <2>1, SeqEqual
<1>4. \A p, q \in Seq(S) : Under(p, q) /\ Under(q, p) => p = q
  <2> SUFFICES ASSUME NEW p \in Seq(S), NEW q \in Seq(S), Under(p, q), Under(q, p)
               PROVE  p = q
    OBVIOUS
  <2>1. Len(p) >= Len(q)
    BY UnderIs
  <2> QED
    BY <2>1, <1>3
<1> QED
  BY <1>1, <1>2, <1>3, <1>4

(* and two sequences above the same one are comparable. *)
LEMMA UnderComparable ==
  ASSUME NEW S, NEW p \in Seq(S), NEW q \in Seq(S), NEW r \in Seq(S),
         Under(p, r), Under(q, r)
  PROVE  Under(p, q) \/ Under(q, p)
  BY UnderIs

(* What follows a sequence: a sequence under p is p and what follows. *)
LEMMA UnderConcat ==
  ASSUME NEW S, NEW p \in Seq(S), NEW s \in Seq(S)
  PROVE  p \o s \in Seq(S) /\ Len(p \o s) = Len(p) + Len(s) /\ Under(p, p \o s)
<1>1. p \o s \in Seq(S) /\ Len(p \o s) = Len(p) + Len(s)
      /\ \A i \in 1..Len(p) : (p \o s)[i] = p[i]
  OBVIOUS
<1>2. Len(p) <= Len(p \o s)
  BY <1>1
<1> QED
  BY <1>1, <1>2, UnderIs

LEMMA UnderSplit ==
  ASSUME NEW S, NEW p \in Seq(S), NEW q \in Seq(S), Under(p, q)
  PROVE  /\ SubSeq(q, Len(p) + 1, Len(q)) \in Seq(S)
         /\ q = p \o SubSeq(q, Len(p) + 1, Len(q))
<1> DEFINE t == SubSeq(q, Len(p) + 1, Len(q))
<1>1. Len(p) <= Len(q) /\ \A i \in 1..Len(p) : p[i] = q[i]
  BY UnderIs
<1>2. t \in Seq(S) /\ Len(t) = Len(q) - Len(p)
      /\ \A i \in 1..Len(t) : t[i] = q[Len(p) + i]
  BY <1>1
<1> HIDE DEF t
<1>3. Len(p \o t) = Len(q) /\ p \o t \in Seq(S)
  BY <1>2
<1>4. \A i \in 1..Len(q) : (p \o t)[i] = q[i]
  BY <1>1, <1>2
<1>5. q = p \o t
  BY <1>3, <1>4, SeqEqual
<1> QED
  BY <1>2, <1>5 DEF t

LEMMA UnderTail ==
  ASSUME NEW S, NEW p \in Seq(S), NEW q \in Seq(S), Under(p, q)
  PROVE  \E s \in Seq(S) : q = p \o s
<1> DEFINE t == SubSeq(q, Len(p) + 1, Len(q))
<1>1. t \in Seq(S) /\ q = p \o t
  BY UnderSplit
<1> HIDE DEF t
<1> QED
  BY <1>1

(* A common beginning does not matter. *)
LEMMA UnderSame ==
  ASSUME NEW S, NEW p \in Seq(S), NEW s \in Seq(S), NEW t \in Seq(S)
  PROVE  /\ Under(p \o s, p \o t) <=> Under(s, t)
         /\ (p \o s = p \o t) => s = t
<1>1. p \o s \in Seq(S) /\ p \o t \in Seq(S)
      /\ Len(p \o s) = Len(p) + Len(s) /\ Len(p \o t) = Len(p) + Len(t)
  OBVIOUS
<1>2. /\ \A i \in 1..Len(p) : (p \o s)[i] = (p \o t)[i]
      /\ \A i \in 1..Len(s) : (p \o s)[Len(p) + i] = s[i]
      /\ \A i \in 1..Len(t) : (p \o t)[Len(p) + i] = t[i]
  OBVIOUS
<1>a. Under(p \o s, p \o t) <=>
        (/\ Len(p \o s) <= Len(p \o t)
         /\ \A i \in 1..Len(p \o s) : (p \o s)[i] = (p \o t)[i])
  <2> DEFINE a == p \o s
             b == p \o t
  <2>1. a \in Seq(S) /\ b \in Seq(S)
    BY <1>1
  <2> HIDE DEF a, b
  <2>2. Under(a, b) <=> (Len(a) <= Len(b) /\ \A i \in 1..Len(a) : a[i] = b[i])
    BY <2>1, UnderIs
  <2> QED
    BY <2>2 DEF a, b
<1>3. ASSUME Under(p \o s, p \o t) PROVE Under(s, t)
  <2>1. Len(p \o s) <= Len(p \o t) /\ \A i \in 1..Len(p \o s) : (p \o s)[i] = (p \o t)[i]
    BY <1>a, <1>3
  <2>2. \A i \in 1..Len(s) : s[i] = t[i]
    <3> SUFFICES ASSUME NEW i \in 1..Len(s) PROVE s[i] = t[i]
      OBVIOUS
    <3>1. Len(p) + i \in 1..Len(p \o s) /\ i \in 1..Len(t)
      BY <1>1, <2>1
    <3> QED
      BY <3>1, <2>1, <1>2
  <2> QED
    BY <1>1, <2>1, <2>2, UnderIs
<1>4. ASSUME Under(s, t) PROVE Under(p \o s, p \o t)
  <2>1. Len(s) <= Len(t) /\ \A i \in 1..Len(s) : s[i] = t[i]
    BY <1>4, UnderIs
  <2>2. \A i \in 1..Len(p \o s) : (p \o s)[i] = (p \o t)[i]
    BY <1>1, <2>1
  <2> QED
    BY <1>1, <2>1, <2>2, <1>a
<1>5. ASSUME p \o s = p \o t PROVE s = t
  <2>1. Under(p \o s, p \o t) /\ Under(p \o t, p \o s)
    BY <1>1, <1>5, UnderOrder
  <2>2. Under(s, t)
    BY <2>1, <1>3
  <2>3. Len(s) >= Len(t)
    BY <1>1, <1>5
  <2> QED
    BY <2>2, <2>3, UnderOrder
<1> QED
  BY <1>3, <1>4, <1>5

(* Two sequences that become the same with the same end are the same. *)
LEMMA SameEnd ==
  ASSUME NEW S, NEW p \in Seq(S), NEW q \in Seq(S), NEW s \in Seq(S), p \o s = q \o s
  PROVE  p = q
<1>1. Len(p) = Len(q)
  <2>1. Len(p \o s) = Len(p) + Len(s) /\ Len(q \o s) = Len(q) + Len(s)
    OBVIOUS
  <2> QED
    BY <2>1
<1>2. \A i \in 1..Len(p) : p[i] = q[i]
  <2>1. \A i \in 1..Len(p) : (p \o s)[i] = p[i]
    OBVIOUS
  <2>2. \A i \in 1..Len(q) : (q \o s)[i] = q[i]
    OBVIOUS
  <2> QED
    BY <2>1, <2>2, <1>1
<1> QED
  BY <1>1, <1>2, SeqEqual

(* The last element and what is before it. *)
LEMMA ParentIs ==
  ASSUME NEW S, NEW p \in Seq(S), p # <<>>
  PROVE  /\ Parent(p) \in Seq(S) /\ Len(Parent(p)) = Len(p) - 1
         /\ Last(p) \in S /\ p = Append(Parent(p), Last(p))
         /\ Under(Parent(p), p) /\ Parent(p) # p
<1>1. Len(p) \in Nat /\ Len(p) # 0 /\ Len(p) \in 1..Len(p) /\ 0 < Len(p)
  OBVIOUS
<1>2. Parent(p) \in Seq(S) /\ Len(Parent(p)) = Len(p) - 1
      /\ \A i \in 1..Len(p) - 1 : Parent(p)[i] = p[i]
  <2> DEFINE n == Len(p) - 1
  <2>1. n \in Nat /\ 0 <= n /\ n <= Len(p) /\ n = Len(p) - 1
    BY <1>1
  <2> HIDE DEF n
  <2>2. SubSeq(p, 1, n) \in Seq(S) /\ Len(SubSeq(p, 1, n)) = n
        /\ \A i \in 1..n : SubSeq(p, 1, n)[i] = p[i]
    BY <2>1
  <2> QED
    BY <2>2, Zenon DEF n, Parent, Front
<1>3. Last(p) \in S
  BY <1>1 DEF Last
<1>4. p = Append(Parent(p), Last(p))
  <2>1. Append(Parent(p), Last(p)) \in Seq(S) /\ Len(Append(Parent(p), Last(p))) = Len(p)
    BY <1>1, <1>2, <1>3
  <2>2. \A i \in 1..Len(p) : Append(Parent(p), Last(p))[i] = p[i]
    BY <1>1, <1>2, <1>3 DEF Last
  <2> QED
    BY <2>1, <2>2, SeqEqual
<1>5. Under(Parent(p), p)
  BY <1>1, <1>2, UnderIs
<1> QED
  BY <1>1, <1>2, <1>3, <1>4, <1>5

LEMMA AppendIs ==
  ASSUME NEW S, NEW p \in Seq(S), NEW e \in S
  PROVE  /\ Append(p, e) \in Seq(S) /\ Append(p, e) # <<>> /\ Append(p, e) # p
         /\ Len(Append(p, e)) = Len(p) + 1
         /\ Parent(Append(p, e)) = p /\ Last(Append(p, e)) = e
         /\ Under(p, Append(p, e))
<1>1. Append(p, e) \in Seq(S) /\ Len(Append(p, e)) = Len(p) + 1
      /\ Append(p, e)[Len(p) + 1] = e /\ \A i \in 1..Len(p) : Append(p, e)[i] = p[i]
  OBVIOUS
<1>2. Len(p) \in Nat /\ Len(<<>>) = 0
  OBVIOUS
<1>3. Append(p, e) # <<>> /\ Append(p, e) # p
  BY <1>1, <1>2
<1>4. Last(Append(p, e)) = e
  BY <1>1 DEF Last
<1>5. Parent(Append(p, e)) = p
  <2>1. /\ Parent(Append(p, e)) \in Seq(S) /\ Len(Parent(Append(p, e))) = Len(p)
        /\ \A i \in 1..Len(p) : Parent(Append(p, e))[i] = p[i]
    BY <1>1, <1>2 DEF Parent, Front
  <2> QED
    BY <2>1, SeqEqual
<1>6. Under(p, Append(p, e))
  <2>1. Under(p, Append(p, e)) <=>
          (Len(p) <= Len(Append(p, e)) /\ \A i \in 1..Len(p) : p[i] = Append(p, e)[i])
    BY <1>1, UnderIs, Zenon
  <2> QED
    BY <1>1, <1>2, <2>1
<1> QED
  BY <1>1, <1>3, <1>4, <1>5, <1>6

LEMMA ParentOfAppend ==
  ASSUME NEW S, NEW p \in Seq(S), NEW e, Append(p, e) \in Seq(S)
  PROVE  /\ Parent(Append(p, e)) = p /\ Under(p, Append(p, e))
         /\ p # Append(p, e) /\ Append(p, e) # <<>>
<1>1. Len(Append(p, e)) = Len(p) + 1 /\ Append(p, e)[Len(p) + 1] = e
  OBVIOUS
<1>2. e \in S
  <2>1. Len(p) + 1 \in 1..Len(Append(p, e))
    BY <1>1
  <2> QED
    BY <1>1, <2>1, ElementOfSeq
<1> QED
  BY <1>2, AppendIs

(* What is above p and is not p is above its parent. *)
LEMMA UnderParent ==
  ASSUME NEW S, NEW p \in Seq(S), NEW q \in Seq(S), Under(q, p), q # p
  PROVE  p # <<>> /\ Under(q, Parent(p))
<1>1. Len(q) <= Len(p) /\ \A i \in 1..Len(q) : q[i] = p[i]
  BY UnderIs
<1>2. Len(q) < Len(p)
  BY <1>1, UnderOrder
<1>3. p # <<>>
  BY <1>2
<1>4. Parent(p) \in Seq(S) /\ Len(Parent(p)) = Len(p) - 1
      /\ \A i \in 1..Len(p) - 1 : Parent(p)[i] = p[i]
  BY <1>2 DEF Parent, Front
<1>5. Under(q, Parent(p))
  BY <1>1, <1>2, <1>4, UnderIs
<1> QED
  BY <1>3, <1>5

LEMMA UnderAppend ==
  ASSUME NEW S, NEW p \in Seq(S), NEW q \in Seq(S), NEW e \in S, Under(q, Append(p, e))
  PROVE  Under(q, p) \/ q = Append(p, e)
<1> DEFINE a == Append(p, e)
<1>1. a \in Seq(S) /\ Parent(a) = p
  BY AppendIs
<1> HIDE DEF a
<1>2. Under(q, a) => q = a \/ Under(q, Parent(a))
  BY <1>1, UnderParent
<1> QED
  BY <1>1, <1>2 DEF a

(* On the way from q down to p there is a child of q. *)
LEMMA NextDown ==
  ASSUME NEW S, NEW p \in Seq(S), NEW q \in Seq(S), Under(q, p), q # p
  PROVE  \E c \in Seq(S) : c # <<>> /\ Parent(c) = q /\ Under(c, p)
<1>1. Len(q) <= Len(p) /\ \A i \in 1..Len(q) : q[i] = p[i]
  BY UnderIs
<1>2. Len(q) < Len(p) /\ Len(q) \in Nat /\ Len(p) \in Nat
  BY <1>1, UnderOrder
<1>3. p[Len(q) + 1] \in S
  BY <1>2
<1> DEFINE c == Append(q, p[Len(q) + 1])
<1>4. /\ c \in Seq(S) /\ c # <<>> /\ Parent(c) = q /\ Len(c) = Len(q) + 1
  BY <1>3, AppendIs
<1>5. \A i \in 1..Len(c) : c[i] = p[i]
  BY <1>1, <1>2, <1>3
<1> HIDE DEF c
<1>6. Under(c, p)
  BY <1>2, <1>4, <1>5, UnderIs
<1> QED
  BY <1>4, <1>6

(* Following a path and then adding an element. *)
LEMMA ConcatAppend ==
  ASSUME NEW S, NEW p \in Seq(S), NEW s \in Seq(S), NEW e \in S
  PROVE  p \o Append(s, e) = Append(p \o s, e)
<1>1. /\ Append(s, e) \in Seq(S) /\ Len(Append(s, e)) = Len(s) + 1
      /\ p \o s \in Seq(S) /\ Len(p \o s) = Len(p) + Len(s)
  OBVIOUS
<1>2. /\ p \o Append(s, e) \in Seq(S) /\ Len(p \o Append(s, e)) = Len(p) + Len(s) + 1
      /\ Append(p \o s, e) \in Seq(S) /\ Len(Append(p \o s, e)) = Len(p) + Len(s) + 1
  BY <1>1
<1>3. \A i \in 1..(Len(p) + Len(s) + 1) : (p \o Append(s, e))[i] = Append(p \o s, e)[i]
  BY <1>1, <1>2
<1> QED
  BY <1>2, <1>3, SeqEqual

(* Elements of sequences. *)
LEMMA ToSetIs ==
  ASSUME NEW S, NEW s \in Seq(S)
  PROVE  /\ ToSet(s) \subseteq S
         /\ s \in Seq(ToSet(s))
         /\ s # <<>> => /\ Head(s) \in ToSet(s) /\ Head(s) \in S
                        /\ Tail(s) \in Seq(S)
<1>1. ToSet(s) \subseteq S /\ s \in Seq(ToSet(s))
  BY DEF ToSet
<1>2. s # <<>> => Head(s) \in ToSet(s) /\ Head(s) \in S /\ Tail(s) \in Seq(S)
  BY DEF ToSet
<1> QED
  BY <1>1, <1>2
-----------------------------------------------------------------------------
(* Paths of the tree. *)

Name == Names \cup {Meta}

(* A path is the server's own directory or a short sequence of entry names. *)
LEMMA PathsAre ==
  ASSUME NEW p
  PROVE  p \in Paths <=> (p = <<Meta>> \/ (p \in Seq(Names) /\ Len(p) <= Depth))
<1>1. ASSUME NEW n \in 0..Depth, p \in [1..n -> Names]
      PROVE  p \in Seq(Names) /\ Len(p) <= Depth
  <2>1. n \in Nat /\ n <= Depth /\ Depth \in Nat
    BY LocalFsAssumption
  <2>2. p \in Seq(Names) /\ Len(p) = n
    BY <1>1, <2>1, IsASeq
  <2> QED
    BY <2>1, <2>2
<1>2. ASSUME p \in Seq(Names), Len(p) <= Depth
      PROVE  \E n \in 0..Depth : p \in [1..n -> Names]
  <2>1. Len(p) \in 0..Depth /\ p \in [1..Len(p) -> Names]
    BY <1>2, LocalFsAssumption
  <2> QED
    BY <2>1
<1>3. p \in UNION {[1..n -> Names] : n \in 0..Depth} <=>
        \E n \in 0..Depth : p \in [1..n -> Names]
  BY Zenon
<1> QED
  BY <1>1, <1>2, <1>3 DEF Paths

LEMMA PathFacts ==
  /\ Meta \notin Names /\ Names \subseteq Name /\ Meta \in Name
  /\ Paths \subseteq Seq(Name) /\ Seq(Names) \subseteq Seq(Name)
  /\ Root \in Paths /\ <<Meta>> \in Paths
<1>1. Meta \notin Names /\ Names \subseteq Name /\ Meta \in Name
  BY LocalFsAssumption DEF Name
<1>2. Seq(Names) \subseteq Seq(Name)
  BY <1>1, SeqMonotonic
<1>3. <<Meta>> \in Seq(Name)
  BY <1>1
<1>4. Root \in Seq(Names) /\ Len(Root) = 0
  BY DEF Root
<1>5. Root \in Paths /\ <<Meta>> \in Paths
  <2>1. Len(Root) <= Depth
    BY <1>4, LocalFsAssumption
  <2> QED
    BY <2>1, <1>4, PathsAre, Zenon
<1>6. Paths \subseteq Seq(Name)
  BY <1>2, <1>3, PathsAre
<1> QED
  BY <1>1, <1>2, <1>5, <1>6

(* A sequence above an entry is one of the paths. *)
LEMMA PrefixIsPath ==
  ASSUME NEW p \in Paths, NEW q \in Seq(Name), Under(q, p)
  PROVE  q \in Paths
<1>1. p \in Seq(Name)
  BY PathFacts
<1>2. Len(q) <= Len(p) /\ \A i \in 1..Len(q) : q[i] = p[i]
  BY <1>1, UnderIs
<1>3. CASE p = <<Meta>>
  <2>1. Len(p) = 1
    BY <1>3
  <2>2. CASE Len(q) = 0
    <3>1. q = <<>>
      BY <2>2
    <3> QED
      BY <3>1, PathFacts DEF Root
  <2>3. CASE Len(q) = 1
    <3>1. q = p
      BY <2>1, <2>3, <1>1, UnderOrder
    <3> QED
      BY <3>1
  <2>4. Len(q) \in Nat /\ Len(q) <= 1
    BY <2>1, <1>2
  <2>5. Len(q) = 0 \/ Len(q) = 1
    <3>1. \A n \in Nat : n <= 1 => n = 0 \/ n = 1
      OBVIOUS
    <3> QED
      BY <3>1, <2>4, Zenon
  <2> QED
    BY <2>2, <2>3, <2>5
<1>4. CASE p \in Seq(Names) /\ Len(p) <= Depth
  <2>1. Len(q) \in Nat /\ Len(p) \in Nat /\ Depth \in Nat
    BY <1>1, LocalFsAssumption
  <2>2. \A i \in 1..Len(q) : q[i] \in Names
    BY <1>2, <1>4, <2>1
  <2>3. q \in Seq(Names)
    BY <2>2
  <2>4. Len(q) <= Depth
    BY <2>1, <1>2, <1>4
  <2> QED
    BY <2>3, <2>4, PathsAre
<1> QED
  BY <1>3, <1>4, PathsAre

(* A path that is neither the root nor the server's has entry names only, and
   so has everything under it. *)
Plain(p) == p \in Paths /\ p # Root /\ ~IsMeta(p)

LEMMA PlainIs ==
  ASSUME NEW p, Plain(p)
  PROVE  p \in Seq(Names) /\ p \in Seq(Name) /\ Len(p) <= Depth /\ Len(p) > 0
<1>1. p # <<Meta>>
  <2>1. Under(<<Meta>>, <<Meta>>)
    BY PathFacts, UnderOrder
  <2> QED
    BY <2>1 DEF Plain, IsMeta
<1>2. p \in Seq(Names) /\ Len(p) <= Depth
  BY <1>1, PathsAre DEF Plain
<1>3. Len(p) > 0
  BY <1>2 DEF Plain, Root
<1> QED
  BY <1>2, <1>3, PathFacts

LEMMA BelowPlain ==
  ASSUME NEW p, Plain(p), NEW s \in Seq(Name)
  PROVE  /\ p \o s \in Paths =>
              /\ s \in Seq(Names) /\ s \in Paths /\ Plain(p \o s)
              /\ Len(p) + Len(s) <= Depth
         /\ s \in Seq(Names) /\ Len(p) + Len(s) <= Depth => p \o s \in Paths
<1>1. p \in Seq(Names) /\ p \in Seq(Name) /\ Len(p) <= Depth /\ Len(p) > 0
  BY PlainIs
<1>2. p \o s \in Seq(Name) /\ Len(p \o s) = Len(p) + Len(s) /\ Under(p, p \o s)
  BY <1>1, UnderConcat
<1>3. Len(p) \in Nat /\ Len(s) \in Nat /\ Depth \in Nat
  BY <1>1, LocalFsAssumption
<1>4. ASSUME p \o s \in Paths
      PROVE  /\ s \in Seq(Names) /\ s \in Paths /\ Plain(p \o s)
             /\ Len(p) + Len(s) <= Depth
  <2>1. p \o s # <<Meta>>
    <3>1. (p \o s)[1] = p[1] /\ p[1] \in Names
      BY <1>1
    <3>2. (p \o s)[1] # Meta
      BY <3>1, PathFacts
    <3>3. <<Meta>>[1] = Meta
      OBVIOUS
    <3> QED
      BY <3>2, <3>3, Zenon
  <2>2. p \o s \in Seq(Names) /\ Len(p) + Len(s) <= Depth
    BY <1>2, <1>4, <2>1, PathsAre
  <2>3. s \in Seq(Names)
    <3>1. \A i \in 1..Len(s) : s[i] = (p \o s)[Len(p) + i] /\ Len(p) + i \in 1..Len(p \o s)
      BY <1>1, <1>2, <1>3
    <3>2. \A i \in 1..Len(s) : s[i] \in Names
      BY <3>1, <2>2
    <3> QED
      BY <3>2
  <2>4. s \in Paths
    BY <2>2, <2>3, <1>3, PathsAre
  <2>5. ~Under(<<Meta>>, p \o s)
    <3> SUFFICES ASSUME Under(<<Meta>>, p \o s) PROVE FALSE
      OBVIOUS
    <3> DEFINE m == <<Meta>>
               a == p \o s
    <3>1. m \in Seq(Name) /\ Len(m) = 1 /\ m[1] = Meta /\ a \in Seq(Name) /\ Under(m, a)
      BY <1>2, PathFacts
    <3> HIDE DEF m, a
    <3>a. a[1] = Meta
      BY <3>1, UnderIs
    <3>2. (p \o s)[1] = Meta
      BY <3>a DEF a
    <3>3. (p \o s)[1] = p[1] /\ p[1] \in Names
      BY <1>1
    <3> QED
      BY <3>2, <3>3, PathFacts
  <2>6. p \o s # Root
    BY <1>1, <1>2, <1>3 DEF Root
  <2> QED
    BY <1>4, <2>2, <2>3, <2>4, <2>5, <2>6 DEF Plain, IsMeta
<1>5. ASSUME s \in Seq(Names), Len(p) + Len(s) <= Depth PROVE p \o s \in Paths
  <2>1. p \o s \in Seq(Names)
    BY <1>1, <1>5
  <2> QED
    BY <2>1, <1>2, <1>5, PathsAre
<1> QED
  BY <1>4, <1>5

(* A path under a plain one is that one and what follows. *)
LEMMA UnderPlain ==
  ASSUME NEW p, Plain(p), NEW q \in Paths, Under(p, q)
  PROVE  \E s \in Paths : /\ s \in Seq(Names) /\ q = p \o s /\ s = SubSeq(q, Len(p) + 1, Len(q))
                          /\ Plain(q)
<1>1. p \in Seq(Name) /\ q \in Seq(Name)
  BY PlainIs, PathFacts
<1> DEFINE s == SubSeq(q, Len(p) + 1, Len(q))
<1>2. s \in Seq(Name) /\ q = p \o s
  BY <1>1, UnderSplit
<1> HIDE DEF s
<1>3. s \in Seq(Names) /\ s \in Paths /\ Plain(q)
  BY <1>2, BelowPlain
<1> QED
  BY <1>2, <1>3 DEF s
-----------------------------------------------------------------------------
(* The inductive invariant. *)

Kinds == Contents \cup {Dir, Nothing, Empty}

RequestShape ==
    [phase : Phases, body : Bodies, left : Seq(Paths), from : Paths, to : Paths,
     todo : SUBSET Paths, ok : BOOLEAN]

Types ==
    /\ node \in [Paths -> Kinds]
    /\ req \in [Requests -> RequestShape]
    /\ unseen \subseteq Paths /\ failures \in 0..MaxFailures
    /\ atRisk \subseteq Contents /\ disturbed \subseteq Requests
    /\ image = [r \in Requests |-> image[r]]

(* What there is is in directories, up to the root. *)
Whole == \A p, q \in Paths : Under(q, p) /\ q # p /\ Exists(p) => node[q] = Dir

AtWork == {"mkdir", "clear", "rename", "copy", "remove"}

(* What a request works on, and that it is one its body allows. *)
Placed(x) ==
    x.phase \in AtWork =>
        /\ x.from \in Sources(x.body) /\ x.to = Dest(x.body, x.from)
        /\ Plain(x.to)
        /\ x.phase = "mkdir" <=> x.body.op = "mkdir"
        /\ x.body.op # "mkdir" => Plain(x.from)
        /\ x.body.op = "delete" => x.phase = "remove"
        /\ x.body.op = "move" => x.from # x.to

Going(x) ==
    /\ x.phase = "clear" => x.body.op \in {"rename", "copy", "move"} /\ x.body.overwrite
    /\ x.phase = "rename" =>
         x.body.op \in {"rename", "move"} /\ Parent(x.from) = Parent(x.to)
    /\ x.phase = "copy" => x.body.op \in {"copy", "move"}
    /\ x.phase = "remove" => x.body.op \in {"delete", "move"}
    /\ x.phase \in {"clear", "rename"} => x.todo = {Root} /\ x.from # x.to
    /\ x.phase \in {"clear", "copy", "remove"} /\ x.from # x.to => ~Under(x.from, x.to)

(* What is left to copy: entries of the source, none of them in another one. *)
Walk(x) ==
    x.phase = "copy" =>
        /\ \A t \in x.todo : x.from \o t \in Paths
        /\ \A t, u \in x.todo : Under(t, u) => t = u

Formed(x) ==
    /\ ToSet(x.left) \subseteq Sources(x.body)
    /\ x.ok => x.phase = "done"
    /\ Placed(x) /\ Going(x) /\ Walk(x)

Shaped == Types /\ Whole /\ \A r \in Requests : Formed(req[r])

(* Bodies and what they name. *)
LEMMA BodyFacts ==
  ASSUME NEW b \in Bodies
  PROVE  /\ b.op \in Ops /\ b.targets \in Seq(Paths) /\ b.dir \in Paths
         /\ b.dir \in Seq(Name) /\ b.overwrite \in BOOLEAN
         /\ Sources(b) \subseteq Paths /\ Sources(b) \subseteq Seq(Name)
         /\ ToSet(b.targets) = Sources(b)
<1>1. b \in Body
  BY LocalFsAssumption
<1>2. b.op \in Ops /\ b.targets \in Seq(Paths) /\ b.dir \in Paths /\ b.overwrite \in BOOLEAN
  BY <1>1 DEF Body
<1>3. Sources(b) \subseteq Paths
  BY <1>2, ToSetIs DEF Sources
<1> QED
  BY <1>2, <1>3, PathFacts DEF Sources

(* A request of another phase is one the step did not touch. *)
LEMMA SetIs ==
  ASSUME Types, NEW r \in Requests, NEW e \in RequestShape, Set(r, e)
  PROVE  /\ req' \in [Requests -> RequestShape]
         /\ req'[r] = e /\ \A u \in Requests \ {r} : req'[u] = req[u]
  BY DEF Types, Set

(* The fields of a request, and of a request that goes on. *)
LEMMA ShapeIs ==
  ASSUME NEW x \in RequestShape
  PROVE  /\ x.phase \in Phases /\ x.body \in Bodies /\ x.left \in Seq(Paths)
         /\ x.from \in Paths /\ x.to \in Paths /\ x.todo \subseteq Paths /\ x.ok \in BOOLEAN
         /\ x.from \in Seq(Name) /\ x.to \in Seq(Name) /\ x.todo \subseteq Seq(Name)
<1>1. /\ x.phase \in Phases /\ x.body \in Bodies /\ x.left \in Seq(Paths)
      /\ x.from \in Paths /\ x.to \in Paths /\ x.todo \subseteq Paths /\ x.ok \in BOOLEAN
  BY DEF RequestShape
<1> QED
  BY <1>1, PathFacts

LEMMA PhaseIs ==
  ASSUME NEW x \in RequestShape, NEW f \in Phases
  PROVE  /\ [x EXCEPT !.phase = f] \in RequestShape
         /\ [x EXCEPT !.phase = f].phase = f
         /\ [x EXCEPT !.phase = f].body = x.body
         /\ [x EXCEPT !.phase = f].left = x.left
         /\ [x EXCEPT !.phase = f].from = x.from
         /\ [x EXCEPT !.phase = f].to = x.to
         /\ [x EXCEPT !.phase = f].todo = x.todo
         /\ [x EXCEPT !.phase = f].ok = x.ok
  BY DEF RequestShape

Refused(x, y) ==
    /\ y.phase = "done" /\ ~y.ok /\ y.body = x.body /\ y.left = x.left
    /\ y.from = x.from /\ y.to = x.to /\ y.todo = x.todo

Goes(x, y, f) ==
    /\ y.phase = f /\ y.ok = x.ok /\ y.body = x.body /\ y.left = x.left
    /\ y.from = x.from /\ y.to = x.to /\ y.todo = x.todo

(* What a step of r does to the requests when it refuses or only goes on. *)
Alone(r) ==
    /\ req' \in [Requests -> RequestShape]
    /\ \A u \in Requests \ {r} : req'[u] = req[u]

LEMMA RefuseIs ==
  ASSUME Types, NEW r \in Requests, Refuse(r)
  PROVE  Alone(r) /\ Refused(req[r], req'[r])
<1> PICK x : x = req[r]
  OBVIOUS
<1> DEFINE y == [x EXCEPT !.phase = "done", !.ok = FALSE]
<1>1. x \in RequestShape
  BY DEF Types
<1>2. y \in RequestShape /\ Refused(x, y)
  BY <1>1 DEF RequestShape, Phases, Refused
<1>3. Set(r, y)
  BY DEF Refuse
<1> HIDE DEF y
<1>4. req' \in [Requests -> RequestShape] /\ req'[r] = y
      /\ \A u \in Requests \ {r} : req'[u] = req[u]
  BY <1>2, <1>3, SetIs
<1> QED
  BY <1>2, <1>4 DEF Alone

LEMMA GoesIs ==
  ASSUME Types, NEW r \in Requests, NEW f \in Phases,
         Set(r, [req[r] EXCEPT !.phase = f])
  PROVE  Alone(r) /\ Goes(req[r], req'[r], f)
<1> PICK x : x = req[r]
  OBVIOUS
<1> DEFINE y == [x EXCEPT !.phase = f]
<1>1. x \in RequestShape
  BY DEF Types
<1>2. y \in RequestShape /\ Goes(x, y, f)
  BY <1>1, PhaseIs DEF Goes
<1>3. Set(r, y)
  OBVIOUS
<1> HIDE DEF y
<1>4. req' \in [Requests -> RequestShape] /\ req'[r] = y
      /\ \A u \in Requests \ {r} : req'[u] = req[u]
  BY <1>2, <1>3, SetIs
<1> QED
  BY <1>2, <1>4 DEF Alone
-----------------------------------------------------------------------------
(* What a step does to the tree: directories appear down to t, a file appears
   at t in directories that appear with it, an entry goes that has nothing under
   it, or one takes the place of another. *)

Opens(t) ==
    /\ node' \in [Paths -> Kinds]
    /\ \A q \in Paths : Under(q, t) => node[q] \in {Dir, Nothing} /\ node'[q] = Dir
    /\ \A q \in Paths : ~Under(q, t) => node'[q] = node[q]

Puts(t, c) ==
    /\ node' \in [Paths -> Kinds]
    /\ c \in Contents \cup {Empty} /\ node[t] # Dir /\ node'[t] = c
    /\ \A q \in Paths : Under(q, t) /\ q # t => node[q] \in {Dir, Nothing} /\ node'[q] = Dir
    /\ \A q \in Paths : ~Under(q, t) => node'[q] = node[q]

Drops(t) ==
    /\ node' \in [Paths -> Kinds]
    /\ Exists(t) /\ node'[t] = Nothing
    /\ \A q \in Paths : Under(t, q) /\ q # t => node[q] = Nothing
    /\ \A q \in Paths \ {t} : node'[q] = node[q]

Moves(p, d) ==
    /\ node' \in [Paths -> Kinds]
    /\ Exists(p)
    /\ \A q \in Paths : Under(d, q) /\ q # d => node[q] = Nothing
    /\ Exists(d) => SameKind(p, d)
    /\ \A s \in Seq(Name) : d \o s \in Paths =>
          p \o s \in Paths /\ node'[d \o s] = node[p \o s]
    /\ \A q \in Paths : Under(p, q) => node'[q] = Nothing
    /\ \A q \in Paths : ~Under(p, q) /\ ~Under(d, q) => node'[q] = node[q]

LEMMA KindFacts ==
  /\ Dir # Nothing /\ Dir # Empty /\ Nothing # Empty
  /\ Dir \notin Contents /\ Nothing \notin Contents /\ Empty \notin Contents
  /\ Dir \in Kinds /\ Nothing \in Kinds /\ Empty \in Kinds /\ Contents \subseteq Kinds
  BY LocalFsAssumption DEF Kinds

(* An entry without children has nothing under it. *)
LEMMA NoChildren ==
  ASSUME Whole, NEW p \in Paths, Children(p) = {}, NEW q \in Paths, Under(p, q), q # p
  PROVE  node[q] = Nothing
<1> SUFFICES ASSUME Exists(q) PROVE FALSE
  BY DEF Exists
<1>1. p \in Seq(Name) /\ q \in Seq(Name)
  BY PathFacts
<1>2. PICK c \in Seq(Name) : c # <<>> /\ Parent(c) = p /\ Under(c, q)
  BY <1>1, NextDown
<1>3. c \in Paths
  BY <1>2, PrefixIsPath
<1>4. Exists(c)
  <2>1. CASE c = q
    BY <2>1
  <2>2. CASE c # q
    BY <2>2, <1>2, <1>3, KindFacts DEF Whole, Exists
  <2> QED
    BY <2>1, <2>2
<1>5. c \in Children(p)
  BY <1>2, <1>3, <1>4 DEF Children, Root
<1> QED
  BY <1>5

(* The four effects keep the tree whole. *)
LEMMA OpensWhole ==
  ASSUME Whole, NEW t \in Paths, Opens(t)
  PROVE  Whole'
<1> SUFFICES ASSUME NEW p \in Paths, NEW q \in Paths, Under(q, p), q # p, node'[p] # Nothing
             PROVE  node'[q] = Dir
  BY DEF Whole, Exists
<1>1. p \in Seq(Name) /\ q \in Seq(Name) /\ t \in Seq(Name)
  BY PathFacts
<1>2. CASE Under(p, t)
  <2>1. Under(q, t)
    BY <1>1, <1>2, UnderOrder
  <2> QED
    BY <2>1 DEF Opens
<1>3. CASE ~Under(p, t)
  <2>1. node[p] # Nothing
    BY <1>3 DEF Opens
  <2>2. node[q] = Dir
    BY <2>1 DEF Whole, Exists
  <2> QED
    BY <2>2 DEF Opens
<1> QED
  BY <1>2, <1>3

LEMMA PutsWhole ==
  ASSUME Whole, NEW t \in Paths, NEW c, Puts(t, c)
  PROVE  Whole'
<1> SUFFICES ASSUME NEW p \in Paths, NEW q \in Paths, Under(q, p), q # p, node'[p] # Nothing
             PROVE  node'[q] = Dir
  BY DEF Whole, Exists
<1>1. p \in Seq(Name) /\ q \in Seq(Name) /\ t \in Seq(Name)
  BY PathFacts
<1>2. CASE Under(p, t)
  <2>1. Under(q, t) /\ q # t
    BY <1>1, <1>2, UnderOrder
  <2> QED
    BY <2>1 DEF Puts
<1>3. CASE ~Under(p, t)
  <2>1. node[p] # Nothing
    BY <1>3 DEF Puts
  <2>2. node[q] = Dir
    BY <2>1 DEF Whole, Exists
  <2>3. q # t
    BY <2>2 DEF Puts
  <2> QED
    BY <2>2, <2>3 DEF Puts
<1> QED
  BY <1>2, <1>3

LEMMA DropsWhole ==
  ASSUME Whole, NEW t \in Paths, Drops(t)
  PROVE  Whole'
<1> SUFFICES ASSUME NEW p \in Paths, NEW q \in Paths, Under(q, p), q # p, node'[p] # Nothing
             PROVE  node'[q] = Dir
  BY DEF Whole, Exists
<1>1. node[p] # Nothing /\ p # t
  BY DEF Drops
<1>2. node[q] = Dir
  BY <1>1 DEF Whole, Exists
<1>3. q # t
  BY <1>1 DEF Drops
<1> QED
  BY <1>2, <1>3 DEF Drops

(* An entry renamed in its directory. *)
Siblings(p, d) ==
    /\ Plain(p) /\ Plain(d) /\ p # d /\ Parent(p) = Parent(d)

LEMMA SiblingFacts ==
  ASSUME NEW p, NEW d, Siblings(p, d)
  PROVE  /\ Len(p) = Len(d) /\ ~Under(p, d) /\ ~Under(d, p)
         /\ p \in Seq(Name) /\ d \in Seq(Name)
         /\ \A s \in Seq(Name) : p \o s \in Paths <=> d \o s \in Paths
         /\ \A q \in Paths : Under(p, q) => ~Under(d, q)
<1>1. /\ p \in Seq(Name) /\ d \in Seq(Name) /\ Len(p) > 0 /\ Len(d) > 0
  BY PlainIs DEF Siblings
<1>2. p # <<>> /\ d # <<>>
  BY <1>1
<1>3. Len(Parent(p)) = Len(p) - 1 /\ Len(Parent(d)) = Len(d) - 1
  BY <1>1, <1>2, ParentIs
<1>4. Len(p) = Len(d) /\ Len(p) \in Nat
  BY <1>1, <1>3 DEF Siblings
<1>5. ~Under(p, d) /\ ~Under(d, p)
  BY <1>1, <1>4, UnderOrder DEF Siblings
<1>6. ASSUME NEW s \in Seq(Name) PROVE p \o s \in Paths <=> d \o s \in Paths
  <2>1. Plain(p) /\ Plain(d)
    BY DEF Siblings
  <2>2. p \o s \in Paths <=> (s \in Seq(Names) /\ Len(p) + Len(s) <= Depth)
    BY <2>1, BelowPlain
  <2>3. d \o s \in Paths <=> (s \in Seq(Names) /\ Len(d) + Len(s) <= Depth)
    BY <2>1, BelowPlain
  <2> QED
    BY <2>2, <2>3, <1>4
<1>7. ASSUME NEW q \in Paths, Under(p, q) PROVE ~Under(d, q)
  <2>1. q \in Seq(Name)
    BY PathFacts
  <2> QED
    BY <2>1, <1>1, <1>5, <1>7, UnderComparable
<1> QED
  BY <1>1, <1>4, <1>5, <1>6, <1>7

LEMMA MovesWhole ==
  ASSUME Whole, NEW p, NEW d, Siblings(p, d), Moves(p, d)
  PROVE  Whole'
<1> SUFFICES ASSUME NEW e \in Paths, NEW q \in Paths, Under(q, e), q # e, node'[e] # Nothing
             PROVE  node'[q] = Dir
  BY DEF Whole, Exists
<1>1. /\ e \in Seq(Name) /\ q \in Seq(Name) /\ p \in Seq(Name) /\ d \in Seq(Name)
      /\ Plain(p) /\ Plain(d) /\ p \in Paths /\ d \in Paths
  BY PathFacts, SiblingFacts DEF Siblings, Plain
<1>2. CASE Under(d, e)
  <2>1. PICK s \in Seq(Name) : e = d \o s
    BY <1>1, <1>2, UnderTail
  <2>2. p \o s \in Paths /\ node[p \o s] # Nothing
    BY <2>1 DEF Moves
  <2>3. CASE Under(d, q)
    <3>1. PICK t \in Seq(Name) : q = d \o t
      BY <1>1, <2>3, UnderTail
    <3>2. p \o t \in Paths /\ node'[q] = node[p \o t]
      BY <3>1 DEF Moves
    <3>3. Under(t, s) /\ t # s
      BY <1>1, <2>1, <3>1, UnderSame
    <3>4. Under(p \o t, p \o s) /\ p \o t # p \o s
      BY <1>1, <3>3, UnderSame
    <3>5. node[p \o t] = Dir
      BY <2>2, <3>2, <3>4 DEF Whole, Exists
    <3> QED
      BY <3>2, <3>5
  <2>4. CASE ~Under(d, q)
    <3>1. Under(q, d)
      BY <1>1, <1>2, <2>4, UnderComparable
    <3>2. q # d
      BY <1>1, <2>4, UnderOrder
    <3>3. Under(q, Parent(p))
      BY <1>1, <3>1, <3>2, UnderParent DEF Siblings
    <3>4. p # <<>>
      BY DEF Siblings, Plain, Root
    <3>5. Under(Parent(p), p) /\ Parent(p) # p /\ Parent(p) \in Seq(Name)
      BY <1>1, <3>4, ParentIs
    <3>6. Under(q, p) /\ q # p
      BY <1>1, <3>3, <3>5, UnderOrder
    <3>7. node[q] = Dir
      BY <1>1, <3>6 DEF Whole, Moves
    <3>8. ~Under(p, q)
      BY <1>1, <3>6, UnderOrder
    <3> QED
      BY <2>4, <3>7, <3>8 DEF Moves
  <2> QED
    BY <2>3, <2>4
<1>3. CASE ~Under(d, e)
  <2>1. ~Under(p, e) /\ node[e] # Nothing
    BY <1>3 DEF Moves
  <2>2. node[q] = Dir
    BY <2>1 DEF Whole, Exists
  <2>3. ~Under(p, q) /\ ~Under(d, q)
    BY <1>1, <1>3, <2>1, UnderOrder
  <2> QED
    BY <2>2, <2>3 DEF Moves
<1> QED
  BY <1>2, <1>3
-----------------------------------------------------------------------------
(* The actions, one by one. *)

LEMMA OpensIs ==
  ASSUME Types, NEW t \in Paths, Clear(t), node' = MkdirAll(t)
  PROVE  Opens(t)
<1>1. node' \in [Paths -> Kinds]
  BY KindFacts DEF MkdirAll, Types
<1>2. \A q \in Paths : Under(q, t) => node[q] \in {Dir, Nothing} /\ node'[q] = Dir
  BY DEF Clear, MkdirAll
<1>3. \A q \in Paths : ~Under(q, t) => node'[q] = node[q]
  BY DEF MkdirAll
<1> QED
  BY <1>1, <1>2, <1>3 DEF Opens

LEMMA PutsIs ==
  ASSUME Types, NEW t \in Paths, t # Root, NEW c \in Contents \cup {Empty},
         Clear(Parent(t)), node[t] # Dir,
         node' = [MkdirAll(Parent(t)) EXCEPT ![t] = c]
  PROVE  Puts(t, c)
<1>1. t \in Seq(Name) /\ t # <<>>
  BY PathFacts DEF Root
<1>2. /\ Parent(t) \in Seq(Name) /\ Parent(t) # t /\ Under(Parent(t), t)
      /\ Len(Parent(t)) = Len(t) - 1
  BY <1>1, ParentIs
<1>3. c \in Kinds
  BY KindFacts
<1>4. node' \in [Paths -> Kinds] /\ node'[t] = c
  BY <1>3, KindFacts DEF MkdirAll, Types
<1>5. ASSUME NEW q \in Paths, Under(q, t), q # t
      PROVE  node[q] \in {Dir, Nothing} /\ node'[q] = Dir
  <2>1. q \in Seq(Name)
    BY PathFacts
  <2>2. Under(q, Parent(t))
    BY <1>1, <1>5, <2>1, UnderParent
  <2> QED
    BY <1>5, <2>2 DEF Clear, MkdirAll
<1>6. ASSUME NEW q \in Paths, ~Under(q, t)
      PROVE  node'[q] = node[q]
  <2>1. q \in Seq(Name)
    BY PathFacts
  <2>2. ~Under(q, Parent(t))
    BY <1>1, <1>2, <1>6, <2>1, UnderOrder
  <2>3. q # t
    BY <1>1, <1>6, UnderOrder
  <2> QED
    BY <2>2, <2>3 DEF MkdirAll
<1> QED
  BY <1>4, <1>5, <1>6 DEF Puts

(* An entry made in a directory that is there. *)
LEMMA AboveDir ==
  ASSUME Whole, NEW t \in Paths, t # Root, node[Parent(t)] = Dir,
         NEW q \in Paths, Under(q, t), q # t
  PROVE  node[q] = Dir
<1>1. t \in Seq(Name) /\ t # <<>> /\ q \in Seq(Name)
  BY PathFacts DEF Root
<1>2. Parent(t) \in Seq(Name) /\ Under(Parent(t), t)
  BY <1>1, ParentIs
<1>3. Parent(t) \in Paths /\ Under(q, Parent(t))
  BY <1>1, <1>2, PrefixIsPath, UnderParent
<1> QED
  BY <1>3, KindFacts DEF Whole, Exists

LEMMA ArriveIs ==
  ASSUME Types, NEW r \in Requests, Arrive(r)
  PROVE  /\ Alone(r) /\ node' = node /\ failures' = failures /\ image' = image
         /\ req[r].phase = "idle" /\ req'[r].phase = "next"
         /\ req'[r].ok = req[r].ok
         /\ ToSet(req'[r].left) = Sources(req'[r].body)
<1> PICK x : x = req[r]
  OBVIOUS
<1>1. PICK b \in Bodies : Set(r, [x EXCEPT !.phase = "next", !.body = b, !.left = b.targets])
  BY DEF Arrive
<1> DEFINE y == [x EXCEPT !.phase = "next", !.body = b, !.left = b.targets]
<1>2. x \in RequestShape
  BY DEF Types
<1>3. b.targets \in Seq(Paths)
  BY BodyFacts
<1>4. /\ y \in RequestShape /\ y.phase = "next" /\ y.ok = x.ok
      /\ y.body = b /\ y.left = b.targets
  BY <1>2, <1>3 DEF RequestShape, Phases
<1>5. Set(r, y)
  BY <1>1
<1> HIDE DEF y
<1>6. Alone(r) /\ req'[r] = y
  BY <1>4, <1>5, SetIs DEF Alone
<1>7. ToSet(y.left) = Sources(y.body)
  BY <1>4, BodyFacts
<1> QED
  BY <1>4, <1>6, <1>7 DEF Arrive, At, Quiet

Starts(x, y) ==
    LET p == Head(x.left)
    IN /\ y.phase = FirstStep(x.body, p) /\ y.body = x.body /\ y.left = Tail(x.left)
       /\ y.from = p /\ y.to = Dest(x.body, p) /\ y.todo = {Root} /\ y.ok = x.ok
       /\ Admissible(x.body, p)

LEMMA StartIs ==
  ASSUME Types, NEW r \in Requests, StartTarget(r)
  PROVE  /\ Alone(r) /\ node' = node /\ failures' = failures
         /\ image' = [image EXCEPT ![r] = Tree(node, Head(req[r].left))]
         /\ req[r].phase = "next" /\ req[r].left # <<>>
         /\ Refused(req[r], req'[r]) \/ Starts(req[r], req'[r])
<1> PICK x : x = req[r]
  OBVIOUS
<1> PICK p : p = Head(x.left)
  OBVIOUS
<1>1. x \in RequestShape
  BY DEF Types
<1>2. x.phase = "next" /\ x.left # <<>> /\ x.left \in Seq(Paths) /\ x.body \in Bodies
  BY <1>1 DEF StartTarget, At, RequestShape
<1>3. p \in Paths /\ Tail(x.left) \in Seq(Paths)
  BY <1>2, ToSetIs
<1>4. /\ node' = node /\ failures' = failures
      /\ image' = [image EXCEPT ![r] = Tree(node, Head(req[r].left))]
  BY DEF StartTarget
<1>5. CASE ~Admissible(x.body, p)
  <2>1. Refuse(r)
    BY <1>5 DEF StartTarget
  <2> QED
    BY <2>1, <1>2, <1>4, RefuseIs
<1>6. CASE Admissible(x.body, p)
  <2> PICK f : f = FirstStep(x.body, p)
    OBVIOUS
  <2> PICK d : d = Dest(x.body, p)
    OBVIOUS
  <2> PICK l : l = Tail(x.left)
    OBVIOUS
  <2> DEFINE y == [x EXCEPT !.phase = f, !.left = l, !.from = p, !.to = d, !.todo = {Root}]
  <2>1. f \in Phases
    BY DEF FirstStep, Proceed, Phases
  <2>2. d \in Paths
    BY <1>6 DEF Admissible
  <2>3. {Root} \subseteq Paths
    BY PathFacts
  <2>4. /\ y \in RequestShape /\ y.phase = f /\ y.body = x.body /\ y.left = l
        /\ y.from = p /\ y.to = d /\ y.todo = {Root} /\ y.ok = x.ok
    BY <1>1, <1>3, <2>1, <2>2, <2>3 DEF RequestShape
  <2>5. Set(r, [x EXCEPT !.phase = FirstStep(x.body, p), !.left = Tail(@),
                         !.from = p, !.to = Dest(x.body, p), !.todo = {Root}])
    BY <1>6 DEF StartTarget
  <2>6. Set(r, y)
    <3>1. [x EXCEPT !.phase = f, !.left = Tail(@), !.from = p, !.to = d, !.todo = {Root}] = y
      BY <1>1 DEF RequestShape
    <3> QED
      BY <3>1, <2>5
  <2> HIDE DEF y
  <2>7. Alone(r) /\ req'[r] = y
    BY <2>4, <2>6, SetIs DEF Alone
  <2>8. Starts(x, y)
    BY <2>4, <1>6 DEF Starts
  <2> QED
    BY <2>7, <2>8, <1>2, <1>4
<1> QED
  BY <1>5, <1>6

LEMMA MakeDirIs ==
  ASSUME Shaped, NEW r \in Requests, MakeDir(r)
  PROVE  /\ Alone(r) /\ failures' = failures /\ image' = image /\ req[r].phase = "mkdir"
         /\ \/ Refused(req[r], req'[r]) /\ node' = node
            \/ /\ Goes(req[r], req'[r], "next")
               /\ Opens(req[r].to) /\ Parent(req[r].to) = req[r].from
               /\ node[req[r].from] = Dir
<1> PICK x : x = req[r]
  OBVIOUS
<1>1. x \in RequestShape /\ x.phase = "mkdir" /\ Formed(x) /\ Types /\ Whole
  BY DEF Shaped, Types, MakeDir, At
<1>2. /\ failures' = failures /\ image' = image
  BY DEF MakeDir
<1>3. CASE Refuse(r) /\ UNCHANGED node
  BY <1>1, <1>2, <1>3, RefuseIs
<1>4. CASE ~Exists(x.to) /\ node[x.from] = Dir
  <2>1. Set(r, [req[r] EXCEPT !.phase = "next"]) /\ node' = [node EXCEPT ![x.to] = Dir]
    BY <1>4 DEF MakeDir
  <2>2. Alone(r) /\ Goes(req[r], req'[r], "next")
    BY <2>1, <1>1, GoesIs DEF Phases
  <2>3. /\ x.to = Append(x.from, x.body.name) /\ Plain(x.to)
        /\ x.to \in Paths /\ x.from \in Paths
    BY <1>1, ShapeIs DEF Formed, Placed, AtWork, Dest
  <2>4. x.to \in Seq(Name) /\ x.from \in Seq(Name) /\ x.to # Root /\ x.to # <<>>
    BY <2>3, PathFacts DEF Plain, Root
  <2>5. Parent(x.to) = x.from
    <3> PICK p : p = x.from
      OBVIOUS
    <3> PICK d : d = x.to
      OBVIOUS
    <3> PICK e : e = x.body.name
      OBVIOUS
    <3>1. d = Append(p, e) /\ p \in Seq(Name) /\ d \in Seq(Name)
      BY <2>3, <2>4
    <3> QED
      BY <3>1, ParentOfAppend
  <2>6. \A q \in Paths : Under(q, x.to) /\ q # x.to => node[q] = Dir
    BY <1>1, <1>4, <2>3, <2>4, <2>5, AboveDir
  <2>7. node' \in [Paths -> Kinds]
    BY <1>1, <2>1, KindFacts DEF Types
  <2>8. \A q \in Paths : Under(q, x.to) => node[q] \in {Dir, Nothing} /\ node'[q] = Dir
    BY <1>1, <1>4, <2>1, <2>3, <2>6 DEF Exists, Types
  <2>9. \A q \in Paths : ~Under(q, x.to) => node'[q] = node[q]
    <3>1. Under(x.to, x.to)
      BY <2>4, UnderOrder
    <3> QED
      BY <3>1, <1>1, <2>1 DEF Types
  <2>10. Opens(x.to)
    BY <2>7, <2>8, <2>9 DEF Opens
  <2> QED
    BY <1>1, <1>2, <1>4, <2>2, <2>5, <2>10
<1> QED
  BY <1>3, <1>4 DEF MakeDir
(* One entry of the tree at p goes, or there is none. *)
Removes(r, p, f) ==
    \/ Refused(req[r], req'[r]) /\ node' = node
    \/ \E q \in Paths :
          /\ Under(p, q) /\ Drops(q)
          /\ IF q = p THEN Goes(req[r], req'[r], f) ELSE req'[r] = req[r]

LEMMA RemoveTreeIs ==
  ASSUME Shaped, NEW r \in Requests, NEW p \in Paths, NEW f \in Phases, RemoveTree(r, p, f)
  PROVE  Alone(r) /\ Removes(r, p, f)
<1>1. Types /\ Whole
  BY DEF Shaped
<1>2. CASE ~Exists(p)
  <2>1. Refuse(r) /\ node' = node
    BY <1>2 DEF RemoveTree
  <2> QED
    BY <1>1, <2>1, RefuseIs DEF Removes
<1>3. CASE Exists(p)
  <2>1. PICK q \in Paths :
            /\ Under(p, q) /\ Exists(q) /\ Children(q) = {}
            /\ node' = [node EXCEPT ![q] = Nothing]
            /\ IF q = p THEN Set(r, [req[r] EXCEPT !.phase = f]) ELSE UNCHANGED req
    BY <1>3 DEF RemoveTree
  <2>2. \A u \in Paths : Under(q, u) /\ u # q => node[u] = Nothing
    BY <1>1, <2>1, NoChildren
  <2>3. Drops(q)
    BY <1>1, <2>1, <2>2, KindFacts DEF Drops, Types
  <2>4. CASE q = p
    <3>1. Alone(r) /\ Goes(req[r], req'[r], f)
      BY <1>1, <2>1, <2>4, GoesIs
    <3> QED
      BY <3>1, <2>1, <2>3, <2>4 DEF Removes
  <2>5. CASE q # p
    <3>1. Alone(r) /\ req'[r] = req[r]
      BY <1>1, <2>1, <2>5 DEF Alone, Types
    <3> QED
      BY <3>1, <2>1, <2>3, <2>5 DEF Removes
  <2> QED
    BY <2>4, <2>5
<1> QED
  BY <1>2, <1>3

LEMMA ClearDestIs ==
  ASSUME Shaped, NEW r \in Requests, ClearDest(r)
  PROVE  /\ Alone(r) /\ failures' = failures /\ image' = image /\ req[r].phase = "clear"
         /\ Removes(r, req[r].to, Proceed(req[r].body, req[r].from))
<1>1. req[r] \in RequestShape /\ req[r].to \in Paths
  BY DEF Shaped, Types, RequestShape
<1>2. Proceed(req[r].body, req[r].from) \in Phases
  BY DEF Proceed, Phases
<1>3. RemoveTree(r, req[r].to, Proceed(req[r].body, req[r].from))
  BY DEF ClearDest
<1>4. Alone(r) /\ Removes(r, req[r].to, Proceed(req[r].body, req[r].from))
  BY <1>1, <1>2, <1>3, RemoveTreeIs
<1> QED
  BY <1>4 DEF ClearDest, At

LEMMA RemoveSourceIs ==
  ASSUME Shaped, NEW r \in Requests, RemoveSource(r)
  PROVE  /\ Alone(r) /\ failures' = failures /\ image' = image /\ req[r].phase = "remove"
         /\ Removes(r, req[r].from, "next")
<1>1. req[r] \in RequestShape /\ req[r].from \in Paths
  BY DEF Shaped, Types, RequestShape
<1>2. "next" \in Phases
  BY DEF Phases
<1>3. RemoveTree(r, req[r].from, "next")
  BY DEF RemoveSource
<1>4. Alone(r) /\ Removes(r, req[r].from, "next")
  BY <1>1, <1>2, <1>3, RemoveTreeIs
<1> QED
  BY <1>4 DEF RemoveSource, At

LEMMA MovesIs ==
  ASSUME Types, Whole, NEW p, NEW d, Siblings(p, d), Exists(p),
         Exists(d) => SameKind(p, d) /\ Children(d) = {},
         node' = [q \in Paths |->
                    IF Under(d, q) THEN node[p \o SubSeq(q, Len(d) + 1, Len(q))]
                    ELSE IF Under(p, q) THEN Nothing ELSE node[q]]
  PROVE  Moves(p, d)
<1>1. /\ p \in Seq(Name) /\ d \in Seq(Name) /\ p \in Paths /\ d \in Paths
      /\ \A s \in Seq(Name) : p \o s \in Paths <=> d \o s \in Paths
      /\ \A q \in Paths : Under(p, q) => ~Under(d, q)
  BY SiblingFacts DEF Siblings, Plain
<1>2. ASSUME NEW q \in Paths, Under(d, q)
      PROVE  \E s \in Seq(Name) : /\ q = d \o s /\ s = SubSeq(q, Len(d) + 1, Len(q))
                                  /\ p \o s \in Paths
  <2> PICK s : s = SubSeq(q, Len(d) + 1, Len(q))
    OBVIOUS
  <2>1. q \in Seq(Name)
    BY PathFacts
  <2>2. s \in Seq(Name) /\ q = d \o s
    BY <1>1, <1>2, <2>1, UnderSplit
  <2>3. p \o s \in Paths
    BY <1>1, <2>2
  <2> QED
    BY <2>2, <2>3
<1>3. node' \in [Paths -> Kinds]
  <2> SUFFICES ASSUME NEW q \in Paths
               PROVE  (IF Under(d, q) THEN node[p \o SubSeq(q, Len(d) + 1, Len(q))]
                       ELSE IF Under(p, q) THEN Nothing ELSE node[q]) \in Kinds
    OBVIOUS
  <2>1. CASE Under(d, q)
    <3>1. p \o SubSeq(q, Len(d) + 1, Len(q)) \in Paths
      BY <1>2, <2>1
    <3>2. node[p \o SubSeq(q, Len(d) + 1, Len(q))] \in Kinds
      BY <3>1 DEF Types
    <3> QED
      BY <2>1, <3>2
  <2>2. CASE ~Under(d, q)
    BY <2>2, KindFacts DEF Types
  <2> QED
    BY <2>1, <2>2
<1>4. ASSUME NEW q \in Paths, Under(d, q), q # d PROVE node[q] = Nothing
  <2>1. CASE Exists(d)
    BY <1>1, <1>4, <2>1, NoChildren
  <2>2. CASE ~Exists(d)
    BY <1>1, <1>4, <2>2, KindFacts DEF Whole, Exists
  <2> QED
    BY <2>1, <2>2
<1>5. ASSUME NEW s \in Seq(Name), d \o s \in Paths
      PROVE  p \o s \in Paths /\ node'[d \o s] = node[p \o s]
  <2> PICK q : q = d \o s
    OBVIOUS
  <2>1. q \in Paths /\ Under(d, q)
    BY <1>1, <1>5, UnderConcat
  <2>2. PICK t \in Seq(Name) : /\ q = d \o t /\ t = SubSeq(q, Len(d) + 1, Len(q))
                               /\ p \o t \in Paths
    BY <1>2, <2>1
  <2>3. t = s
    <3>1. d \o t = d \o s
      BY <2>2
    <3>2. (d \o t = d \o s) => t = s
      BY <1>1, UnderSame
    <3> QED
      BY <3>1, <3>2
  <2>4. node'[q] = node[p \o t]
    BY <2>1, <2>2
  <2> QED
    BY <2>2, <2>3, <2>4
<1>6. \A q \in Paths : Under(p, q) => node'[q] = Nothing
  BY <1>1
<1>7. \A q \in Paths : ~Under(p, q) /\ ~Under(d, q) => node'[q] = node[q]
  OBVIOUS
<1> QED
  BY <1>3, <1>4, <1>5, <1>6, <1>7 DEF Moves

LEMMA RenameIs ==
  ASSUME Shaped, NEW r \in Requests, RenameInPlace(r)
  PROVE  /\ Alone(r) /\ failures' = failures /\ image' = image /\ req[r].phase = "rename"
         /\ Siblings(req[r].from, req[r].to)
         /\ \/ Refused(req[r], req'[r]) /\ node' = node
            \/ Goes(req[r], req'[r], "next") /\ Moves(req[r].from, req[r].to)
<1> PICK x : x = req[r]
  OBVIOUS
<1>1. x.phase = "rename" /\ Formed(x) /\ Types /\ Whole
  BY DEF Shaped, RenameInPlace, At
<1>2. Siblings(x.from, x.to)
  BY <1>1 DEF Formed, Placed, Going, AtWork, Siblings
<1>3. failures' = failures /\ image' = image
  BY DEF RenameInPlace
<1>4. CASE Refuse(r) /\ UNCHANGED node
  BY <1>1, <1>2, <1>3, <1>4, RefuseIs
<1>5. CASE /\ Exists(x.from)
           /\ Exists(x.to) => SameKind(x.from, x.to) /\ Children(x.to) = {}
           /\ node' = [q \in Paths |->
                    IF Under(x.to, q) THEN node[x.from \o SubSeq(q, Len(x.to) + 1, Len(q))]
                    ELSE IF Under(x.from, q) THEN Nothing ELSE node[q]]
           /\ Set(r, [req[r] EXCEPT !.phase = "next"])
  <2>1. Moves(x.from, x.to)
    BY <1>1, <1>2, <1>5, MovesIs
  <2>2. Alone(r) /\ Goes(req[r], req'[r], "next")
    BY <1>1, <1>5, GoesIs DEF Phases
  <2> QED
    BY <1>1, <1>2, <1>3, <2>1, <2>2
<1> QED
  BY <1>4, <1>5 DEF RenameInPlace
(* An entry of the source that is still to do, and what is done with it. *)
Opened(s, x, y) ==
    /\ node[x.from \o s] = Dir /\ Opens(x.to \o s)
    /\ y.todo = (x.todo \ {s})
                  \cup {Append(s, n) : n \in {Last(q) : q \in Children(x.from \o s)}}

Written(s, x, y) ==
    /\ node[x.from \o s] # Dir /\ x.to \o s # Root
    /\ Puts(x.to \o s, IF x.to = x.from THEN Empty ELSE node[x.from \o s])
    /\ y.todo = x.todo \ {s}

Copies(s, x, y) ==
    /\ s \in x.todo /\ x.from \o s \in Paths /\ x.to \o s \in Paths
    /\ Exists(x.from \o s)
    /\ y.phase = "copy" /\ y.ok = x.ok /\ y.body = x.body /\ y.left = x.left
    /\ y.from = x.from /\ y.to = x.to
    /\ Opened(s, x, y) \/ Written(s, x, y)

Refilled(x, t, y) ==
    /\ y \in RequestShape /\ y.todo = t
    /\ y.phase = x.phase /\ y.ok = x.ok /\ y.body = x.body /\ y.left = x.left
    /\ y.from = x.from /\ y.to = x.to

LEMMA TodoIs ==
  ASSUME NEW x \in RequestShape, NEW t \in SUBSET Paths
  PROVE  Refilled(x, t, [x EXCEPT !.todo = t])
  BY DEF RequestShape, Refilled

(* The children of an entry of the source are entries of the source. *)
LEMMA ChildIs ==
  ASSUME NEW p, Plain(p), NEW s \in Seq(Name), p \o s \in Paths,
         NEW q \in Children(p \o s)
  PROVE  /\ Last(q) \in Name /\ p \o Append(s, Last(q)) = q /\ q \in Paths
         /\ p \o Append(s, Last(q)) \in Paths
         /\ Append(s, Last(q)) \in Paths /\ Append(s, Last(q)) \in Seq(Name)
<1>1. q \in Paths /\ q # <<>> /\ Parent(q) = p \o s
  BY DEF Children, Root
<1>2. q \in Seq(Name) /\ p \in Seq(Name)
  BY <1>1, PathFacts, PlainIs
<1>3. Last(q) \in Name /\ q = Append(p \o s, Last(q))
  BY <1>1, <1>2, ParentIs
<1>4. p \o Append(s, Last(q)) = q
  <2>1. \A e \in Name : p \o Append(s, e) = Append(p \o s, e)
    BY <1>2, ConcatAppend
  <2>2. p \o Append(s, Last(q)) = Append(p \o s, Last(q))
    BY <2>1, <1>3
  <2> QED
    BY <2>2, <1>3, Zenon
<1>5. Append(s, Last(q)) \in Seq(Name)
  BY <1>3
<1>6. Append(s, Last(q)) \in Paths
  BY <1>1, <1>4, <1>5, BelowPlain
<1> QED
  BY <1>1, <1>3, <1>4, <1>5, <1>6

LEMMA CopyEntryIs ==
  ASSUME Shaped, NEW r \in Requests, CopyEntry(r)
  PROVE  /\ Alone(r) /\ failures' = failures /\ image' = image /\ req[r].phase = "copy"
         /\ \/ Refused(req[r], req'[r]) /\ node' = node
            \/ \E s \in Seq(Name) : Copies(s, req[r], req'[r])
<1> PICK x : x = req[r]
  OBVIOUS
<1>1. x.phase = "copy" /\ x \in RequestShape /\ Formed(x) /\ Types /\ Whole
  BY DEF Shaped, CopyEntry, At, Types
<1>2. failures' = failures /\ image' = image
  BY DEF CopyEntry
<1>3. /\ Plain(x.from) /\ Plain(x.to)
      /\ \A t \in x.todo : x.from \o t \in Paths
  BY <1>1 DEF Formed, Placed, Walk, AtWork
<1>4. PICK s \in x.todo :
        LET from  == x.from \o s
            to    == x.to \o s
            kids  == {Last(q) : q \in Children(from)}
        IN IF to \notin Paths \/ ~Exists(from)
              THEN Refuse(r) /\ UNCHANGED node
              ELSE IF node[from] = Dir
              THEN IF Clear(to)
                   THEN /\ node' = MkdirAll(to)
                        /\ Set(r, [req[r] EXCEPT !.todo = (@ \ {s}) \cup {Append(s, n) : n \in kids}])
                   ELSE Refuse(r) /\ UNCHANGED node
              ELSE IF Clear(Parent(to)) /\ node[to] # Dir
              THEN /\ node' = [MkdirAll(Parent(to)) EXCEPT ![to] =
                                  IF to = from THEN Empty ELSE node[from]]
                   /\ Set(r, [req[r] EXCEPT !.todo = @ \ {s}])
              ELSE Refuse(r) /\ UNCHANGED node
  BY DEF CopyEntry
<1> PICK from : from = x.from \o s
  OBVIOUS
<1> PICK to : to = x.to \o s
  OBVIOUS
<1>5. s \in Paths /\ s \in Seq(Name) /\ from \in Paths
  BY <1>1, <1>3, ShapeIs
<1>6. CASE Refuse(r) /\ UNCHANGED node
  BY <1>1, <1>2, <1>6, RefuseIs
<1>7. CASE /\ to \in Paths /\ Exists(from) /\ node[from] = Dir /\ Clear(to)
           /\ node' = MkdirAll(to)
           /\ Set(r, [req[r] EXCEPT !.todo =
                 (@ \ {s}) \cup {Append(s, n) : n \in {Last(q) : q \in Children(from)}}])
  <2>0. PICK t : t = (x.todo \ {s}) \cup {Append(s, n) : n \in {Last(q) : q \in Children(from)}}
    OBVIOUS
  <2>1. \A q \in Children(from) : Append(s, Last(q)) \in Paths
    BY <1>3, <1>5, ChildIs
  <2>2. t \in SUBSET Paths
    <3> SUFFICES ASSUME NEW u \in t PROVE u \in Paths
      OBVIOUS
    <3>1. u \in x.todo \/ \E q \in Children(from) : u = Append(s, Last(q))
      BY <2>0
    <3> QED
      BY <3>1, <2>1, <1>1, ShapeIs
  <2> DEFINE y == [x EXCEPT !.todo = t]
  <2>3. Set(r, y)
    <3>1. [x EXCEPT !.todo = (@ \ {s}) \cup {Append(s, n) : n \in {Last(q) : q \in Children(from)}}]
            = [x EXCEPT !.todo = (x.todo \ {s}) \cup {Append(s, n) : n \in {Last(q) : q \in Children(from)}}]
      BY <1>1 DEF RequestShape
    <3> QED
      BY <3>1, <1>7, <2>0
  <2>4. /\ y \in RequestShape /\ y.todo = t
        /\ y.phase = x.phase /\ y.ok = x.ok /\ y.body = x.body /\ y.left = x.left
        /\ y.from = x.from /\ y.to = x.to
    <3>1. Refilled(x, t, y)
      BY <1>1, <2>2, TodoIs
    <3> QED
      BY <3>1 DEF Refilled
  <2> HIDE DEF y
  <2>5. Alone(r) /\ req'[r] = y
    BY <1>1, <2>3, <2>4, SetIs DEF Alone
  <2>6. Opens(to)
    BY <1>1, <1>7, OpensIs
  <2>7. Opened(s, x, y)
    BY <1>7, <2>0, <2>4, <2>6 DEF Opened
  <2>8. Copies(s, x, y)
    BY <1>1, <1>5, <1>7, <2>4, <2>7 DEF Copies
  <2> QED
    BY <1>1, <1>2, <1>5, <2>5, <2>8
<1>8. CASE /\ to \in Paths /\ Exists(from) /\ node[from] # Dir
           /\ Clear(Parent(to)) /\ node[to] # Dir
           /\ node' = [MkdirAll(Parent(to)) EXCEPT ![to] =
                                  IF to = from THEN Empty ELSE node[from]]
           /\ Set(r, [req[r] EXCEPT !.todo = @ \ {s}])
  <2> PICK t : t = x.todo \ {s}
    OBVIOUS
  <2> PICK c : c = IF x.to = x.from THEN Empty ELSE node[from]
    OBVIOUS
  <2>1. t \in SUBSET Paths
    BY <1>1, ShapeIs
  <2> DEFINE y == [x EXCEPT !.todo = t]
  <2>2. Set(r, y)
    <3>1. [x EXCEPT !.todo = @ \ {s}] = [x EXCEPT !.todo = x.todo \ {s}]
      BY <1>1 DEF RequestShape
    <3> QED
      BY <3>1, <1>8
  <2>3. /\ y \in RequestShape /\ y.todo = t
        /\ y.phase = x.phase /\ y.ok = x.ok /\ y.body = x.body /\ y.left = x.left
        /\ y.from = x.from /\ y.to = x.to
    <3>1. Refilled(x, t, y)
      BY <1>1, <2>1, TodoIs
    <3> QED
      BY <3>1 DEF Refilled
  <2> HIDE DEF y
  <2>4. Alone(r) /\ req'[r] = y
    BY <1>1, <2>2, <2>3, SetIs DEF Alone
  <2>5. x.from \in Seq(Name) /\ x.to \in Seq(Name)
    BY <1>3, PlainIs
  <2>6. to = from <=> x.to = x.from
    BY <1>5, <2>5, SameEnd
  <2>7. node[from] \in Kinds
    BY <1>1, <1>5 DEF Types
  <2>8. c \in Contents \cup {Empty}
    BY <1>8, <2>7 DEF Kinds, Exists
  <2>9. to # Root
    <3>1. Plain(to)
      BY <1>3, <1>5, <1>8, BelowPlain
    <3> QED
      BY <3>1 DEF Plain
  <2>10. node' = [MkdirAll(Parent(to)) EXCEPT ![to] = c]
    BY <1>8, <2>6
  <2>11. Puts(to, c)
    BY <1>1, <1>8, <2>8, <2>9, <2>10, PutsIs
  <2>12. Written(s, x, y)
    BY <1>8, <2>3, <2>9, <2>11 DEF Written
  <2>13. Copies(s, x, y)
    BY <1>1, <1>5, <1>8, <2>3, <2>12 DEF Copies
  <2> QED
    BY <1>1, <1>2, <1>5, <2>4, <2>13
<1> QED
  BY <1>4, <1>5, <1>6, <1>7, <1>8

LEMMA CopyDoneIs ==
  ASSUME Shaped, NEW r \in Requests, CopyDone(r)
  PROVE  /\ Alone(r) /\ failures' = failures /\ image' = image /\ req[r].phase = "copy"
         /\ node' = node /\ req[r].todo = {}
         /\ Goes(req[r], req'[r], IF req[r].body.op = "move" THEN "remove" ELSE "next")
<1> PICK f : f = IF req[r].body.op = "move" THEN "remove" ELSE "next"
  OBVIOUS
<1>1. f \in Phases
  BY DEF Phases
<1>2. Set(r, [req[r] EXCEPT !.phase = f])
  BY DEF CopyDone
<1>3. Alone(r) /\ Goes(req[r], req'[r], f)
  BY <1>1, <1>2, GoesIs DEF Shaped
<1> QED
  BY <1>3 DEF CopyDone, At, Quiet

LEMMA FinishIs ==
  ASSUME Shaped, NEW r \in Requests, Finish(r)
  PROVE  /\ Alone(r) /\ failures' = failures /\ image' = image /\ req[r].phase = "next"
         /\ node' = node
         /\ LET x == req[r]
                y == req'[r]
            IN  /\ y.phase = "done" /\ y.ok /\ y.body = x.body /\ y.left = x.left
                /\ y.from = x.from /\ y.to = x.to /\ y.todo = x.todo
<1> PICK x : x = req[r]
  OBVIOUS
<1> DEFINE y == [x EXCEPT !.phase = "done", !.ok = TRUE]
<1>1. x \in RequestShape /\ Types
  BY DEF Shaped, Types
<1>2. /\ y \in RequestShape /\ y.phase = "done" /\ y.ok /\ y.body = x.body /\ y.left = x.left
      /\ y.from = x.from /\ y.to = x.to /\ y.todo = x.todo
  BY <1>1 DEF RequestShape, Phases
<1>3. Set(r, y)
  BY DEF Finish
<1> HIDE DEF y
<1>4. Alone(r) /\ req'[r] = y
  BY <1>1, <1>2, <1>3, SetIs DEF Alone
<1> QED
  BY <1>2, <1>4 DEF Finish, At, Quiet

LEMMA BreaksIs ==
  ASSUME Shaped, NEW r \in Requests, Breaks(r)
  PROVE  /\ Alone(r) /\ failures' \in 0..MaxFailures /\ image' = image
         /\ req[r].phase \in AtWork /\ Refused(req[r], req'[r])
         /\ \/ node' = node
            \/ /\ req[r].phase = "copy"
               /\ \E s \in req[r].todo :
                     /\ s \in Seq(Name) /\ req[r].to \o s \in Paths /\ req[r].to \o s # Root
                     /\ Puts(req[r].to \o s, Empty)
<1> PICK x : x = req[r]
  OBVIOUS
<1>1. x \in RequestShape /\ Types /\ Whole /\ failures \in 0..MaxFailures
  BY DEF Shaped, Types
<1>2. Refuse(r) /\ failures < MaxFailures /\ failures' = failures + 1 /\ image' = image
  BY DEF Breaks
<1>3. Alone(r) /\ Refused(req[r], req'[r])
  BY <1>1, <1>2, RefuseIs
<1>4. failures' \in 0..MaxFailures
  BY <1>1, <1>2, LocalFsAssumption
<1>5. x.phase \in AtWork
  <2>1. x.phase \notin {"idle", "done"} /\ x.phase # "next" /\ x.phase \in Phases
    BY <1>1, ShapeIs DEF Breaks, Running, At
  <2> QED
    BY <2>1 DEF Phases, AtWork
<1>6. CASE UNCHANGED node
  BY <1>2, <1>3, <1>4, <1>5, <1>6
<1>7. CASE ~UNCHANGED node
  <2>1. x.phase = "copy"
    BY <1>7 DEF Breaks, At
  <2>2. PICK s \in x.todo :
          /\ x.to \o s \in Paths /\ x.to \o s # Root
          /\ node[Parent(x.to \o s)] = Dir /\ node[x.to \o s] # Dir
          /\ node' = [node EXCEPT ![x.to \o s] = Empty]
    BY <1>7 DEF Breaks
  <2> PICK to : to = x.to \o s
    OBVIOUS
  <2>3. s \in Seq(Name)
    BY <1>1, ShapeIs
  <2>4. \A q \in Paths : Under(q, to) /\ q # to => node[q] = Dir
    BY <1>1, <2>2, AboveDir
  <2>5. node' \in [Paths -> Kinds]
    BY <1>1, <2>2, KindFacts DEF Types
  <2>6. Puts(to, Empty)
    <3>1. Under(to, to)
      BY <2>2, PathFacts, UnderOrder
    <3>2. \A q \in Paths : Under(q, to) /\ q # to => node[q] \in {Dir, Nothing} /\ node'[q] = Dir
      BY <1>1, <2>2, <2>4 DEF Types
    <3>3. \A q \in Paths : ~Under(q, to) => node'[q] = node[q]
      BY <3>1, <1>1, <2>2 DEF Types
    <3> QED
      BY <3>2, <3>3, <1>1, <2>2, <2>5 DEF Puts, Types
  <2> QED
    BY <1>2, <1>3, <1>4, <1>5, <2>1, <2>2, <2>3, <2>6
<1> QED
  BY <1>6, <1>7
(* What a step of a request does, by the record it leaves. *)
Arrived(x, y) ==
    /\ x.phase = "idle" /\ y.phase = "next" /\ y.ok = x.ok
    /\ ToSet(y.left) = Sources(y.body) /\ node' = node
Stopped(x, y) == x.phase \notin {"idle", "done"} /\ Refused(x, y) /\ node' = node
Started(x, y) == x.phase = "next" /\ x.left # <<>> /\ Starts(x, y) /\ node' = node
Made(x, y) ==
    /\ x.phase = "mkdir" /\ Goes(x, y, "next")
    /\ Opens(x.to) /\ Parent(x.to) = x.from /\ node[x.from] = Dir
Cleared(x, y) ==
    /\ x.phase = "clear"
    /\ \E q \in Paths : /\ Under(x.to, q) /\ Drops(q)
                        /\ IF q = x.to THEN Goes(x, y, Proceed(x.body, x.from)) ELSE y = x
Renamed(x, y) ==
    /\ x.phase = "rename" /\ Goes(x, y, "next")
    /\ Siblings(x.from, x.to) /\ Moves(x.from, x.to)
CopiedOne(x, y) == x.phase = "copy" /\ \E s \in Seq(Name) : Copies(s, x, y)
CopiedAll(x, y) ==
    /\ x.phase = "copy" /\ x.todo = {} /\ node' = node
    /\ Goes(x, y, IF x.body.op = "move" THEN "remove" ELSE "next")
Removed(x, y) ==
    /\ x.phase = "remove"
    /\ \E q \in Paths : /\ Under(x.from, q) /\ Drops(q)
                        /\ IF q = x.from THEN Goes(x, y, "next") ELSE y = x
Finished(x, y) ==
    /\ x.phase = "next" /\ node' = node
    /\ y.phase = "done" /\ y.ok /\ y.body = x.body /\ y.left = x.left
    /\ y.from = x.from /\ y.to = x.to /\ y.todo = x.todo
Broke(x, y) ==
    /\ x.phase = "copy" /\ Refused(x, y)
    /\ \E s \in x.todo : /\ s \in Seq(Name) /\ x.to \o s \in Paths /\ x.to \o s # Root
                         /\ Puts(x.to \o s, Empty)

Did(r) ==
    LET x == req[r]
        y == req'[r]
    IN  /\ Alone(r)
        /\ \/ Arrived(x, y) \/ Stopped(x, y) \/ Started(x, y) \/ Made(x, y)
           \/ Cleared(x, y) \/ Renamed(x, y) \/ CopiedOne(x, y) \/ CopiedAll(x, y)
           \/ Removed(x, y) \/ Finished(x, y) \/ Broke(x, y)

LEMMA StepDid ==
  ASSUME Shaped, NEW r \in Requests, Arrive(r) \/ Step(r)
  PROVE  /\ Did(r) /\ failures' \in 0..MaxFailures
         /\ \/ image' = image
            \/ /\ Started(req[r], req'[r]) \/ Stopped(req[r], req'[r])
               /\ req[r].phase = "next"
               /\ image' = [image EXCEPT ![r] = Tree(node, Head(req[r].left))]
<1>1. Types /\ failures \in 0..MaxFailures
  BY DEF Shaped, Types
<1>2. CASE Arrive(r)
  BY <1>1, <1>2, ArriveIs DEF Did, Arrived
<1>3. CASE StartTarget(r)
  <2>1. /\ Alone(r) /\ node' = node /\ failures' = failures
        /\ image' = [image EXCEPT ![r] = Tree(node, Head(req[r].left))]
        /\ req[r].phase = "next" /\ req[r].left # <<>>
        /\ Refused(req[r], req'[r]) \/ Starts(req[r], req'[r])
    BY <1>1, <1>3, StartIs
  <2>2. Started(req[r], req'[r]) \/ Stopped(req[r], req'[r])
    BY <2>1 DEF Started, Stopped
  <2> QED
    BY <1>1, <2>1, <2>2 DEF Did
<1>4. CASE MakeDir(r)
  BY <1>1, <1>4, MakeDirIs DEF Did, Made, Stopped
<1>5. CASE ClearDest(r)
  BY <1>1, <1>5, ClearDestIs DEF Did, Cleared, Stopped, Removes
<1>6. CASE RenameInPlace(r)
  BY <1>1, <1>6, RenameIs DEF Did, Renamed, Stopped
<1>7. CASE CopyEntry(r)
  BY <1>1, <1>7, CopyEntryIs DEF Did, CopiedOne, Stopped
<1>8. CASE CopyDone(r)
  <2>1. /\ Alone(r) /\ failures' = failures /\ image' = image
        /\ CopiedAll(req[r], req'[r])
    BY <1>1, <1>8, CopyDoneIs DEF CopiedAll
  <2> QED
    BY <1>1, <2>1 DEF Did
<1>9. CASE RemoveSource(r)
  BY <1>1, <1>9, RemoveSourceIs DEF Did, Removed, Stopped, Removes
<1>10. CASE Finish(r)
  <2>1. /\ Alone(r) /\ failures' = failures /\ image' = image
        /\ Finished(req[r], req'[r])
    BY <1>1, <1>10, FinishIs DEF Finished
  <2> QED
    BY <1>1, <2>1 DEF Did
<1>11. CASE Breaks(r)
  <2>1. /\ Alone(r) /\ failures' \in 0..MaxFailures /\ image' = image
        /\ Stopped(req[r], req'[r]) \/ Broke(req[r], req'[r])
    BY <1>1, <1>11, BreaksIs DEF Stopped, Broke, AtWork
  <2> QED
    BY <2>1 DEF Did
<1> QED
  BY <1>2, <1>3, <1>4, <1>5, <1>6, <1>7, <1>8, <1>9, <1>10, <1>11 DEF Step

(* A request that is elsewhere in its work has what it had. *)
LEMMA FormedGoes ==
  ASSUME NEW x, NEW y, Formed(x), ~x.ok, y.left = x.left, y.body = x.body, y.ok = x.ok,
         y.phase \in {"next", "done", "idle"}
  PROVE  Formed(y)
  BY DEF Formed, Placed, Going, Walk, AtWork

LEMMA FormedDone ==
  ASSUME NEW x, NEW y, Formed(x), y.left = x.left, y.body = x.body, y.phase = "done"
  PROVE  Formed(y)
  BY DEF Formed, Placed, Going, Walk, AtWork

(* Where a destination is. *)
LEMMA DestParent ==
  ASSUME NEW b \in Bodies, NEW p, NEW d, d = Dest(b, p), d \in Seq(Name),
         b.op = "rename" => p \in Seq(Name) /\ p # <<>>
  PROVE  /\ b.op = "rename" => Parent(d) = Parent(p)
         /\ b.op \in {"copy", "move"} => Parent(d) = b.dir
<1>1. ASSUME b.op = "rename" PROVE Parent(d) = Parent(p)
  <2>1. Parent(p) \in Seq(Name) /\ d = Append(Parent(p), b.name)
    BY <1>1, ParentIs DEF Dest
  <2> PICK e : e = Parent(p)
    OBVIOUS
  <2> PICK n : n = b.name
    OBVIOUS
  <2>2. Append(e, n) \in Seq(Name) /\ e \in Seq(Name) /\ d = Append(e, n)
    BY <2>1
  <2>3. Parent(Append(e, n)) = e
    BY <2>2, ParentOfAppend
  <2> QED
    BY <2>2, <2>3
<1>2. ASSUME b.op \in {"copy", "move"} PROVE Parent(d) = b.dir
  <2> PICK e : e = b.dir
    OBVIOUS
  <2> PICK n : n = DestName(b, p)
    OBVIOUS
  <2>1. d = Append(e, n) /\ e \in Seq(Name) /\ Append(e, n) \in Seq(Name)
    BY <1>2, BodyFacts DEF Dest
  <2>2. Parent(Append(e, n)) = e
    BY <2>1, ParentOfAppend
  <2> QED
    BY <2>1, <2>2
<1> QED
  BY <1>1, <1>2

(* What is checked before a target is begun is what its work relies on. *)
LEMMA FormedStart ==
  ASSUME NEW x \in RequestShape, NEW y \in RequestShape, Formed(x), x.phase = "next",
         x.left # <<>>, Starts(x, y)
  PROVE  Formed(y)
<1> PICK b : b = x.body
  OBVIOUS
<1> PICK p : p = Head(x.left)
  OBVIOUS
<1>1. /\ b \in Bodies /\ x.left \in Seq(Paths) /\ ToSet(x.left) \subseteq Sources(b)
      /\ ~x.ok
  BY ShapeIs DEF Formed
<1>2. /\ y.phase = FirstStep(b, p) /\ y.body = b /\ y.left = Tail(x.left)
      /\ y.from = p /\ y.to = Dest(b, p) /\ y.todo = {Root} /\ y.ok = x.ok
      /\ Admissible(b, p)
  BY DEF Starts
<1>3. p \in ToSet(x.left) /\ p \in Paths /\ ToSet(Tail(x.left)) \subseteq ToSet(x.left)
  <2>1. p \in ToSet(x.left) /\ p \in Paths
    BY <1>1, ToSetIs
  <2>2. ToSet(Tail(x.left)) \subseteq ToSet(x.left)
    <3>1. x.left \in Seq(ToSet(x.left))
      BY <1>1, ToSetIs
    <3>2. Tail(x.left) \in Seq(ToSet(x.left))
      BY <3>1, ToSetIs
    <3> QED
      BY <3>2, ToSetIs
  <2> QED
    BY <2>1, <2>2
<1>4. p \in Sources(b) /\ ToSet(y.left) \subseteq Sources(b)
  BY <1>1, <1>2, <1>3
<1> PICK d : d = Dest(b, p)
  OBVIOUS
<1>5. /\ b.op # "mkdir" => Plain(p)
      /\ d \in Paths /\ ~IsMeta(d)
      /\ b.op \in {"copy", "move"} => ~Under(p, b.dir)
      /\ b.op \in {"rename", "copy", "move"} /\ d # p /\ Exists(d) => b.overwrite
  BY <1>2, <1>3 DEF Admissible, Plain
<1>6. b.op \in {"delete", "mkdir", "rename", "copy", "move"} /\ b.dir \in Seq(Name)
  BY <1>1, BodyFacts DEF Ops
<1>7. p \in Seq(Name) /\ d \in Seq(Name)
  BY <1>3, <1>5, PathFacts
<1>8. d # Root
  <2>1. CASE b.op = "delete"
    BY <2>1, <1>5 DEF Dest, Plain
  <2>2. CASE b.op = "mkdir"
    <3>1. d = Append(p, b.name)
      BY <2>2 DEF Dest
    <3> QED
      BY <3>1, <1>7 DEF Root
  <2>3. CASE b.op = "rename"
    <3>1. p # <<>>
      BY <2>3, <1>5 DEF Plain, Root
    <3>2. d = Append(Parent(p), b.name) /\ Parent(p) \in Seq(Name)
      BY <2>3, <3>1, <1>7, ParentIs DEF Dest
    <3> QED
      BY <3>2 DEF Root
  <2>4. CASE b.op \in {"copy", "move"}
    <3>1. d = Append(b.dir, DestName(b, p))
      BY <2>4 DEF Dest
    <3> QED
      BY <3>1, <1>6 DEF Root
  <2> QED
    BY <2>1, <2>2, <2>3, <2>4, <1>6
<1>9. Plain(d)
  BY <1>5, <1>8 DEF Plain
<1>10. Placed(y)
  BY <1>2, <1>4, <1>5, <1>6, <1>9 DEF Placed, AtWork, FirstStep, Proceed
<1>11. b.op \in {"copy", "move"} /\ p # d => ~Under(p, d)
  <2> SUFFICES ASSUME b.op \in {"copy", "move"}, p # d, Under(p, d) PROVE FALSE
    OBVIOUS
  <2>1. d # <<>> /\ Under(p, Parent(d))
    BY <1>7, UnderParent
  <2>2. Parent(d) = b.dir
    BY <1>1, <1>7, DestParent
  <2> QED
    BY <2>1, <2>2, <1>5
<1>12. b.op = "rename" => Parent(p) = Parent(d)
  <2>1. b.op = "rename" => p # <<>>
    BY <1>5 DEF Plain, Root
  <2> QED
    BY <1>1, <1>7, <2>1, DestParent
<1>13. Going(y)
  <2>1. y.phase = IF b.op = "delete" THEN "remove"
                  ELSE IF b.op = "mkdir" THEN "mkdir"
                  ELSE IF d = p THEN IF b.op = "copy" THEN "copy" ELSE "next"
                  ELSE IF Exists(d) THEN "clear"
                  ELSE IF b.op = "rename" \/ (b.op = "move" /\ Parent(p) = Parent(d))
                       THEN "rename" ELSE "copy"
    BY <1>2 DEF FirstStep, Proceed
  <2>2. y.phase = "clear" =>
          b.op \in {"rename", "copy", "move"} /\ b.overwrite /\ p # d
    BY <2>1, <1>5, <1>6
  <2>3. y.phase = "rename" =>
          b.op \in {"rename", "move"} /\ Parent(p) = Parent(d) /\ p # d
    BY <2>1, <1>12
  <2>4. y.phase = "copy" => b.op \in {"copy", "move"}
    BY <2>1, <1>6
  <2>5. y.phase = "remove" => b.op = "delete"
    BY <2>1
  <2>6. y.phase \in {"clear", "copy", "remove"} /\ p # d => ~Under(p, d)
    <3>1. b.op = "delete" => p = d
      BY DEF Dest
    <3>2. CASE b.op = "rename"
      <4> SUFFICES ASSUME p # d, Under(p, d) PROVE FALSE
        OBVIOUS
      <4>1. p # <<>> /\ d # <<>>
        BY <3>2, <1>5, <1>8 DEF Plain, Root
      <4>2. Under(p, Parent(p))
        BY <3>2, <1>7, <1>12, UnderParent
      <4>3. Parent(p) \in Seq(Name) /\ Under(Parent(p), p) /\ Parent(p) # p
        BY <4>1, <1>7, ParentIs
      <4> QED
        BY <4>2, <4>3, <1>7, UnderOrder
    <3> QED
      BY <2>1, <3>1, <3>2, <1>6, <1>11
  <2> QED
    BY <1>2, <2>2, <2>3, <2>4, <2>5, <2>6 DEF Going
<1>14. Walk(y)
  <2>1. b.op = "copy" \/ b.op = "move" => p \o Root = p
    BY <1>7 DEF Root
  <2>2. y.phase = "copy" => b.op # "mkdir"
    BY <1>2 DEF FirstStep
  <2>3. p \o Root = p
    BY <1>7 DEF Root
  <2> QED
    BY <1>2, <1>3, <2>3 DEF Walk
<1> QED
  BY <1>1, <1>2, <1>4, <1>10, <1>13, <1>14 DEF Formed
(* A step keeps the requests in shape, *)
LEMMA FormedStep ==
  ASSUME Shaped, NEW r \in Requests, Did(r)
  PROVE  \A u \in Requests : Formed(req'[u])
<1> PICK x : x = req[r]
  OBVIOUS
<1> PICK y : y = req'[r]
  OBVIOUS
<1>1. /\ x \in RequestShape /\ y \in RequestShape /\ Formed(x) /\ Types /\ Whole
      /\ \A u \in Requests \ {r} : req'[u] = req[u] /\ Formed(req[u])
  BY DEF Shaped, Types, Did, Alone
<1>2. x.phase # "done" => ~x.ok
  BY <1>1 DEF Formed
<1>3. CASE Arrived(x, y)
  <2>1. y.phase = "next" /\ ~y.ok /\ ToSet(y.left) = Sources(y.body)
    BY <1>2, <1>3 DEF Arrived
  <2>2. Placed(y) /\ Going(y) /\ Walk(y)
    BY <2>1 DEF Placed, Going, Walk, AtWork
  <2>3. ToSet(y.left) \subseteq Sources(y.body)
    BY <2>1, Zenon
  <2> QED
    BY <1>1, <2>1, <2>2, <2>3 DEF Formed
<1>4. CASE Stopped(x, y)
  BY <1>1, <1>4, FormedDone DEF Stopped, Refused
<1>5. CASE Started(x, y)
  BY <1>1, <1>5, FormedStart DEF Started
<1>6. CASE Made(x, y)
  BY <1>1, <1>2, <1>6, FormedGoes DEF Made, Goes
<1>7. CASE Cleared(x, y)
  <2>1. PICK q \in Paths :
           IF q = x.to THEN Goes(x, y, Proceed(x.body, x.from)) ELSE y = x
    BY <1>7 DEF Cleared
  <2>2. CASE q = x.to
    <3>1. /\ y.phase = Proceed(x.body, x.from) /\ y.ok = x.ok /\ y.body = x.body
          /\ y.left = x.left /\ y.from = x.from /\ y.to = x.to /\ y.todo = x.todo
      BY <2>1, <2>2 DEF Goes
    <3>2. /\ x.phase = "clear" /\ Placed(x) /\ Going(x)
      BY <1>1, <1>7 DEF Cleared, Formed
    <3>3. /\ x.from \in Sources(x.body) /\ x.to = Dest(x.body, x.from)
          /\ Plain(x.to) /\ x.body.op \in {"rename", "copy", "move"} /\ Plain(x.from)
          /\ x.todo = {Root} /\ x.from # x.to /\ ~Under(x.from, x.to)
      BY <3>2 DEF Placed, Going, AtWork
    <3>4. y.phase = IF \/ x.body.op = "rename"
                       \/ (x.body.op = "move" /\ Parent(x.from) = Parent(x.to))
                    THEN "rename" ELSE "copy"
      BY <3>1, <3>3 DEF Proceed
    <3>5. Placed(y)
      BY <3>1, <3>3, <3>4 DEF Placed
    <3>6. x.body.op = "rename" => Parent(x.from) = Parent(x.to)
      <4>1. x.to \in Seq(Name) /\ x.from \in Seq(Name) /\ x.from # <<>> /\ x.body \in Bodies
        BY <1>1, <3>3, PlainIs, ShapeIs DEF Plain, Root
      <4> QED
        BY <3>3, <4>1, DestParent
    <3>7. Going(y)
      BY <3>1, <3>3, <3>4, <3>6 DEF Going
    <3>8. Walk(y)
      <4>1. x.from \o Root \in Paths
        <5> PICK p : p = x.from
          OBVIOUS
        <5>1. p \in Seq(Name) /\ p \in Paths
          BY <3>3, PlainIs DEF Plain
        <5>2. p \o Root = p
          BY <5>1 DEF Root
        <5> QED
          BY <5>1, <5>2
      <4>2. y.from \o Root \in Paths /\ \A t \in y.todo : t = Root
        BY <3>1, <3>3, <4>1
      <4> QED
        BY <4>2 DEF Walk
    <3> QED
      BY <1>1, <3>1, <3>2, <3>4, <3>5, <3>7, <3>8 DEF Formed
  <2>3. CASE q # x.to
    BY <1>1, <2>1, <2>3
  <2> QED
    BY <2>2, <2>3
<1>8. CASE Renamed(x, y)
  BY <1>1, <1>2, <1>8, FormedGoes DEF Renamed, Goes
<1>9. CASE CopiedOne(x, y)
  <2>1. PICK s \in Seq(Name) : Copies(s, x, y)
    BY <1>9 DEF CopiedOne
  <2>2. /\ x.phase = "copy" /\ Placed(x) /\ Going(x) /\ Walk(x)
    BY <1>1, <1>9 DEF CopiedOne, Formed
  <2>3. /\ y.phase = "copy" /\ y.ok = x.ok /\ y.body = x.body
        /\ y.left = x.left /\ y.from = x.from /\ y.to = x.to
        /\ s \in x.todo /\ x.from \o s \in Paths
    BY <2>1 DEF Copies
  <2>4. Placed(y) /\ Going(y)
    BY <2>2, <2>3 DEF Placed, Going, AtWork
  <2>5. Plain(x.from) /\ x.from \in Seq(Name)
    BY <2>2, PlainIs DEF Placed, AtWork
  <2>6. \A t \in x.todo : t \in Seq(Name) /\ x.from \o t \in Paths
    BY <1>1, <2>2, ShapeIs DEF Walk
  <2>7. \A t, u \in x.todo : Under(t, u) => t = u
    BY <2>2 DEF Walk
  <2>8. CASE y.todo = x.todo \ {s}
    BY <2>3, <2>4, <2>6, <2>7, <2>8, <1>1, <1>2, <2>2 DEF Walk, Formed
  <2>9. CASE Opened(s, x, y)
    <3> DEFINE New == {Append(s, n) : n \in {Last(q) : q \in Children(x.from \o s)}}
    <3>1. y.todo = (x.todo \ {s}) \cup New
      BY <2>9 DEF Opened
    <3>2. \A t \in New : \E n \in Name :
             t = Append(s, n) /\ t \in Seq(Name) /\ x.from \o t \in Paths
      <4> SUFFICES ASSUME NEW q \in Children(x.from \o s)
                   PROVE  /\ Last(q) \in Name /\ Append(s, Last(q)) \in Seq(Name)
                          /\ x.from \o Append(s, Last(q)) \in Paths
        OBVIOUS
      <4> PICK p : p = x.from
        OBVIOUS
      <4>1. Plain(p) /\ p \o s \in Paths /\ q \in Children(p \o s)
        BY <2>3, <2>5
      <4>2. /\ Last(q) \in Name /\ Append(s, Last(q)) \in Seq(Name)
            /\ p \o Append(s, Last(q)) \in Paths
        BY <4>1, ChildIs
      <4> QED
        BY <4>2
    <3> HIDE DEF New
    <3>3. \A t \in y.todo : x.from \o t \in Paths /\ t \in Seq(Name)
      BY <3>1, <3>2, <2>6
    <3>4. ASSUME NEW t \in y.todo, NEW u \in y.todo, Under(t, u) PROVE t = u
      <4>1. t \in Seq(Name) /\ u \in Seq(Name) /\ s \in Seq(Name)
        BY <3>3
      <4>2. CASE t \in New /\ u \in New
        <5>1. PICK n \in Name : t = Append(s, n)
          BY <3>2, <4>2
        <5>2. PICK m \in Name : u = Append(s, m)
          BY <3>2, <4>2
        <5>3. Len(t) >= Len(u)
          BY <5>1, <5>2
        <5> QED
          BY <3>4, <4>1, <5>3, UnderOrder
      <4>3. CASE t \in New /\ u \in x.todo \ {s}
        <5>1. PICK n \in Name : t = Append(s, n)
          BY <3>2, <4>3
        <5>2. Under(s, t)
          BY <4>1, <5>1, ParentOfAppend
        <5>3. Under(s, u)
          BY <3>4, <4>1, <5>2, UnderOrder
        <5> QED
          BY <2>3, <2>7, <4>3, <5>3
      <4>4. CASE t \in x.todo \ {s} /\ u \in New
        <5>1. PICK n \in Name : u = Append(s, n)
          BY <3>2, <4>4
        <5>2. Under(t, s) \/ t = u
          BY <3>4, <4>1, <5>1, UnderAppend
        <5>3. t = u
          BY <2>3, <2>7, <4>4, <5>2
        <5> QED
          BY <5>3
      <4>5. CASE t \in x.todo \ {s} /\ u \in x.todo \ {s}
        BY <2>7, <3>4, <4>5
      <4> QED
        BY <3>1, <4>2, <4>3, <4>4, <4>5
    <3>5. Walk(y)
      BY <2>3, <3>3, <3>4 DEF Walk
    <3> QED
      BY <1>1, <1>2, <2>2, <2>3, <2>4, <3>5 DEF Formed
  <2> QED
    BY <2>1, <2>8, <2>9 DEF Copies, Written
<1>10. CASE CopiedAll(x, y)
  <2>1. CASE x.body.op = "move"
    <3>1. /\ y.phase = "remove" /\ y.ok = x.ok /\ y.body = x.body
          /\ y.left = x.left /\ y.from = x.from /\ y.to = x.to /\ x.phase = "copy"
      BY <1>10, <2>1 DEF CopiedAll, Goes
    <3> QED
      BY <1>1, <1>2, <2>1, <3>1 DEF Formed, Placed, Going, Walk, AtWork
  <2>2. CASE x.body.op # "move"
    BY <1>1, <1>2, <1>10, <2>2, FormedGoes DEF CopiedAll, Goes
  <2> QED
    BY <2>1, <2>2
<1>11. CASE Removed(x, y)
  BY <1>1, <1>2, <1>11, FormedGoes DEF Removed, Goes
<1>12. CASE Finished(x, y)
  BY <1>1, <1>12, FormedDone DEF Finished
<1>13. CASE Broke(x, y)
  BY <1>1, <1>13, FormedDone DEF Broke, Refused
<1>14. Formed(y)
  BY <1>3, <1>4, <1>5, <1>6, <1>7, <1>8, <1>9, <1>10, <1>11, <1>12, <1>13 DEF Did
<1> QED
  BY <1>1, <1>14

(* the tree whole, *)
LEMMA WholeStep ==
  ASSUME Shaped, NEW r \in Requests, Did(r)
  PROVE  Whole' /\ node' \in [Paths -> Kinds]
<1> PICK x : x = req[r]
  OBVIOUS
<1> PICK y : y = req'[r]
  OBVIOUS
<1>1. /\ x \in RequestShape /\ Types /\ Whole /\ node \in [Paths -> Kinds]
  BY DEF Shaped, Types
<1>2. CASE node' = node
  BY <1>1, <1>2 DEF Whole, Exists
<1>3. CASE Made(x, y)
  <2>1. x.to \in Paths /\ Opens(x.to)
    BY <1>1, <1>3, ShapeIs DEF Made
  <2> QED
    BY <1>1, <2>1, OpensWhole DEF Opens
<1>4. CASE Cleared(x, y) \/ Removed(x, y)
  <2>1. PICK q \in Paths : Drops(q)
    BY <1>4 DEF Cleared, Removed
  <2> QED
    BY <1>1, <2>1, DropsWhole DEF Drops
<1>5. CASE Renamed(x, y)
  BY <1>1, <1>5, MovesWhole DEF Renamed, Moves
<1>6. CASE CopiedOne(x, y)
  <2>1. PICK s \in Seq(Name) : Copies(s, x, y)
    BY <1>6 DEF CopiedOne
  <2>2. CASE Opened(s, x, y)
    BY <1>1, <2>1, <2>2, OpensWhole DEF Copies, Opened, Opens
  <2>3. CASE Written(s, x, y)
    BY <1>1, <2>1, <2>3, PutsWhole DEF Copies, Written, Puts
  <2> QED
    BY <2>1, <2>2, <2>3 DEF Copies
<1>7. CASE Broke(x, y)
  BY <1>1, <1>7, PutsWhole DEF Broke, Puts
<1> QED
  BY <1>2, <1>3, <1>4, <1>5, <1>6, <1>7
     DEF Did, Arrived, Stopped, Started, CopiedAll, Finished
(* and the variables typed. *)
LEMMA ShapedInit == Init => Shaped
<1> SUFFICES ASSUME Init PROVE Shaped
  OBVIOUS
<1>1. ServedTree(node)
  BY LocalFsAssumption DEF Init
<1>2. node \in [Paths -> Kinds]
  BY <1>1 DEF ServedTree, Kinds
<1>3. Whole
  BY <1>1 DEF ServedTree, Whole, Exists, IsStrictPrefix, Under
<1>4. Idle \in RequestShape
  <2>1. (CHOOSE b \in Bodies : TRUE) \in Bodies
    BY LocalFsAssumption
  <2>2. <<>> \in Seq(Paths) /\ Root \in Paths
    BY PathFacts
  <2> QED
    BY <2>1, <2>2 DEF Idle, RequestShape, Phases
<1>5. req \in [Requests -> RequestShape] /\ \A r \in Requests : req[r] = Idle
  BY <1>4 DEF Init
<1>6. Idle.phase = "idle" /\ ~Idle.ok /\ Idle.left = <<>>
  BY DEF Idle
<1>7. ToSet(Idle.left) = {}
  BY <1>6 DEF ToSet
<1>8. Formed(Idle)
  BY <1>6, <1>7 DEF Formed, Placed, Going, Walk, AtWork
<1>9. image = [r \in Requests |-> image[r]]
  BY DEF Init
<1>10. Types
  BY <1>2, <1>5, <1>9, LocalFsAssumption DEF Types, Init
<1> QED
  BY <1>3, <1>5, <1>8, <1>10 DEF Shaped

LEMMA ParentIsPath ==
  ASSUME NEW q \in Paths, q # Root
  PROVE  Parent(q) \in Paths /\ Parent(q) \in Seq(Name)
<1>1. q \in Seq(Name) /\ q # <<>>
  BY PathFacts DEF Root
<1>2. Parent(q) \in Seq(Name) /\ Under(Parent(q), q)
  BY <1>1, ParentIs
<1> QED
  BY <1>2, PrefixIsPath

LEMMA ShapedStep == Shaped /\ [Next]_vars => Shaped'
<1> SUFFICES ASSUME Shaped, [Next]_vars PROVE Shaped'
  OBVIOUS
<1>1. CASE UNCHANGED vars
  BY <1>1 DEF vars, Shaped, Types, Whole, Exists
<1>2. CASE Next
  <2>1. PICK r \in Requests :
          /\ Arrive(r) \/ Step(r)
          /\ unseen' = (unseen \cup ChangedListings) \ AnnouncedNow(r)
          /\ atRisk' = atRisk \cup RiskNow'
          /\ disturbed' = disturbed \cup DisturbedNow'
    BY <1>2 DEF Next
  <2>2. Did(r) /\ failures' \in 0..MaxFailures /\ Types
    BY <2>1, StepDid DEF Shaped
  <2>3. image' = [u \in Requests |-> image'[u]]
    <3>1. image' = image \/ image' = [image EXCEPT ![r] = Tree(node, Head(req[r].left))]
      BY <2>1, StepDid
    <3> QED
      BY <2>2, <3>1 DEF Types
  <2>4. \A u \in Requests : Formed(req'[u])
    BY <2>2, FormedStep
  <2>5. Whole' /\ node' \in [Paths -> Kinds]
    BY <2>2, WholeStep
  <2>6. req' \in [Requests -> RequestShape]
    BY <2>2 DEF Did, Alone
  <2>7. unseen' \subseteq Paths
    <3>1. ChangedListings \subseteq Paths
      BY ParentIsPath DEF ChangedListings
    <3> QED
      BY <2>1, <2>2, <3>1 DEF Types
  <2>8. atRisk' \subseteq Contents
    <3>1. RiskNow' \subseteq Contents
      BY DEF RiskNow
    <3> QED
      BY <2>1, <2>2, <3>1 DEF Types
  <2>9. disturbed' \subseteq Requests
    <3>1. DisturbedNow' \subseteq Requests
      BY DEF DisturbedNow, Running
    <3> QED
      BY <2>1, <2>2, <3>1 DEF Types
  <2>10. Types'
    BY <2>2, <2>3, <2>5, <2>6, <2>7, <2>8, <2>9 DEF Types
  <2> QED
    BY <2>4, <2>5, <2>10 DEF Shaped
<1> QED
  BY <1>1, <1>2

(* The variables of LocalFs keep their shapes, and what is in the tree is in a
   directory. *)
THEOREM LocalFsTypeCorrect == Spec => []TypeOK
<1>1. Shaped => TypeOK
  <2> SUFFICES ASSUME Shaped PROVE TypeOK
    OBVIOUS
  <2>1. ASSUME NEW p \in Paths \ {Root}, Exists(p) PROVE node[Parent(p)] = Dir
    <3>1. p \in Seq(Name) /\ p # <<>>
      BY PathFacts DEF Root
    <3>2. Under(Parent(p), p) /\ Parent(p) # p /\ Parent(p) \in Paths
      BY <3>1, ParentIs, ParentIsPath
    <3> QED
      BY <2>1, <3>2 DEF Shaped, Whole
  <2>2. ASSUME NEW r \in Requests
        PROVE  /\ req[r].phase \in Phases /\ req[r].body \in Bodies
               /\ {req[r].from, req[r].to} \subseteq Paths
               /\ req[r].todo \subseteq Paths
    <3>1. req[r] \in RequestShape
      BY DEF Shaped, Types
    <3> QED
      BY <3>1, ShapeIs
  <2> QED
    BY <2>1, <2>2 DEF TypeOK, Shaped, Types, Kinds
<1> QED
  BY <1>1, ShapedInit, ShapedStep, PTL DEF Spec
-----------------------------------------------------------------------------
(* What changed and was not announced yet. *)

Explains(b, d) ==
    \/ \E p \in Sources(b) \cup Destinations(b) : Under(p, d)
    \/ b.op \in {"copy", "move"} /\ Under(d, b.dir)

(* A listing that waits is one a request failed on, one a successful request may
   leave, or one a request that still runs is to announce. *)
Covered(d) ==
    \E r \in Requests :
        \/ req[r].phase = "done" /\ ~req[r].ok
        \/ req[r].phase # "idle" /\ Explains(req[r].body, d)
        \/ r \in Running /\ d \in Announced(req[r].body)

Listed == \A d \in unseen : Covered(d)

(* A request goes on with the body it has until it is done. *)
LEMMA Onward ==
  ASSUME Shaped, NEW r \in Requests, Did(r)
  PROVE  /\ req[r].phase # "done" /\ req'[r].phase \in Phases \ {"idle"}
         /\ req[r].phase # "idle" => req'[r].body = req[r].body
         /\ req[r].phase = "idle" => node' = node
         /\ req'[r].phase = "done" => node' = node \/ ~req'[r].ok
<1> PICK x : x = req[r]
  OBVIOUS
<1> PICK y : y = req'[r]
  OBVIOUS
<1>1. y \in RequestShape /\ x \in RequestShape
  BY DEF Shaped, Types, Did, Alone
<1>2. y.phase \in Phases
  BY <1>1, ShapeIs
<1>3. CASE Arrived(x, y) \/ Stopped(x, y)
  BY <1>2, <1>3 DEF Arrived, Stopped, Refused
<1>4. CASE Started(x, y)
  BY <1>2, <1>4 DEF Started, Starts, FirstStep, Proceed
<1>5. CASE Made(x, y) \/ Renamed(x, y) \/ CopiedAll(x, y) \/ Finished(x, y) \/ Broke(x, y)
  BY <1>2, <1>5 DEF Made, Renamed, CopiedAll, Finished, Broke, Goes, Refused
<1>6. CASE Cleared(x, y) \/ Removed(x, y)
  BY <1>2, <1>6 DEF Cleared, Removed, Goes, Proceed
<1>7. CASE CopiedOne(x, y)
  BY <1>2, <1>7 DEF CopiedOne, Copies
<1> QED
  BY <1>3, <1>4, <1>5, <1>6, <1>7 DEF Did

(* Where the tree changes: in the claims of the request, or above one of its
   destinations. *)
LEMMA WhereItChanges ==
  ASSUME Shaped, NEW r \in Requests, Did(r), NEW q \in Paths, node'[q] # node[q]
  PROVE  LET x == req[r]
         IN  /\ x.phase \in AtWork
             /\ \/ /\ x.phase = "mkdir" /\ q = x.to /\ Parent(q) = x.from
                   /\ node[q] = Nothing /\ node'[q] = Dir
                \/ x.phase \in {"clear", "rename", "copy"} /\ Under(x.to, q)
                \/ x.phase \in {"rename", "remove"} /\ Under(x.from, q)
                \/ /\ x.phase = "copy" /\ Under(q, x.to)
                   /\ node[q] = Nothing /\ node'[q] = Dir
<1> PICK x : x = req[r]
  OBVIOUS
<1> PICK y : y = req'[r]
  OBVIOUS
<1>1. /\ x \in RequestShape /\ Formed(x) /\ Types /\ Whole
  BY DEF Shaped, Types
<1>2. q \in Seq(Name)
  BY PathFacts
<1>3. CASE Made(x, y)
  <2>1. x.to \in Paths /\ x.to # Root /\ node[Parent(x.to)] = Dir
    BY <1>1, <1>3 DEF Made, Formed, Placed, AtWork, Plain
  <2>2. Under(q, x.to)
    BY <1>3 DEF Made, Opens
  <2>3. q = x.to
    <3> SUFFICES ASSUME q # x.to PROVE FALSE
      OBVIOUS
    <3>1. node[q] = Dir
      BY <1>1, <2>1, <2>2, AboveDir
    <3> QED
      BY <1>3, <2>2, <3>1 DEF Made, Opens
  <2> QED
    BY <1>3, <2>2, <2>3 DEF Made, Opens, AtWork
<1>4. CASE Cleared(x, y)
  BY <1>4 DEF Cleared, Drops, AtWork
<1>5. CASE Removed(x, y)
  BY <1>5 DEF Removed, Drops, AtWork
<1>6. CASE Renamed(x, y)
  BY <1>6 DEF Renamed, Moves, AtWork
<1>7. ASSUME NEW s \in Seq(Name), x.phase = "copy", Under(q, x.to \o s),
             q # x.to \o s => node[q] = Nothing /\ node'[q] = Dir
      PROVE  \/ Under(x.to, q)
             \/ Under(q, x.to) /\ node[q] = Nothing /\ node'[q] = Dir
  <2>1. x.to \in Seq(Name)
    BY <1>1, ShapeIs
  <2> PICK d : d = x.to
    OBVIOUS
  <2>2. d \o s \in Seq(Name) /\ Under(d, d \o s) /\ Under(q, d \o s)
    BY <1>7, <2>1, UnderConcat
  <2> PICK t : t = d \o s
    OBVIOUS
  <2>3. Under(d, q) \/ Under(q, d)
    BY <1>2, <2>1, <2>2, UnderComparable
  <2>4. q = t => Under(d, q)
    BY <2>2
  <2> QED
    BY <1>7, <2>3, <2>4
<1>8. CASE CopiedOne(x, y)
  <2>1. PICK s \in Seq(Name) : Copies(s, x, y)
    BY <1>8 DEF CopiedOne
  <2>2. /\ Under(q, x.to \o s)
        /\ q # x.to \o s => node[q] = Nothing /\ node'[q] = Dir
    BY <2>1 DEF Copies, Opened, Opens, Written, Puts
  <2> QED
    BY <1>7, <1>8, <2>2 DEF CopiedOne, AtWork
<1>9. CASE Broke(x, y)
  <2>1. PICK s \in Seq(Name) : Puts(x.to \o s, Empty)
    BY <1>9 DEF Broke
  <2>2. /\ Under(q, x.to \o s)
        /\ q # x.to \o s => node[q] = Nothing /\ node'[q] = Dir
    BY <2>1 DEF Puts
  <2> QED
    BY <1>7, <1>9, <2>2 DEF Broke, AtWork
<1>10. ~(Arrived(x, y) \/ Stopped(x, y) \/ Started(x, y) \/ CopiedAll(x, y) \/ Finished(x, y))
  BY DEF Arrived, Stopped, Started, CopiedAll, Finished
<1> QED
  BY <1>3, <1>4, <1>5, <1>6, <1>8, <1>9, <1>10 DEF Did

LEMMA ChangeIsExplained ==
  ASSUME Shaped, NEW r \in Requests, Did(r), NEW q \in Paths \ {Root}, node'[q] # node[q]
  PROVE  LET b == req[r].body
         IN  Explains(b, Parent(q)) \/ Parent(q) \in Announced(b)
<1> PICK x : x = req[r]
  OBVIOUS
<1> PICK b : b = x.body
  OBVIOUS
<1> PICK p : p = x.from
  OBVIOUS
<1> PICK d : d = x.to
  OBVIOUS
<1>1. /\ x \in RequestShape /\ Formed(x) /\ x.phase \in AtWork
      /\ \/ x.phase = "mkdir" /\ q = d /\ Parent(q) = p
         \/ x.phase \in {"clear", "rename", "copy"} /\ Under(d, q)
         \/ x.phase \in {"rename", "remove"} /\ Under(p, q)
         \/ x.phase = "copy" /\ Under(q, d)
  BY WhereItChanges DEF Shaped, Types
<1>2. /\ b \in Bodies /\ p \in Sources(b) /\ d = Dest(b, p) /\ d \in Destinations(b)
      /\ b.op # "mkdir" => Plain(p)
      /\ x.phase = "mkdir" <=> b.op = "mkdir"
      /\ Plain(d) /\ p \in Seq(Name) /\ d \in Seq(Name) /\ p \in Paths /\ d \in Paths
  BY <1>1, ShapeIs DEF Formed, Placed, AtWork, Destinations, Plain
<1>3. /\ q \in Seq(Name) /\ q # <<>> /\ Parent(q) \in Seq(Name)
      /\ Under(Parent(q), q)
  BY PathFacts, ParentIsPath, ParentIs DEF Root
<1>4. /\ b.op = "rename" => Parent(d) = Parent(p)
      /\ b.op \in {"copy", "move"} => Parent(d) = b.dir
  <2>1. b.op = "rename" => p # <<>>
    BY <1>2 DEF Plain, Root
  <2> QED
    BY <1>2, <2>1, DestParent
<1>5. CASE x.phase = "mkdir" /\ q = d /\ Parent(q) = p
  BY <1>2, <1>5 DEF Announced
<1>6. CASE x.phase \in {"clear", "rename", "copy"} /\ Under(d, q)
  <2>1. b.op \in {"rename", "copy", "move"}
    BY <1>1, <1>6 DEF Formed, Going
  <2>2. CASE q = d
    <3>1. Parent(p) \in Announced(b) \/ b.op = "copy"
      BY <1>2, <2>1 DEF Announced
    <3>2. b.op \in {"copy", "move"} => b.dir \in Announced(b)
      BY DEF Announced
    <3> QED
      BY <1>4, <2>1, <2>2, <3>1, <3>2
  <2>3. CASE q # d
    <3>1. Under(d, Parent(q))
      BY <1>2, <1>3, <1>6, <2>3, UnderParent
    <3> QED
      BY <1>2, <3>1 DEF Explains
  <2> QED
    BY <2>2, <2>3
<1>7. CASE x.phase \in {"rename", "remove"} /\ Under(p, q)
  <2>1. b.op \in {"rename", "move", "delete"}
    BY <1>1, <1>7 DEF Formed, Going
  <2>2. CASE q = p
    <3>1. Parent(p) \in Announced(b)
      BY <1>2, <2>1 DEF Announced
    <3> QED
      BY <2>2, <3>1
  <2>3. CASE q # p
    <3>1. Under(p, Parent(q))
      BY <1>2, <1>3, <1>7, <2>3, UnderParent
    <3> QED
      BY <1>2, <3>1 DEF Explains
  <2> QED
    BY <2>2, <2>3
<1>8. CASE x.phase = "copy" /\ Under(q, d) /\ ~Under(d, q)
  <2>1. b.op \in {"copy", "move"}
    BY <1>1, <1>8 DEF Formed, Going
  <2>2. q # d
    BY <1>2, <1>8, UnderOrder
  <2>3. Under(q, b.dir) /\ b.dir \in Seq(Name)
    BY <1>2, <1>3, <1>4, <1>8, <2>1, <2>2, UnderParent, BodyFacts
  <2>4. Under(Parent(q), b.dir)
    BY <1>3, <2>3, UnderOrder
  <2> QED
    BY <2>1, <2>4 DEF Explains
<1> QED
  BY <1>1, <1>5, <1>6, <1>7, <1>8

LEMMA ListedStep ==
  Shaped /\ Listed /\ [Next]_vars => Listed'
<1> SUFFICES ASSUME Shaped, Listed, [Next]_vars PROVE Listed'
  OBVIOUS
<1>1. CASE UNCHANGED vars
  BY <1>1 DEF vars, Listed, Covered, Running
<1>2. CASE Next
  <2>1. PICK r \in Requests :
          /\ Arrive(r) \/ Step(r)
          /\ unseen' = (unseen \cup ChangedListings) \ AnnouncedNow(r)
    BY <1>2 DEF Next
  <2>2. Did(r)
    BY <2>1, StepDid
  <2> PICK x : x = req[r]
    OBVIOUS
  <2> PICK y : y = req'[r]
    OBVIOUS
  <2>3. /\ x.phase # "done" /\ y.phase \in Phases \ {"idle"}
        /\ x.phase # "idle" => y.body = x.body
        /\ x.phase = "idle" => node' = node
        /\ y.phase = "done" => node' = node \/ ~y.ok
    BY <2>2, Onward
  <2>4. \A u \in Requests \ {r} : req'[u] = req[u]
    BY <2>2 DEF Did, Alone
  <2> SUFFICES ASSUME NEW d \in unseen' PROVE Covered(d)'
    BY DEF Listed
  <2>5. d \notin AnnouncedNow(r) /\ (d \in unseen \/ d \in ChangedListings)
    BY <2>1
  <2>6. ASSUME x.phase # "idle", Explains(x.body, d) \/ d \in Announced(x.body)
        PROVE  Covered(d)'
    <3>1. y.body = x.body
      BY <2>3, <2>6
    <3>2. CASE Explains(x.body, d)
      BY <2>3, <3>1, <3>2 DEF Covered
    <3>3. CASE d \in Announced(x.body)
      <4>1. ~(y.phase = "done" /\ y.ok)
        BY <2>5, <3>3 DEF AnnouncedNow
      <4>2. CASE y.phase = "done"
        BY <4>1, <4>2 DEF Covered
      <4>3. CASE y.phase # "done"
        BY <2>3, <3>1, <3>3, <4>3 DEF Covered, Running
      <4> QED
        BY <4>2, <4>3
    <3> QED
      BY <2>6, <3>2, <3>3
  <2>7. CASE d \in unseen
    <3>1. PICK u \in Requests :
            \/ req[u].phase = "done" /\ ~req[u].ok
            \/ req[u].phase # "idle" /\ Explains(req[u].body, d)
            \/ u \in Running /\ d \in Announced(req[u].body)
      BY <2>7 DEF Listed, Covered
    <3>2. CASE u # r
      BY <2>4, <3>1, <3>2 DEF Covered, Running
    <3>3. CASE u = r
      BY <2>3, <2>6, <3>1, <3>3 DEF Running
    <3> QED
      BY <3>2, <3>3
  <2>8. CASE d \in ChangedListings
    <3>1. PICK q \in Paths \ {Root} : node'[q] # node[q] /\ d = Parent(q)
      BY <2>8 DEF ChangedListings
    <3>2. Explains(x.body, d) \/ d \in Announced(x.body)
      BY <2>2, <3>1, ChangeIsExplained
    <3> QED
      BY <2>3, <2>6, <3>1, <3>2
  <2> QED
    BY <2>5, <2>7, <2>8
<1> QED
  BY <1>1, <1>2

(* When all requests succeeded, a listing that changed and was not announced is
   of a directory that itself appeared, went or was replaced, or above a
   destination directory that was missing. *)
THEOREM ListingsAnnounced == Spec => []ListingsAreAnnounced
<1>1. Init => Listed
  BY DEF Init, Listed
<1>2. Shaped /\ Listed => ListingsAreAnnounced
  <2> SUFFICES ASSUME Shaped, Listed,
                      \A r \in Requests : req[r].phase = "idle" \/ req[r].ok,
                      NEW d \in unseen
               PROVE  \E r \in Requests :
                        LET b == req[r].body
                        IN /\ req[r].phase = "done"
                           /\ \/ \E p \in Sources(b) \cup Destinations(b) : Under(p, d)
                              \/ b.op \in {"copy", "move"} /\ Under(d, b.dir)
    BY DEF ListingsAreAnnounced
  <2>1. PICK r \in Requests :
            \/ req[r].phase = "done" /\ ~req[r].ok
            \/ req[r].phase # "idle" /\ Explains(req[r].body, d)
            \/ r \in Running /\ d \in Announced(req[r].body)
    BY DEF Listed, Covered
  <2>2. req[r].phase = "idle" \/ (req[r].ok /\ req[r].phase = "done")
    BY DEF Shaped, Formed
  <2>3. req[r].phase = "done" /\ Explains(req[r].body, d)
    BY <2>1, <2>2 DEF Running
  <2> QED
    BY <2>3 DEF Explains
<1> QED
  BY <1>1, <1>2, ShapedInit, ShapedStep, ListedStep, PTL DEF Spec
-----------------------------------------------------------------------------
(* Contents that may be lost, and contents that are not. *)

Safe == Contents \ atRisk

RisksKnown == RiskNow \subseteq atRisk

(* While a target is copied or renamed, nothing that counts is where it will be
   written; after that, nothing that counts is there if the source is under it. *)
Fresh(x) ==
    /\ x.phase \in {"rename", "copy"} \/ (x.phase = "remove" /\ x.body.op = "move")
    /\ x.from # x.to
    => \A q \in Paths : Under(x.to, q) /\ node[q] \in Safe =>
          /\ ~Under(x.to, x.from)
          /\ x.phase # "remove" => \A t \in x.todo : ~Under(x.to \o t, q)

(* What counts in the source of a move, and is not still to be copied, is also in
   the destination. *)
Doubled(x) ==
    x.phase \in {"copy", "remove"} /\ x.body.op = "move" =>
        \A s \in Seq(Name) :
            /\ x.from \o s \in Paths /\ node[x.from \o s] \in Safe
            /\ x.phase = "copy" => \A t \in x.todo : ~Under(t, s)
            => x.to \o s \in Paths /\ node[x.to \o s] = node[x.from \o s]

Guarded ==
    /\ RisksKnown
    /\ \A r \in Requests : Fresh(req[r]) /\ Doubled(req[r])

(* What a request removes or writes is among its claims, and it is still running
   when it wrote a content. *)
LEMMA WritesAreClaimed ==
  ASSUME Shaped, NEW r \in Requests, Did(r), NEW q \in Paths, node'[q] # node[q],
         node[q] \in Contents \/ node'[q] \in Contents
  PROVE  /\ r \in Running /\ Claims(req[r].body, q)
         /\ req'[r].body = req[r].body
         /\ node'[q] \in Contents => r \in Running'
<1> PICK x : x = req[r]
  OBVIOUS
<1> PICK y : y = req'[r]
  OBVIOUS
<1>1. /\ x \in RequestShape /\ Formed(x) /\ x.phase \in AtWork
      /\ \/ x.phase \in {"clear", "rename", "copy"} /\ Under(x.to, q)
         \/ x.phase \in {"rename", "remove"} /\ Under(x.from, q)
  BY WhereItChanges, KindFacts DEF Shaped, Types
<1>2. r \in Running
  BY <1>1 DEF Running, AtWork
<1>3. x.from \in Sources(x.body) /\ x.to \in Destinations(x.body)
  BY <1>1 DEF Formed, Placed, Destinations
<1>4. x.phase \in {"rename", "remove"} => x.body.op # "copy" /\ x.body.op # "mkdir"
  BY <1>1 DEF Formed, Going
<1>5. Claims(x.body, q)
  BY <1>1, <1>3, <1>4 DEF Claims
<1>6. y.body = x.body /\ y.phase # "idle"
  BY <1>1, Onward DEF AtWork
<1>7. ASSUME node'[q] \in Contents PROVE y.phase # "done"
  <2>1. ~(Arrived(x, y) \/ Stopped(x, y) \/ Started(x, y) \/ CopiedAll(x, y) \/ Finished(x, y))
    BY DEF Arrived, Stopped, Started, CopiedAll, Finished
  <2>2. ~Broke(x, y)
    <3> SUFFICES ASSUME Broke(x, y) PROVE FALSE
      OBVIOUS
    <3>1. PICK s \in Seq(Name) : Puts(x.to \o s, Empty)
      BY DEF Broke
    <3> QED
      BY <1>7, <3>1, KindFacts DEF Puts
  <2>3. Made(x, y) \/ Cleared(x, y) \/ Renamed(x, y) \/ CopiedOne(x, y) \/ Removed(x, y)
    BY <2>1, <2>2 DEF Did
  <2> QED
    BY <2>3, <1>1 DEF Made, Cleared, Renamed, CopiedOne, Copies, Removed, Goes, Proceed, AtWork
<1> QED
  BY <1>2, <1>5, <1>6, <1>7 DEF Running

(* Where a running request is to destroy, and where two requests write, a content
   counts no more. *)
LEMMA OwnRisk ==
  ASSUME RisksKnown, NEW u \in Running, NEW q \in Paths, node[q] \in Contents,
         Doomed(req[u].body, q) \/ OntoItself(req[u].body, q)
  PROVE  node[q] \in atRisk
<1>1. node[q] \in RiskNow
  BY DEF RiskNow
<1> QED
  BY <1>1 DEF RisksKnown

LEMMA OthersRisk ==
  ASSUME Shaped, RisksKnown, RisksKnown', NEW r \in Requests, Did(r),
         NEW u \in Running, u # r, NEW q \in Paths, Claims(req[u].body, q),
         node'[q] # node[q]
  PROVE  /\ node[q] \notin Safe
         /\ node'[q] \notin Safe'
<1>1. u \in Requests /\ req'[u] = req[u]
  BY DEF Running, Did, Alone
<1>2. ASSUME node[q] \in Contents PROVE node[q] \in atRisk
  <2>1. r \in Running /\ Claims(req[r].body, q)
    BY <1>2, WritesAreClaimed
  <2>2. Contended(q)
    BY <2>1 DEF Contended
  <2>3. node[q] \in RiskNow
    BY <1>2, <2>2 DEF RiskNow
  <2> QED
    BY <2>3 DEF RisksKnown
<1>3. ASSUME node'[q] \in Contents PROVE node'[q] \in atRisk'
  <2>1. r \in Running' /\ Claims(req[r].body, q) /\ req'[r].body = req[r].body
    BY <1>3, WritesAreClaimed
  <2>2. u \in Running'
    BY <1>1 DEF Running
  <2>3. Contended(q)'
    <3>1. Claims(req'[r].body, q) /\ Claims(req'[u].body, q)
      BY <1>1, <2>1
    <3>2. Contended(q)' <=>
            \E v, w \in Running' : v # w /\ Claims(req'[v].body, q) /\ Claims(req'[w].body, q)
      BY DEF Contended, Claims, Sources, Destinations, Dest, DestName
    <3> QED
      BY <2>1, <2>2, <3>1, <3>2
  <2>4. node'[q] \in RiskNow'
    BY <1>3, <2>3 DEF RiskNow
  <2> QED
    BY <2>4 DEF RisksKnown
<1> QED
  BY <1>2, <1>3 DEF Safe
(* What is known of a request at work. *)
LEMMA WorkFacts ==
  ASSUME NEW x \in RequestShape, Formed(x), x.phase \in AtWork, x.body.op # "mkdir"
  PROVE  /\ Plain(x.from) /\ Plain(x.to)
         /\ x.from \in Seq(Name) /\ x.to \in Seq(Name) /\ x.from \in Paths /\ x.to \in Paths
         /\ x.from \in Sources(x.body) /\ x.to = Dest(x.body, x.from)
         /\ x.to \in Destinations(x.body)
         /\ x.todo \subseteq Seq(Name)
  BY ShapeIs DEF Formed, Placed, Destinations, Plain

(* Nothing is under what is not there. *)
LEMMA NothingUnder ==
  ASSUME Whole, NEW p \in Paths, node[p] = Nothing
  PROVE  \A q \in Paths : Under(p, q) => node[q] = Nothing
<1> SUFFICES ASSUME NEW q \in Paths, Under(p, q), node[q] # Nothing PROVE FALSE
  OBVIOUS
<1>1. CASE q = p
  BY <1>1
<1>2. CASE q # p
  BY <1>2, KindFacts DEF Whole, Exists
<1> QED
  BY <1>1, <1>2

LEMMA FreshOthers ==
  ASSUME Shaped, Guarded, RisksKnown', NEW r \in Requests, Did(r),
         atRisk \subseteq atRisk', NEW u \in Requests \ {r}, NEW x, x = req[u]
  PROVE  Fresh(x)' /\ Doubled(x)'
<1>1. /\ x \in RequestShape /\ Formed(x) /\ RisksKnown
      /\ Fresh(x) /\ Doubled(x)
  BY DEF Shaped, Types, Did, Alone, Guarded
<1>2. Fresh(x)'
  <2> SUFFICES ASSUME \/ x.phase \in {"rename", "copy"}
                      \/ x.phase = "remove" /\ x.body.op = "move",
                      x.from # x.to,
                      NEW q \in Paths, Under(x.to, q), node'[q] \in Safe'
               PROVE  /\ ~Under(x.to, x.from)
                      /\ x.phase # "remove" => \A t \in x.todo : ~Under(x.to \o t, q)
    BY DEF Fresh
  <2>1. x.phase \in AtWork /\ u \in Running /\ x.body.op # "mkdir"
    BY <1>1 DEF Running, AtWork, Formed, Placed
  <2>2. x.to \in Destinations(x.body)
    BY <1>1, <2>1, WorkFacts
  <2>3. Claims(req[u].body, q)
    BY <2>2 DEF Claims
  <2>4. node'[q] = node[q]
    BY <1>1, <2>1, <2>3, OthersRisk
  <2>5. node[q] \in Safe
    BY <2>4 DEF Safe
  <2> QED
    BY <1>1, <2>5 DEF Fresh
<1>3. Doubled(x)'
  <2> SUFFICES ASSUME x.phase \in {"copy", "remove"}, x.body.op = "move",
                      NEW s \in Seq(Name),
                      x.from \o s \in Paths, node'[x.from \o s] \in Safe',
                      x.phase = "copy" => \A t \in x.todo : ~Under(t, s)
               PROVE  x.to \o s \in Paths /\ node'[x.to \o s] = node'[x.from \o s]
    BY DEF Doubled
  <2>1. x.phase \in AtWork /\ u \in Running /\ x.body.op # "mkdir"
    BY <1>1 DEF Running, AtWork
  <2>2. /\ x.to \in Destinations(x.body) /\ x.from \in Sources(x.body)
        /\ x.to \in Seq(Name) /\ x.from \in Seq(Name)
    BY <1>1, <2>1, WorkFacts
  <2>3. Under(x.from, x.from \o s) /\ Under(x.to, x.to \o s)
    BY <2>2, UnderConcat
  <2>4. Claims(req[u].body, x.from \o s) /\ Claims(req[u].body, x.to \o s)
    BY <2>2, <2>3 DEF Claims
  <2>5. node'[x.from \o s] = node[x.from \o s]
    BY <1>1, <2>1, <2>4, OthersRisk
  <2>6. node[x.from \o s] \in Safe
    BY <2>5 DEF Safe
  <2>7. x.to \o s \in Paths /\ node[x.to \o s] = node[x.from \o s]
    BY <1>1, <2>6 DEF Doubled
  <2>8. node'[x.to \o s] = node[x.to \o s]
    BY <1>1, <2>1, <2>4, <2>6, <2>7, OthersRisk
  <2> QED
    BY <2>5, <2>7, <2>8
<1> QED
  BY <1>1, <1>2, <1>3

(* A destination that is not there is fresh. *)
FreshIfNothing == \A x : x.to \in Paths /\ node[x.to] = Nothing => Fresh(x)
LEMMA FreshNothing == Whole => FreshIfNothing
<1> SUFFICES ASSUME Whole, NEW x, x.to \in Paths, node[x.to] = Nothing PROVE Fresh(x)
  BY DEF FreshIfNothing
<1>1. \A q \in Paths : Under(x.to, q) => node[q] \notin Safe
  BY NothingUnder, KindFacts DEF Safe
<1> QED
  BY <1>1 DEF Fresh
LEMMA FreshNothingNext == Whole' => FreshIfNothing'
  BY FreshNothing, PTL

LEMMA FreshOwn ==
  ASSUME Shaped, Guarded, NEW r \in Requests, Did(r), atRisk \subseteq atRisk',
         NEW y, y = req'[r]
  PROVE  Fresh(y)'
<1> PICK x : x = req[r]
  OBVIOUS
<1>1. /\ x \in RequestShape /\ y \in RequestShape /\ Formed(x) /\ Formed(y)
      /\ Types /\ Whole /\ Whole' /\ Fresh(x)
  BY FormedStep, WholeStep DEF Shaped, Types, Did, Alone, Guarded
<1>2. CASE y.phase \in {"next", "mkdir", "clear", "done", "idle"}
  BY <1>2 DEF Fresh
<1>3. CASE Started(x, y)
  <2> SUFFICES ASSUME y.phase \in {"rename", "copy"} \/ (y.phase = "remove" /\ y.body.op = "move"),
                      y.from # y.to
               PROVE  Fresh(y)'
    BY DEF Fresh
  <2>1. /\ y.phase = FirstStep(y.body, y.from) /\ y.to = Dest(y.body, y.from)
        /\ node' = node
    BY <1>3 DEF Started, Starts
  <2>2. ~Exists(y.to)
    BY <2>1 DEF FirstStep
  <2>3. node'[y.to] = Nothing /\ y.to \in Paths
    BY <1>1, <2>1, <2>2, ShapeIs DEF Exists
  <2> QED
    BY <1>1, <2>3, FreshNothingNext DEF FreshIfNothing
<1>4. CASE Cleared(x, y)
  <2>1. PICK q \in Paths : /\ Drops(q)
                           /\ IF q = x.to THEN Goes(x, y, Proceed(x.body, x.from)) ELSE y = x
    BY <1>4 DEF Cleared
  <2>2. CASE q = x.to
    <3>1. node'[y.to] = Nothing /\ y.to \in Paths
      BY <2>1, <2>2 DEF Drops, Goes
    <3> QED
      BY <1>1, <3>1, FreshNothingNext DEF FreshIfNothing
  <2>3. CASE q # x.to
    BY <1>2, <1>4, <2>1, <2>3 DEF Cleared
  <2> QED
    BY <2>2, <2>3
<1>5. CASE CopiedOne(x, y)
  <2>1. PICK s \in Seq(Name) : Copies(s, x, y)
    BY <1>5 DEF CopiedOne
  <2> PICK p : p = x.from
    OBVIOUS
  <2> PICK d : d = x.to
    OBVIOUS
  <2>2. /\ x.phase = "copy" /\ y.phase = "copy" /\ y.from = p /\ y.to = d
        /\ s \in x.todo /\ p \o s \in Paths /\ d \o s \in Paths
    BY <1>5, <2>1 DEF CopiedOne, Copies
  <2>3. /\ p \in Seq(Name) /\ d \in Seq(Name) /\ p \in Paths /\ d \in Paths
        /\ x.todo \subseteq Seq(Name)
        /\ \A t, u \in x.todo : Under(t, u) => t = u
    BY <1>1, <2>2, WorkFacts DEF AtWork, Formed, Placed, Walk
  <2> SUFFICES ASSUME p # d, NEW q \in Paths, Under(d, q), node'[q] \in Safe'
               PROVE  ~Under(d, p) /\ \A t \in y.todo : ~Under(d \o t, q)
    BY <2>2 DEF Fresh
  <2>4. node'[q] \in Contents
    BY DEF Safe
  <2>5. ASSUME node'[q] = node[q]
        PROVE  ~Under(d, p) /\ \A t \in x.todo : ~Under(d \o t, q)
    <3>1. node[q] \in Safe
      BY <2>5 DEF Safe
    <3> QED
      BY <1>1, <2>2, <3>1 DEF Fresh
  <2>6. CASE Opened(s, x, y)
    <3>1. node'[q] = node[q]
      BY <2>4, <2>6, KindFacts DEF Opened, Opens
    <3>2. ~Under(d, p) /\ \A t \in x.todo : ~Under(d \o t, q)
      BY <2>5, <3>1
    <3>3. ASSUME NEW t \in y.todo PROVE ~Under(d \o t, q)
      <4>1. CASE t \in x.todo
        BY <3>2, <4>1
      <4>2. CASE t \notin x.todo
        <5>1. PICK e \in Children(p \o s) : t = Append(s, Last(e))
          BY <2>6, <4>2 DEF Opened
        <5>2. Plain(p)
          BY <1>1, <2>2, WorkFacts DEF AtWork, Formed, Placed
        <5>3. t \in Seq(Name)
          BY <2>2, <5>1, <5>2, ChildIs
        <5>4. Under(s, t)
          <6> PICK l : l = Last(e)
            OBVIOUS
          <6>1. t = Append(s, l) /\ Append(s, l) \in Seq(Name)
            BY <5>1, <5>3
          <6> QED
            BY <6>1, ParentOfAppend
        <5>5. Under(d \o s, d \o t)
          BY <2>3, <5>3, <5>4, UnderSame
        <5>6. d \o s \in Seq(Name) /\ d \o t \in Seq(Name) /\ q \in Seq(Name)
          BY <2>3, <5>3, UnderConcat, PathFacts
        <5>7. ~Under(d \o s, q)
          BY <2>2, <3>2
        <5> QED
          BY <5>5, <5>6, <5>7, UnderOrder
      <4> QED
        BY <4>1, <4>2
    <3> QED
      BY <3>2, <3>3
  <2>7. CASE Written(s, x, y)
    <3>1. /\ y.todo = x.todo \ {s}
          /\ Puts(d \o s, node[p \o s])
      BY <2>7 DEF Written
    <3>2. CASE q = d \o s
      <4>1. node'[q] = node[p \o s]
        BY <3>1, <3>2 DEF Puts
      <4>2. node[p \o s] \in Safe
        BY <4>1 DEF Safe
      <4>3. ~Under(d, p)
        <5>1. Under(p, p \o s) /\ p \o s \in Seq(Name)
          BY <2>3, UnderConcat
        <5>2. Under(d, p) => Under(d, p \o s)
          BY <2>3, <5>1, UnderOrder
        <5> QED
          BY <1>1, <2>2, <4>2, <5>2 DEF Fresh
      <4>4. ASSUME NEW t \in y.todo PROVE ~Under(d \o t, q)
        <5>1. t \in x.todo /\ t # s /\ t \in Seq(Name)
          BY <2>3, <3>1
        <5>2. ~Under(t, s)
          BY <2>2, <2>3, <5>1
        <5> QED
          BY <2>3, <3>2, <5>1, <5>2, UnderSame
      <4> QED
        BY <4>3, <4>4
    <3>3. CASE q # d \o s
      <4>1. node'[q] = node[q]
        BY <2>4, <3>1, <3>3, KindFacts DEF Puts
      <4> QED
        BY <2>5, <3>1, <4>1
    <3> QED
      BY <3>2, <3>3
  <2> QED
    BY <2>1, <2>6, <2>7 DEF Copies
<1>6. CASE CopiedAll(x, y)
  <2>1. /\ x.phase = "copy" /\ y.from = x.from /\ y.to = x.to /\ node' = node
        /\ y.phase \in {"remove", "next"}
    BY <1>6 DEF CopiedAll, Goes
  <2>2. Safe' \subseteq Safe
    BY DEF Safe
  <2> QED
    BY <1>1, <2>1, <2>2 DEF Fresh
<1>7. CASE Removed(x, y)
  <2>1. PICK q \in Paths : Drops(q) /\ IF q = x.from THEN Goes(x, y, "next") ELSE y = x
    BY <1>7 DEF Removed
  <2>2. CASE q = x.from
    BY <1>2, <2>1, <2>2 DEF Goes
  <2>3. CASE q # x.from
    <3>1. y = x /\ x.phase = "remove"
      BY <1>7, <2>1, <2>3 DEF Removed
    <3>2. \A u \in Paths : node'[u] \in Safe' => node[u] \in Safe
      BY <2>1, KindFacts DEF Drops, Safe
    <3> QED
      BY <1>1, <3>1, <3>2 DEF Fresh
  <2> QED
    BY <2>2, <2>3
<1>8. CASE Arrived(x, y) \/ Stopped(x, y) \/ Made(x, y) \/ Renamed(x, y)
           \/ Finished(x, y) \/ Broke(x, y)
  BY <1>2, <1>8 DEF Arrived, Stopped, Made, Renamed, Finished, Broke, Goes, Refused
<1> QED
  BY <1>3, <1>4, <1>5, <1>6, <1>7, <1>8 DEF Did
(* If one path is under two others, one of these is under the other. *)
LEMMA DestAboveSource ==
  ASSUME NEW p \in Seq(Name), NEW d \in Seq(Name), ~Under(p, d),
         NEW q \in Seq(Name), Under(p, q), Under(d, q)
  PROVE  Under(d, p)
  BY UnderComparable

LEMMA SameTail ==
  ASSUME NEW p \in Seq(Name), NEW s \in Seq(Name), NEW t \in Seq(Name), p \o s = p \o t
  PROVE  s = t
  BY UnderSame

LEMMA NameSequences ==
  /\ \A p, s, t \in Seq(Name) : p \o s = p \o t => s = t
  /\ \A p, s \in Seq(Name), n \in Name : p \o Append(s, n) = Append(p \o s, n)
  /\ \A e \in Seq(Name), n \in Name :
        Parent(Append(e, n)) = e /\ Append(e, n) # <<>> /\ Last(Append(e, n)) = n
  /\ \A p, q \in Seq(Name) : Under(p, q) => \E s \in Seq(Name) : q = p \o s
<1>1. \A p, s, t \in Seq(Name) : p \o s = p \o t => s = t
  BY UnderSame
<1>2. \A p, s \in Seq(Name), n \in Name : p \o Append(s, n) = Append(p \o s, n)
  BY ConcatAppend
<1>3. \A e \in Seq(Name), n \in Name :
        Parent(Append(e, n)) = e /\ Append(e, n) # <<>> /\ Last(Append(e, n)) = n
  BY AppendIs
<1>4. \A p, q \in Seq(Name) : Under(p, q) => \E s \in Seq(Name) : q = p \o s
  BY UnderSplit
<1> QED
  BY <1>1, <1>2, <1>3, <1>4

(* What is under a directory that was just copied is still to be copied. *)
LEMMA ChildLeft ==
  ASSUME Whole, NEW x, NEW y, Plain(x.from), NEW s \in Seq(Name), Opened(s, x, y),
         NEW v \in Seq(Name), x.from \o v \in Paths, node[x.from \o v] # Nothing,
         Under(s, v), s # v
  PROVE  \E w \in y.todo : Under(w, v)
<1>0. PICK p : p = x.from
  OBVIOUS
<1>1. p \in Seq(Name) /\ p \o v \in Paths /\ node[p \o v] # Nothing
  BY <1>0, PlainIs
<1>2. PICK w \in Seq(Name) : w # <<>> /\ Parent(w) = s /\ Under(w, v)
  BY NextDown
<1>3. w = Append(s, Last(w)) /\ Last(w) \in Name
  BY <1>2, ParentIs
<1>4. Under(p \o w, p \o v) /\ p \o w \in Seq(Name) /\ p \o v \in Seq(Name)
  BY <1>1, <1>2, UnderSame, UnderConcat
<1>5. p \o w \in Paths
  BY <1>1, <1>4, PrefixIsPath
<1>6. Exists(p \o w)
  <2>1. CASE p \o w = p \o v
    BY <1>1, <2>1 DEF Exists
  <2>2. CASE p \o w # p \o v
    BY <1>1, <1>4, <1>5, <2>2, KindFacts DEF Exists, Whole
  <2> QED
    BY <2>1, <2>2
<1>7. Parent(p \o w) = p \o s /\ p \o w # <<>> /\ Last(p \o w) = Last(w)
  <2>1. \A n \in Name : p \o Append(s, n) = Append(p \o s, n)
    BY <1>1, NameSequences, Zenon
  <2>2. p \o w = p \o Append(s, Last(w))
    BY <1>3, Zenon
  <2>3. p \o w = Append(p \o s, Last(w)) /\ p \o s \in Seq(Name)
    BY <1>1, <1>3, <2>1, <2>2, UnderConcat
  <2>4. /\ Parent(Append(p \o s, Last(w))) = p \o s /\ Append(p \o s, Last(w)) # <<>>
        /\ Last(Append(p \o s, Last(w))) = Last(w)
    BY <1>3, <2>3, NameSequences, Zenon
  <2> QED
    BY <2>3, <2>4, Zenon
<1>8. p \o w \in Children(p \o s)
  BY <1>5, <1>6, <1>7 DEF Children, Root
<1>9. w \in y.todo
  BY <1>0, <1>3, <1>7, <1>8 DEF Opened
<1> QED
  BY <1>2, <1>9

LEMMA DoubledOwn ==
  ASSUME Shaped, Guarded, NEW r \in Requests, Did(r), atRisk \subseteq atRisk',
         NEW y, y = req'[r], Fresh(y)'
  PROVE  Doubled(y)'
<1> PICK x : x = req[r]
  OBVIOUS
<1>1. /\ x \in RequestShape /\ y \in RequestShape /\ Formed(x) /\ Formed(y)
      /\ Types /\ Whole /\ Whole' /\ Fresh(x) /\ Doubled(x)
  BY FormedStep, WholeStep DEF Shaped, Types, Did, Alone, Guarded
<1>2. CASE y.phase \notin {"copy", "remove"} \/ y.body.op # "move"
  BY <1>2 DEF Doubled
<1>3. CASE y.phase = "copy" /\ y.todo = {Root}
  <2>1. \A s \in Seq(Name) : Under(Root, s)
    BY UnderOrder DEF Root
  <2> QED
    BY <1>3, <2>1 DEF Doubled
<1>4. CASE Started(x, y)
  <2>1. /\ y.phase = FirstStep(y.body, y.from) /\ y.todo = {Root}
    BY <1>4 DEF Started, Starts
  <2>2. y.body.op = "move" => y.phase # "remove"
    BY <2>1 DEF FirstStep, Proceed
  <2> QED
    BY <1>2, <1>3, <2>1, <2>2
<1>5. CASE Cleared(x, y)
  <2>1. PICK q \in Paths : IF q = x.to THEN Goes(x, y, Proceed(x.body, x.from)) ELSE y = x
    BY <1>5 DEF Cleared
  <2>2. x.phase = "clear" /\ x.todo = {Root}
    BY <1>1, <1>5 DEF Cleared, Formed, Going
  <2>3. CASE q = x.to
    <3>1. y.phase \in {"rename", "copy"} /\ y.todo = {Root}
      BY <2>1, <2>2, <2>3 DEF Goes, Proceed
    <3> QED
      BY <1>2, <1>3, <3>1
  <2>4. CASE q # x.to
    BY <1>2, <2>1, <2>2, <2>4
  <2> QED
    BY <2>3, <2>4
<1>6. CASE CopiedOne(x, y) /\ y.body.op = "move"
  <2>1. PICK s \in Seq(Name) : Copies(s, x, y)
    BY <1>6 DEF CopiedOne
  <2> PICK p : p = x.from
    OBVIOUS
  <2> PICK d : d = x.to
    OBVIOUS
  <2>2. /\ x.phase = "copy" /\ y.phase = "copy" /\ y.from = p /\ y.to = d
        /\ x.body.op = "move"
        /\ s \in x.todo /\ p \o s \in Paths /\ d \o s \in Paths
    BY <1>6, <2>1 DEF CopiedOne, Copies
  <2>3. /\ p \in Seq(Name) /\ d \in Seq(Name) /\ p \in Paths /\ d \in Paths
        /\ Plain(p) /\ x.todo \subseteq Seq(Name)
    BY <1>1, <2>2, WorkFacts DEF AtWork
  <2>4. p # d /\ ~Under(p, d)
    BY <1>1, <2>2 DEF Formed, Placed, Going, AtWork
  <2> SUFFICES ASSUME NEW v \in Seq(Name), p \o v \in Paths, node'[p \o v] \in Safe',
                      \A t \in y.todo : ~Under(t, v)
               PROVE  d \o v \in Paths /\ node'[d \o v] = node'[p \o v]
    BY <2>2 DEF Doubled
  <2> PICK c : c = node'[p \o v]
    OBVIOUS
  <2>5. /\ p \o v \in Seq(Name) /\ d \o v \in Seq(Name)
        /\ Under(p, p \o v) /\ Under(d, d \o v)
        /\ p \o s \in Seq(Name) /\ d \o s \in Seq(Name) /\ Under(d, d \o s)
        /\ Under(p, p \o s)
    BY <2>3, UnderConcat
  <2>6. c \in Contents /\ c \notin atRisk
    BY DEF Safe
  <2>7. node[p \o v] = c
    <3> SUFFICES ASSUME node[p \o v] # c PROVE FALSE
      OBVIOUS
    <3>1. p \o v = d \o s
      BY <2>1, <2>6, KindFacts DEF Copies, Opened, Written, Opens, Puts
    <3>2. Under(d, p \o v)
      BY <2>5, <3>1
    <3>3. Under(d, p)
      BY <2>3, <2>4, <2>5, <3>2, DestAboveSource
    <3> QED
      BY <2>2, <2>4, <3>2, <3>3 DEF Fresh
  <2>8. node[p \o v] \in Safe
    BY <2>6, <2>7 DEF Safe
  <2>9. CASE \A t \in x.todo : ~Under(t, v)
    <3>1. d \o v \in Paths /\ node[d \o v] = c
      BY <1>1, <2>2, <2>7, <2>8, <2>9 DEF Doubled
    <3>2. d \o v # d \o s
      <4>1. ~Under(s, v)
        BY <2>2, <2>9
      <4>2. Under(s, s)
        BY UnderOrder
      <4>3. s # v
        BY <4>1, <4>2
      <4>4. (d \o v = d \o s) => v = s
        <5>1. d \in Seq(Name) /\ s \in Seq(Name)
          BY <2>2, <2>3
        <5> QED
          BY <5>1, SameTail, Zenon
      <4> QED
        BY <4>3, <4>4
    <3>3. node'[d \o v] = c
      <4>1. c \notin {Dir, Nothing}
        BY <2>6, KindFacts
      <4>2. CASE Opened(s, x, y)
        BY <2>2, <3>1, <4>1, <4>2 DEF Opened, Opens
      <4>3. CASE Written(s, x, y)
        BY <2>2, <3>1, <3>2, <4>1, <4>3 DEF Written, Puts
      <4> QED
        BY <2>1, <4>2, <4>3 DEF Copies
    <3> QED
      BY <3>1, <3>3
  <2>10. CASE \E t \in x.todo : Under(t, v)
    <3>1. Under(s, v) /\ s \notin y.todo
      BY <2>1, <2>10 DEF Copies, Opened, Written
    <3>2. Under(p \o s, p \o v)
      BY <2>3, <3>1, UnderSame
    <3>3. CASE Opened(s, x, y)
      <4>1. s # v
        BY <2>6, <2>7, <3>3, KindFacts DEF Opened
      <4>2. node[p \o v] # Nothing
        BY <2>6, <2>7, KindFacts
      <4>3. \E w \in y.todo : Under(w, v)
        BY <1>1, <2>2, <2>3, <3>1, <3>3, <4>1, <4>2, ChildLeft
      <4> QED
        BY <4>3
    <3>4. CASE Written(s, x, y)
      <4>1. s = v
        <5> SUFFICES ASSUME s # v PROVE FALSE
          OBVIOUS
        <5>1. p \o s # p \o v
          <6>1. (p \o s = p \o v) => s = v
            BY <2>3, UnderSame
          <6> QED
            BY <6>1
        <5>2. node[p \o s] = Dir
          BY <1>1, <2>2, <2>6, <2>7, <3>2, <5>1, KindFacts DEF Whole, Exists
        <5> QED
          BY <3>4, <5>2 DEF Written
      <4>2. node'[d \o s] = node[p \o s]
        BY <2>4, <3>4 DEF Written, Puts
      <4> QED
        BY <2>2, <2>7, <4>1, <4>2
    <3> QED
      BY <2>1, <3>3, <3>4 DEF Copies
  <2> QED
    BY <2>9, <2>10
<1>7. CASE CopiedAll(x, y) /\ y.body.op = "move"
  <2>1. /\ x.phase = "copy" /\ y.from = x.from /\ y.to = x.to /\ node' = node
        /\ x.body.op = "move" /\ x.todo = {} /\ y.phase = "remove"
    BY <1>7 DEF CopiedAll, Goes
  <2>2. Safe' \subseteq Safe
    BY DEF Safe
  <2> QED
    BY <1>1, <2>1, <2>2 DEF Doubled
<1>8. CASE Removed(x, y) /\ y.body.op = "move" /\ y.phase = "remove"
  <2>1. PICK e \in Paths : /\ Under(x.from, e) /\ Drops(e)
                           /\ IF e = x.from THEN Goes(x, y, "next") ELSE y = x
    BY <1>8 DEF Removed
  <2>2. y = x
    BY <1>8, <2>1 DEF Goes
  <2> PICK p : p = x.from
    OBVIOUS
  <2> PICK d : d = x.to
    OBVIOUS
  <2>3. /\ p \in Seq(Name) /\ d \in Seq(Name)
    BY <1>1, <1>8, <2>2, WorkFacts DEF AtWork
  <2>4. p # d /\ ~Under(p, d)
    BY <1>1, <1>8, <2>2 DEF Formed, Placed, Going, AtWork
  <2> SUFFICES ASSUME NEW v \in Seq(Name), p \o v \in Paths, node'[p \o v] \in Safe'
               PROVE  d \o v \in Paths /\ node'[d \o v] = node'[p \o v]
    BY <1>8, <2>2 DEF Doubled
  <2>5. node'[p \o v] \in Contents /\ node'[p \o v] \notin atRisk
    BY DEF Safe
  <2>6. node[p \o v] = node'[p \o v] /\ node[p \o v] \in Safe
    BY <2>1, <2>5, KindFacts DEF Drops, Safe
  <2>7. d \o v \in Paths /\ node[d \o v] = node[p \o v]
    BY <1>1, <1>8, <2>2, <2>6 DEF Doubled
  <2>8. d \o v # e
    <3> SUFFICES ASSUME d \o v = e PROVE FALSE
      OBVIOUS
    <3>1. Under(p, d \o v) /\ Under(d, d \o v) /\ d \o v \in Seq(Name)
      BY <2>1, <2>3, UnderConcat
    <3>2. Under(d, p)
      BY <2>3, <2>4, <3>1, DestAboveSource
    <3> QED
      BY <1>1, <1>8, <2>2, <2>4, <2>6, <2>7, <3>1, <3>2 DEF Fresh
  <2> QED
    BY <2>1, <2>6, <2>7, <2>8 DEF Drops
<1>9. CASE Arrived(x, y) \/ Stopped(x, y) \/ Made(x, y) \/ Renamed(x, y)
           \/ Finished(x, y) \/ Broke(x, y)
  BY <1>2, <1>9 DEF Arrived, Stopped, Made, Renamed, Finished, Broke, Goes, Refused
<1>10. \/ Arrived(x, y) \/ Stopped(x, y) \/ Started(x, y) \/ Made(x, y)
       \/ Cleared(x, y) \/ Renamed(x, y) \/ CopiedOne(x, y) \/ CopiedAll(x, y)
       \/ Removed(x, y) \/ Finished(x, y) \/ Broke(x, y)
  BY DEF Did
<1>11. Removed(x, y) => y.phase \in {"next", "remove"}
  BY DEF Removed, Goes
<1> QED
  BY <1>2, <1>4, <1>5, <1>6, <1>7, <1>8, <1>9, <1>10, <1>11
LEMMA GuardedInit == Init => Guarded
<1> SUFFICES ASSUME Init PROVE Guarded
  OBVIOUS
<1>1. \A r \in Requests : req[r].phase = "idle"
  BY DEF Init, Idle
<1>2. Running = {}
  BY <1>1 DEF Running
<1>3. RiskNow = {}
  BY <1>2 DEF RiskNow, Contended
<1>4. RisksKnown
  BY <1>3 DEF RisksKnown
<1>5. \A r \in Requests : Fresh(req[r]) /\ Doubled(req[r])
  BY <1>1 DEF Fresh, Doubled
<1> QED
  BY <1>4, <1>5 DEF Guarded

LEMMA GuardedStep == Shaped /\ Guarded /\ [Next]_vars => Guarded'
<1> SUFFICES ASSUME Shaped, Guarded, [Next]_vars PROVE Guarded'
  OBVIOUS
<1>1. CASE UNCHANGED vars
  <2>1. RisksKnown'
    <3>1. req' = req /\ node' = node /\ atRisk' = atRisk
      BY <1>1 DEF vars
    <3>2. \A q \in Paths : Contended(q)' <=> Contended(q)
      BY <3>1 DEF Contended, Running, Claims, Sources, Destinations, Dest, DestName
    <3>3. ASSUME NEW c \in RiskNow' PROVE c \in RiskNow
      <4>1. PICK q \in Paths :
               /\ node'[q] = c /\ c \in Contents
               /\ \/ Contended(q)'
                  \/ \E r \in Running' :
                        (Doomed(req[r].body, q) \/ OntoItself(req[r].body, q))'
        BY <3>3 DEF RiskNow
      <4>2. ASSUME NEW r \in Running', (Doomed(req[r].body, q) \/ OntoItself(req[r].body, q))'
            PROVE  r \in Running /\ (Doomed(req[r].body, q) \/ OntoItself(req[r].body, q))
        BY <3>1, <4>2 DEF Running, Doomed, OntoItself, Sources, Destinations, Dest, DestName
      <4> QED
        BY <3>1, <3>2, <4>1, <4>2 DEF RiskNow
    <3> QED
      BY <3>1, <3>3 DEF RisksKnown, Guarded
  <2>2. \A r \in Requests : (Fresh(req[r]) /\ Doubled(req[r]))'
    BY <1>1 DEF vars, Guarded, Fresh, Doubled, Safe
  <2> QED
    BY <2>1, <2>2 DEF Guarded
<1>2. CASE Next
  <2>1. PICK r \in Requests :
          /\ Arrive(r) \/ Step(r)
          /\ atRisk' = atRisk \cup RiskNow'
    BY <1>2 DEF Next
  <2>2. Did(r)
    BY <2>1, StepDid
  <2>3. RisksKnown' /\ atRisk \subseteq atRisk'
    BY <2>1 DEF RisksKnown
  <2>4. ASSUME NEW u \in Requests PROVE (Fresh(req[u]) /\ Doubled(req[u]))'
    <3> PICK y : y = req'[u]
      OBVIOUS
    <3>1. CASE u = r
      <4>1. Fresh(y)'
        BY <2>2, <2>3, <3>1, FreshOwn
      <4>2. Doubled(y)'
        BY <2>2, <2>3, <3>1, <4>1, DoubledOwn
      <4> QED
        BY <4>1, <4>2
    <3>2. CASE u # r
      <4>1. y = req[u]
        BY <2>2, <3>2 DEF Did, Alone
      <4>2. Fresh(y)' /\ Doubled(y)'
        BY <2>2, <2>3, <3>2, <4>1, FreshOthers
      <4> QED
        BY <4>2
    <3> QED
      BY <3>1, <3>2
  <2> QED
    BY <2>3, <2>4 DEF Guarded
<1> QED
  BY <1>1, <1>2

(* A step keeps every content that counts. *)
LEMMA KeptStep ==
  ASSUME Shaped, Guarded, NEW r \in Requests, Did(r),
         NEW c \in Safe, NEW p \in Paths, node[p] = c
  PROVE  \E q \in Paths : node'[q] = c
<1> PICK x : x = req[r]
  OBVIOUS
<1> PICK y : y = req'[r]
  OBVIOUS
<1> PICK f : f = x.from
  OBVIOUS
<1> PICK d : d = x.to
  OBVIOUS
<1>1. /\ x \in RequestShape /\ Formed(x) /\ Types /\ Whole
      /\ Fresh(x) /\ Doubled(x) /\ RisksKnown /\ c \in Contents /\ c \notin atRisk
  BY DEF Shaped, Types, Guarded, Safe
<1> SUFFICES ASSUME node'[p] # c PROVE \E q \in Paths : node'[q] = c
  OBVIOUS
<1>2. /\ x.phase \in AtWork /\ r \in Running
      /\ \/ x.phase \in {"clear", "rename", "copy"} /\ Under(d, p)
         \/ x.phase \in {"rename", "remove"} /\ Under(f, p)
  BY <1>1, WhereItChanges, WritesAreClaimed, KindFacts
<1>3. x.body.op # "mkdir"
  BY <1>1, <1>2 DEF Formed, Placed
<1>4. /\ Plain(f) /\ Plain(d) /\ f \in Seq(Name) /\ d \in Seq(Name)
      /\ f \in Sources(x.body) /\ d \in Destinations(x.body) /\ d = Dest(x.body, f)
      /\ x.todo \subseteq Seq(Name)
  BY <1>1, <1>2, <1>3, WorkFacts
<1>5. CASE x.phase = "clear"
  <2>1. x.body.overwrite /\ Under(d, p)
    BY <1>1, <1>2, <1>5 DEF Formed, Going
  <2>2. Doomed(x.body, p)
    BY <1>4, <2>1 DEF Doomed, Plain
  <2> QED
    BY <1>1, <1>2, <2>2, OwnRisk
<1>6. CASE x.phase = "rename"
  <2>1. Renamed(x, y)
    <3>1. x.phase = "rename" /\ node' # node
      BY <1>6
    <3> QED
      BY <3>1 DEF Did, Arrived, Stopped, Started, Made, Cleared, CopiedOne, CopiedAll,
                  Removed, Finished, Broke
  <2>2. Siblings(f, d) /\ Moves(f, d)
    BY <2>1 DEF Renamed
  <2>3. CASE Under(d, p)
    <3>1. x.todo = {Root} /\ f # d
      BY <1>1, <1>6 DEF Formed, Going
    <3>2. Root \in x.todo /\ d \o Root = d
      BY <1>4, <3>1 DEF Root
    <3> QED
      BY <1>1, <1>6, <2>3, <3>1, <3>2 DEF Fresh
  <2>4. CASE ~Under(d, p)
    <3>1. Under(f, p) /\ p \in Seq(Name)
      BY <1>2, <1>6, <2>4, PathFacts
    <3>2. PICK s \in Seq(Name) : p = f \o s
      BY <1>4, <3>1, NameSequences, Zenon
    <3>3. d \o s \in Paths
      BY <2>2, <3>2, SiblingFacts
    <3>4. node'[d \o s] = c
      BY <2>2, <3>2, <3>3 DEF Moves
    <3> QED
      BY <3>3, <3>4
  <2> QED
    BY <2>3, <2>4
<1>7. CASE x.phase = "copy"
  <2>1. \E s \in x.todo : p = d \o s /\ s \in Seq(Name)
    <3>1. CopiedOne(x, y) \/ Broke(x, y)
      <4>1. x.phase = "copy" /\ node' # node
        BY <1>7
      <4> QED
        BY <4>1 DEF Did, Arrived, Stopped, Started, Made, Cleared, Renamed, CopiedAll,
                    Removed, Finished
    <3>2. CASE CopiedOne(x, y)
      <4>1. PICK s \in Seq(Name) : Copies(s, x, y)
        BY <3>2 DEF CopiedOne
      <4>2. p = d \o s /\ s \in x.todo
        BY <1>1, <4>1, KindFacts DEF Copies, Opened, Written, Opens, Puts
      <4> QED
        BY <4>2
    <3>3. CASE Broke(x, y)
      BY <1>1, <3>3, KindFacts DEF Broke, Puts
    <3> QED
      BY <3>1, <3>2, <3>3
  <2>2. CASE f # d
    <3>1. PICK s \in x.todo : p = d \o s /\ s \in Seq(Name)
      BY <2>1
    <3>2. Under(d, p)
      BY <1>4, <3>1, UnderConcat
    <3>3. Under(p, p)
      BY PathFacts, UnderOrder
    <3> QED
      BY <1>1, <1>7, <2>2, <3>1, <3>2, <3>3 DEF Fresh
  <2>3. CASE f = d
    <3>1. x.body.op = "copy"
      BY <1>1, <1>2, <1>7, <2>3 DEF Formed, Placed, Going
    <3>2. Under(f, p)
      BY <1>2, <1>7, <2>3
    <3>3. OntoItself(x.body, p)
      BY <1>4, <2>3, <3>1, <3>2 DEF OntoItself
    <3> QED
      BY <1>1, <1>2, <3>3, OwnRisk
  <2> QED
    BY <2>2, <2>3
<1>8. CASE x.phase = "remove"
  <2>1. Under(f, p)
    BY <1>2, <1>8
  <2>2. CASE x.body.op = "delete"
    <3>1. d = f
      BY <1>4, <2>2 DEF Dest
    <3>2. Doomed(x.body, p)
      BY <1>4, <2>1, <2>2, <3>1 DEF Doomed, Plain
    <3> QED
      BY <1>1, <1>2, <3>2, OwnRisk
  <2>3. CASE x.body.op = "move"
    <3>1. Removed(x, y)
      <4>1. x.phase = "remove" /\ node' # node
        BY <1>8
      <4> QED
        BY <4>1 DEF Did, Arrived, Stopped, Started, Made, Cleared, Renamed, CopiedOne,
                    CopiedAll, Finished, Broke
    <3>2. PICK e \in Paths : Drops(e)
      BY <3>1 DEF Removed
    <3>3. p = e
      BY <3>2 DEF Drops
    <3>4. p \in Seq(Name)
      BY PathFacts
    <3>5. PICK s \in Seq(Name) : p = f \o s
      BY <1>4, <2>1, <3>4, NameSequences, Zenon
    <3>6. d \o s \in Paths /\ node[d \o s] = c
      BY <1>1, <1>8, <2>3, <3>5 DEF Doubled
    <3>7. d \o s # p
      <4>1. d # f
        BY <1>1, <1>2, <2>3 DEF Formed, Placed
      <4> QED
        BY <1>4, <3>5, <4>1, SameEnd
    <3>8. node'[d \o s] = c
      BY <3>2, <3>3, <3>6, <3>7 DEF Drops
    <3> QED
      BY <3>6, <3>8
  <2> QED
    BY <1>1, <1>8, <2>2, <2>3 DEF Formed, Going
<1> QED
  BY <1>2, <1>5, <1>6, <1>7, <1>8

(* Whatever fails and however requests interleave, a file's content is gone only
   if a request named its place to be deleted or overwritten, if two requests
   wrote there at the same time, or if it was copied onto itself. *)
THEOREM ContentsKept == Spec => []ContentIsKept
<1>1. Init => ContentIsKept
  BY LocalFsAssumption DEF Init, ServedTree, ContentIsKept
<1>2. Shaped /\ Guarded /\ ContentIsKept /\ [Next]_vars => ContentIsKept'
  <2> SUFFICES ASSUME Shaped, Guarded, ContentIsKept, [Next]_vars PROVE ContentIsKept'
    OBVIOUS
  <2>1. CASE UNCHANGED vars
    BY <2>1 DEF vars, ContentIsKept
  <2>2. CASE Next
    <3>1. PICK r \in Requests :
            /\ Arrive(r) \/ Step(r)
            /\ atRisk' = atRisk \cup RiskNow'
      BY <2>2 DEF Next
    <3>2. Did(r)
      BY <3>1, StepDid
    <3> SUFFICES ASSUME NEW c \in Contents, c \notin atRisk'
                 PROVE  \E q \in Paths : node'[q] = c
      BY DEF ContentIsKept
    <3>3. c \in Safe
      BY <3>1 DEF Safe
    <3>4. PICK p \in Paths : node[p] = c
      BY <3>3 DEF ContentIsKept, Safe
    <3> QED
      BY <3>2, <3>3, <3>4, KeptStep
  <2> QED
    BY <2>1, <2>2
<1> QED
  BY <1>1, <1>2, ShapedInit, ShapedStep, GuardedInit, GuardedStep, PTL DEF Spec
-----------------------------------------------------------------------------
(* A copy that nobody interferes with is the source: while it goes on, what is
   in the destination is what was copied of it. *)

Copying(x, i) ==
    /\ ~Under(x.to, x.from) /\ Tree(node, x.from) = i
    /\ \A s \in Seq(Name) :
          /\ x.from \o s \in Paths /\ node[x.from \o s] # Nothing
          /\ \A t \in x.todo : ~Under(t, s)
          => x.to \o s \in Paths /\ node[x.to \o s] = node[x.from \o s]
    /\ \A s \in Seq(Name) :
          x.to \o s \in Paths /\ node[x.to \o s] # Nothing
          => /\ x.from \o s \in Paths /\ node[x.from \o s] = node[x.to \o s]
             /\ \A t \in x.todo : ~Under(t, s)

Mirror(x, i) ==
    x.from # x.to /\ x.body.op # "delete" =>
        /\ x.phase = "clear" => Under(x.to, x.from) \/ Tree(node, x.from) = i
        /\ x.phase = "rename" => node[x.from] = Nothing \/ Tree(node, x.from) = i
        /\ x.phase = "copy" =>
              (node[x.from] = Nothing /\ Root \in x.todo) \/ Copying(x, i)
        /\ x.phase = "remove" => ~Under(x.to, x.from) /\ Tree(node, x.to) = i

DisturbedKnown == DisturbedNow \subseteq disturbed

Mirrors ==
    /\ DisturbedKnown
    /\ \A r \in Requests \ disturbed : Mirror(req[r], image[r])

(* Two trees with the same entries are the same. *)
LEMMA TreeSame ==
  ASSUME NEW n, NEW m, NEW p, NEW d, Plain(p), Plain(d),
         \A s \in Seq(Name) : p \o s \in Paths /\ n[p \o s] # Nothing
             => d \o s \in Paths /\ m[d \o s] = n[p \o s],
         \A s \in Seq(Name) : d \o s \in Paths /\ m[d \o s] # Nothing
             => p \o s \in Paths /\ n[p \o s] = m[d \o s]
  PROVE  Tree(n, p) = Tree(m, d)
<1> DEFINE A == {u \in Paths : p \o u \in Paths /\ n[p \o u] # Nothing}
           B == {u \in Paths : d \o u \in Paths /\ m[d \o u] # Nothing}
<1>1. Paths \subseteq Seq(Name)
  BY PathFacts
<1>2. \A u \in Paths : u \in A <=> u \in B
  BY <1>1
<1>3. A = B
  BY <1>2, Zenon
<1>4. \A u \in A : n[p \o u] = m[d \o u]
  BY <1>1
<1>5. [s \in A |-> n[p \o s]] = [s \in A |-> m[d \o s]]
  BY <1>4, Zenon
<1> HIDE DEF A, B
<1>6. [s \in A |-> m[d \o s]] = [s \in B |-> m[d \o s]]
  BY <1>3, Zenon
<1>7. [s \in A |-> n[p \o s]] = [s \in B |-> m[d \o s]]
  BY <1>5, <1>6, Zenon
<1> QED
  BY <1>7 DEF Tree, A, B

(* A tree that nobody wrote in is as it was. *)
LEMMA TreeKept ==
  ASSUME NEW n, NEW m, NEW p, Plain(p),
         \A q \in Paths : Under(p, q) => m[q] = n[q]
  PROVE  Tree(m, p) = Tree(n, p)
<1>1. p \in Seq(Name)
  BY PlainIs
<1>2. \A s \in Seq(Name) : Under(p, p \o s)
  BY <1>1, UnderConcat
<1>3. \A s \in Seq(Name) : p \o s \in Paths => m[p \o s] = n[p \o s]
  BY <1>2
<1> QED
  BY <1>3, TreeSame

(* A request that nobody disturbs finds its source and its destination as it left
   them. *)
LEMMA Untouched ==
  ASSUME Shaped, DisturbedKnown, NEW r \in Requests, Did(r),
         NEW u \in Requests \ {r}, u \notin disturbed,
         NEW P \in Sources(req[u].body) \cup Destinations(req[u].body), P \in Seq(Name),
         req[u].phase \in AtWork, NEW q \in Paths, Under(P, q)
  PROVE  node'[q] = node[q]
<1> SUFFICES ASSUME node'[q] # node[q] PROVE FALSE
  OBVIOUS
<1> PICK z : z = req[r]
  OBVIOUS
<1>1. /\ z \in RequestShape /\ Formed(z) /\ z.phase \in AtWork /\ z.to \in Paths
      /\ q \in Seq(Name) /\ z.to \in Seq(Name)
  BY WhereItChanges, ShapeIs, PathFacts DEF Shaped, Types
<1>2. /\ z.from \in Sources(z.body) /\ z.to \in Destinations(z.body)
  BY <1>1 DEF Formed, Placed, Destinations
<1>3. z.phase \in {"rename", "remove"} => z.body.op # "copy" /\ z.body.op # "mkdir"
  BY <1>1 DEF Formed, Going
<1>4. r \in Running /\ u \in Running
  BY <1>1 DEF Running, AtWork
<1>5. Claims(z.body, q) \/ Under(q, z.to)
  <2>1. Under(z.to, z.to)
    BY <1>1, UnderOrder
  <2>2. \/ q = z.to
        \/ Under(z.to, q)
        \/ z.phase \in {"rename", "remove"} /\ Under(z.from, q)
        \/ Under(q, z.to)
    BY WhereItChanges
  <2> QED
    BY <1>2, <1>3, <2>1, <2>2 DEF Claims
<1>6. \E e \in Paths : Claims(z.body, e) /\ Under(P, e)
  <2>1. CASE Claims(z.body, q)
    BY <2>1
  <2>2. CASE Under(q, z.to)
    <3>1. Under(P, z.to)
      BY <1>1, <2>2, UnderOrder
    <3>2. Under(z.to, z.to)
      BY <1>1, UnderOrder
    <3> QED
      BY <1>1, <1>2, <3>1, <3>2 DEF Claims
  <2> QED
    BY <1>5, <2>1, <2>2
<1>7. u \in DisturbedNow
  BY <1>4, <1>6 DEF DisturbedNow
<1> QED
  BY <1>7 DEF DisturbedKnown
LEMMA MirrorOthers ==
  ASSUME Shaped, DisturbedKnown, NEW r \in Requests, Did(r),
         NEW u \in Requests \ {r}, u \notin disturbed, NEW x, x = req[u],
         NEW i, Mirror(x, i)
  PROVE  Mirror(x, i)'
<1> SUFFICES ASSUME x.from # x.to, x.body.op # "delete",
                    x.phase \in {"clear", "rename", "copy", "remove"}
             PROVE  Mirror(x, i)'
  BY DEF Mirror
<1> PICK p : p = x.from
  OBVIOUS
<1> PICK d : d = x.to
  OBVIOUS
<1>1. x \in RequestShape /\ Formed(x) /\ x.phase \in AtWork
  BY DEF Shaped, Types, AtWork
<1>2. x.body.op # "mkdir"
  BY <1>1 DEF Formed, Placed
<1>3. /\ Plain(p) /\ Plain(d) /\ p \in Seq(Name) /\ d \in Seq(Name)
      /\ p \in Paths /\ d \in Paths
      /\ p \in Sources(x.body) /\ d \in Destinations(x.body)
  BY <1>1, <1>2, WorkFacts
<1>4. \A q \in Paths : Under(p, q) => node'[q] = node[q]
  BY <1>1, <1>3, Untouched
<1>5. \A q \in Paths : Under(d, q) => node'[q] = node[q]
  BY <1>1, <1>3, Untouched
<1>6. Tree(node', p) = Tree(node, p) /\ Tree(node', d) = Tree(node, d)
  BY <1>3, <1>4, <1>5, TreeKept
<1>7. Under(p, p) /\ \A s \in Seq(Name) : Under(p, p \o s) /\ Under(d, d \o s)
  BY <1>3, UnderOrder, UnderConcat
<1>8. node'[p] = node[p]
  BY <1>3, <1>4, <1>7
<1>9. Copying(x, i) => Copying(x, i)'
  <2> SUFFICES ASSUME Copying(x, i) PROVE Copying(x, i)'
    OBVIOUS
  <2>1. \A s \in Seq(Name) : /\ p \o s \in Paths => node'[p \o s] = node[p \o s]
                             /\ d \o s \in Paths => node'[d \o s] = node[d \o s]
    BY <1>4, <1>5, <1>7
  <2>2. ~Under(d, p) /\ Tree(node', p) = i
    BY <1>6 DEF Copying
  <2>3. ASSUME NEW s \in Seq(Name), p \o s \in Paths, node'[p \o s] # Nothing,
               \A t \in x.todo : ~Under(t, s)
        PROVE  d \o s \in Paths /\ node'[d \o s] = node'[p \o s]
    BY <2>1, <2>3 DEF Copying
  <2>4. ASSUME NEW s \in Seq(Name), d \o s \in Paths, node'[d \o s] # Nothing
        PROVE  /\ p \o s \in Paths /\ node'[p \o s] = node'[d \o s]
               /\ \A t \in x.todo : ~Under(t, s)
    BY <2>1, <2>4 DEF Copying
  <2> QED
    BY <2>2, <2>3, <2>4 DEF Copying
<1> QED
  BY <1>6, <1>8, <1>9 DEF Mirror

(* When nothing is at the destination, the copy can begin. *)
CopyingIfNothing ==
    \A x, i : /\ Plain(x.from) /\ Plain(x.to) /\ ~Under(x.to, x.from)
              /\ Root \in x.todo /\ node[x.to] = Nothing /\ Tree(node, x.from) = i
              => Copying(x, i)
LEMMA CopyingNothing == Whole => CopyingIfNothing
<1> SUFFICES ASSUME Whole, NEW x, NEW i, Plain(x.from), Plain(x.to), ~Under(x.to, x.from),
                    Root \in x.todo, node[x.to] = Nothing, Tree(node, x.from) = i
             PROVE  Copying(x, i)
  BY DEF CopyingIfNothing
<1>1. \A s \in Seq(Name) : Under(Root, s)
  BY UnderOrder DEF Root
<1>2. x.to \in Seq(Name) /\ x.to \in Paths
  BY PlainIs DEF Plain
<1>3. \A q \in Paths : Under(x.to, q) => node[q] = Nothing
  BY <1>2, NothingUnder
<1>4. \A s \in Seq(Name) : Under(x.to, x.to \o s)
  BY <1>2, UnderConcat
<1> QED
  BY <1>1, <1>3, <1>4 DEF Copying
LEMMA CopyingNothingNext == Whole' => CopyingIfNothing'
  BY CopyingNothing, PTL
(* Copying an entry leaves the source as it was and adds the entry. *)
LEMMA CopyingOn ==
  ASSUME Whole, NEW x \in RequestShape, Formed(x), x.phase = "copy", x.from # x.to,
         NEW y, NEW s \in Seq(Name), Copies(s, x, y), NEW i, Copying(x, i)
  PROVE  Copying(y, i)'
<1> PICK p : p = x.from
  OBVIOUS
<1> PICK d : d = x.to
  OBVIOUS
<1>1. /\ Plain(p) /\ Plain(d) /\ p \in Seq(Name) /\ d \in Seq(Name)
      /\ x.todo \subseteq Seq(Name) /\ ~Under(p, d)
      /\ \A t, u \in x.todo : Under(t, u) => t = u
  <2>1. x.body.op # "mkdir"
    BY DEF Formed, Placed, AtWork
  <2>2. x.phase \in AtWork
    BY DEF AtWork
  <2> QED
    BY <2>1, <2>2, WorkFacts DEF Formed, Going, Walk
<1>2. /\ s \in x.todo /\ p \o s \in Paths /\ d \o s \in Paths /\ node[p \o s] # Nothing
      /\ y.from = p /\ y.to = d
      /\ Opened(s, x, y) \/ Written(s, x, y)
  BY DEF Copies, Exists
<1>3. ~Under(d, p) /\ Tree(node, p) = i
  BY DEF Copying
<1>4. /\ \A q \in Paths : Under(q, d \o s) /\ q # d \o s => node'[q] = Dir
      /\ \A q \in Paths : ~Under(q, d \o s) => node'[q] = node[q]
      /\ node'[d \o s] = node[p \o s]
  <2>1. CASE Opened(s, x, y)
    <3>1. d \o s \in Seq(Name)
      BY <1>1, UnderConcat
    <3>2. Under(d \o s, d \o s)
      BY <3>1, UnderOrder
    <3> QED
      BY <1>2, <2>1, <3>2 DEF Opened, Opens
  <2>2. CASE Written(s, x, y)
    BY <2>2 DEF Written, Puts
  <2> QED
    BY <1>2, <2>1, <2>2
<1>5. \A v \in Seq(Name) : /\ p \o v \in Seq(Name) /\ d \o v \in Seq(Name)
                           /\ Under(p, p \o v) /\ Under(d, d \o v)
                           /\ Under(p \o v, p \o s) <=> Under(v, s)
                           /\ Under(d \o v, d \o s) <=> Under(v, s)
                           /\ Under(p \o s, p \o v) <=> Under(s, v)
                           /\ (d \o v = d \o s) => v = s
                           /\ (p \o v = p \o s) => v = s
  <2> SUFFICES ASSUME NEW v \in Seq(Name)
               PROVE  /\ p \o v \in Seq(Name) /\ d \o v \in Seq(Name)
                      /\ Under(p, p \o v) /\ Under(d, d \o v)
                      /\ Under(p \o v, p \o s) <=> Under(v, s)
                      /\ Under(d \o v, d \o s) <=> Under(v, s)
                      /\ Under(p \o s, p \o v) <=> Under(s, v)
                      /\ (d \o v = d \o s) => v = s
                      /\ (p \o v = p \o s) => v = s
    OBVIOUS
  <2>1. /\ p \o v \in Seq(Name) /\ d \o v \in Seq(Name)
        /\ Under(p, p \o v) /\ Under(d, d \o v)
    BY <1>1, UnderConcat
  <2>2. /\ Under(p \o v, p \o s) <=> Under(v, s)
        /\ (p \o v = p \o s) => v = s
    <3>1. Under(p \o v, p \o s) <=> Under(v, s)
      BY <1>1, UnderSame, Zenon
    <3>2. (p \o v = p \o s) => v = s
      BY <1>1, NameSequences, Zenon
    <3> QED
      BY <3>1, <3>2
  <2>3. /\ Under(d \o v, d \o s) <=> Under(v, s)
        /\ (d \o v = d \o s) => v = s
    <3>1. Under(d \o v, d \o s) <=> Under(v, s)
      BY <1>1, UnderSame, Zenon
    <3>2. (d \o v = d \o s) => v = s
      BY <1>1, NameSequences, Zenon
    <3> QED
      BY <3>1, <3>2
  <2>4. Under(p \o s, p \o v) <=> Under(s, v)
    BY <1>1, UnderSame, Zenon
  <2> QED
    BY <2>1, <2>2, <2>3, <2>4
<1>6. \A q \in Paths : Under(p, q) => node'[q] = node[q]
  <2> SUFFICES ASSUME NEW q \in Paths, Under(p, q) PROVE ~Under(q, d \o s)
    BY <1>4
  <2> SUFFICES ASSUME Under(q, d \o s) PROVE FALSE
    OBVIOUS
  <2>1. q \in Seq(Name) /\ d \o s \in Seq(Name) /\ Under(d, d \o s)
    BY <1>5, PathFacts
  <2>2. Under(p, d \o s)
    BY <1>1, <2>1, UnderOrder
  <2> QED
    BY <1>1, <1>3, <2>1, <2>2, DestAboveSource
<1>7. Tree(node', p) = i
  BY <1>1, <1>3, <1>6, TreeKept
<1>8. \A v \in Seq(Name) : p \o v \in Paths => node'[p \o v] = node[p \o v]
  BY <1>5, <1>6
<1>9. \A t \in x.todo : t # s => t \in y.todo
  BY <1>2 DEF Opened, Written
<1>10. ASSUME NEW v \in Seq(Name), ~Under(s, v) \/ v = s, \A t \in x.todo : t = s \/ ~Under(t, v)
       PROVE  \A t \in y.todo : ~Under(t, v)
  <2> SUFFICES ASSUME NEW t \in y.todo, Under(t, v) PROVE FALSE
    OBVIOUS
  <2>1. CASE t \in x.todo /\ t # s
    BY <1>10, <2>1
  <2>2. CASE Opened(s, x, y) /\ ~(t \in x.todo /\ t # s)
    <3>1. PICK e \in Children(p \o s) : t = Append(s, Last(e))
      BY <2>2 DEF Opened
    <3>2. t \in Seq(Name)
      BY <1>1, <1>2, <3>1, ChildIs
    <3>3. Under(s, t) /\ s # t
      <4> PICK l : l = Last(e)
        OBVIOUS
      <4>1. t = Append(s, l) /\ Append(s, l) \in Seq(Name)
        BY <3>1, <3>2
      <4> QED
        BY <4>1, ParentOfAppend
    <3>4. Under(s, v)
      BY <3>2, <3>3, UnderOrder
    <3>5. Under(t, s)
      BY <1>10, <3>4
    <3> QED
      BY <3>2, <3>3, <3>5, UnderOrder
  <2>3. CASE Written(s, x, y) /\ ~(t \in x.todo /\ t # s)
    BY <2>3 DEF Written
  <2> QED
    BY <1>2, <2>1, <2>2, <2>3
<1>11. ASSUME NEW v \in Seq(Name), p \o v \in Paths, node[p \o v] # Nothing,
              \A t \in y.todo : ~Under(t, v)
       PROVE  d \o v \in Paths /\ node'[d \o v] = node[p \o v]
  <2>1. CASE \A t \in x.todo : ~Under(t, v)
    <3>1. d \o v \in Paths /\ node[d \o v] = node[p \o v]
      BY <1>11, <2>1 DEF Copying
    <3>2. v # s
      <4>1. Under(s, s)
        BY UnderOrder
      <4> QED
        BY <1>2, <2>1, <4>1
    <3>3. node'[d \o v] = node[d \o v]
      <4>1. CASE ~Under(d \o v, d \o s)
        BY <1>4, <3>1, <4>1
      <4>2. CASE Under(d \o v, d \o s)
        <5>1. Under(p \o v, p \o s) /\ p \o v # p \o s
          BY <1>5, <3>2, <4>2
        <5>2. node[p \o v] = Dir
          BY <1>2, <1>11, <5>1 DEF Whole, Exists
        <5>3. d \o v # d \o s
          BY <1>5, <3>2
        <5> QED
          BY <1>4, <3>1, <4>2, <5>2, <5>3
      <4> QED
        BY <4>1, <4>2
    <3> QED
      BY <3>1, <3>3
  <2>2. CASE \E t \in x.todo : Under(t, v)
    <3>1. Under(s, v)
      BY <1>9, <1>11, <2>2
    <3>2. s = v
      <4> SUFFICES ASSUME s # v PROVE FALSE
        OBVIOUS
      <4>1. CASE Opened(s, x, y)
        <5>1. \E w \in y.todo : Under(w, v)
          BY <1>1, <1>11, <3>1, <4>1, ChildLeft
        <5> QED
          BY <1>11, <5>1
      <4>2. CASE Written(s, x, y)
        <5>1. Under(p \o s, p \o v) /\ p \o s # p \o v
          BY <1>5, <3>1
        <5>2. node[p \o s] = Dir
          BY <1>2, <1>11, <5>1 DEF Whole, Exists
        <5> QED
          BY <4>2, <5>2 DEF Written
      <4> QED
        BY <1>2, <4>1, <4>2
    <3> QED
      BY <1>2, <1>4, <3>2
  <2> QED
    BY <2>1, <2>2
<1>12. ASSUME NEW v \in Seq(Name), d \o v \in Paths, node'[d \o v] # Nothing
       PROVE  /\ p \o v \in Paths /\ node[p \o v] = node'[d \o v]
              /\ \A t \in y.todo : ~Under(t, v)
  <2>1. CASE ~Under(v, s)
    <3>1. node'[d \o v] = node[d \o v]
      BY <1>4, <1>5, <1>12, <2>1
    <3>2. /\ p \o v \in Paths /\ node[p \o v] = node[d \o v]
          /\ \A t \in x.todo : ~Under(t, v)
      BY <1>12, <3>1 DEF Copying
    <3> QED
      BY <1>2, <1>10, <3>1, <3>2
  <2>2. CASE v = s
    <3>1. \A t \in x.todo : t = s \/ ~Under(t, v)
      BY <1>1, <1>2, <2>2
    <3> QED
      BY <1>2, <1>4, <1>10, <2>2, <3>1
  <2>3. CASE Under(v, s) /\ v # s
    <3>1. Under(p \o v, p \o s) /\ p \o v # p \o s /\ d \o v # d \o s /\ Under(d \o v, d \o s)
      BY <1>5, <2>3
    <3>2. p \o v \in Paths
      BY <1>2, <1>5, <3>1, PrefixIsPath
    <3>3. node[p \o v] = Dir
      BY <1>2, <3>1, <3>2 DEF Whole, Exists
    <3>4. node'[d \o v] = Dir
      BY <1>4, <1>12, <3>1
    <3>5. ~Under(s, v)
      BY <2>3, UnderOrder
    <3>6. \A t \in x.todo : ~Under(t, v)
      <4> SUFFICES ASSUME NEW t \in x.todo, Under(t, v) PROVE FALSE
        OBVIOUS
      <4>1. t \in Seq(Name)
        BY <1>1
      <4>2. Under(t, s)
        BY <2>3, <4>1, UnderOrder
      <4>3. t = s
        BY <1>1, <1>2, <4>2
      <4> QED
        BY <3>5, <4>3
    <3> QED
      BY <1>10, <3>2, <3>3, <3>4, <3>5, <3>6
  <2> QED
    BY <2>1, <2>2, <2>3
<1>13. /\ \A v \in Seq(Name) :
             /\ p \o v \in Paths /\ node'[p \o v] # Nothing
             /\ \A t \in y.todo : ~Under(t, v)
             => d \o v \in Paths /\ node'[d \o v] = node'[p \o v]
       /\ \A v \in Seq(Name) :
             d \o v \in Paths /\ node'[d \o v] # Nothing
             => /\ p \o v \in Paths /\ node'[p \o v] = node'[d \o v]
                /\ \A t \in y.todo : ~Under(t, v)
  BY <1>8, <1>11, <1>12
<1> QED
  BY <1>2, <1>3, <1>7, <1>13 DEF Copying

(* What it is when nothing is left to copy. *)
LEMMA CopyingEnds ==
  ASSUME NEW x, Plain(x.from), Plain(x.to), x.todo = {}, NEW i, Copying(x, i)
  PROVE  ~Under(x.to, x.from) /\ Tree(node, x.to) = i
<1>1. Tree(node, x.from) = Tree(node, x.to)
  BY TreeSame DEF Copying
<1> QED
  BY <1>1 DEF Copying

(* The image of a request is its source at the moment it starts on it. *)
LEMMA StartImage ==
  ASSUME NEW r \in Requests, Arrive(r) \/ Step(r), Started(req[r], req'[r]), Types
  PROVE  image'[r] = Tree(node, Head(req[r].left))
<1>1. req[r].phase = "next" /\ req[r].left # <<>>
  BY DEF Started
<1>2. StartTarget(r)
  BY <1>1 DEF Step, Arrive, MakeDir, ClearDest, RenameInPlace, CopyEntry, CopyDone,
              RemoveSource, Finish, Breaks, At
<1>3. image' = [image EXCEPT ![r] = Tree(node, Head(req[r].left))]
  BY <1>2, Zenon DEF StartTarget
<1>4. image = [u \in Requests |-> image[u]]
  BY DEF Types
<1> QED
  BY <1>3, <1>4
LEMMA MirrorOwn ==
  ASSUME Shaped, NEW r \in Requests, Arrive(r) \/ Step(r), Did(r),
         NEW i, i = image[r], NEW j, j = image'[r],
         image' = image \/ Started(req[r], req'[r]) \/ Stopped(req[r], req'[r]),
         Mirror(req[r], i), NEW y, y = req'[r]
  PROVE  Mirror(y, j)'
<1> PICK x : x = req[r]
  OBVIOUS
<1>1. /\ x \in RequestShape /\ y \in RequestShape /\ Formed(x) /\ Formed(y)
      /\ Types /\ Whole /\ Whole' /\ Mirror(x, i)
  BY FormedStep, WholeStep DEF Shaped, Types, Did, Alone
<1>2. CASE y.phase \in {"next", "mkdir", "done", "idle"} \/ y.from = y.to \/ y.body.op = "delete"
  BY <1>2 DEF Mirror
<1>3. ~Started(x, y) /\ ~Stopped(x, y) => i = j
  OBVIOUS
<1>4. ASSUME Plain(y.from), Plain(y.to), ~Under(y.to, y.from), y.todo = {Root},
             y.phase \in {"rename", "copy"},
             node'[y.to] = Nothing, Tree(node', y.from) = j
      PROVE  Mirror(y, j)'
  <2>1. CopyingIfNothing' => Copying(y, j)'
    BY <1>4 DEF CopyingIfNothing
  <2>2. Copying(y, j)'
    BY <1>1, <2>1, CopyingNothingNext
  <2> QED
    BY <1>4, <2>2 DEF Mirror
<1>5. CASE Started(x, y)
  <2> SUFFICES ASSUME y.phase \in {"clear", "rename", "copy", "remove"}, y.from # y.to,
                      y.body.op # "delete"
               PROVE  Mirror(y, j)'
    BY DEF Mirror
  <2>1. /\ y.phase = FirstStep(y.body, y.from) /\ y.to = Dest(y.body, y.from)
        /\ node' = node /\ y.from = Head(x.left) /\ y.todo = {Root}
        /\ y.body = x.body /\ Admissible(y.body, y.from)
    BY <1>5 DEF Started, Starts
  <2>2. Tree(node', y.from) = j
    <3>1. j = Tree(node, Head(req[r].left))
      BY <1>1, <1>5, StartImage
    <3> QED
      BY <2>1, <3>1
  <2>3. y.body.op # "mkdir" /\ y.phase \in AtWork
    BY <2>1 DEF FirstStep, AtWork
  <2>4. Plain(y.from) /\ Plain(y.to) /\ y.from \in Paths /\ y.to \in Paths
    BY <1>1, <2>3, WorkFacts
  <2>5. node[y.from] # Nothing
    BY <2>1, <2>3 DEF Admissible, Exists
  <2>6. CASE y.phase = "clear"
    BY <2>2, <2>6 DEF Mirror
  <2>7. CASE y.phase \in {"rename", "copy", "remove"}
    <3>1. node[y.to] = Nothing /\ y.phase \in {"rename", "copy"}
      BY <2>1, <2>7 DEF FirstStep, Proceed, Exists
    <3>2. ~Under(y.to, y.from)
      BY <1>1, <2>4, <2>5, <3>1, NothingUnder
    <3> QED
      BY <1>4, <2>1, <2>2, <2>4, <3>1, <3>2
  <2> QED
    BY <2>6, <2>7
<1>6. CASE Cleared(x, y)
  <2>1. PICK q \in Paths : /\ Under(x.to, q) /\ Drops(q)
                           /\ IF q = x.to THEN Goes(x, y, Proceed(x.body, x.from)) ELSE y = x
    BY <1>6 DEF Cleared
  <2> PICK p : p = x.from
    OBVIOUS
  <2> PICK d : d = x.to
    OBVIOUS
  <2>2. x.phase = "clear" /\ x.todo = {Root} /\ p # d /\ ~Under(p, d) /\ x.body.op # "delete"
        /\ x.body.op # "mkdir" /\ x.phase \in AtWork
    BY <1>1, <1>6 DEF Cleared, Formed, Going, AtWork
  <2>3. /\ Plain(p) /\ Plain(d) /\ p \in Seq(Name) /\ d \in Seq(Name)
        /\ p \in Paths /\ d \in Paths
    BY <1>1, <2>2, WorkFacts
  <2>4. i = j /\ y.from = p /\ y.to = d /\ y.todo = {Root}
    BY <1>3, <2>1, <2>2 DEF Goes, Started, Stopped, Refused, Proceed
  <2>5. ASSUME ~Under(d, p) PROVE Tree(node', p) = j
    <3>1. Tree(node, p) = i
      BY <1>1, <2>2, <2>5 DEF Mirror
    <3>2. \A u \in Paths : Under(p, u) => node'[u] = node[u]
      <4> SUFFICES ASSUME NEW u \in Paths, Under(p, u) PROVE u # q
        BY <2>1 DEF Drops
      <4>1. u \in Seq(Name)
        BY PathFacts
      <4> QED
        BY <2>1, <2>2, <2>3, <2>5, <4>1, DestAboveSource
    <3> QED
      BY <2>3, <2>4, <3>1, <3>2, TreeKept
  <2>6. CASE q = d
    <3>1. y.phase \in {"rename", "copy"} /\ node'[d] = Nothing
      BY <2>1, <2>6 DEF Goes, Proceed, Drops
    <3>2. CASE Under(d, p)
      <4>1. node'[p] = Nothing
        BY <2>1, <2>2, <2>3, <2>6, <3>2 DEF Drops
      <4> QED
        BY <2>4, <3>1, <4>1 DEF Mirror
    <3>3. CASE ~Under(d, p)
      BY <1>4, <2>3, <2>4, <2>5, <3>1, <3>3
    <3> QED
      BY <3>2, <3>3
  <2>7. CASE q # d
    <3>1. y = x
      BY <2>1, <2>7
    <3> QED
      BY <2>2, <2>4, <2>5, <3>1 DEF Mirror
  <2> QED
    BY <2>6, <2>7
<1>7. CASE CopiedOne(x, y) /\ y.from # y.to /\ y.body.op # "delete"
  <2>1. PICK s \in Seq(Name) : Copies(s, x, y)
    BY <1>7 DEF CopiedOne
  <2>2. /\ x.phase = "copy" /\ y.phase = "copy" /\ x.from # x.to /\ x.body.op # "delete"
        /\ s \in x.todo /\ node[x.from \o s] # Nothing
    BY <1>7, <2>1 DEF CopiedOne, Copies, Exists
  <2>3. Copying(x, i)
    <3> SUFFICES ASSUME node[x.from] = Nothing, Root \in x.todo PROVE FALSE
      BY <1>1, <2>2 DEF Mirror
    <3>1. Under(Root, s) /\ \A t, u \in x.todo : Under(t, u) => t = u
      BY <1>1, <2>2, UnderOrder DEF Root, Formed, Walk
    <3>2. s = Root
      BY <2>2, <3>1
    <3>3. x.from \in Seq(Name)
      BY <1>1, ShapeIs
    <3>4. x.from \o Root = x.from
      BY <3>3 DEF Root
    <3> QED
      BY <2>2, <3>2, <3>4
  <2>4. Copying(y, i)'
    BY <1>1, <2>1, <2>2, <2>3, CopyingOn
  <2>5. i = j
    BY <1>3, <2>2 DEF Started, Stopped, Refused
  <2> QED
    BY <2>2, <2>4, <2>5 DEF Mirror
<1>8. CASE CopiedAll(x, y) /\ y.from # y.to /\ y.phase = "remove"
  <2>1. /\ x.phase = "copy" /\ y.from = x.from /\ y.to = x.to /\ node' = node
        /\ x.body.op = "move" /\ x.todo = {} /\ y.body = x.body
    BY <1>8 DEF CopiedAll, Goes
  <2>2. Copying(x, i)
    BY <1>1, <1>8, <2>1 DEF Mirror
  <2>3. Plain(x.from) /\ Plain(x.to)
    BY <1>1, <2>1, WorkFacts DEF AtWork
  <2>4. ~Under(x.to, x.from) /\ Tree(node, x.to) = i
    BY <2>1, <2>2, <2>3, CopyingEnds
  <2>5. i = j
    BY <1>3, <1>8, <2>1 DEF Started, Stopped, Refused
  <2> QED
    BY <1>8, <2>1, <2>4, <2>5 DEF Mirror
<1>9. CASE Removed(x, y) /\ y.phase = "remove" /\ y.from # y.to /\ y.body.op # "delete"
  <2>1. PICK q \in Paths : /\ Under(x.from, q) /\ Drops(q)
                           /\ IF q = x.from THEN Goes(x, y, "next") ELSE y = x
    BY <1>9 DEF Removed
  <2>2. y = x
    BY <1>9, <2>1 DEF Goes
  <2> PICK p : p = x.from
    OBVIOUS
  <2> PICK d : d = x.to
    OBVIOUS
  <2>3. /\ Plain(d) /\ p \in Seq(Name) /\ d \in Seq(Name)
    BY <1>1, <1>9, <2>2, WorkFacts DEF AtWork, Formed, Placed
  <2>4. p # d /\ ~Under(p, d)
    BY <1>1, <1>9, <2>2 DEF Formed, Going
  <2>5. ~Under(d, p) /\ Tree(node, d) = i
    BY <1>1, <1>9, <2>2 DEF Mirror
  <2>6. \A u \in Paths : Under(d, u) => node'[u] = node[u]
    <3> SUFFICES ASSUME NEW u \in Paths, Under(d, u) PROVE u # q
      BY <2>1 DEF Drops
    <3>1. u \in Seq(Name)
      BY PathFacts
    <3> QED
      BY <2>1, <2>3, <2>4, <2>5, <3>1, DestAboveSource
  <2>7. Tree(node', d) = i
    BY <2>3, <2>5, <2>6, TreeKept
  <2>8. i = j
    BY <1>3, <1>9, <2>2 DEF Started, Stopped, Refused
  <2> QED
    BY <1>9, <2>2, <2>5, <2>7, <2>8 DEF Mirror
<1>10. CASE Arrived(x, y) \/ Stopped(x, y) \/ Made(x, y) \/ Renamed(x, y)
            \/ Finished(x, y) \/ Broke(x, y)
  BY <1>2, <1>10 DEF Arrived, Stopped, Made, Renamed, Finished, Broke, Goes, Refused
<1>11. \/ Arrived(x, y) \/ Stopped(x, y) \/ Started(x, y) \/ Made(x, y)
       \/ Cleared(x, y) \/ Renamed(x, y) \/ CopiedOne(x, y) \/ CopiedAll(x, y)
       \/ Removed(x, y) \/ Finished(x, y) \/ Broke(x, y)
  BY DEF Did
<1>12. /\ Removed(x, y) => y.phase \in {"next", "remove"}
       /\ CopiedAll(x, y) => y.phase \in {"next", "remove"}
  BY DEF Removed, CopiedAll, Goes
<1> QED
  BY <1>2, <1>5, <1>6, <1>7, <1>8, <1>9, <1>10, <1>11, <1>12
LEMMA MirrorsInit == Init => Mirrors
<1> SUFFICES ASSUME Init PROVE Mirrors
  OBVIOUS
<1>1. \A r \in Requests : req[r].phase = "idle"
  BY DEF Init, Idle
<1>2. DisturbedNow = {}
  BY <1>1 DEF DisturbedNow, Running
<1>3. \A r \in Requests : Mirror(req[r], image[r])
  BY <1>1 DEF Mirror
<1> QED
  BY <1>2, <1>3 DEF Mirrors, DisturbedKnown

LEMMA MirrorsStep == Shaped /\ Mirrors /\ [Next]_vars => Mirrors'
<1> SUFFICES ASSUME Shaped, Mirrors, [Next]_vars PROVE Mirrors'
  OBVIOUS
<1>1. CASE UNCHANGED vars
  <2>1. req' = req /\ node' = node /\ image' = image /\ disturbed' = disturbed
    BY <1>1 DEF vars
  <2>2. DisturbedKnown'
    <3>1. ASSUME NEW r \in DisturbedNow' PROVE r \in DisturbedNow
      <4>1. PICK s \in Running' \ {r} : \E q \in Paths :
               /\ Claims(req[s].body, q)'
               /\ \E p \in (Sources(req[r].body) \cup Destinations(req[r].body))' :
                     Under(p, q) \/ Under(q, p)
        BY <3>1 DEF DisturbedNow
      <4>2. r \in Running /\ s \in Running \ {r}
        BY <2>1, <3>1, <4>1 DEF DisturbedNow, Running
      <4>3. \A q \in Paths : Claims(req[s].body, q)' <=> Claims(req[s].body, q)
        BY <2>1 DEF Claims, Sources, Destinations, Dest, DestName
      <4>4. /\ Sources(req[r].body)' = Sources(req[r].body)
            /\ Destinations(req[r].body)' = Destinations(req[r].body)
        BY <2>1 DEF Sources, Destinations, Dest, DestName
      <4> QED
        BY <4>1, <4>2, <4>3, <4>4 DEF DisturbedNow
    <3> QED
      BY <2>1, <3>1 DEF DisturbedKnown, Mirrors
  <2>3. \A r \in Requests \ disturbed' : Mirror(req[r], image[r])'
    <3> SUFFICES ASSUME NEW r \in Requests, r \notin disturbed PROVE Mirror(req[r], image[r])'
      BY <2>1
    <3>1. Mirror(req[r], image[r])
      BY DEF Mirrors
    <3> QED
      BY <2>1, <3>1 DEF Mirror, Copying
  <2> QED
    BY <2>2, <2>3 DEF Mirrors
<1>2. CASE Next
  <2>1. PICK r \in Requests :
          /\ Arrive(r) \/ Step(r)
          /\ disturbed' = disturbed \cup DisturbedNow'
    BY <1>2 DEF Next
  <2>2. /\ Did(r) /\ Types
        /\ image' = image \/ Started(req[r], req'[r]) \/ Stopped(req[r], req'[r])
        /\ image' = image \/ image' = [image EXCEPT ![r] = Tree(node, Head(req[r].left))]
    BY <2>1, StepDid DEF Shaped
  <2>3. DisturbedKnown'
    BY <2>1 DEF DisturbedKnown
  <2>4. ASSUME NEW u \in Requests, u \notin disturbed' PROVE Mirror(req[u], image[u])'
    <3> PICK y : y = req'[u]
      OBVIOUS
    <3> PICK j : j = image'[u]
      OBVIOUS
    <3>1. u \notin disturbed /\ Mirror(req[u], image[u]) /\ DisturbedKnown
      BY <2>1, <2>4 DEF Mirrors
    <3>2. CASE u = r
      <4>1. Mirror(y, j)'
        BY <2>1, <2>2, <3>1, <3>2, MirrorOwn
      <4> QED
        BY <4>1
    <3>3. CASE u # r
      <4>1. y = req[u]
        BY <2>2, <3>3 DEF Did, Alone
      <4>2. j = image[u]
        BY <2>2, <3>3 DEF Types
      <4>3. Mirror(y, j)'
        BY <2>2, <3>1, <3>3, <4>1, <4>2, MirrorOthers
      <4> QED
        BY <4>3
    <3> QED
      BY <3>2, <3>3
  <2> QED
    BY <2>3, <2>4 DEF Mirrors
<1> QED
  BY <1>1, <1>2

(* What is at the destination when a target is done, and at the source of what
   was renamed or moved. *)
LEMMA TargetDone ==
  ASSUME Shaped, NEW r \in Requests, Did(r), NEW i, Mirror(req[r], i),
         req[r].phase \in {"rename", "copy", "remove"}, req'[r].phase = "next",
         req[r].body.op # "delete", req[r].from # req[r].to
  PROVE  /\ Tree(node', req[r].to) = i
         /\ req[r].body.op # "copy" => node'[req[r].from] = Nothing
<1> PICK x : x = req[r]
  OBVIOUS
<1> PICK y : y = req'[r]
  OBVIOUS
<1> PICK p : p = x.from
  OBVIOUS
<1> PICK d : d = x.to
  OBVIOUS
<1>1. /\ x \in RequestShape /\ Formed(x) /\ Mirror(x, i) /\ x.body.op # "mkdir"
      /\ x.phase \in AtWork
  BY DEF Shaped, Types, Formed, Placed, AtWork
<1>2. /\ Plain(p) /\ Plain(d) /\ p \in Seq(Name) /\ d \in Seq(Name)
      /\ p \in Paths /\ d \in Paths
  BY <1>1, WorkFacts
<1>3. CASE Renamed(x, y)
  <2>1. Siblings(p, d) /\ Moves(p, d) /\ x.phase = "rename"
    BY <1>3 DEF Renamed
  <2>2. Tree(node, p) = i
    BY <1>1, <2>1 DEF Mirror, Moves, Exists
  <2>3. \A s \in Seq(Name) : p \o s \in Paths <=> d \o s \in Paths
    BY <2>1, SiblingFacts
  <2>4. \A s \in Seq(Name) : d \o s \in Paths => node'[d \o s] = node[p \o s]
    BY <2>1 DEF Moves
  <2>5. Tree(node, p) = Tree(node', d)
    BY <1>2, <2>3, <2>4, TreeSame
  <2>6. Under(p, p)
    BY <1>2, UnderOrder
  <2>7. node'[p] = Nothing
    BY <1>2, <2>1, <2>6 DEF Moves
  <2> QED
    BY <2>2, <2>5, <2>7
<1>4. CASE CopiedAll(x, y)
  <2>1. /\ x.phase = "copy" /\ x.todo = {} /\ node' = node /\ x.body.op = "copy"
    BY <1>1, <1>4 DEF CopiedAll, Goes, Formed, Going
  <2>2. Copying(x, i)
    BY <1>1, <2>1 DEF Mirror
  <2> QED
    BY <1>2, <2>1, <2>2, CopyingEnds
<1>5. CASE Removed(x, y)
  <2>1. PICK q \in Paths : /\ Under(p, q) /\ Drops(q)
                           /\ IF q = p THEN Goes(x, y, "next") ELSE y = x
    BY <1>5 DEF Removed
  <2>2. q = p /\ x.phase = "remove" /\ ~Under(p, d)
    BY <1>1, <1>5, <2>1 DEF Removed, Formed, Going
  <2>3. ~Under(d, p) /\ Tree(node, d) = i
    BY <1>1, <2>2 DEF Mirror
  <2>4. \A u \in Paths : Under(d, u) => node'[u] = node[u]
    BY <2>1, <2>2, <2>3 DEF Drops
  <2>5. Tree(node', d) = Tree(node, d)
    BY <1>2, <2>4, TreeKept
  <2>6. node'[p] = Nothing
    BY <2>1, <2>2 DEF Drops
  <2> QED
    BY <2>3, <2>5, <2>6
<1>6. ~(\/ Arrived(x, y) \/ Stopped(x, y) \/ Started(x, y) \/ Made(x, y)
        \/ Cleared(x, y) \/ CopiedOne(x, y) \/ Finished(x, y) \/ Broke(x, y))
  BY DEF Arrived, Stopped, Started, Made, Cleared, CopiedOne, Copies, Finished, Broke,
         Refused
<1> QED
  BY <1>3, <1>4, <1>5, <1>6 DEF Did

(* A copy or move that nobody interferes with yields exactly its source as it was
   when the handler checked it, with nothing of an overwritten destination left,
   whatever else runs and fails; a move leaves nothing behind. *)
THEOREM CopiesWhole == Spec => CopiesAreWhole
<1> DEFINE DoneWhole ==
      \A r \in Requests :
        LET b == req[r].body
        IN /\ req[r].phase \in {"rename", "copy", "remove"} /\ req'[r].phase = "next"
           /\ b.op # "delete" /\ r \notin disturbed' /\ req[r].from # req[r].to
           => /\ Tree(node', req[r].to) = image[r]
              /\ b.op # "copy" => node'[req[r].from] = Nothing
<1>1. Shaped /\ Mirrors /\ [Next]_vars => [DoneWhole]_vars
  <2> SUFFICES ASSUME Shaped, Mirrors, Next PROVE DoneWhole
    OBVIOUS
  <2>1. PICK r \in Requests :
          /\ Arrive(r) \/ Step(r)
          /\ disturbed' = disturbed \cup DisturbedNow'
    BY DEF Next
  <2>2. Did(r)
    BY <2>1, StepDid
  <2> SUFFICES ASSUME NEW u \in Requests,
                      req[u].phase \in {"rename", "copy", "remove"}, req'[u].phase = "next",
                      req[u].body.op # "delete", u \notin disturbed', req[u].from # req[u].to
               PROVE  /\ Tree(node', req[u].to) = image[u]
                      /\ req[u].body.op # "copy" => node'[req[u].from] = Nothing
    OBVIOUS
  <2>3. u = r
    BY <2>2 DEF Did, Alone
  <2>4. Mirror(req[u], image[u])
    BY <2>1 DEF Mirrors
  <2> QED
    BY <2>2, <2>3, <2>4, TargetDone
<1> QED
  BY <1>1, ShapedInit, ShapedStep, MirrorsInit, MirrorsStep, PTL DEF Spec, CopiesAreWhole
=============================================================================
