-------------------------- MODULE S3MultipartProofs --------------------------
(***************************************************************************)
(* Proofs about S3Multipart: one open upload, its record on disk, and that *)
(* an upload reported done is the file, for any number of items, uploads,  *)
(* parts, part workers, versions of the file, failures and reloads.        *)
(***************************************************************************)
EXTENDS S3Multipart, TLAPS, FiniteSetTheorems

-----------------------------------------------------------------------------
(* The inductive invariant. *)

Uploaded == [state : {"unused", "open", "ended"}, parts : Content]

BucketTypes == upl \in [Uploads -> Uploaded] /\ object \in Content
ItemTypes   == items \in [Items -> Item]
WireTypes   == wire \in SUBSET Request /\ IsFiniteSet(wire)
RecordTypes ==
  record \in Record /\ lost \in SUBSET Uploads /\ (record.id = None => record = NoRecord)
TrayTypes   ==
  /\ refresh \in [at : {"idle", "asked", "listed"}, open : SUBSET Uploads]
  /\ sessions \in SUBSET [id : Uploads, sum : 0..Versions, mine : BOOLEAN]
RestTypes   ==
  /\ disk \in Files /\ small \in BOOLEAN /\ trouble \in Nat /\ orphans \in SUBSET Uploads

Full(content) == \A p \in Parts : content[p] # None

(* A request whose answer a run waits for is the one of its phase; a part that
   is on its way is neither stored nor left to be sent. *)
PartFits(item, r) ==
  /\ item.at \in {"parts", "complete"} \/ Ghost(item)
  /\ r.upload = item.upload
  /\ ~Ghost(item) => \E p \in Parts : /\ p \notin item.todo /\ item.got[p] = None
                                      /\ r.data = [Nothing EXCEPT ![p] = item.file]
Fits(item, r) ==
  \/ r.kind = "part" /\ PartFits(item, r)
  \/ /\ r.kind = "complete" /\ item.at = "complete"
     /\ r.upload = item.upload /\ r.data = item.got
  \/ r.kind = "list" /\ item.at = "list" /\ r.upload = item.upload /\ r.data = Nothing
  \/ r.kind = "put" /\ item.at = "put" /\ r.upload = None /\ r.data = Whole(item.file)
  \/ /\ r.kind \in {"sweep", "create", "delete"} /\ item.at = r.kind
     /\ r.upload = None /\ r.data = Nothing

ItemFits(item) ==
  /\ item.at \in {"parts", "list", "complete"} \/ item.resume => item.upload # None
  /\ item.at = "parts" => \A p \in item.todo : item.got[p] = None
  /\ item.at = "complete" => Full(item.got)
  /\ item.at \in {"sweep", "create", "put"} => ~item.resume
  /\ item.at \notin {"new", "closed"} => item.file \in Files
  /\ item.at = "put" => small
  /\ item.at = "verify" => Check

PartReqs(i) == {r \in wire : r.kind = "part" /\ r.item = i}

OneRun   == \A i, j \in Items : items[i].at \in Running /\ items[j].at \in Running => i = j
WireFits == \A r \in wire : r.item # None => Fits(items[r.item], r)
ItemsFit == \A i \in Items : ItemFits(items[i])
Slots    == \A i \in Items : Cardinality(PartReqs(i)) <= items[i].workers

Runs == ItemTypes /\ WireTypes /\ OneRun /\ WireFits /\ ItemsFit /\ Slots

Typed == BucketTypes /\ RecordTypes /\ TrayTypes /\ RestTypes

-----------------------------------------------------------------------------
(* Facts about the operators. *)

LEMMA TypeParts == Typed /\ ItemTypes /\ WireTypes => TypeOK
BY DEF TypeOK, Typed, BucketTypes, ItemTypes, WireTypes, RecordTypes, TrayTypes, RestTypes,
       Uploaded

\* The least element of a set of naturals.
LEMMA MinIsLeast ==
  ASSUME NEW S \in SUBSET Nat, S # {}
  PROVE  Min(S) \in S /\ \A n \in S : Min(S) <= n
<1>1. PICK x \in S : \A y \in S : ~(<<y, x>> \in OpToRel(<, Nat))
  BY NatLessThanWellFounded, WFMin
<1>2. ASSUME NEW y \in S
      PROVE  x <= y
  <2>1. <<y, x>> \in Nat \X Nat /\ ~(y < x)
    BY <1>1 DEF OpToRel
  <2> QED  BY <2>1
<1> QED  BY <1>2 DEF Min

\* The greatest element of a set of naturals with a bound.
LEMMA MaxIsIn ==
  ASSUME NEW n \in Nat, NEW S \in SUBSET (1..n), S # {}
  PROVE  Max(S) \in S
<1> DEFINE T == {n - x : x \in S}
<1>1. T \in SUBSET Nat /\ T # {}
  <2>1. \A x \in S : n - x \in Nat /\ x \in 1..n
    OBVIOUS
  <2>2. PICK x \in S : TRUE
    OBVIOUS
  <2>3. n - x \in T
    BY <2>2
  <2> QED  BY <2>1, <2>3
<1>2. Min(T) \in T /\ \A y \in T : Min(T) <= y
  BY <1>1, MinIsLeast
<1>3. PICK x \in S : Min(T) = n - x
  BY <1>2
<1>4. \A y \in S : n - y \in T
  OBVIOUS
<1>5. ASSUME NEW y \in S
      PROVE  x >= y
  <2>1. Min(T) <= n - y
    BY <1>2, <1>4
  <2>2. n - x <= n - y /\ x \in 1..n /\ y \in 1..n
    BY <1>3, <2>1
  <2> QED  BY <2>2
<1> QED  BY <1>5 DEF Max

LEMMA Contents ==
  /\ Nothing \in Content
  /\ \A v \in 0..Versions : Whole(v) \in Content
  /\ \A v \in 0..Versions, p \in Parts : [Nothing EXCEPT ![p] = v] \in Content
BY S3Assumption DEF Nothing, Content, Whole, None

LEMMA ReqType ==
  ASSUME NEW kind \in {"sweep", "create", "put", "part", "complete", "list", "delete",
                       "abort", "abortSession"},
         NEW i \in Items \cup {None}, NEW u \in Uploads \cup {None}, NEW data \in Content
  PROVE  /\ Req(kind, i, u, data) \in Request
         /\ Req(kind, i, u, data).kind = kind /\ Req(kind, i, u, data).item = i
         /\ Req(kind, i, u, data).upload = u /\ Req(kind, i, u, data).data = data
BY DEF Req, Request

LEMMA SumType ==
  ASSUME NEW item \in Item
  PROVE  sum(item) \in 0..Versions
BY S3Assumption DEF sum, Item, Files, None

LEMMA UpsertType ==
  ASSUME RecordTypes, NEW u \in Uploads, NEW s \in 0..Versions, Upsert(u, s)
  PROVE  RecordTypes'
BY DEF RecordTypes, Record, Upsert, None, Uploads

LEMMA PersistType ==
  ASSUME RecordTypes, NEW item \in Item, item.upload # None,
         Persist(item) \/ PersistProgress(item)
  PROVE  RecordTypes'
<1>1. item.upload \in Uploads
  BY DEF Item
<1>2. CASE Persist(item)
  BY <1>1, <1>2, SumType, UpsertType DEF Persist
<1>3. CASE PersistProgress(item)
  <2>1. (IF record.id = item.upload THEN record.sum ELSE None) \in 0..Versions
    BY S3Assumption DEF RecordTypes, Record, None
  <2> QED  BY <1>1, <1>3, <2>1, UpsertType DEF PersistProgress
<1> QED  BY <1>2, <1>3

LEMMA RemoveType ==
  ASSUME RecordTypes, NEW u, removeMultipartRecord(u)
  PROVE  record' \in Record /\ (record'.id = None => record' = NoRecord)
BY S3Assumption DEF RecordTypes, Record, removeMultipartRecord, NoRecord, None

(* What a request does to the uploads: they age, and parts come from parts. *)
Ages(u) ==
  \/ upl'[u].state = upl[u].state
  \/ upl[u].state = "open" /\ upl'[u].state = "ended"

Stored(u, data) ==
  \A p \in Parts : upl'[u].parts[p] = IF data[p] # None THEN data[p] ELSE upl[u].parts[p]

LEMMA Performed ==
  ASSUME BucketTypes, NEW r \in Request, Accepts(r), r.kind # "create", Perform(r)
  PROVE  /\ BucketTypes'
         /\ \A u \in Uploads : Ages(u)
         /\ \A u \in Uploads : IF r.kind = "part" /\ r.upload = u
                               THEN upl'[u].state = upl[u].state /\ Stored(u, r.data)
                               ELSE upl'[u].parts = upl[u].parts
         /\ r.kind = "sweep" => \A u \in Uploads : upl'[u].state # "open"
         /\ r.kind \in {"abort", "abortSession", "complete"} => upl'[r.upload].state = "ended"
         /\ r.kind \in {"complete", "part", "list", "abort", "abortSession"} =>
              r.upload \in Uploads /\ upl[r.upload].state = "open"
<1>1. r.kind \in {"sweep", "put", "part", "complete", "list", "delete", "abort", "abortSession"}
      /\ r.upload \in Uploads \cup {None} /\ r.data \in Content
  BY DEF Request
<1>2. CASE r.kind = "sweep"
  <2>1. upl' = Swept /\ object' = object
    BY <1>2 DEF Perform
  <2>2. \A u \in Uploads : /\ upl'[u] \in Uploaded /\ Ages(u)
                           /\ upl'[u].parts = upl[u].parts /\ upl'[u].state # "open"
    BY <2>1 DEF Swept, IsOpen, BucketTypes, Uploaded, Ages, None, Uploads
  <2>3. upl' \in [Uploads -> Uploaded]
    BY <2>1, <2>2 DEF Swept
  <2> QED  BY <1>2, <2>1, <2>2, <2>3 DEF BucketTypes
<1>3. CASE r.kind = "part"
  <2>1. r.upload \in Uploads /\ upl[r.upload].state = "open" /\ object' = object
    BY <1>1, <1>3 DEF Accepts, IsOpen, Perform
  <2> DEFINE got == [p \in Parts |-> IF r.data[p] # None THEN r.data[p]
                                     ELSE upl[r.upload].parts[p]]
  <2>2. upl' = [upl EXCEPT ![r.upload].parts = got]
    BY <1>3 DEF Perform
  <2>3. got \in Content
    BY <1>1, <2>1 DEF BucketTypes, Uploaded, Content
  <2> HIDE DEF got
  <2>4. /\ upl' \in [Uploads -> Uploaded] /\ upl'[r.upload].parts = got
        /\ upl'[r.upload].state = upl[r.upload].state
        /\ \A u \in Uploads \ {r.upload} : upl'[u] = upl[u]
    BY <2>1, <2>2, <2>3 DEF BucketTypes, Uploaded
  <2>5. Stored(r.upload, r.data)
    BY <2>4 DEF Stored, got
  <2> QED  BY <1>3, <2>1, <2>4, <2>5 DEF BucketTypes, Ages
<1>4. CASE r.kind \in {"complete", "abort", "abortSession"}
  <2>1. r.upload \in Uploads /\ upl[r.upload].state = "open"
    BY <1>1, <1>4 DEF Accepts, IsOpen
  <2>2. upl' = End(r.upload) /\ object' \in Content
    BY <1>1, <1>4 DEF Perform, BucketTypes
  <2> QED  BY <1>4, <2>1, <2>2 DEF End, BucketTypes, Uploaded, Ages
<1>5. CASE r.kind \in {"put", "delete", "list"}
  <2>1. upl' = upl /\ object' \in Content
    BY <1>1, <1>5, Contents DEF Perform, BucketTypes, bucket
  <2>2. r.kind = "list" => r.upload \in Uploads /\ upl[r.upload].state = "open"
    BY <1>1 DEF Accepts, IsOpen
  <2> QED  BY <1>5, <2>1, <2>2 DEF BucketTypes, Ages
<1> QED  BY <1>1, <1>2, <1>3, <1>4, <1>5

LEMMA Created ==
  ASSUME BucketTypes, NEW u \in Uploads, Create(u)
  PROVE  /\ BucketTypes'
         /\ upl[u].state = "unused" /\ upl'[u].state = "open" /\ upl'[u].parts = upl[u].parts
         /\ \A v \in Uploads \ {u} : upl'[v] = upl[v]
<1>1. Unused \in SUBSET Nat
  BY S3Assumption DEF Unused, Uploads
<1>2. u \in Unused /\ upl' = [upl EXCEPT ![u].state = "open"] /\ object' = object
  BY <1>1, MinIsLeast DEF Create
<1> QED  BY <1>2 DEF Unused, BucketTypes, Uploaded
-----------------------------------------------------------------------------
(* The runs: how a step of one item, or of none, keeps what is known of all. *)

LEMMA SlotsKept ==
  ASSUME Runs, NEW i \in Items, PartReqs(i)' \subseteq PartReqs(i)
  PROVE  /\ Cardinality(PartReqs(i)') \in Nat
         /\ Cardinality(PartReqs(i)') <= items[i].workers
<1>1. PartReqs(i) \subseteq wire /\ IsFiniteSet(wire)
  BY DEF PartReqs, Runs, WireTypes
<1>2. IsFiniteSet(PartReqs(i))
  BY <1>1, FS_Subset
<1>3. Cardinality(PartReqs(i)) \in Nat /\ Cardinality(PartReqs(i)') \in Nat
      /\ Cardinality(PartReqs(i)') <= Cardinality(PartReqs(i))
  BY <1>2, FS_Subset, FS_CardinalityType
<1>4. Cardinality(PartReqs(i)) <= items[i].workers /\ items[i].workers \in Nat
  BY S3Assumption DEF Runs, Slots, ItemTypes, Item
<1> QED  BY <1>3, <1>4

\* Requests of an item that waits for none.
LEMMA NoReqs ==
  ASSUME Runs, NEW i \in Items,
         items[i].at \notin (Running \ {"verify"}) \cup {"failed"} \cup Undead
  PROVE  \A r \in wire : r.item # i
BY DEF Runs, WireFits, Fits, PartFits, Ghost, Running, Sending, Undead, Items, None

LEMMA ItemStep ==
  ASSUME Runs, NEW i \in Items, NEW x \in Item, Set(i, x), small' = small,
         wire' \in SUBSET Request, IsFiniteSet(wire'),
         x.at \in Running => items[i].at \in Running \/ ~Busy,
         ItemFits(x),
         \A r \in wire' : r.item = i => Fits(x, r),
         \A r \in wire' : r.item \notin {i, None} => r \in wire,
         Cardinality(PartReqs(i)') <= x.workers
  PROVE  Runs'
<1> USE DEF Runs
<1>1. ItemTypes' /\ items'[i] = x /\ \A j \in Items \ {i} : items'[j] = items[j]
  BY DEF ItemTypes, Set
<1>2. OneRun'
  <2> SUFFICES ASSUME NEW j \in Items, NEW k \in Items,
                      items'[j].at \in Running, items'[k].at \in Running
               PROVE  j = k
    BY DEF OneRun
  <2>1. CASE items[i].at \in Running
    BY <1>1, <2>1 DEF OneRun
  <2>2. CASE items[i].at \notin Running
    BY <1>1, <2>2 DEF OneRun, Busy
  <2> QED  BY <2>1, <2>2
<1>3. WireFits'
  <2> SUFFICES ASSUME NEW r \in wire', r.item # None
               PROVE  Fits(items'[r.item], r)
    BY DEF WireFits, Fits, PartFits, Ghost
  <2>1. CASE r.item = i
    BY <1>1, <2>1
  <2>2. CASE r.item # i
    <3>1. r \in wire /\ r.item \in Items \ {i}
      BY <2>2 DEF Request
    <3> QED  BY <1>1, <3>1 DEF WireFits
  <2> QED  BY <2>1, <2>2
<1>4. ItemsFit'
  BY <1>1 DEF ItemsFit, ItemFits
<1>5. ASSUME NEW j \in Items
      PROVE  Cardinality(PartReqs(j)') <= items'[j].workers
  <2>1. CASE j = i
    BY <1>1, <2>1
  <2>2. CASE j # i
    <3>1. PartReqs(j)' \subseteq PartReqs(j)
      BY <2>2 DEF PartReqs, Items, None
    <3> QED  BY <1>1, <2>2, <3>1, SlotsKept
  <2> QED  BY <2>1, <2>2
<1>6. Slots'
  BY <1>5 DEF Slots
<1> QED  BY <1>1, <1>2, <1>3, <1>4, <1>6 DEF WireTypes

LEMMA WireStep ==
  ASSUME Runs, items' = items, small' = small,
         wire' \in SUBSET Request, IsFiniteSet(wire'),
         \A r \in wire' : r.item # None => r \in wire
  PROVE  Runs'
<1> USE DEF Runs
<1>1. ItemTypes' /\ OneRun' /\ ItemsFit'
  BY DEF ItemTypes, OneRun, ItemsFit, ItemFits
<1>2. WireFits'
  BY DEF WireFits, Fits, PartFits, Ghost
<1>3. ASSUME NEW j \in Items
      PROVE  Cardinality(PartReqs(j)') <= items'[j].workers
  <2>1. PartReqs(j)' \subseteq PartReqs(j)
    BY DEF PartReqs, Items, None
  <2> QED  BY <2>1, SlotsKept
<1>4. Slots'
  BY <1>3 DEF Slots
<1> QED  BY <1>1, <1>2, <1>4 DEF WireTypes

\* The requests stay finitely many.
LEMMA WireSent ==
  ASSUME WireTypes, NEW W, W \subseteq wire, NEW q \in Request
  PROVE  /\ W \in SUBSET Request /\ IsFiniteSet(W)
         /\ W \cup {q} \in SUBSET Request /\ IsFiniteSet(W \cup {q})
BY FS_Subset, FS_AddElement DEF WireTypes

LEMMA WireTaken ==
  ASSUME WireTypes, NEW W, W \subseteq wire
  PROVE  W \in SUBSET Request /\ IsFiniteSet(W)
BY FS_Subset DEF WireTypes

LEMMA AbandonedType ==
  ASSUME WireTypes, NEW i \in Items
  PROVE  /\ Abandoned(i) \in SUBSET Request /\ IsFiniteSet(Abandoned(i))
         /\ \A r \in Abandoned(i) : /\ r.item # i
                                    /\ r.item # None => r \in wire
                                    /\ \E q \in wire : /\ r.kind = q.kind /\ r.upload = q.upload
                                                       /\ r.data = q.data
<1> DEFINE Op(r) == [r EXCEPT !.item = IF @ = i THEN None ELSE @]
           Q == {q \in wire : ~(q.item = i /\ q.kind = "list")}
<1>1. IsFiniteSet(Q) /\ Q \subseteq wire
  BY FS_Subset DEF WireTypes
<1>2. IsFiniteSet({Op(r) : r \in Q})
  <2> DEFINE T == {Op(r) : r \in Q}
             f == [r \in Q |-> Op(r)]
  <2>1. f \in Surjection(Q, T)
    BY DEF Surjection
  <2> QED  BY <1>1, <2>1, FS_Surjection
<1>3. Abandoned(i) = {Op(r) : r \in Q}
  BY DEF Abandoned
<1>4. \A r \in Q : /\ Op(r) \in Request /\ Op(r).item # i
                   /\ Op(r).item # None => Op(r) = r
                   /\ Op(r).kind = r.kind /\ Op(r).upload = r.upload /\ Op(r).data = r.data
  BY <1>1 DEF WireTypes, Request, Items, None
<1> HIDE DEF Op, Q
<1> QED  BY <1>1, <1>2, <1>3, <1>4
-----------------------------------------------------------------------------
(* The runs: one lemma per action. *)

\* What is known of an item.
LEMMA ItemOf ==
  ASSUME Runs, NEW i \in Items
  PROVE  /\ items[i] \in Item /\ ItemFits(items[i])
         /\ items[i].file \in 0..Versions /\ items[i].file \in Files \cup {None}
         /\ items[i].upload \in Uploads \cup {None}
         /\ items[i].got \in Content /\ items[i].todo \in SUBSET Parts
         /\ items[i].workers \in 0..Queue /\ items[i].resume \in BOOLEAN
         /\ \A r \in wire : r.item = i => Fits(items[i], r)
         /\ Cardinality(PartReqs(i)) <= items[i].workers
<1>1. items[i] \in Item /\ ItemFits(items[i]) /\ Cardinality(PartReqs(i)) <= items[i].workers
  BY DEF Runs, ItemTypes, ItemsFit, Slots
<1>2. i # None
  BY DEF Items, None
<1>3. ASSUME NEW r \in wire, r.item = i
      PROVE  Fits(items[i], r)
  <2>1. Fits(items[r.item], r)
    BY <1>2, <1>3 DEF Runs, WireFits
  <2> QED  BY <1>3, <2>1
<1>4. /\ items[i].file \in Files \cup {None} /\ items[i].upload \in Uploads \cup {None}
      /\ items[i].got \in Content /\ items[i].todo \in SUBSET Parts
      /\ items[i].workers \in 0..Queue /\ items[i].resume \in BOOLEAN
  BY <1>1 DEF Item
<1>5. items[i].file \in 0..Versions
  BY <1>4, S3Assumption DEF Files, None
<1> QED  BY <1>1, <1>3, <1>4, <1>5

\* An item that only changes its phase, or what a phase is not about.
LEMMA AtType ==
  ASSUME NEW item \in Item, NEW p \in {"new", "pending", "paused", "closed"} \cup Running
                                      \cup Undead \cup Ended
  PROVE  [item EXCEPT !.at = p] \in Item
BY DEF Item

LEMMA FailedType ==
  ASSUME NEW item \in Item
  PROVE  /\ Failed(item) \in Item /\ Failed(item).at = "failed"
         /\ Failed(item).workers = item.workers /\ Failed(item).upload = item.upload
         /\ Failed(item).resume = item.resume /\ Failed(item).rsum = item.rsum
         /\ Failed(item).file = item.file
BY DEF Failed, Item, Ended

LEMMA StartUploadRuns ==
  ASSUME Typed, Runs, NEW i \in Items, StartUpload(i)
  PROVE  Runs'
<1> DEFINE item == items[i]
<1>1. /\ item \in Item /\ item.at = "pending" /\ ~Busy /\ ~item.resume /\ small' = small
      /\ item.file \in Files /\ ItemFits(item)
  BY ItemOf DEF StartUpload, Turn, ItemFits
<1>2. \A r \in wire : r.item # i
  BY <1>1, NoReqs DEF Running, Sending, Undead
<1>3. CASE Check /\ ~Readable(item)
  <2>1. Set(i, Failed(item)) /\ wire' = wire
    BY <1>3 DEF StartUpload
  <2>2. PartReqs(i)' \subseteq PartReqs(i)
    BY <2>1 DEF PartReqs
  <2>3. Failed(item).at \notin Running /\ ItemFits(Failed(item))
    BY <1>1, FailedType DEF ItemFits, Running, Sending
  <2> QED  BY <1>1, <1>2, <2>1, <2>2, <2>3, FailedType, SlotsKept, ItemStep DEF Runs, WireTypes
<1>4. CASE ~(Check /\ ~Readable(item))
  <2> DEFINE kind == IF small THEN "put" ELSE "sweep"
             x == [item EXCEPT !.at = kind]
             q == IF small THEN Req("put", i, None, Whole(item.file))
                           ELSE Req("sweep", i, None, Nothing)
  <2>1. Set(i, x) /\ wire' = wire \cup {q}
    BY <1>4 DEF StartUpload
  <2>2. /\ q \in Request /\ q.kind = kind /\ q.item = i /\ q.upload = None
        /\ q.data = IF small THEN Whole(item.file) ELSE Nothing
    BY <1>1, ReqType, Contents, S3Assumption DEF Files
  <2>3. x \in Item /\ x.at = kind /\ x.workers = item.workers /\ ItemFits(x)
        /\ x.file = item.file
    BY <1>1 DEF Item, Running, Sending, ItemFits
  <2>4. Fits(x, q)
    BY <2>2, <2>3 DEF Fits
  <2>5. PartReqs(i)' \subseteq PartReqs(i)
    BY <2>1, <2>2 DEF PartReqs
  <2> HIDE DEF q, x
  <2> QED  BY <1>1, <1>2, <2>1, <2>2, <2>3, <2>4, <2>5, SlotsKept, ItemStep, WireSent DEF Runs
<1> QED  BY <1>3, <1>4

LEMMA StartResumeRuns ==
  ASSUME Typed, Runs, NEW i \in Items, StartResume(i)
  PROVE  Runs' /\ RecordTypes'
<1> DEFINE item == items[i]
           hash == Check /\ item.rsum = None
           x == [item EXCEPT !.at = "list"]
           q == Req("list", i, item.upload, Nothing)
<1>1. /\ item \in Item /\ item.at = "pending" /\ ~Busy /\ item.resume /\ small' = small
      /\ item.file \in Files /\ item.upload \in Uploads /\ ItemFits(item)
  BY ItemOf DEF StartResume, Turn, ItemFits
<1>2. \A r \in wire : r.item # i
  BY <1>1, NoReqs DEF Running, Sending, Undead
<1>3. CASE hash /\ ~Readable(item)
  <2>1. Set(i, Failed(item)) /\ wire' = wire /\ UNCHANGED local
    BY <1>3 DEF StartResume
  <2>2. PartReqs(i)' \subseteq PartReqs(i)
    BY <2>1 DEF PartReqs
  <2>3. Failed(item).at \notin Running /\ ItemFits(Failed(item))
    BY <1>1, FailedType DEF ItemFits, Running, Sending
  <2>4. RecordTypes'
    BY <2>1 DEF Typed, RecordTypes, local
  <2> QED  BY <1>1, <1>2, <2>1, <2>2, <2>3, <2>4, FailedType, SlotsKept, ItemStep
           DEF Runs, WireTypes
<1>4. CASE ~(hash /\ ~Readable(item))
  <2>1. Set(i, x) /\ wire' = wire \cup {q} /\ (IF hash THEN Persist(item) ELSE UNCHANGED local)
    BY <1>4 DEF StartResume
  <2>2. q \in Request /\ q.kind = "list" /\ q.item = i /\ q.upload = item.upload
        /\ q.data = Nothing
    BY <1>1, ReqType, Contents
  <2>3. x \in Item /\ x.at = "list" /\ x.workers = item.workers /\ ItemFits(x)
        /\ x.upload = item.upload
    BY <1>1 DEF Item, Running, Sending, ItemFits
  <2>4. Fits(x, q)
    BY <2>2, <2>3 DEF Fits
  <2>5. PartReqs(i)' \subseteq PartReqs(i)
    BY <2>1, <2>2 DEF PartReqs
  <2>6. RecordTypes'
    BY <1>1, <2>1, PersistType DEF Typed, RecordTypes, local, None, Uploads
  <2> HIDE DEF q, x
  <2> QED  BY <1>1, <1>2, <2>1, <2>2, <2>3, <2>4, <2>5, <2>6, SlotsKept, ItemStep, WireSent
           DEF Runs
<1> QED  BY <1>3, <1>4
LEMMA SendPartRuns ==
  ASSUME Typed, Runs, NEW i \in Items, SendPart(i)
  PROVE  Runs' /\ RecordTypes'
<1> DEFINE item == items[i]
           p == Min(item.todo)
           rest == [item EXCEPT !.todo = @ \ {p}]
           q == Req("part", i, item.upload, [Nothing EXCEPT ![p] = item.file])
           tired == [rest EXCEPT !.workers = @ - 1]
<1>1. /\ item \in Item /\ ItemFits(item) /\ small' = small
      /\ item.at = "parts" \/ Ghost(item)
      /\ item.todo # {} /\ item.todo \in SUBSET Parts
      /\ item.file \in 0..Versions /\ item.upload \in Uploads \cup {None}
  BY ItemOf DEF SendPart
<1>2. p \in item.todo /\ p \in Parts
  <2>1. item.todo \in SUBSET Nat
    BY <1>1 DEF Parts
  <2> QED  BY <1>1, <2>1, MinIsLeast
<1>3. PartReqs(i) = {r \in wire : r.kind = "part" /\ r.item = i}
      /\ Cardinality(PartReqs(i)) < item.workers
  BY DEF PartReqs, SendPart
<1>4. IsFiniteSet(PartReqs(i)) /\ Cardinality(PartReqs(i)) \in Nat /\ item.workers \in 0..Queue
  BY ItemOf, FS_Subset, FS_CardinalityType DEF Runs, WireTypes, PartReqs
<1> HIDE DEF p
<1>5. /\ rest \in Item /\ rest.at = item.at /\ rest.workers = item.workers
      /\ rest.upload = item.upload /\ rest.resume = item.resume /\ rest.file = item.file
      /\ rest.todo = item.todo \ {p} /\ rest.got = item.got /\ ItemFits(rest)
  BY <1>1 DEF Item, ItemFits
<1>6. \A r \in wire : r.item = i => Fits(item, r) /\ Fits(rest, r)
  BY <1>5, ItemOf DEF Fits, PartFits, Ghost
<1>7. CASE Readable(item)
  <2>1. Set(i, rest) /\ wire' = wire \cup {q} /\ UNCHANGED local
    BY <1>7 DEF SendPart, p
  <2>2. q \in Request /\ q.kind = "part" /\ q.item = i /\ q.upload = item.upload
        /\ q.data = [Nothing EXCEPT ![p] = item.file]
    <3>1. [Nothing EXCEPT ![p] = item.file] \in Content
      BY <1>1, <1>2, Contents
    <3> QED  BY <1>1, <3>1, ReqType
  <2>3. Fits(rest, q)
    <3>1. item.at = "parts" => item.got[p] = None
      BY <1>1, <1>2 DEF ItemFits
    <3>2. ~Ghost(rest) => item.at = "parts"
      BY <1>1, <1>5 DEF Ghost
    <3> QED  BY <1>1, <1>2, <1>5, <2>2, <3>1, <3>2 DEF Fits, PartFits, Ghost
  <2>4. PartReqs(i)' = PartReqs(i) \cup {q}
    BY <2>1, <2>2 DEF PartReqs
  <2>5. Cardinality(PartReqs(i)') <= rest.workers
    <3> HIDE DEF q, rest
    <3>1. /\ Cardinality(PartReqs(i) \cup {q}) \in Nat
          /\ Cardinality(PartReqs(i) \cup {q}) <= Cardinality(PartReqs(i)) + 1
      <4>1. Cardinality(PartReqs(i) \cup {q}) =
              IF q \in PartReqs(i) THEN Cardinality(PartReqs(i)) ELSE Cardinality(PartReqs(i)) + 1
        BY <1>4, FS_AddElement
      <4> QED  BY <1>4, <4>1
    <3>2. Cardinality(PartReqs(i)') = Cardinality(PartReqs(i) \cup {q})
      BY <2>4, Zenon
    <3>3. Cardinality(PartReqs(i)) < item.workers
      BY <1>3
    <3>4. rest.workers = item.workers
      BY <1>5
    <3>5. Cardinality(PartReqs(i)) + 1 <= item.workers
      BY <1>4, <3>3
    <3> QED  BY <1>4, <3>1, <3>2, <3>4, <3>5
  <2>6. RecordTypes'
    BY <2>1 DEF Typed, RecordTypes, local
  <2>7. rest.at \in Running => item.at \in Running
    BY <1>5
  <2> HIDE DEF q, rest
  <2> QED  BY <1>1, <1>5, <1>6, <2>1, <2>2, <2>3, <2>5, <2>6, <2>7, ItemStep, WireSent DEF Runs
<1>8. CASE ~Readable(item)
  <2>1. wire' = wire /\ PartReqs(i)' = PartReqs(i)
    BY <1>8 DEF SendPart, PartReqs
  <2>2. tired \in Item /\ tired.workers = item.workers - 1 /\ tired.at = item.at
        /\ tired.upload = item.upload /\ tired.resume = item.resume /\ tired.file = item.file
        /\ ItemFits(tired) /\ tired.todo = rest.todo /\ tired.got = item.got
        /\ tired.rsum = item.rsum
    <3>1. item.workers - 1 \in 0..Queue
      BY <1>3, <1>4, S3Assumption
    <3>2. rest.rsum = item.rsum
      BY <1>1 DEF Item
    <3> HIDE DEF rest
    <3> QED  BY <1>5, <3>1, <3>2 DEF Item, ItemFits
  <2>3. Cardinality(PartReqs(i)') <= tired.workers
    BY <1>3, <1>4, <2>1, <2>2
  <2> HIDE DEF rest
  <2>4. CASE Ghost(item)
    <3>1. Set(i, tired) /\ UNCHANGED <<record, lost>>
      BY <1>8, <2>4 DEF SendPart, p, rest
    <3>2. RecordTypes'
      BY <3>1 DEF Typed, RecordTypes
    <3>3. tired.at \in Running => item.at \in Running
      BY <2>2
    <3> HIDE DEF tired
    <3>4. \A r \in wire : r.item = i => Fits(tired, r)
      <4>1. \A r \in wire : r.item = i => Fits(rest, r)
        BY <1>6
      <4>2. tired.got = rest.got /\ tired.file = rest.file /\ tired.at = rest.at
            /\ tired.upload = rest.upload /\ tired.todo = rest.todo
        BY <1>5, <2>2
      <4> QED  BY <4>1, <4>2 DEF Fits, PartFits, Ghost
    <3> QED  BY <1>1, <2>1, <2>2, <2>3, <3>1, <3>2, <3>3, <3>4, ItemStep DEF Runs, WireTypes
  <2>5. CASE ~Ghost(item)
    <3>1. Set(i, Failed(tired)) /\ Persist(item) /\ item.at = "parts"
      BY <1>1, <1>8, <2>5 DEF SendPart, p, rest
    <3>2. RecordTypes'
      BY <1>1, <3>1, PersistType DEF Typed, ItemFits
    <3> HIDE DEF tired
    <3>3. ItemFits(Failed(tired)) /\ Failed(tired).at \notin Running
      BY <1>1, <2>2, <3>1, FailedType DEF ItemFits, Running, Sending
    <3>4. \A r \in wire : r.item = i => Fits(Failed(tired), r)
      <4>1. Ghost(Failed(tired)) /\ Failed(tired).upload = item.upload
        BY <2>2, FailedType DEF Ghost
      <4>2. \A r \in wire : r.item = i => r.kind = "part" /\ r.upload = item.upload
        BY <1>6, <3>1 DEF Fits, PartFits
      <4> QED  BY <4>1, <4>2 DEF Fits, PartFits
    <3> QED  BY <1>1, <2>1, <2>2, <2>3, <3>1, <3>2, <3>3, <3>4, FailedType, ItemStep
             DEF Runs, WireTypes
  <2> QED  BY <2>4, <2>5
<1> QED  BY <1>7, <1>8
\* An answered request leaves the wire, and another may take its place.
LEMMA Taken ==
  ASSUME Runs, NEW i \in Items, NEW r \in wire
  PROVE  /\ wire \ {r} \in SUBSET Request /\ IsFiniteSet(wire \ {r})
         /\ \A q \in Request : (wire \ {r}) \cup {q} \in SUBSET Request
                               /\ IsFiniteSet((wire \ {r}) \cup {q})
<1>1. wire \ {r} \subseteq wire /\ WireTypes
  BY DEF Runs
<1> QED  BY <1>1, WireSent, WireTaken

LEMMA FewerReqs ==
  ASSUME Runs, NEW i \in Items, NEW r \in wire, r.kind = "part", r.item = i,
         wire' = wire \ {r}
  PROVE  items[i].workers - 1 \in 0..Queue
         /\ Cardinality(PartReqs(i)') <= items[i].workers - 1
<1>1. PartReqs(i)' = PartReqs(i) \ {r} /\ r \in PartReqs(i)
  BY DEF PartReqs
<1>2. IsFiniteSet(PartReqs(i)) /\ Cardinality(PartReqs(i)) \in Nat
  BY FS_Subset, FS_CardinalityType DEF Runs, WireTypes, PartReqs
<1>3. Cardinality(PartReqs(i) \ {r}) = Cardinality(PartReqs(i)) - 1
  BY <1>1, <1>2, FS_RemoveElement
<1>4. Cardinality(PartReqs(i)') = Cardinality(PartReqs(i) \ {r})
  BY <1>1, Zenon
<1>5. Cardinality(PartReqs(i)) # 0
  BY <1>1, <1>2, FS_EmptySet
<1>6. Cardinality(PartReqs(i)) <= items[i].workers /\ items[i].workers \in 0..Queue
  BY ItemOf
<1> QED  BY <1>2, <1>3, <1>4, <1>5, <1>6, S3Assumption

\* The part that arrives is the one the item waits for, and no other request
\* is about that part.
LEMMA PartOf ==
  ASSUME Runs, NEW i \in Items, NEW r \in wire, r.kind = "part", r.item = i
  PROVE  PartFits(items[i], r)
BY ItemOf DEF Fits

\* A run waits for one answer at a time, except for its parts.
LEMMA OnlyRequest ==
  ASSUME Runs, NEW i \in Items, NEW r \in wire, r.item = i, r.kind # "part"
  PROVE  items[i].at = r.kind /\ \A q \in wire : q.item = i => q = r
<1>1. Fits(items[i], r) /\ ItemFits(items[i]) /\ r \in Request
  BY ItemOf DEF Runs, WireTypes
<1>2. items[i].at = r.kind
  BY <1>1 DEF Fits
<1>3. ASSUME NEW q \in wire, q.item = i
      PROVE  q = r
  <2>1. Fits(items[i], q) /\ q \in Request
    BY <1>3, ItemOf DEF Runs, WireTypes
  <2>2. q.kind # "part"
    <3>1. CASE r.kind = "complete"
      BY <1>1, <1>2, <2>1, <3>1 DEF Fits, PartFits, ItemFits, Full, Ghost, Undead
    <3>2. CASE r.kind # "complete"
      BY <1>1, <1>2, <2>1, <3>2 DEF Fits, PartFits, Ghost, Undead
    <3> QED  BY <3>1, <3>2
  <2>3. q.kind = r.kind /\ q.upload = r.upload /\ q.data = r.data
    BY <1>1, <1>2, <2>1, <2>2 DEF Fits
  <2> QED  BY <1>1, <1>3, <2>1, <2>3 DEF Request
<1> QED  BY <1>2, <1>3

LEMMA StopRuns ==
  ASSUME Typed, Runs, NEW i \in Items, NEW r \in wire, r.item = i, small' = small, Stop(i, r)
  PROVE  Runs' /\ RecordTypes'
<1> DEFINE item == items[i]
           tired == [item EXCEPT !.workers = @ - 1]
<1>1. /\ item \in Item /\ ItemFits(item) /\ Fits(item, r) /\ wire' = wire \ {r}
      /\ item.upload \in Uploads \cup {None} /\ item.workers \in 0..Queue
  BY ItemOf DEF Stop
<1>2. /\ wire' \in SUBSET Request /\ IsFiniteSet(wire')
      /\ \A q \in wire' : q \in wire
  BY <1>1, Taken
<1>3. CASE r.kind = "part"
  <2>1. item.workers - 1 \in 0..Queue /\ Cardinality(PartReqs(i)') <= item.workers - 1
    BY <1>1, <1>3, FewerReqs
  <2>2. /\ tired \in Item /\ tired.workers = item.workers - 1 /\ tired.at = item.at
        /\ tired.upload = item.upload /\ tired.resume = item.resume /\ tired.file = item.file
        /\ tired.todo = item.todo /\ tired.got = item.got
    BY <1>1, <2>1 DEF Item
  <2>3. ItemFits(tired)
    BY <1>1, <2>2 DEF ItemFits
  <2>4. CASE Ghost(item)
    <3>1. Set(i, tired) /\ UNCHANGED <<record, lost>>
      BY <1>3, <2>4 DEF Stop
    <3>2. \A q \in wire : q.item = i => Fits(tired, q)
      BY <2>2, ItemOf DEF Fits, PartFits, Ghost
    <3> HIDE DEF tired
    <3> QED  BY <1>1, <1>2, <2>1, <2>2, <2>3, <3>1, <3>2, ItemStep DEF Typed, RecordTypes
  <2>5. CASE ~Ghost(item)
    <3>1. Set(i, Failed(tired)) /\ Persist(item)
      BY <1>3, <2>5 DEF Stop
    <3>2. item.at \in {"parts", "complete"} /\ item.upload # None
      BY <1>1, <1>3, <2>5 DEF Fits, PartFits, ItemFits
    <3>3. RecordTypes'
      BY <1>1, <3>1, <3>2, PersistType DEF Typed
    <3> HIDE DEF tired
    <3>4. ItemFits(Failed(tired)) /\ Failed(tired).at \notin Running
      BY <1>1, <2>2, <3>2, FailedType DEF ItemFits, Running, Sending
    <3>5. \A q \in wire' : q.item = i => Fits(Failed(tired), q)
      <4>1. Ghost(Failed(tired)) /\ Failed(tired).upload = item.upload
        BY <2>2, FailedType DEF Ghost
      <4>2. CASE item.at = "parts"
        BY <1>2, <4>1, <4>2, ItemOf DEF Fits, PartFits
      <4>3. CASE item.at = "complete"
        <5>1. Full(item.got)
          BY <1>1, <4>3 DEF ItemFits
        <5>2. FALSE
          BY <1>1, <1>3, <2>5, <5>1 DEF Fits, PartFits, Full
        <5> QED  BY <5>2
      <4> QED  BY <3>2, <4>2, <4>3
    <3>6. Failed(tired) \in Item /\ Failed(tired).workers = item.workers - 1
      BY <2>2, FailedType
    <3>7. Runs'
      BY <1>2, <2>1, <3>1, <3>4, <3>5, <3>6, ItemStep
    <3> QED  BY <3>3, <3>7
  <2> QED  BY <2>4, <2>5
<1>4. CASE r.kind # "part"
  <2>1. r.kind \in {"list", "complete", "put", "sweep", "create", "delete"} /\ item.at = r.kind
    BY <1>1, <1>4 DEF Fits
  <2>2. Set(i, Failed(item))
        /\ IF r.kind \in {"list", "complete"} THEN Persist(item) ELSE UNCHANGED <<record, lost>>
    BY <2>1 DEF Stop
  <2>3. RecordTypes'
    BY <1>1, <2>1, <2>2, PersistType DEF Typed, ItemFits, RecordTypes
  <2>4. ItemFits(Failed(item)) /\ Failed(item).at \notin Running
    BY <1>1, <2>1, FailedType DEF ItemFits, Running, Sending
  <2>5. \A q \in wire' : q.item # i
    BY <1>1, <1>2, <1>4, OnlyRequest
  <2>6. PartReqs(i)' \subseteq PartReqs(i)
    BY <1>2 DEF PartReqs
  <2> QED  BY <1>1, <1>2, <2>2, <2>3, <2>4, <2>5, <2>6, FailedType, SlotsKept, ItemStep
<1> QED  BY <1>3, <1>4
\* The run has its new upload.
LEMMA CreateRuns ==
  ASSUME Typed, Runs, NEW i \in Items, NEW r \in wire, Succeed(i, r), r.kind = "create"
  PROVE  /\ Runs' /\ RecordTypes' /\ BucketTypes'
         /\ \E u \in Uploads :
              /\ Create(u)
              /\ items' = [items EXCEPT ![i] = [items[i] EXCEPT !.at = "parts", !.upload = u,
                                           !.todo = Parts, !.got = Nothing, !.workers = Queue]]
              /\ Persist(items'[i])
<1>1. r.item = i /\ small' = small /\ wire' = wire \ {r}
  BY DEF Succeed
<1>2. items[i].at = "create" /\ \A q \in wire : q.item = i => q = r
  BY <1>1, OnlyRequest
<1>3. PICK u \in Uploads :
         /\ Create(u)
         /\ Set(i, [items[i] EXCEPT !.at = "parts", !.upload = u, !.todo = Parts,
                                    !.got = Nothing, !.workers = Queue])
         /\ Persist(items'[i])
  BY DEF Succeed
<1> DEFINE x == [items[i] EXCEPT !.at = "parts", !.upload = u, !.todo = Parts,
                                 !.got = Nothing, !.workers = Queue]
<1>4. items[i] \in Item /\ ItemFits(items[i]) /\ ~items[i].resume
  BY <1>2, ItemOf DEF ItemFits
<1>5. x \in Item /\ x.at = "parts" /\ x.upload = u /\ x.got = Nothing /\ x.workers = Queue
      /\ x.resume = FALSE /\ x.file = items[i].file /\ x.todo = Parts
  <2>1. Queue \in 0..Queue /\ Nothing \in Content
    BY Contents, S3Assumption
  <2> QED  BY <1>4, <2>1 DEF Item, Running, Sending
<1>6. ItemFits(x)
  BY <1>2, <1>4, <1>5 DEF ItemFits, Nothing, None, Uploads
<1>7. wire' \in SUBSET Request /\ IsFiniteSet(wire') /\ \A q \in wire' : q \in wire /\ q.item # i
  BY <1>1, <1>2, Taken
<1>8. Cardinality(PartReqs(i)') <= x.workers
  <2>1. PartReqs(i)' = {}
    BY <1>7 DEF PartReqs
  <2>2. Cardinality(PartReqs(i)') = 0
    BY <2>1, FS_EmptySet, Zenon
  <2> QED  BY <1>5, <2>2, S3Assumption
<1>9. RecordTypes'
  <2>1. items'[i] = x
    BY <1>3 DEF Set, Runs, ItemTypes
  <2>2. Persist(x)
    BY <1>3, <2>1
  <2> HIDE DEF x
  <2> QED  BY <1>5, <2>2, PersistType DEF Typed, None, Uploads
<1> HIDE DEF x
<1>10. x.at \in Running => items[i].at \in Running
  BY <1>2 DEF Running, Sending
<1>11. Set(i, x)
  BY <1>3 DEF x
<1>12. Runs'
  BY <1>1, <1>5, <1>6, <1>7, <1>8, <1>10, <1>11, ItemStep
<1>13. BucketTypes'
  BY <1>3, Created DEF Typed
<1> QED  BY <1>3, <1>9, <1>12, <1>13 DEF Set

\* An item that is done with its parts.
LEMMA EndRuns ==
  ASSUME Typed, Runs, NEW i \in Items, NEW r \in wire, r.item = i, r.kind # "part",
         small' = small, wire' = wire \ {r},
         NEW p \in {"verify", "done", "failed"}, p = "verify" => Check,
         Set(i, [items[i] EXCEPT !.at = p])
  PROVE  Runs'
<1> DEFINE x == [items[i] EXCEPT !.at = p]
<1>1. /\ items[i] \in Item /\ items[i].at = r.kind /\ ItemFits(items[i])
      /\ r.kind \in Running /\ items[i].at \notin {"new", "closed"}
  <2>1. items[i].at = r.kind /\ Fits(items[i], r) /\ ItemFits(items[i]) /\ items[i] \in Item
    BY OnlyRequest, ItemOf
  <2> QED  BY <2>1 DEF Fits, Running, Sending
<1>2. /\ x \in Item /\ x.at = p /\ x.workers = items[i].workers /\ x.upload = items[i].upload
      /\ x.resume = items[i].resume /\ x.file = items[i].file
  BY <1>1 DEF Item, Running, Ended
<1>3. wire' \in SUBSET Request /\ IsFiniteSet(wire') /\ \A q \in wire' : q \in wire /\ q.item # i
  BY Taken, OnlyRequest
<1>4. PartReqs(i)' \subseteq PartReqs(i)
  BY <1>3 DEF PartReqs
<1>5. ItemFits(x)
  BY <1>1, <1>2 DEF ItemFits
<1> HIDE DEF x
<1>6. Set(i, x)
  BY DEF x
<1>7. Cardinality(PartReqs(i)') <= x.workers
  BY <1>2, <1>4, SlotsKept
<1>8. items[i].at \in Running
  BY <1>1
<1> QED  BY <1>2, <1>3, <1>5, <1>6, <1>7, <1>8, ItemStep

\* The next request of a run takes the place of the answered one.
LEMMA NextRuns ==
  ASSUME Typed, Runs, NEW i \in Items, NEW r \in wire, r.item = i,
         small' = small, NEW q \in Request, q.item = i, wire' = (wire \ {r}) \cup {q},
         NEW x \in Item, Set(i, x), ItemFits(x), x.at \in Running, Fits(x, q),
         q.kind # "part", items[i].at \in Running, x.workers >= items[i].workers,
         \A s \in wire \ {r} : s.item = i => Fits(x, s)
  PROVE  Runs'
<1>1. wire' \in SUBSET Request /\ IsFiniteSet(wire')
  BY Taken
<1>2. PartReqs(i)' \subseteq PartReqs(i)
  BY DEF PartReqs
<1>3. Cardinality(PartReqs(i)') <= x.workers
  <2>1. x.workers \in Nat /\ items[i].workers \in Nat
    BY ItemOf, S3Assumption DEF Item
  <2> QED  BY <1>2, <2>1, SlotsKept
<1>4. \A s \in wire' : s.item = i => Fits(x, s)
  OBVIOUS
<1> QED  BY <1>1, <1>3, <1>4, ItemStep

LEMMA SweptRuns ==
  ASSUME Typed, Runs, NEW i \in Items, NEW r \in wire, r.item = i, r.kind = "sweep",
         small' = small, Continue(i, r)
  PROVE  Runs' /\ local' = local
         /\ items' = [items EXCEPT ![i] = [items[i] EXCEPT !.at = "create"]]
<1> DEFINE x == [items[i] EXCEPT !.at = "create"]
           q == Req("create", i, None, Nothing)
<1>1. Set(i, x) /\ wire' = (wire \ {r}) \cup {q} /\ local' = local
  BY DEF Continue
<1>2. items[i] \in Item /\ items[i].at = "sweep" /\ ItemFits(items[i])
  BY ItemOf, OnlyRequest
<1>3. /\ x \in Item /\ x.at = "create" /\ x.workers = items[i].workers
      /\ x.upload = items[i].upload /\ x.resume = items[i].resume /\ x.file = items[i].file
  BY <1>2 DEF Item, Running, Sending
<1>4. q \in Request /\ q.item = i /\ q.kind = "create" /\ q.upload = None /\ q.data = Nothing
  BY ReqType, Contents
<1> HIDE DEF q
<1>5. ItemFits(x) /\ Fits(x, q) /\ x.at \in Running /\ items[i].at \in Running
  BY <1>2, <1>3, <1>4 DEF ItemFits, Fits, Running, Sending
<1>6. x.workers >= items[i].workers
  BY <1>3, ItemOf, S3Assumption
<1>7. \A s \in wire \ {r} : s.item = i => Fits(x, s)
  BY OnlyRequest
<1> HIDE DEF x
<1>8. Runs'
  BY <1>1, <1>3, <1>4, <1>5, <1>6, <1>7, NextRuns
<1> QED  BY <1>1, <1>8 DEF Set, x

LEMMA ListedRuns ==
  ASSUME Typed, Runs, NEW i \in Items, NEW r \in wire, r.item = i, r.kind = "list",
         small' = small, Accepts(r), Continue(i, r)
  PROVE  Runs' /\ RecordTypes'
<1> DEFINE item == items[i]
           have == upl[item.upload].parts
           todo == {p \in Parts : have[p] = None}
           x == [item EXCEPT !.got = have, !.todo = todo, !.workers = Queue,
                             !.at = IF todo = {} THEN "complete" ELSE "parts"]
<1>1. /\ Set(i, x) /\ PersistProgress(item)
      /\ wire' = IF todo = {} THEN (wire \ {r}) \cup {Complete(i, x)} ELSE wire \ {r}
  BY DEF Continue
<1>2. /\ item \in Item /\ item.at = "list" /\ ItemFits(item) /\ r.upload = item.upload
      /\ item.upload \in Uploads /\ item.workers \in 0..Queue
  BY ItemOf, OnlyRequest DEF ItemFits, Fits
<1>3. have \in Content
  BY <1>2 DEF Typed, BucketTypes, Uploaded
<1> HIDE DEF have
<1>4. /\ x \in Item /\ x.at = (IF todo = {} THEN "complete" ELSE "parts")
      /\ x.workers = Queue /\ x.got = have /\ x.todo = todo
      /\ x.upload = item.upload /\ x.resume = item.resume /\ x.file = item.file
  <2>1. todo \in SUBSET Parts /\ Queue \in 0..Queue
    BY S3Assumption
  <2> HIDE DEF todo
  <2> QED  BY <1>2, <1>3, <2>1 DEF Item, Running, Sending
<1>5. ItemFits(x)
  BY <1>2, <1>4 DEF ItemFits, Full
<1>6. x.at \in Running /\ item.at \in Running /\ x.workers >= item.workers
  BY <1>2, <1>4, S3Assumption DEF Running, Sending
<1>7. \A s \in wire \ {r} : s.item # i
  BY OnlyRequest
<1>8. RecordTypes'
  BY <1>1, <1>2, PersistType DEF Typed, ItemFits
<1> HIDE DEF x
<1>9. CASE todo = {}
  <2> DEFINE q == Complete(i, x)
  <2>1. q \in Request /\ q.item = i /\ q.kind = "complete" /\ q.upload = x.upload /\ q.data = x.got
    BY <1>2, <1>3, <1>4, ReqType DEF Complete
  <2>2. Fits(x, q)
    BY <1>4, <1>9, <2>1 DEF Fits
  <2> HIDE DEF q
  <2>3. wire' = (wire \ {r}) \cup {q}
    BY <1>1, <1>9 DEF q
  <2>4. Runs'
    BY <1>1, <1>4, <1>5, <1>6, <1>7, <2>1, <2>2, <2>3, NextRuns
  <2> QED  BY <1>8, <2>4
<1>10. CASE todo # {}
  <2>1. wire' = wire \ {r} /\ wire' \in SUBSET Request /\ IsFiniteSet(wire')
    BY <1>1, <1>10, Taken
  <2>2. PartReqs(i)' \subseteq PartReqs(i)
    BY <2>1 DEF PartReqs
  <2>3. Cardinality(PartReqs(i)') <= x.workers
    BY <1>2, <1>6, <1>4, <2>2, SlotsKept, S3Assumption
  <2>4. Runs'
    BY <1>1, <1>4, <1>5, <1>6, <1>7, <2>1, <2>3, ItemStep
  <2> QED  BY <1>8, <2>4
<1> QED  BY <1>9, <1>10

LEMMA StoredRuns ==
  ASSUME Typed, Runs, NEW i \in Items, NEW r \in wire, r.item = i, r.kind = "part",
         small' = small, Accepts(r), PartStored(i, r)
  PROVE  Runs' /\ RecordTypes'
<1> DEFINE item == items[i]
           got == [p \in Parts |-> IF r.data[p] # None THEN r.data[p] ELSE item.got[p]]
           full == \A p \in Parts : got[p] # None
           x == [item EXCEPT !.got = got, !.at = IF full THEN "complete" ELSE "parts"]
           y == [item EXCEPT !.at = "revived"]
<1>1. /\ item \in Item /\ ItemFits(item) /\ PartFits(item, r) /\ r \in Request
      /\ item.upload \in Uploads \cup {None} /\ item.workers \in 0..Queue
      /\ item.got \in Content
  BY ItemOf, PartOf DEF Runs, WireTypes
<1>2. wire \ {r} \in SUBSET Request /\ IsFiniteSet(wire \ {r})
  BY Taken
<1>3. CASE item.at = "parts"
  <2>1. /\ Set(i, x) /\ PersistProgress(item)
        /\ wire' = IF full THEN (wire \ {r}) \cup {Complete(i, x)} ELSE wire \ {r}
    BY <1>3 DEF PartStored
  <2>2. got \in Content
    BY <1>1 DEF Content, Request
  <2>3. PICK p \in Parts : /\ p \notin item.todo /\ item.got[p] = None
                           /\ r.data = [Nothing EXCEPT ![p] = item.file]
    BY <1>1, <1>3 DEF PartFits, Ghost, Undead
  <2>4. \A n \in Parts : n # p => got[n] = item.got[n]
    BY <2>3 DEF Nothing
  <2>5. full \in BOOLEAN /\ full = Full(got)
    BY DEF Full
  <2> HIDE DEF got, full
  <2>6. /\ x \in Item /\ x.at = (IF full THEN "complete" ELSE "parts")
        /\ x.workers = item.workers /\ x.got = got /\ x.todo = item.todo
        /\ x.upload = item.upload /\ x.resume = item.resume /\ x.file = item.file
    <3> PICK a : a = IF full THEN "complete" ELSE "parts"
      OBVIOUS
    <3>1. a \in Running
      BY DEF Running, Sending
    <3>2. x = [item EXCEPT !.got = got, !.at = a]
      OBVIOUS
    <3> HIDE DEF x
    <3> QED
      BY <1>1, <2>2, <3>1, <3>2 DEF Item
  <2> HIDE DEF x
  <2>7. ItemFits(x)
    <3>1. full => Full(x.got)
      BY <2>5, <2>6
    <3>2. \A n \in x.todo : x.got[n] = None
      BY <1>1, <1>3, <2>3, <2>4, <2>6 DEF ItemFits, Item
    <3> QED  BY <1>1, <1>3, <2>6, <3>1, <3>2 DEF ItemFits
  <2>8. \A s \in wire \ {r} : s.item = i => Fits(x, s)
    <3> SUFFICES ASSUME NEW s \in wire \ {r}, s.item = i
                 PROVE  Fits(x, s)
      OBVIOUS
    <3>1. Fits(item, s) /\ s \in Request
      BY <1>2, ItemOf
    <3>2. s.kind = "part" /\ PartFits(item, s)
      BY <1>3, <3>1 DEF Fits
    <3>3. PICK n \in Parts : /\ n \notin item.todo /\ item.got[n] = None
                             /\ s.data = [Nothing EXCEPT ![n] = item.file]
      BY <1>3, <3>2 DEF PartFits, Ghost, Undead
    <3>4. n # p
      BY <1>1, <2>3, <3>1, <3>2, <3>3 DEF PartFits, Request
    <3>5. got[n] = None /\ n \notin x.todo
      BY <2>4, <2>6, <3>3, <3>4
    <3> QED  BY <2>6, <3>2, <3>3, <3>5 DEF Fits, PartFits
  <2>9. x.at \in Running /\ item.at \in Running /\ x.workers >= item.workers
    BY <1>1, <1>3, <2>6, S3Assumption DEF Running, Sending
  <2>10. RecordTypes'
    BY <1>1, <1>3, <2>1, PersistType DEF Typed, ItemFits
  <2>11. CASE full
    <3> DEFINE q == Complete(i, x)
    <3>1. q \in Request /\ q.item = i /\ q.kind = "complete" /\ q.upload = x.upload
          /\ q.data = x.got
      BY <1>1, <2>2, <2>6, ReqType DEF Complete
    <3>2. Fits(x, q)
      BY <2>6, <2>11, <3>1 DEF Fits
    <3> HIDE DEF q
    <3>3. wire' = (wire \ {r}) \cup {q}
      BY <2>1, <2>11 DEF q
    <3>4. Runs'
      BY <2>1, <2>6, <2>7, <2>8, <2>9, <3>1, <3>2, <3>3, NextRuns
    <3> QED  BY <2>10, <3>4
  <2>12. CASE ~full
    <3>1. wire' = wire \ {r}
      BY <2>1, <2>12
    <3>2. PartReqs(i)' \subseteq PartReqs(i)
      BY <3>1 DEF PartReqs
    <3>3. Runs'
      BY <1>2, <2>1, <2>6, <2>7, <2>8, <2>9, <3>1, <3>2, SlotsKept, ItemStep
    <3> QED  BY <2>10, <3>3
  <2> QED  BY <2>11, <2>12
<1>4. CASE item.at # "parts"
  <2>1. \/ /\ item.at \in {"failed", "revived"} /\ Set(i, y) /\ PersistProgress(item)
        \/ /\ item.at = "stuck" /\ items' = items /\ UNCHANGED local
    BY <1>4 DEF PartStored
  <2>2. wire' = wire \ {r}
    BY <1>4 DEF PartStored
  <2>3. CASE item.at = "stuck"
    BY <1>2, <2>1, <2>2, <2>3, WireStep DEF Typed, RecordTypes, local
  <2>4. CASE item.at \in {"failed", "revived"}
    <3>1. /\ y \in Item /\ y.at = "revived" /\ y.workers = item.workers
          /\ y.upload = item.upload /\ y.resume = item.resume /\ y.file = item.file
      BY <1>1 DEF Item, Undead
    <3>2. ItemFits(y) /\ y.at \notin Running
      BY <1>1, <2>4, <3>1 DEF ItemFits, Running, Sending
    <3>3. \A s \in wire \ {r} : s.item = i => Fits(y, s)
      <4>1. \A s \in wire : s.item = i => Fits(item, s)
        BY ItemOf
      <4>2. \A s \in wire : s.item = i => s.kind = "part" /\ s.upload = item.upload
        BY <2>4, <4>1 DEF Fits, PartFits
      <4> QED  BY <3>1, <4>2 DEF Fits, PartFits, Ghost, Undead
    <3>4. PartReqs(i)' \subseteq PartReqs(i)
      BY <2>2 DEF PartReqs
    <3>5. item.upload # None
      BY <1>1 DEF PartFits, Accepts, IsOpen
    <3>6. RecordTypes'
      BY <1>1, <2>1, <2>4, <3>5, PersistType DEF Typed
    <3> HIDE DEF y
    <3>7. Set(i, y)
      BY <2>1, <2>4
    <3>8. Runs'
      BY <1>2, <2>2, <3>1, <3>2, <3>3, <3>4, <3>7, SlotsKept, ItemStep
    <3> QED  BY <3>6, <3>8
  <2> QED  BY <2>1, <2>3, <2>4
<1> QED  BY <1>3, <1>4
LEMMA Published1 ==
  ASSUME Typed, Runs, NEW i \in Items, NEW r \in wire, r.item = i,
         r.kind \in {"put", "complete"}, small' = small, wire' = wire \ {r},
         Published(i, items[i]), UNCHANGED lost
  PROVE  Runs' /\ RecordTypes'
<1>1. items[i] \in Item
  BY ItemOf
<1>2. \/ Set(i, [items[i] EXCEPT !.at = "verify"]) /\ sum(items[i]) # None
      \/ Set(i, [items[i] EXCEPT !.at = "done"])
  BY DEF Published, Done
<1>3. removeMultipartRecord(items[i].upload) \/ UNCHANGED record
  BY DEF Published, Done
<1>4. RecordTypes'
  BY <1>3, RemoveType DEF Typed, RecordTypes
<1>5. sum(items[i]) # None => Check
  BY DEF sum
<1> QED  BY <1>2, <1>4, <1>5, EndRuns

LEMMA ContinueRuns ==
  ASSUME Typed, Runs, NEW i \in Items, NEW r \in wire, r.item = i, small' = small,
         Accepts(r), r.kind # "create", Continue(i, r)
  PROVE  Runs' /\ RecordTypes'
<1>1. Fits(items[i], r)
  BY ItemOf
<1>2. r.kind \in {"sweep", "list", "part", "put", "complete", "delete"}
  BY <1>1 DEF Fits
<1>3. CASE r.kind = "sweep"
  BY <1>3, SweptRuns DEF Typed, RecordTypes, local
<1>4. CASE r.kind = "list"
  BY <1>4, ListedRuns
<1>5. CASE r.kind = "part"
  <2>1. PartStored(i, r)
    BY <1>5 DEF Continue
  <2> QED  BY <1>5, <2>1, StoredRuns
<1>6. CASE r.kind \in {"put", "complete"}
  <2>1. Published(i, items[i]) /\ wire' = wire \ {r} /\ UNCHANGED lost
    BY <1>6 DEF Continue
  <2> QED  BY <1>6, <2>1, Published1
<1>7. CASE r.kind = "delete"
  <2>1. Set(i, [items[i] EXCEPT !.at = "failed"]) /\ wire' = wire \ {r} /\ UNCHANGED local
    BY <1>7 DEF Continue, Failed
  <2> QED  BY <1>7, <2>1, EndRuns DEF Typed, RecordTypes, local
<1> QED  BY <1>2, <1>3, <1>4, <1>5, <1>6, <1>7

LEMMA ListedType == Listed \in [at : {"idle", "asked", "listed"}, open : SUBSET Uploads]
BY DEF Listed, OpenUploads

LEMMA AskedType ==
  /\ Asked \in [at : {"idle", "asked", "listed"}, open : SUBSET Uploads]
  /\ Idle \in [at : {"idle", "asked", "listed"}, open : SUBSET Uploads]
BY DEF Asked, Idle

LEMMA SucceedRuns ==
  ASSUME Typed, Runs, NEW i \in Items, NEW r \in wire, Succeed(i, r)
  PROVE  Typed' /\ Runs'
<1>1. r.item = i /\ Accepts(r) /\ small' = small /\ RefreshIfDone(i)
      /\ UNCHANGED <<disk, small, sessions, trouble, orphans>> /\ r \in Request
  BY DEF Succeed, Runs, WireTypes
<1>2. TrayTypes' /\ RestTypes'
  BY <1>1, AskedType DEF RefreshIfDone, Typed, TrayTypes, RestTypes
<1>3. CASE r.kind = "create"
  BY <1>2, <1>3, CreateRuns DEF Typed
<1>4. CASE r.kind # "create"
  <2>1. Perform(r) /\ Continue(i, r)
    BY <1>4 DEF Succeed
  <2>2. BucketTypes'
    BY <1>1, <1>4, <2>1, Performed DEF Typed
  <2>3. Runs' /\ RecordTypes'
    BY <1>1, <1>4, <2>1, ContinueRuns
  <2> QED  BY <1>2, <2>2, <2>3 DEF Typed
<1> QED  BY <1>3, <1>4

LEMMA RefuseRuns ==
  ASSUME Typed, Runs, NEW i \in Items, NEW r \in wire, Refuse(i, r)
  PROVE  Typed' /\ Runs'
<1>1. r.item = i /\ Stop(i, r) /\ UNCHANGED <<bucket, disk, small, tray, trouble, orphans>>
  BY DEF Refuse
<1>2. Runs' /\ RecordTypes'
  BY <1>1, StopRuns
<1> QED  BY <1>1, <1>2 DEF Typed, BucketTypes, TrayTypes, RestTypes, bucket, tray

LEMMA UnheardType ==
  ASSUME BucketTypes, RestTypes, NEW r \in Request, Unheard(r)
  PROVE  BucketTypes' /\ orphans' \in SUBSET Uploads
<1>1. CASE UNCHANGED <<bucket, orphans>>
  BY <1>1 DEF BucketTypes, RestTypes, bucket
<1>2. CASE \E u \in Uploads : Create(u) /\ orphans' = orphans \cup {u}
  BY <1>2, Created DEF RestTypes
<1>3. CASE r.kind # "create" /\ Accepts(r) /\ Perform(r) /\ UNCHANGED orphans
  BY <1>3, Performed DEF RestTypes
<1> QED  BY <1>1, <1>2, <1>3 DEF Unheard

LEMMA LoseRuns ==
  ASSUME Typed, Runs, NEW i \in Items, NEW r \in wire, Lose(i, r)
  PROVE  Typed' /\ Runs'
<1>1. r.item = i /\ Stop(i, r) /\ UNCHANGED <<disk, small, tray>> /\ Unheard(r) /\ Trouble
      /\ r \in Request
  BY DEF Lose, Runs, WireTypes
<1>2. Runs' /\ RecordTypes'
  BY <1>1, StopRuns
<1>3. BucketTypes' /\ orphans' \in SUBSET Uploads
  BY <1>1, UnheardType DEF Typed
<1> QED  BY <1>1, <1>2, <1>3 DEF Typed, TrayTypes, RestTypes, tray, Trouble

LEMMA VerifyRuns ==
  ASSUME Typed, Runs, NEW i \in Items, Verify(i)
  PROVE  Typed' /\ Runs'
<1> DEFINE item == items[i]
           x == [item EXCEPT !.at = "delete"]
           q == Req("delete", i, None, Nothing)
<1>1. /\ item \in Item /\ item.at = "verify" /\ ItemFits(item) /\ small' = small
      /\ RefreshIfDone(i) /\ UNCHANGED <<bucket, disk, small, lost, sessions, trouble, orphans>>
  BY ItemOf DEF Verify
<1>2. \A r \in wire : r.item # i
  BY <1>1, NoReqs DEF Running, Sending, Undead
<1>3. BucketTypes' /\ TrayTypes' /\ RestTypes'
  BY <1>1, AskedType DEF RefreshIfDone, Typed, TrayTypes, RestTypes, BucketTypes, bucket
<1>4. CASE ~Readable(item) \/ item.file = sum(item)
  <2>1. wire' = wire /\ \/ Set(i, Failed(item)) /\ UNCHANGED record
                        \/ Done(i, item)
    BY <1>4 DEF Verify
  <2>2. record' \in Record /\ (record'.id = None => record' = NoRecord)
    BY <2>1, RemoveType DEF Done, Typed, RecordTypes
  <2>3. RecordTypes'
    BY <1>1, <2>2 DEF Typed, RecordTypes
  <2> DEFINE y(p) == [item EXCEPT !.at = p]
  <2>4. PICK p \in {"failed", "done"} : Set(i, y(p))
    BY <2>1 DEF Done, Failed
  <2>5. /\ y(p) \in Item /\ y(p).at = p /\ y(p).workers = item.workers
        /\ y(p).upload = item.upload /\ y(p).resume = item.resume /\ y(p).file = item.file
    BY <1>1 DEF Item, Ended
  <2> HIDE DEF y
  <2>6. ItemFits(y(p)) /\ y(p).at \notin Running
    BY <1>1, <2>5 DEF ItemFits, Running, Sending
  <2>7. PartReqs(i)' \subseteq PartReqs(i)
    BY <2>1 DEF PartReqs
  <2>8. Cardinality(PartReqs(i)') <= y(p).workers
    BY <2>5, <2>7, SlotsKept
  <2>9. Runs'
    BY <1>1, <1>2, <2>1, <2>4, <2>5, <2>6, <2>8, ItemStep DEF Runs, WireTypes
  <2> QED  BY <1>3, <2>3, <2>9 DEF Typed
<1>5. CASE Readable(item) /\ item.file # sum(item)
  <2>1. Set(i, x) /\ wire' = wire \cup {q} /\ UNCHANGED record
    BY <1>5 DEF Verify
  <2>2. q \in Request /\ q.kind = "delete" /\ q.item = i /\ q.upload = None /\ q.data = Nothing
    BY ReqType, Contents
  <2>3. /\ x \in Item /\ x.at = "delete" /\ x.workers = item.workers
        /\ x.upload = item.upload /\ x.resume = item.resume /\ x.file = item.file
    BY <1>1 DEF Item, Running
  <2> HIDE DEF q, x
  <2>4. ItemFits(x) /\ Fits(x, q) /\ item.at \in Running
    BY <1>1, <2>2, <2>3 DEF ItemFits, Fits, Running
  <2>5. PartReqs(i)' \subseteq PartReqs(i)
    BY <2>1, <2>2 DEF PartReqs
  <2>6. Cardinality(PartReqs(i)') <= x.workers
    BY <2>3, <2>5, SlotsKept
  <2>7. Runs'
    BY <1>1, <1>2, <2>1, <2>2, <2>3, <2>4, <2>6, ItemStep, WireSent DEF Runs
  <2> QED  BY <1>1, <1>3, <2>1, <2>7 DEF Typed, RecordTypes
<1> QED  BY <1>4, <1>5
LEMMA LateRuns ==
  ASSUME Typed, Runs, NEW r \in wire,
         Late(r) \/ AbortAnswered(r) \/ AbortLost(r)
  PROVE  Typed' /\ Runs'
<1>1. /\ r \in Request /\ wire' = wire \ {r} /\ UNCHANGED <<disk, small>>
      /\ items' = items /\ sessions' = sessions /\ lost' = lost
      /\ trouble' \in Nat
  BY DEF Late, AbortAnswered, AbortLost, Runs, WireTypes, Typed, RestTypes, Trouble, local, tray
<1>2. wire' \in SUBSET Request /\ IsFiniteSet(wire')
  BY <1>1, WireTaken DEF Runs
<1>3. Runs'
  BY <1>1, <1>2, WireStep
<1>4. CASE Late(r) \/ AbortLost(r)
  <2>1. Unheard(r) /\ UNCHANGED <<local, tray>>
    BY <1>4 DEF Late, AbortLost
  <2>2. BucketTypes' /\ orphans' \in SUBSET Uploads
    BY <1>1, <2>1, UnheardType DEF Typed
  <2> QED  BY <1>1, <1>3, <2>1, <2>2 DEF Typed, RecordTypes, TrayTypes, RestTypes, local, tray
<1>5. CASE AbortAnswered(r)
  <2>1. /\ UNCHANGED <<orphans, trouble>>
        /\ r.kind \in {"abort", "abortSession"}
        /\ \/ Accepts(r) /\ Perform(r)
           \/ UNCHANGED bucket
        /\ removeMultipartRecord(r.upload) \/ UNCHANGED record
        /\ refresh' = Asked \/ refresh' = refresh
    BY <1>5 DEF AbortAnswered
  <2>2. BucketTypes'
    BY <1>1, <2>1, Performed DEF Typed, BucketTypes, bucket
  <2>3. RecordTypes'
    BY <1>1, <2>1, RemoveType DEF Typed, RecordTypes
  <2>4. TrayTypes'
    BY <1>1, <2>1, AskedType DEF Typed, TrayTypes
  <2> QED  BY <1>1, <1>3, <2>1, <2>2, <2>3, <2>4 DEF Typed, RestTypes
<1> QED  BY <1>4, <1>5

\* A new item of the queue.
LEMMA NewRuns ==
  ASSUME Typed, Runs, NEW i \in Items, items[i].at = "new", small' = small, wire' = wire,
         NEW x \in Item, x.at = "pending", x.file \in Files, x.resume => x.upload # None,
         Set(i, x)
  PROVE  Runs'
<1>1. \A r \in wire : r.item # i
  BY NoReqs DEF Running, Sending, Undead
<1>2. ItemFits(x) /\ x.at \notin Running
  BY DEF ItemFits, Running, Sending
<1>3. Cardinality(PartReqs(i)') <= x.workers
  <2>1. PartReqs(i)' = {}
    BY <1>1 DEF PartReqs
  <2>2. Cardinality(PartReqs(i)') = 0
    BY <2>1, FS_EmptySet, Zenon
  <2> QED  BY <2>2, S3Assumption DEF Item
<1> QED  BY <1>1, <1>2, <1>3, ItemStep DEF Runs, WireTypes

LEMMA NewItemType ==
  /\ NewItem \in Item /\ NewItem.at = "new" /\ NewItem.upload = None /\ ~NewItem.resume
  /\ NewItem.workers = 0
BY S3Assumption, Contents DEF NewItem, Item, None

LEMMA EnqueueRuns ==
  ASSUME Typed, Runs, NEW i \in Items, Enqueue(i)
  PROVE  Typed' /\ Runs'
<1> DEFINE x == [NewItem EXCEPT !.at = "pending", !.file = disk]
<1>1. x \in Item /\ x.at = "pending" /\ x.file = disk /\ ~x.resume /\ disk \in Files
  BY NewItemType DEF Item, Typed, RestTypes
<1>2. /\ Set(i, x) /\ items[i].at = "new" /\ wire' = wire
      /\ UNCHANGED <<bucket, disk, small, local, wire, tray, trouble, orphans>>
  BY DEF Enqueue
<1> HIDE DEF x
<1>3. Runs'
  BY <1>1, <1>2, NewRuns
<1> QED  BY <1>2, <1>3 DEF Typed, BucketTypes, RecordTypes, TrayTypes, RestTypes,
                            bucket, local, tray

LEMMA ResumeSessionRuns ==
  ASSUME Typed, Runs, NEW i \in Items, ResumeSession(i)
  PROVE  Typed' /\ Runs'
<1>1. PICK s \in Offered :
         s.mine /\ Set(i, [NewItem EXCEPT !.at = "pending", !.file = disk, !.upload = s.id,
                                          !.resume = TRUE, !.rsum = s.sum])
  BY DEF ResumeSession
<1> DEFINE x == [NewItem EXCEPT !.at = "pending", !.file = disk, !.upload = s.id,
                                !.resume = TRUE, !.rsum = s.sum]
<1>2. s.id \in Uploads /\ s.sum \in 0..Versions /\ s.id # None
  BY DEF Offered, Typed, TrayTypes, Uploads, None
<1>3. x \in Item /\ x.at = "pending" /\ x.file = disk /\ x.upload = s.id /\ disk \in Files
  BY <1>2, NewItemType DEF Item, Typed, RestTypes
<1>4. /\ Set(i, x) /\ items[i].at = "new" /\ wire' = wire
      /\ UNCHANGED <<bucket, disk, small, record, lost, wire, tray, trouble, orphans>>
  BY <1>1 DEF ResumeSession
<1> HIDE DEF x
<1>5. Runs'
  BY <1>2, <1>3, <1>4, NewRuns
<1> QED  BY <1>4, <1>5 DEF Typed, BucketTypes, RecordTypes, TrayTypes, RestTypes,
                            bucket, tray

\* An item stops waiting for what it asked for.
LEMMA LeaveRuns ==
  ASSUME Typed, Runs, NEW i \in Items, small' = small,
         wire' \in SUBSET Request, IsFiniteSet(wire'),
         \A r \in wire' : r.item # i /\ (r.item # None => r \in wire),
         NEW p \in {"paused", "cancelled"}, items[i].at \notin {"new", "closed"},
         Set(i, [items[i] EXCEPT !.at = p, !.todo = {}])
  PROVE  Runs'
<1> DEFINE x == [items[i] EXCEPT !.at = p, !.todo = {}]
<1>1. items[i] \in Item /\ ItemFits(items[i])
  BY ItemOf
<1>2. /\ x \in Item /\ x.at = p /\ x.workers = items[i].workers /\ x.upload = items[i].upload
      /\ x.resume = items[i].resume /\ x.file = items[i].file
  BY <1>1 DEF Item, Ended
<1>3. Set(i, x)
  OBVIOUS
<1> HIDE DEF x
<1>4. ItemFits(x) /\ x.at \notin Running
  BY <1>1, <1>2 DEF ItemFits, Running, Sending
<1>5. PartReqs(i)' \subseteq PartReqs(i)
  BY DEF PartReqs
<1>6. Cardinality(PartReqs(i)') <= x.workers
  BY <1>2, <1>5, SlotsKept
<1> QED  BY <1>2, <1>3, <1>4, <1>6, ItemStep

LEMMA PauseRuns ==
  ASSUME Typed, Runs, NEW i \in Items, Pause(i)
  PROVE  Typed' /\ Runs'
<1>1. /\ Set(i, [items[i] EXCEPT !.at = "paused", !.todo = {}]) /\ wire' = Abandoned(i)
      /\ UNCHANGED <<bucket, disk, small, local, tray, orphans>> /\ Trouble
      /\ items[i].at \notin {"new", "closed"}
  BY DEF Pause, Sending
<1>2. Runs'
  BY <1>1, AbandonedType, LeaveRuns DEF Runs
<1> QED  BY <1>1, <1>2 DEF Typed, BucketTypes, RecordTypes, TrayTypes, RestTypes,
                            bucket, local, tray, Trouble

LEMMA ResumeRuns ==
  ASSUME Typed, Runs, NEW i \in Items, Resume(i)
  PROVE  Typed' /\ Runs'
<1> DEFINE item == items[i]
           base == [item EXCEPT !.at = "pending"]
           x == IF ~item.resume /\ item.upload # None /\ record.id = item.upload
                THEN [base EXCEPT !.resume = TRUE, !.rsum = record.sum] ELSE base
<1>1. /\ Set(i, x) /\ item.at = "paused" /\ wire' = wire /\ small' = small
      /\ UNCHANGED <<bucket, disk, small, local, tray, trouble, orphans>>
  BY DEF Resume
<1>2. item \in Item /\ ItemFits(item) /\ record.sum \in 0..Versions
  BY ItemOf DEF Typed, RecordTypes, Record
<1>3. /\ x \in Item /\ x.at = "pending" /\ x.workers = item.workers
      /\ x.upload = item.upload /\ x.file = item.file
      /\ x.resume => item.resume \/ item.upload # None
  BY <1>2 DEF Item
<1> HIDE DEF x
<1>4. ItemFits(x) /\ x.at \notin Running
  BY <1>1, <1>2, <1>3 DEF ItemFits, Running, Sending
<1>5. \A r \in wire : r.item # i
  BY <1>1, NoReqs DEF Running, Sending, Undead
<1>6. PartReqs(i)' \subseteq PartReqs(i)
  BY <1>1 DEF PartReqs
<1>7. Cardinality(PartReqs(i)') <= x.workers
  BY <1>3, <1>6, SlotsKept
<1>8. Runs'
  BY <1>1, <1>3, <1>4, <1>5, <1>7, ItemStep DEF Runs, WireTypes
<1> QED  BY <1>1, <1>8 DEF Typed, BucketTypes, RecordTypes, TrayTypes, RestTypes,
                            bucket, local, tray

LEMMA AbortSessionType ==
  ASSUME NEW u \in Uploads \cup {None}, NEW W \in SUBSET Request, IsFiniteSet(W)
  PROVE  /\ W \cup abortMultipartSession(u) \in SUBSET Request
         /\ IsFiniteSet(W \cup abortMultipartSession(u))
         /\ \A r \in abortMultipartSession(u) : r.item = None /\ r.upload = u /\ u # None
                                                /\ r.kind = "abortSession"
<1>1. CASE u = None
  <2>1. abortMultipartSession(u) = {}
    BY <1>1 DEF abortMultipartSession
  <2>2. W \cup abortMultipartSession(u) = W
    BY <2>1
  <2> QED  BY <2>1, <2>2, Zenon
<1>2. CASE u # None
  <2> DEFINE q == Req("abortSession", None, u, Nothing)
  <2>1. q \in Request /\ q.item = None /\ q.upload = u /\ q.kind = "abortSession"
    BY ReqType, Contents
  <2> HIDE DEF q
  <2>2. abortMultipartSession(u) = {q}
    BY <1>2 DEF abortMultipartSession, q
  <2>3. IsFiniteSet(W \cup {q})
    BY FS_AddElement
  <2>4. IsFiniteSet(W \cup abortMultipartSession(u))
    BY <2>2, <2>3, Zenon
  <2> QED  BY <1>2, <2>1, <2>2, <2>4
<1> QED  BY <1>1, <1>2

LEMMA AbortOne ==
  ASSUME NEW u \in Uploads, NEW W \in SUBSET Request, IsFiniteSet(W)
  PROVE  /\ W \cup {Req("abort", None, u, Nothing)} \in SUBSET Request
         /\ IsFiniteSet(W \cup {Req("abort", None, u, Nothing)})
         /\ Req("abort", None, u, Nothing).item = None
<1> DEFINE q == Req("abort", None, u, Nothing)
<1>1. q \in Request /\ q.item = None
  BY ReqType, Contents
<1> HIDE DEF q
<1>2. IsFiniteSet(W \cup {q})
  BY FS_AddElement
<1>3. W \cup {q} \in SUBSET Request
  BY <1>1
<1> QED  BY <1>1, <1>2, <1>3 DEF q

LEMMA CancelRuns ==
  ASSUME Typed, Runs, NEW i \in Items, Cancel(i)
  PROVE  Typed' /\ Runs'
<1> DEFINE item == items[i]
           x == [item EXCEPT !.at = "stuck"]
<1>1. /\ item \in Item /\ ItemFits(item) /\ item.upload \in Uploads \cup {None}
      /\ UNCHANGED <<bucket, disk, small, local, tray, trouble, orphans>>
      /\ item.at \in {"pending", "paused", "revived"} \cup Running
  BY ItemOf DEF Cancel
<1>2. /\ wire \in SUBSET Request /\ IsFiniteSet(wire)
      /\ Abandoned(i) \in SUBSET Request /\ IsFiniteSet(Abandoned(i))
      /\ \A r \in Abandoned(i) : r.item # i /\ (r.item # None => r \in wire)
  BY AbandonedType DEF Runs, WireTypes
<1>3. CASE item.at = "revived"
  <2>1. wire' = wire \cup abortMultipartSession(item.upload) /\ Set(i, x)
    BY <1>3 DEF Cancel, Running, Sending
  <2>2. /\ wire' \in SUBSET Request /\ IsFiniteSet(wire')
        /\ \A r \in wire' : r.item # None => r \in wire
    BY <1>1, <1>2, <2>1, AbortSessionType
  <2>3. /\ x \in Item /\ x.at = "stuck" /\ x.workers = item.workers
        /\ x.upload = item.upload /\ x.resume = item.resume /\ x.file = item.file
    BY <1>1 DEF Item, Undead
  <2> HIDE DEF x
  <2>4. ItemFits(x) /\ x.at \notin Running
    BY <1>1, <1>3, <2>3 DEF ItemFits, Running, Sending
  <2>5. \A r \in wire' : r.item = i => Fits(x, r)
    <3>1. \A r \in wire' : r.item = i => r \in wire
      BY <2>2 DEF Items, None
    <3>2. \A r \in wire : r.item = i => r.kind = "part" /\ r.upload = item.upload
      BY <1>3, ItemOf DEF Fits, PartFits
    <3> QED  BY <2>3, <3>1, <3>2 DEF Fits, PartFits, Ghost, Undead
  <2>6. PartReqs(i)' \subseteq PartReqs(i)
    BY <2>2 DEF PartReqs, Items, None
  <2>7. Cardinality(PartReqs(i)') <= x.workers
    BY <2>3, <2>6, SlotsKept
  <2>8. Runs'
    BY <1>1, <2>1, <2>2, <2>3, <2>4, <2>5, <2>7, ItemStep
  <2> QED  BY <1>1, <2>8 DEF Typed, BucketTypes, RecordTypes, TrayTypes, RestTypes,
                              bucket, local, tray
<1>4. CASE item.at # "revived"
  <2>1. Set(i, [item EXCEPT !.at = "cancelled", !.todo = {}])
    BY <1>4 DEF Cancel
  <2>2. CASE item.at \in {"pending", "paused"}
    <3>1. \A r \in wire : r.item # i
      BY <2>2, NoReqs DEF Running, Sending, Undead
    <3>2. wire' = wire \/ wire' = wire \cup abortMultipartSession(item.upload)
      BY <2>2 DEF Cancel, Running, Sending
    <3>3. /\ wire' \in SUBSET Request /\ IsFiniteSet(wire')
          /\ \A r \in wire' : r.item # i /\ (r.item # None => r \in wire)
      <4>1. /\ wire' \in SUBSET Request /\ IsFiniteSet(wire')
            /\ \A r \in abortMultipartSession(item.upload) : r.item = None
        <5>1. /\ wire \cup abortMultipartSession(item.upload) \in SUBSET Request
              /\ IsFiniteSet(wire \cup abortMultipartSession(item.upload))
              /\ \A r \in abortMultipartSession(item.upload) : r.item = None
          BY <1>1, <1>2, AbortSessionType, Zenon
        <5> QED  BY <1>2, <3>2, <5>1, Zenon
      <4> QED  BY <3>1, <3>2, <4>1 DEF Items, None
    <3> QED  BY <1>1, <2>1, <2>2, <3>3, LeaveRuns
             DEF Typed, BucketTypes, RecordTypes, TrayTypes, RestTypes, bucket, local, tray
  <2>3. CASE item.at \in Running
    <3>1. \/ wire' = Abandoned(i) \cup abortMultipartSession(item.upload)
          \/ /\ wire' = Abandoned(i) \cup {Req("abort", None, item.upload, Nothing)}
             /\ item.at \in {"parts", "complete"}
      BY <2>3 DEF Cancel, Running, Sending
    <3>2. /\ wire' \in SUBSET Request /\ IsFiniteSet(wire')
          /\ \A r \in wire' : r.item # i /\ (r.item # None => r \in wire)
      <4>1. CASE wire' = Abandoned(i) \cup abortMultipartSession(item.upload)
        <5>1. /\ wire' \in SUBSET Request /\ IsFiniteSet(wire')
              /\ \A r \in abortMultipartSession(item.upload) : r.item = None
          BY <1>1, <1>2, <4>1, AbortSessionType, Zenon
        <5> QED  BY <1>2, <4>1, <5>1 DEF Items, None
      <4>2. CASE item.upload \in Uploads
                 /\ wire' = Abandoned(i) \cup {Req("abort", None, item.upload, Nothing)}
        <5>1. /\ wire' \in SUBSET Request /\ IsFiniteSet(wire')
              /\ Req("abort", None, item.upload, Nothing).item = None
          BY <1>2, <4>2, AbortOne, Zenon
        <5> QED  BY <1>2, <4>2, <5>1 DEF Items, None
      <4> QED  BY <1>1, <3>1, <4>1, <4>2 DEF ItemFits
    <3> QED  BY <1>1, <2>1, <2>3, <3>2, LeaveRuns
             DEF Typed, BucketTypes, RecordTypes, TrayTypes, RestTypes, bucket, local, tray,
                 Running, Sending
  <2> QED  BY <1>1, <1>4, <2>2, <2>3
<1> QED  BY <1>3, <1>4
LEMMA EditRuns ==
  ASSUME Typed, Runs, Edit
  PROVE  Typed' /\ Runs'
<1>1. /\ disk < Versions /\ disk' = disk + 1
      /\ UNCHANGED <<bucket, small, local, items, wire, tray, trouble, orphans>>
  BY DEF Edit
<1>2. Runs'
  BY <1>1, WireStep DEF Runs, WireTypes
<1>3. disk' \in Files
  BY <1>1, S3Assumption DEF Typed, RestTypes, Files
<1> QED  BY <1>1, <1>2, <1>3 DEF Typed, BucketTypes, RecordTypes, TrayTypes, RestTypes,
                            bucket, local, tray

LEMMA FlushType ==
  ASSUME Typed, Runs, Flush
  PROVE  RecordTypes'
<1> DEFINE open == {i \in Items : /\ items[i].upload # None
                                  /\ items[i].at \notin {"new", "closed", "done", "cancelled"}}
<1>1. CASE open = {}
  BY <1>1 DEF Flush, Typed, RecordTypes
<1>2. CASE open # {}
  <2> DEFINE last == items[Max(open)]
  <2>1. open \in SUBSET (1..NItems) /\ NItems \in Nat
    BY S3Assumption DEF Items
  <2>2. Max(open) \in open
    BY <1>2, <2>1, MaxIsIn
  <2>3. last \in Item /\ last.upload # None
    BY <2>2, ItemOf
  <2>4. Upsert(last.upload, IF last.resume THEN last.rsum ELSE None)
    BY <1>2 DEF Flush
  <2> HIDE DEF last, open
  <2>5. last.upload \in Uploads /\ (IF last.resume THEN last.rsum ELSE None) \in 0..Versions
    BY <2>3, S3Assumption DEF Item, None
  <2> QED  BY <2>4, <2>5, UpsertType DEF Typed
<1> QED  BY <1>1, <1>2

LEMMA ReloadRuns ==
  ASSUME Typed, Runs, Reload
  PROVE  Typed' /\ Runs'
<1> DEFINE Op(r) == [r EXCEPT !.item = None,
                              !.kind = IF @ = "abortSession" THEN "abort" ELSE @]
           shut(i) == IF items[i].at = "new" THEN NewItem ELSE [NewItem EXCEPT !.at = "closed"]
<1>1. /\ Trouble
      /\ Flush \/ UNCHANGED <<record, lost>>
      /\ items' = [i \in Items |-> shut(i)] /\ wire' = {Op(r) : r \in wire}
      /\ refresh' = Asked /\ sessions' = {}
      /\ UNCHANGED <<bucket, disk, small, orphans>>
  BY DEF Reload
<1>2. \A r \in wire : Op(r) \in Request /\ Op(r).item = None
  BY DEF Runs, WireTypes, Request
<1>3. \A i \in Items : /\ shut(i) \in Item /\ shut(i).at \in {"new", "closed"}
                       /\ shut(i).upload = None /\ ~shut(i).resume /\ shut(i).workers = 0
  BY NewItemType DEF Item
<1>4. IsFiniteSet({Op(r) : r \in wire})
  <2> DEFINE T == {Op(r) : r \in wire}
             f == [r \in wire |-> Op(r)]
  <2>1. f \in Surjection(wire, T)
    BY DEF Surjection
  <2>2. IsFiniteSet(wire)
    BY DEF Runs, WireTypes
  <2> QED  BY <2>1, <2>2, FS_Surjection
<1> HIDE DEF Op, shut
<1>5. WireTypes' /\ \A r \in wire' : r.item = None
  BY <1>1, <1>2, <1>4 DEF WireTypes
<1>6. ItemTypes'
  BY <1>1, <1>3 DEF ItemTypes
<1>7. OneRun' /\ ItemsFit'
  BY <1>1, <1>3 DEF OneRun, ItemsFit, ItemFits, Running, Sending
<1>8. WireFits'
  BY <1>5 DEF WireFits
<1>9. Slots'
  <2>1. ASSUME NEW i \in Items
        PROVE  Cardinality(PartReqs(i)') <= items'[i].workers
    <3>1. PartReqs(i)' = {}
      BY <1>5 DEF PartReqs, Items, None
    <3>2. Cardinality(PartReqs(i)') = 0
      BY <3>1, FS_EmptySet, Zenon
    <3>3. items'[i].workers = 0
      BY <1>1, <1>3
    <3> QED  BY <3>2, <3>3
  <2> QED  BY <2>1 DEF Slots
<1>10. RecordTypes'
  BY <1>1, FlushType DEF Typed, RecordTypes
<1>11. BucketTypes' /\ TrayTypes' /\ RestTypes'
  <2>1. UNCHANGED <<bucket, disk, small, orphans>> /\ Trouble
        /\ refresh' = Asked /\ sessions' = {}
    BY <1>1
  <2>2. BucketTypes' /\ RestTypes'
    BY <2>1 DEF Typed, BucketTypes, RestTypes, bucket, Trouble
  <2>3. TrayTypes'
    BY <2>1, AskedType DEF TrayTypes
  <2> QED  BY <2>2, <2>3
<1> QED  BY <1>5, <1>6, <1>7, <1>8, <1>9, <1>10, <1>11 DEF Typed, Runs

LEMMA RefreshListsRuns ==
  ASSUME Typed, Runs, RefreshLists
  PROVE  Typed' /\ Runs'
<1>1. /\ refresh' = Listed
      /\ UNCHANGED <<bucket, disk, small, local, items, wire, sessions, trouble, orphans>>
  BY DEF RefreshLists
<1>2. Runs'
  BY <1>1, WireStep DEF Runs, WireTypes
<1> QED  BY <1>1, <1>2, ListedType DEF Typed, BucketTypes, RecordTypes, TrayTypes, RestTypes,
                                       bucket, local

LEMMA RefreshEndsRuns ==
  ASSUME Typed, Runs, RefreshEnds
  PROVE  Typed' /\ Runs'
<1>1. /\ sessions' = Merged(record') /\ refresh' = Idle
      /\ UNCHANGED <<bucket, disk, small, items, wire, orphans>>
      /\ trouble' = trouble \/ Trouble
      /\ \/ /\ record.id # None /\ record' = NoRecord
            /\ lost' = IF IsOpen(record.id) THEN lost \cup {record.id} ELSE lost
         \/ UNCHANGED <<record, lost>>
  BY DEF RefreshEnds
<1>2. Runs'
  BY <1>1, WireStep DEF Runs, WireTypes
<1>3. RecordTypes'
  BY <1>1, S3Assumption DEF Typed, RecordTypes, Record, NoRecord, None
<1>4. sessions' \in SUBSET [id : Uploads, sum : 0..Versions, mine : BOOLEAN]
  <2>1. record' = NoRecord \/ record'.id \in Uploads
    BY <1>3 DEF RecordTypes, Record
  <2>2. record'.sum \in 0..Versions /\ None \in 0..Versions
    BY <1>3, S3Assumption DEF RecordTypes, Record, None
  <2>3. CASE record' = NoRecord
    <3>1. sessions' = {[id |-> u, sum |-> None, mine |-> FALSE] : u \in refresh.open}
      BY <1>1, <2>3 DEF Merged
    <3>2. refresh.open \in SUBSET Uploads
      BY DEF Typed, TrayTypes
    <3>3. \A u \in refresh.open : [id |-> u, sum |-> None, mine |-> FALSE]
                                   \in [id : Uploads, sum : 0..Versions, mine : BOOLEAN]
      BY <2>2, <3>2
    <3> QED  BY <3>1, <3>3
  <2>4. CASE record' # NoRecord
    <3>1. sessions' = {[id |-> record'.id, sum |-> record'.sum, mine |-> TRUE]}
      BY <1>1, <2>4 DEF Merged
    <3> QED  BY <2>1, <2>2, <2>4, <3>1
  <2> QED  BY <2>3, <2>4
<1>5. TrayTypes' /\ RestTypes' /\ BucketTypes'
  BY <1>1, <1>4, AskedType DEF Typed, TrayTypes, RestTypes, Trouble, BucketTypes, bucket
<1> QED  BY <1>2, <1>3, <1>5 DEF Typed

LEMMA AbortSessionRuns ==
  ASSUME Typed, Runs, AbortSession
  PROVE  Typed' /\ Runs'
<1>1. PICK s \in Offered : wire' = wire \cup abortMultipartSession(s.id)
  BY DEF AbortSession
<1>2. s.id \in Uploads \cup {None} /\ wire \in SUBSET Request /\ IsFiniteSet(wire)
  BY DEF Offered, Typed, TrayTypes, Runs, WireTypes
<1>3. /\ wire \cup abortMultipartSession(s.id) \in SUBSET Request
      /\ IsFiniteSet(wire \cup abortMultipartSession(s.id))
      /\ \A r \in abortMultipartSession(s.id) : r.item = None
  BY <1>2, AbortSessionType, Zenon
<1>4. UNCHANGED <<bucket, disk, small, local, items, tray, trouble, orphans>>
  BY DEF AbortSession
<1>5. wire' \in SUBSET Request /\ IsFiniteSet(wire')
  BY <1>1, <1>3, Zenon
<1>6. Runs'
  BY <1>1, <1>3, <1>4, <1>5, WireStep
<1> QED  BY <1>4, <1>6 DEF Typed, BucketTypes, RecordTypes, TrayTypes, RestTypes,
                            bucket, local, tray

LEMMA StartTyped ==
  ASSUME Typed, Runs, NEW i \in Items, Start(i) \/ SendPart(i)
  PROVE  Typed' /\ Runs'
<1>1. Runs' /\ RecordTypes'
  BY StartUploadRuns, StartResumeRuns, SendPartRuns
     DEF Start, StartUpload, Typed, RecordTypes, local
<1>2. UNCHANGED <<bucket, disk, small, tray, trouble, orphans>>
  BY DEF Start, StartUpload, StartResume, SendPart
<1> QED  BY <1>1, <1>2 DEF Typed, BucketTypes, TrayTypes, RestTypes, bucket, tray

LEMMA RunsInit == Init => Typed /\ Runs
<1> SUFFICES ASSUME Init
             PROVE  Typed /\ Runs
  OBVIOUS
<1>1. BucketTypes /\ TrayTypes /\ RestTypes
  BY Contents, AskedType, S3Assumption
     DEF Init, BucketTypes, Uploaded, TrayTypes, RestTypes, Files
<1>2. RecordTypes
  BY S3Assumption DEF Init, RecordTypes, Record, NoRecord, None
<1>3. ItemTypes /\ OneRun /\ ItemsFit
  BY NewItemType DEF Init, ItemTypes, OneRun, ItemsFit, ItemFits, Running, Sending
<1>4. WireTypes /\ WireFits
  BY FS_EmptySet DEF Init, WireTypes, WireFits
<1>5. Slots
  <2>1. ASSUME NEW i \in Items
        PROVE  Cardinality(PartReqs(i)) <= items[i].workers
    <3>1. PartReqs(i) = {}
      BY DEF Init, PartReqs
    <3>2. Cardinality(PartReqs(i)) = 0
      BY <3>1, FS_EmptySet, Zenon
    <3>3. items[i].workers = 0
      BY NewItemType DEF Init
    <3> QED  BY <3>2, <3>3
  <2> QED  BY <2>1 DEF Slots
<1> QED  BY <1>1, <1>2, <1>3, <1>4, <1>5 DEF Typed, Runs

LEMMA RunsStep == Typed /\ Runs /\ [Next]_vars => Typed' /\ Runs'
<1> SUFFICES ASSUME Typed, Runs, [Next]_vars
             PROVE  Typed' /\ Runs'
  OBVIOUS
<1>1. ASSUME NEW i \in Items, Start(i) \/ Step(i)
      PROVE  Typed' /\ Runs'
  BY <1>1, StartTyped, SucceedRuns, RefuseRuns, LoseRuns, VerifyRuns DEF Step, Answer
<1>2. ASSUME NEW i \in Items,
             Enqueue(i) \/ Pause(i) \/ Resume(i) \/ Cancel(i) \/ ResumeSession(i)
      PROVE  Typed' /\ Runs'
  BY <1>2, EnqueueRuns, PauseRuns, ResumeRuns, CancelRuns, ResumeSessionRuns
<1>3. ASSUME NEW r \in wire, Late(r) \/ AbortAnswered(r) \/ AbortLost(r)
      PROVE  Typed' /\ Runs'
  BY <1>3, LateRuns
<1>4. CASE Edit \/ Reload \/ RefreshLists \/ RefreshEnds \/ AbortSession
  BY <1>4, EditRuns, ReloadRuns, RefreshListsRuns, RefreshEndsRuns, AbortSessionRuns
<1>5. CASE UNCHANGED vars
  <2>1. UNCHANGED <<bucket, disk, small, local, items, wire, tray, trouble, orphans>>
    BY <1>5 DEF vars
  <2>2. Runs'
    BY <2>1, WireStep DEF Runs, WireTypes
  <2> QED  BY <2>1, <2>2 DEF Typed, BucketTypes, RecordTypes, TrayTypes, RestTypes,
                              bucket, local, tray
<1> QED  BY <1>1, <1>2, <1>3, <1>4, <1>5 DEF Next

\* The variables of cloud uploads keep the shapes they are declared with.
THEOREM MultipartTypeCorrect == Spec => []TypeOK
<1>1. Init => Typed /\ Runs
  BY RunsInit
<1>2. Typed /\ Runs /\ [Next]_vars => (Typed /\ Runs)'
  BY RunsStep
<1>3. Typed /\ Runs => TypeOK
  BY TypeParts DEF Runs
<1> QED  BY <1>1, <1>2, <1>3, PTL DEF Spec
-----------------------------------------------------------------------------
(* The uploads: which are open, and who knows of them. *)

Used(u)     == upl[u].state # "unused"
Known(u)    == u # None => Used(u) /\ u \notin orphans
Works(item) == item.at \in {"parts", "complete"}
Covered(u)  == IsOpen(u) /\ u \notin lost => record.id = u

Unborn == \A u \in Uploads : ~Used(u) => upl[u].parts = Nothing /\ u \notin orphans
Swept1 == \A i \in Items : items[i].at = "create" => OpenUploads \subseteq orphans
OneOpen == \A u, v \in OpenUploads \ orphans : u = v

(* An upload the browser has the id of exists, and is not one whose id nobody
   was told; the tray and the requests may name any that exists. *)
Knowledge ==
  /\ \A i \in Items : Known(items[i].upload)
  /\ Known(record.id)
  /\ \A s \in sessions : Used(s.id) /\ (s.mine => Known(s.id))
  /\ \A r \in wire : r.upload # None => Used(r.upload)
  /\ \A u \in refresh.open : Used(u)

Recorded == \A i \in Items : Works(items[i]) => Covered(items[i].upload)

Ups == Unborn /\ Swept1 /\ OneOpen /\ Knowledge /\ Recorded

(* What a step that gives no run a new upload may do to the uploads. *)
Moves ==
  /\ orphans \subseteq orphans'
  /\ \A u \in Uploads :
       /\ Used(u) => upl'[u].state # "unused" /\ (u \in orphans' => u \in orphans)
       /\ upl'[u].state = "unused" => upl'[u].parts = Nothing /\ u \notin orphans'
       /\ upl'[u].state = "open" => upl[u].state = "open" \/ u \in orphans'

LEMMA MovesStill ==
  ASSUME Unborn, UNCHANGED <<upl, orphans>>
  PROVE  Moves
BY DEF Unborn, Moves, Used

LEMMA MovesPerform ==
  ASSUME BucketTypes, Unborn, NEW r \in Request, Accepts(r), r.kind # "create", Perform(r),
         UNCHANGED orphans
  PROVE  Moves
BY Performed DEF Unborn, Moves, Used, Ages

LEMMA MovesUnheard ==
  ASSUME BucketTypes, Unborn, NEW r \in Request, Unheard(r)
  PROVE  Moves
<1>1. CASE UNCHANGED <<bucket, orphans>>
  BY <1>1, MovesStill DEF bucket
<1>2. CASE \E u \in Uploads : Create(u) /\ orphans' = orphans \cup {u}
  BY <1>2, Created DEF Unborn, Moves, Used
<1>3. CASE r.kind # "create" /\ Accepts(r) /\ Perform(r) /\ UNCHANGED orphans
  BY <1>3, MovesPerform
<1> QED  BY <1>1, <1>2, <1>3 DEF Unheard

LEMMA KnownStays ==
  ASSUME Moves, NEW u \in Uploads \cup {None}
  PROVE  /\ u # None /\ Used(u) => upl'[u].state # "unused"
         /\ Known(u) => (u # None => upl'[u].state # "unused" /\ u \notin orphans')
BY DEF Moves, Known, Used

(* A step that opens no upload but those of nobody, and tells of none that the
   browser did not know of. *)
LEMMA UpsStep ==
  ASSUME Typed, Runs, Ups, Typed', Runs', Moves,
         \A i \in Items : \/ items'[i].upload = items[i].upload
                          \/ items'[i].upload = None
                          \/ \E s \in sessions : s.mine /\ items'[i].upload = s.id,
         \A i \in Items : items'[i].at = "create" =>
            items[i].at = "create" \/ \A u \in Uploads : upl'[u].state # "open",
         \/ record'.id \in {record.id, None}
         \/ \E i \in Items : record'.id = items[i].upload,
         \A s \in sessions' : \/ s \in sessions
                              \/ s.mine /\ s.id = record'.id
                              \/ ~s.mine /\ s.id \in refresh.open,
         \A r \in wire' : r.upload # None =>
            \/ \E q \in wire : q.upload = r.upload
            \/ \E i \in Items : r.upload = items[i].upload
            \/ \E s \in sessions : r.upload = s.id,
         refresh'.open \subseteq refresh.open \cup OpenUploads,
         \A i \in Items : Works(items'[i]) => Covered(items[i].upload)'
  PROVE  Ups'
<1>1. Unborn'
  BY DEF Unborn, Moves, Used
<1>2. Swept1' /\ OneOpen'
  <2>1. OpenUploads' \ orphans' \subseteq OpenUploads \ orphans
    BY DEF Moves, OpenUploads, IsOpen
  <2>2. OneOpen'
    BY <2>1 DEF Ups, OneOpen
  <2>3. Swept1'
    BY <2>1 DEF Ups, Swept1, OpenUploads, IsOpen
  <2> QED  BY <2>2, <2>3
<1>3. \A i \in Items : Known(items[i].upload)'
  <2> SUFFICES ASSUME NEW i \in Items
               PROVE  Known(items[i].upload)'
    OBVIOUS
  <2> DEFINE u == items'[i].upload
  <2>1. u \in Uploads \cup {None} /\ Known(u)
    <3>1. u \in Uploads \cup {None}
      BY DEF Runs, ItemTypes, Item
    <3>2. \A s \in sessions : s.mine => Known(s.id)
      BY DEF Ups, Knowledge
    <3> QED  BY <3>1, <3>2 DEF Ups, Knowledge, Known
  <2>2. u # None => upl'[u].state # "unused" /\ u \notin orphans'
    BY <2>1, KnownStays
  <2> QED  BY <2>2 DEF Known, Used
<1>4. Known(record.id)'
  <2>1. record'.id \in Uploads \cup {None} /\ Known(record'.id)
    BY DEF Typed, RecordTypes, Record, Ups, Knowledge, Known
  <2>2. record'.id # None => upl'[record'.id].state # "unused" /\ record'.id \notin orphans'
    BY <2>1, KnownStays
  <2> QED  BY <2>2 DEF Known, Used
<1>5. ASSUME NEW s \in sessions'
      PROVE  upl'[s.id].state # "unused"
             /\ (s.mine => (s.id # None => upl'[s.id].state # "unused" /\ s.id \notin orphans'))
  <2>1. s.id \in Uploads /\ s.mine \in BOOLEAN /\ s.id # None
    BY DEF Typed, TrayTypes, Uploads, None
  <2>2. CASE s \in sessions
    BY <2>1, <2>2, KnownStays DEF Ups, Knowledge
  <2>3. CASE s.mine /\ s.id = record'.id
    BY <1>4, <2>1, <2>3 DEF Known, Used
  <2>4. CASE ~s.mine /\ s.id \in refresh.open
    BY <2>1, <2>4, KnownStays DEF Ups, Knowledge
  <2> QED  BY <2>2, <2>3, <2>4
<1>6. ASSUME NEW r \in wire', r.upload # None
      PROVE  upl'[r.upload].state # "unused"
  <2>1. r.upload \in Uploads /\ r.upload # None
    BY <1>6 DEF Runs, WireTypes, Request
  <2>2. Used(r.upload)
    BY <1>6 DEF Ups, Knowledge, Known
  <2> QED  BY <2>1, <2>2, KnownStays
<1>7. ASSUME NEW u \in refresh'.open
      PROVE  upl'[u].state # "unused"
  <2>1. u \in Uploads
    BY DEF Typed, TrayTypes
  <2>2. Used(u)
    BY DEF Ups, Knowledge, OpenUploads, IsOpen, Used
  <2> QED  BY <2>1, <2>2, KnownStays DEF Uploads, None
<1>8. Knowledge'
  BY <1>3, <1>4, <1>5, <1>6, <1>7 DEF Knowledge, Known, Used
<1> QED  BY <1>1, <1>2, <1>8 DEF Ups, Recorded, Works

(* Records that are kept cover what they covered. *)
LEMMA CoveredStays ==
  ASSUME Typed, Runs, Ups, Runs', Moves, lost \subseteq lost',
         NEW i \in Items, Works(items[i]), items'[i].upload = items[i].upload,
         \/ record' = record
         \/ /\ record' = NoRecord
            /\ record.id # None => record.id \in lost' \/ upl'[record.id].state # "open"
         \/ record'.id \in OpenUploads \ orphans
  PROVE  Covered(items[i].upload)'
<1> DEFINE u == items[i].upload
<1>1. Covered(u) /\ u \in Uploads /\ Known(u)
  BY ItemOf DEF Ups, Recorded, Knowledge, Works, ItemFits
<1>2. SUFFICES ASSUME upl'[u].state = "open", u \notin lost'
               PROVE  record'.id = u
  BY DEF Covered, IsOpen
<1>3. upl[u].state = "open" /\ u \in OpenUploads \ orphans
  BY <1>1, <1>2 DEF Moves, Known, OpenUploads, IsOpen, Used, Uploads, None
<1>4. record.id = u
  BY <1>1, <1>2, <1>3 DEF Covered, OpenUploads
<1>5. CASE record' = record
  BY <1>4, <1>5
<1>6. CASE record' = NoRecord
           /\ (record.id # None => record.id \in lost' \/ upl'[record.id].state # "open")
  BY <1>1, <1>2, <1>4, <1>6 DEF Uploads, None
<1>7. CASE record'.id \in OpenUploads \ orphans
  BY <1>3, <1>7 DEF Ups, OneOpen
<1> QED  BY <1>5, <1>6, <1>7
LEMMA OthersIdle ==
  ASSUME Runs, NEW i \in Items, items[i].at \in Running \/ ~Busy, NEW j \in Items \ {i}
  PROVE  ~Works(items[j])
BY DEF Runs, OneRun, Busy, Works, Running, Sending

\* A step of an item that leaves the bucket, the tray and the record.
LEMMA UpsQuiet ==
  ASSUME Typed, Runs, Ups, Typed', Runs', UNCHANGED <<bucket, local, tray, orphans>>,
         NEW i \in Items, NEW x \in Item, Set(i, x), ~Works(x), x.at # "create",
         \/ x.upload = items[i].upload
         \/ x.upload = None
         \/ \E s \in sessions : s.mine /\ x.upload = s.id,
         \A r \in wire' : r.upload # None =>
            \/ \E q \in wire : q.upload = r.upload
            \/ r.upload = items[i].upload
  PROVE  Ups'
<1>1. Moves
  BY MovesStill DEF bucket, Ups
<1>2. items'[i] = x /\ \A j \in Items \ {i} : items'[j] = items[j]
  BY DEF Runs, ItemTypes, Set
<1>3. record' = record /\ lost' = lost /\ sessions' = sessions /\ refresh' = refresh
  BY DEF local, tray
<1>4. ASSUME NEW j \in Items, Works(items'[j])
      PROVE  Covered(items[j].upload)'
  BY <1>1, <1>2, <1>3, <1>4, CoveredStays
<1> QED  BY <1>1, <1>2, <1>3, <1>4, UpsStep

LEMMA StartUploadUps ==
  ASSUME Typed, Runs, Ups, Typed', Runs', NEW i \in Items, StartUpload(i)
  PROVE  Ups'
<1> DEFINE item == items[i]
           kind == IF small THEN "put" ELSE "sweep"
           x == IF Check /\ ~Readable(item) THEN Failed(item) ELSE [item EXCEPT !.at = kind]
<1>1. item \in Item /\ UNCHANGED <<bucket, local, tray, orphans>>
  BY ItemOf DEF StartUpload
<1>2. Set(i, x)
  BY DEF StartUpload
<1>3. x \in Item /\ x.upload = item.upload /\ x.at \in {"failed", "put", "sweep"}
  BY <1>1, FailedType DEF Item, Running, Sending
<1>4. \A r \in wire' : r.upload # None => r \in wire
  BY DEF StartUpload, Req
<1> HIDE DEF x
<1> QED  BY <1>1, <1>2, <1>3, <1>4, UpsQuiet DEF Works

\* A step of the run that is under way, or of one that begins.
LEMMA UpsOwn ==
  ASSUME Typed, Runs, Ups, Typed', Runs', Moves,
         sessions' = sessions, refresh' = refresh \/ refresh' = Asked,
         NEW i \in Items, NEW x \in Item, Set(i, x), items[i].at \in Running \/ ~Busy,
         x.upload = items[i].upload,
         x.at = "create" => \A u \in Uploads : upl'[u].state # "open",
         Works(x) => record'.id = x.upload,
         record'.id \in {record.id, None, x.upload},
         \A r \in wire' : r.upload # None =>
            \/ \E q \in wire : q.upload = r.upload
            \/ r.upload = items[i].upload
  PROVE  Ups'
<1>1. items'[i] = x /\ \A j \in Items \ {i} : items'[j] = items[j]
  BY DEF Runs, ItemTypes, Set
<1>2. ASSUME NEW j \in Items, Works(items'[j])
      PROVE  Covered(items[j].upload)'
  <2>1. j = i
    BY <1>1, <1>2, OthersIdle
  <2>2. record'.id = items'[i].upload
    BY <1>1, <1>2, <2>1
  <2> QED  BY <2>1, <2>2 DEF Covered
<1>3. refresh'.open \subseteq refresh.open
  BY DEF Asked
<1>4. \/ record'.id \in {record.id, None}
      \/ \E j \in Items : record'.id = items[j].upload
  OBVIOUS
<1>5. \A j \in Items : items'[j].upload = items[j].upload
  BY <1>1
<1>6. \A j \in Items : items'[j].at = "create" =>
         items[j].at = "create" \/ \A u \in Uploads : upl'[u].state # "open"
  BY <1>1
<1> QED  BY <1>2, <1>3, <1>4, <1>5, <1>6, UpsStep

LEMMA StartResumeUps ==
  ASSUME Typed, Runs, Ups, Typed', Runs', NEW i \in Items, StartResume(i)
  PROVE  Ups'
<1> DEFINE item == items[i]
           hash == Check /\ item.rsum = None
           x == IF hash /\ ~Readable(item) THEN Failed(item) ELSE [item EXCEPT !.at = "list"]
<1>1. item \in Item /\ UNCHANGED <<bucket, tray, orphans>> /\ ~Busy
  BY ItemOf DEF StartResume, Turn
<1>2. Set(i, x) /\ (UNCHANGED local \/ Persist(item))
  BY DEF StartResume
<1>3. x \in Item /\ x.upload = item.upload /\ x.at \in {"failed", "list"}
  BY <1>1, FailedType DEF Item, Running, Sending
<1>4. \A r \in wire' : r.upload # None => r \in wire \/ r.upload = item.upload
  BY DEF StartResume, Req
<1>5. Moves
  BY <1>1, MovesStill DEF bucket, Ups
<1>6. record'.id \in {record.id, None, x.upload}
  BY <1>2, <1>3 DEF Persist, Upsert, local
<1> HIDE DEF x
<1> QED  BY <1>1, <1>2, <1>3, <1>4, <1>5, <1>6, UpsOwn DEF Works, tray

LEMMA SendPartUps ==
  ASSUME Typed, Runs, Ups, Typed', Runs', NEW i \in Items, SendPart(i)
  PROVE  Ups'
<1> DEFINE item == items[i]
           p == Min(item.todo)
           rest == [item EXCEPT !.todo = @ \ {p}]
           tired == [rest EXCEPT !.workers = @ - 1]
<1>1. item \in Item /\ UNCHANGED <<bucket, tray, orphans>>
      /\ (item.at = "parts" \/ Ghost(item))
  BY ItemOf DEF SendPart
<1>2. items' \in [Items -> Item] /\ Moves
  BY <1>1, MovesStill DEF Runs, ItemTypes, bucket, Ups
<1>3. /\ \E x : /\ Set(i, x) /\ x.upload = item.upload
                /\ x.at = item.at \/ x.at = "failed"
                /\ UNCHANGED <<record, lost>> \/ (Persist(item) /\ x.at = "failed" /\ ~Ghost(item))
      /\ \A r \in wire' : r.upload # None => r \in wire \/ r.upload = item.upload
  <2>1. rest.upload = item.upload /\ rest.at = item.at
        /\ tired.upload = item.upload /\ tired.at = item.at
        /\ Failed(tired).upload = item.upload /\ Failed(tired).at = "failed"
    BY <1>1 DEF Item, Failed
  <2>2. CASE Readable(item)
    <3>1. Set(i, rest) /\ UNCHANGED local
          /\ \A r \in wire' : r.upload # None => r \in wire \/ r.upload = item.upload
      BY <2>2 DEF SendPart, Req
    <3> HIDE DEF rest
    <3> QED  BY <2>1, <3>1 DEF local
  <2>3. CASE ~Readable(item) /\ Ghost(item)
    <3>1. Set(i, tired) /\ UNCHANGED <<record, lost, wire>>
      BY <2>3 DEF SendPart
    <3> HIDE DEF rest, tired
    <3> QED  BY <2>1, <3>1
  <2>4. CASE ~Readable(item) /\ ~Ghost(item)
    <3>1. Set(i, Failed(tired)) /\ Persist(item) /\ wire' = wire
      BY <2>4 DEF SendPart
    <3> HIDE DEF rest, tired
    <3> QED  BY <2>1, <2>4, <3>1
  <2> QED  BY <2>2, <2>3, <2>4
<1>4. PICK x : /\ Set(i, x) /\ x.upload = item.upload
               /\ x.at = item.at \/ x.at = "failed"
               /\ UNCHANGED <<record, lost>> \/ (Persist(item) /\ x.at = "failed" /\ ~Ghost(item))
  BY <1>3
<1>5. x \in Item /\ items'[i] = x /\ \A j \in Items \ {i} : items'[j] = items[j]
  BY <1>2, <1>4 DEF Set, Runs, ItemTypes
<1>6. CASE UNCHANGED <<record, lost>>
  <2>1. ASSUME NEW j \in Items, Works(items'[j])
        PROVE  Covered(items[j].upload)'
    BY <1>2, <1>4, <1>5, <1>6, <2>1, CoveredStays DEF Works
  <2>2. \A j \in Items : items'[j].upload = items[j].upload
    BY <1>4, <1>5
  <2>3. \A j \in Items : items'[j].at = "create" => items[j].at = "create"
    BY <1>4, <1>5
  <2> QED  BY <1>1, <1>2, <1>3, <1>6, <2>1, <2>2, <2>3, UpsStep DEF tray
<1>7. CASE Persist(item) /\ x.at = "failed" /\ ~Ghost(item)
  <2>1. item.at \in Running /\ record'.id = item.upload
    BY <1>1, <1>7 DEF Running, Sending, Persist, Upsert
  <2> QED  BY <1>1, <1>2, <1>3, <1>4, <1>5, <1>7, <2>1, UpsOwn DEF Works, tray
<1> QED  BY <1>4, <1>6, <1>7

LEMMA StopUps ==
  ASSUME Typed, Runs, Ups, Typed', Runs', Moves, NEW i \in Items, NEW r \in wire, r.item = i,
         Stop(i, r), UNCHANGED tray
  PROVE  Ups'
<1> DEFINE item == items[i]
           tired == [item EXCEPT !.workers = @ - 1]
<1>1. item \in Item /\ Fits(item, r) /\ wire' = wire \ {r} /\ UNCHANGED <<sessions, refresh>>
  BY ItemOf DEF Stop, tray
<1>2. /\ tired.upload = item.upload /\ tired.at = item.at
      /\ Failed(tired).upload = item.upload /\ Failed(tired).at = "failed"
      /\ Failed(item).upload = item.upload /\ Failed(item).at = "failed"
  BY <1>1 DEF Item, Failed
<1>3. items' \in [Items -> Item] /\ \A x : Set(i, x) =>
         x \in Item /\ items'[i] = x /\ \A j \in Items \ {i} : items'[j] = items[j]
  BY DEF Runs, ItemTypes, Set
<1>4. CASE r.kind = "part" /\ Ghost(item)
  <2>1. Set(i, tired) /\ UNCHANGED <<record, lost>>
    BY <1>4 DEF Stop
  <2> HIDE DEF tired
  <2>2. \A j \in Items : items'[j].upload = items[j].upload /\ items'[j].at = items[j].at
    BY <1>2, <1>3, <2>1
  <2>3. ASSUME NEW j \in Items, Works(items'[j])
        PROVE  Covered(items[j].upload)'
    BY <2>1, <2>2, <2>3, CoveredStays DEF Works
  <2> QED  BY <1>1, <2>1, <2>2, <2>3, UpsStep
<1>5. CASE ~(r.kind = "part" /\ Ghost(item))
  <2>1. item.at \in Running
    BY <1>1, <1>5 DEF Fits, PartFits, Running, Sending
  <2>2. \E x : /\ Set(i, x) /\ x.upload = item.upload /\ x.at = "failed"
               /\ UNCHANGED <<record, lost>> \/ Persist(item)
    <3>1. CASE r.kind = "part"
      <4>1. Set(i, Failed(tired)) /\ Persist(item)
        BY <1>5, <3>1 DEF Stop
      <4> HIDE DEF tired
      <4> QED  BY <1>2, <4>1
    <3>2. CASE r.kind # "part"
      <4>1. Set(i, Failed(item)) /\ (UNCHANGED <<record, lost>> \/ Persist(item))
        BY <1>1, <3>2 DEF Stop, Fits
      <4> QED  BY <1>2, <4>1
    <3> QED  BY <3>1, <3>2
  <2>3. PICK x : /\ Set(i, x) /\ x.upload = item.upload /\ x.at = "failed"
                 /\ UNCHANGED <<record, lost>> \/ Persist(item)
    BY <2>2
  <2>4. record'.id \in {record.id, None, x.upload} /\ x \in Item /\ ~Works(x)
    BY <1>3, <2>3 DEF Persist, Upsert, Works
  <2> QED  BY <1>1, <2>1, <2>3, <2>4, UpsOwn
<1> QED  BY <1>4, <1>5

LEMMA VerifyUps ==
  ASSUME Typed, Runs, Ups, Typed', Runs', NEW i \in Items, Verify(i)
  PROVE  Ups'
<1> DEFINE item == items[i]
           x(p) == [item EXCEPT !.at = p]
<1>1. item \in Item /\ UNCHANGED <<bucket, sessions, orphans>> /\ item.at \in Running
      /\ (refresh' = refresh \/ refresh' = Asked)
  BY ItemOf DEF Verify, RefreshIfDone, Running
<1>2. \E p \in {"failed", "done", "delete"} : Set(i, x(p))
  BY DEF Verify, Failed, Done
<1>3. PICK p \in {"failed", "done", "delete"} : Set(i, x(p))
  BY <1>2
<1>4. x(p) \in Item /\ x(p).upload = item.upload /\ x(p).at = p
  BY <1>1 DEF Item, Running, Ended
<1>5. \A r \in wire' : r.upload # None => r \in wire
  BY DEF Verify, Req, Done
<1>6. Moves
  BY <1>1, MovesStill DEF bucket, Ups
<1>7. record'.id \in {record.id, None}
  BY DEF Verify, Done, removeMultipartRecord, NoRecord
<1> HIDE DEF x
<1> QED  BY <1>1, <1>3, <1>4, <1>5, <1>6, <1>7, UpsOwn DEF Works
\* An answer the run goes on after, other than that of its new upload.
LEMMA ContinueUps ==
  ASSUME Typed, Runs, Ups, Typed', Runs', NEW i \in Items, NEW r \in wire, Succeed(i, r),
         r.kind # "create"
  PROVE  Ups'
<1> DEFINE item == items[i]
<1>1. /\ item \in Item /\ Fits(item, r) /\ r \in Request /\ r.item = i /\ Accepts(r)
      /\ Perform(r) /\ Continue(i, r) /\ sessions' = sessions /\ UNCHANGED orphans
      /\ (refresh' = refresh \/ refresh' = Asked)
  BY ItemOf DEF Succeed, RefreshIfDone, Runs, WireTypes
<1>2. Moves
  BY <1>1, MovesPerform DEF Typed, Ups
<1>3. items' \in [Items -> Item] /\ \A x : Set(i, x) =>
         x \in Item /\ items'[i] = x /\ \A j \in Items \ {i} : items'[j] = items[j]
  BY DEF Runs, ItemTypes, Set
<1>4. r.kind # "part" => item.at = r.kind
  BY <1>1, OnlyRequest
<1>5. CASE r.kind = "sweep"
  <2> DEFINE x == [item EXCEPT !.at = "create"]
  <2>1. Set(i, x) /\ wire' = (wire \ {r}) \cup {Req("create", i, None, Nothing)}
        /\ UNCHANGED local
    BY <1>1, <1>5 DEF Continue
  <2>2. x.upload = item.upload /\ x.at = "create" /\ ~Works(x)
    BY <1>1 DEF Item, Works
  <2> HIDE DEF x
  <2>3. \A u \in Uploads : upl'[u].state # "open"
    BY <1>1, <1>5, Performed DEF Typed
  <2>4. \A q \in wire' : q.upload # None => q \in wire
    BY <2>1 DEF Req
  <2>5. x \in Item /\ item.at \in Running /\ record' = record
    BY <1>3, <1>4, <1>5, <2>1 DEF Running, Sending, local
  <2> QED  BY <1>1, <1>2, <2>1, <2>2, <2>3, <2>4, <2>5, UpsOwn
<1>6. CASE r.kind \in {"put", "complete", "delete"}
  <2>1. \E p \in {"verify", "done", "failed"} : Set(i, [item EXCEPT !.at = p])
    BY <1>1, <1>6 DEF Continue, Published, Done, Failed
  <2>2. PICK p \in {"verify", "done", "failed"} : Set(i, [item EXCEPT !.at = p])
    BY <2>1
  <2> DEFINE x == [item EXCEPT !.at = p]
  <2>3. Set(i, x) /\ x.upload = item.upload /\ x.at = p
    BY <1>1, <2>2 DEF Item
  <2> HIDE DEF x
  <2>4. record'.id \in {record.id, None} /\ wire' = wire \ {r}
    <3>1. CASE r.kind \in {"put", "complete"}
      <4>1. Published(i, item) /\ wire' = wire \ {r}
        BY <1>1, <3>1 DEF Continue
      <4>2. removeMultipartRecord(item.upload) \/ record' = record
        BY <4>1 DEF Published, Done
      <4> QED  BY <4>1, <4>2 DEF removeMultipartRecord, NoRecord
    <3>2. CASE r.kind = "delete"
      BY <1>1, <3>2 DEF Continue, local
    <3> QED  BY <1>6, <3>1, <3>2
  <2>5. x \in Item /\ item.at \in Running /\ ~Works(x) /\ x.at # "create"
    BY <1>3, <1>4, <1>6, <2>3 DEF Running, Sending, Works
  <2> QED  BY <1>1, <1>2, <2>3, <2>4, <2>5, UpsOwn
<1>7. CASE r.kind = "list" \/ (r.kind = "part" /\ item.at = "parts")
  <2>1. \E x : /\ Set(i, x) /\ x.upload = item.upload /\ x.at \in {"parts", "complete"}
               /\ PersistProgress(item)
               /\ wire' = wire \ {r} \/ wire' = (wire \ {r}) \cup {Complete(i, x)}
    <3>1. CASE r.kind = "list"
      <4> DEFINE have == upl[item.upload].parts
                 todo == {p \in Parts : have[p] = None}
                 x == [item EXCEPT !.got = have, !.todo = todo, !.workers = Queue,
                                   !.at = IF todo = {} THEN "complete" ELSE "parts"]
      <4>1. /\ Set(i, x) /\ PersistProgress(item)
            /\ wire' = IF todo = {} THEN (wire \ {r}) \cup {Complete(i, x)} ELSE wire \ {r}
        BY <1>1, <3>1 DEF Continue
      <4> HIDE DEF have, todo
      <4>2. x.upload = item.upload /\ x.at \in {"parts", "complete"}
        BY <1>1 DEF Item
      <4> HIDE DEF x
      <4> QED  BY <4>1, <4>2
    <3>2. CASE r.kind = "part" /\ item.at = "parts"
      <4> DEFINE got == [p \in Parts |-> IF r.data[p] # None THEN r.data[p] ELSE item.got[p]]
                 full == \A p \in Parts : got[p] # None
                 x == [item EXCEPT !.got = got, !.at = IF full THEN "complete" ELSE "parts"]
      <4>1. PartStored(i, r)
        BY <1>1, <3>2 DEF Continue
      <4>2. /\ Set(i, x) /\ PersistProgress(item)
            /\ wire' = IF full THEN (wire \ {r}) \cup {Complete(i, x)} ELSE wire \ {r}
        BY <3>2, <4>1 DEF PartStored
      <4> HIDE DEF got, full
      <4>3. x.upload = item.upload /\ x.at \in {"parts", "complete"}
        BY <1>1 DEF Item
      <4> HIDE DEF x
      <4> QED  BY <4>2, <4>3
    <3> QED  BY <1>7, <3>1, <3>2
  <2>2. PICK x : /\ Set(i, x) /\ x.upload = item.upload /\ x.at \in {"parts", "complete"}
                 /\ PersistProgress(item)
                 /\ wire' = wire \ {r} \/ wire' = (wire \ {r}) \cup {Complete(i, x)}
    BY <2>1
  <2>3. record'.id = item.upload
    BY <2>2 DEF PersistProgress, Upsert
  <2>4. \A q \in wire' : q.upload # None => q \in wire \/ q.upload = item.upload
    BY <2>2 DEF Complete, Req
  <2>5. x \in Item /\ item.at \in Running
    BY <1>3, <1>4, <1>7, <2>2 DEF Running, Sending
  <2> QED  BY <1>1, <1>2, <2>2, <2>3, <2>4, <2>5, UpsOwn
<1>8. CASE r.kind = "part" /\ item.at # "parts"
  <2>1. /\ wire' = wire \ {r}
        /\ \/ Set(i, [item EXCEPT !.at = "revived"]) /\ PersistProgress(item)
           \/ items' = items /\ UNCHANGED local
    BY <1>1, <1>8 DEF Continue, PartStored
  <2>2. r.upload = item.upload /\ r.upload \in OpenUploads \ orphans
    <3>1. r.upload = item.upload /\ r.upload \in Uploads /\ r.upload # None /\ IsOpen(r.upload)
      BY <1>1, <1>8, PartOf DEF PartFits, Accepts, IsOpen, Request
    <3>2. Known(item.upload)
      BY DEF Ups, Knowledge
    <3> QED  BY <3>1, <3>2 DEF Known, OpenUploads
  <2>3. CASE items' = items /\ UNCHANGED local
    <3>1. ASSUME NEW j \in Items, Works(items'[j])
          PROVE  Covered(items[j].upload)'
      BY <1>2, <2>3, <3>1, CoveredStays DEF local
    <3>2. record' = record
      BY <2>3 DEF local
    <3> QED  BY <1>1, <1>2, <2>1, <2>3, <3>1, <3>2, UpsStep DEF Asked
  <2>4. CASE Set(i, [item EXCEPT !.at = "revived"]) /\ PersistProgress(item)
    <3> DEFINE x == [item EXCEPT !.at = "revived"]
    <3>1. Set(i, x) /\ x.upload = item.upload /\ x.at = "revived"
      BY <1>1, <2>4 DEF Item
    <3> HIDE DEF x
    <3>2. record'.id = item.upload /\ lost \subseteq lost'
      BY <2>4 DEF PersistProgress, Upsert
    <3>3. \A j \in Items : /\ items'[j].upload = items[j].upload
                           /\ items'[j].at = items[j].at \/ items'[j].at = "revived"
      BY <1>3, <3>1
    <3>4. ASSUME NEW j \in Items, Works(items'[j])
          PROVE  Covered(items[j].upload)'
      BY <1>2, <2>2, <3>2, <3>3, <3>4, CoveredStays DEF Works
    <3> QED  BY <1>1, <1>2, <2>1, <3>2, <3>3, <3>4, UpsStep DEF Asked
  <2> QED  BY <2>1, <2>3, <2>4
<1>9. r.kind \in {"part", "complete", "list", "put", "sweep", "create", "delete"}
  BY <1>1 DEF Fits
<1> QED  BY <1>5, <1>6, <1>7, <1>8, <1>9
\* The run has a new upload: every open one but those of nobody was swept.
LEMMA CreateUps ==
  ASSUME Typed, Runs, Ups, Typed', Runs', NEW i \in Items, NEW r \in wire, Succeed(i, r),
         r.kind = "create"
  PROVE  Ups'
<1>1. PICK u \in Uploads :
        /\ Create(u)
        /\ items' = [items EXCEPT ![i] = [items[i] EXCEPT !.at = "parts", !.upload = u,
                                     !.todo = Parts, !.got = Nothing, !.workers = Queue]]
        /\ Persist(items'[i])
  BY CreateRuns
<1>2. /\ r.item = i /\ wire' = wire \ {r} /\ sessions' = sessions /\ orphans' = orphans
      /\ (refresh' = refresh \/ refresh' = Asked)
  BY DEF Succeed, RefreshIfDone
<1>3. items[i].at = "create"
  BY <1>2, OnlyRequest
<1>4. items'[i].upload = u /\ items'[i].at = "parts" /\ \A j \in Items \ {i} : items'[j] = items[j]
  BY <1>1, ItemOf DEF Runs, ItemTypes, Item
<1>5. record'.id = u
  BY <1>1, <1>4 DEF Persist, Upsert
<1>6. /\ upl[u].state = "unused" /\ upl'[u].state = "open" /\ u \notin orphans
      /\ \A v \in Uploads \ {u} : upl'[v] = upl[v]
      /\ u # None
  BY <1>1, Created DEF Typed, Ups, Unborn, Used, Uploads, None
<1>7. Unborn'
  BY <1>2, <1>6 DEF Ups, Unborn, Used
<1>8. OneOpen'
  <2>1. \A v \in OpenUploads' \ orphans' : v = u
    BY <1>2, <1>3, <1>6 DEF Ups, Swept1, OpenUploads, IsOpen
  <2> QED  BY <2>1 DEF OneOpen
<1>9. \A j \in Items : items'[j].at # "create" /\ (j # i => ~Works(items'[j]))
  BY <1>3, <1>4 DEF Runs, OneRun, Running, Sending, Works
<1>10. Swept1'
  BY <1>9 DEF Swept1
<1>11. \A v \in Uploads : Used(v) => upl'[v].state # "unused"
  BY <1>6 DEF Used
<1>12. \A j \in Items : items'[j].upload # None =>
          upl'[items'[j].upload].state # "unused" /\ items'[j].upload \notin orphans'
  <2>1. \A j \in Items : items[j].upload \in Uploads \cup {None} /\ Known(items[j].upload)
    BY ItemOf DEF Ups, Knowledge
  <2> QED  BY <1>2, <1>4, <1>6, <1>11, <2>1 DEF Known
<1>13. \A s \in sessions' : upl'[s.id].state # "unused"
          /\ (s.mine => (s.id # None => upl'[s.id].state # "unused" /\ s.id \notin orphans'))
  BY <1>2, <1>11 DEF Ups, Knowledge, Known, Typed, TrayTypes
<1>14. \A q \in wire' : q.upload # None => upl'[q.upload].state # "unused"
  BY <1>2, <1>11 DEF Ups, Knowledge, Runs, WireTypes, Request
<1>15. \A v \in refresh'.open : upl'[v].state # "unused"
  BY <1>2, <1>11 DEF Asked, Ups, Knowledge, Typed, TrayTypes
<1>16. Knowledge'
  BY <1>2, <1>5, <1>6, <1>12, <1>13, <1>14, <1>15 DEF Knowledge, Known, Used
<1>17. Recorded'
  BY <1>4, <1>5, <1>9 DEF Recorded, Covered, Works
<1> QED  BY <1>7, <1>8, <1>10, <1>16, <1>17 DEF Ups

LEMMA AnswerUps ==
  ASSUME Typed, Runs, Ups, Typed', Runs', NEW i \in Items, NEW r \in wire,
         Succeed(i, r) \/ Refuse(i, r) \/ Lose(i, r)
  PROVE  Ups'
<1>1. CASE Succeed(i, r)
  BY <1>1, ContinueUps, CreateUps
<1>2. CASE Refuse(i, r)
  <2>1. r.item = i /\ Stop(i, r) /\ UNCHANGED <<bucket, orphans>> /\ UNCHANGED tray
    BY <1>2 DEF Refuse
  <2>2. Moves
    BY <2>1, MovesStill DEF bucket, Ups
  <2> QED  BY <2>1, <2>2, StopUps
<1>3. CASE Lose(i, r)
  <2>1. r.item = i /\ Stop(i, r) /\ Unheard(r) /\ UNCHANGED tray /\ r \in Request
    BY <1>3 DEF Lose, Runs, WireTypes
  <2>2. Moves
    BY <2>1, MovesUnheard DEF Typed, Ups
  <2> QED  BY <2>1, <2>2, StopUps
<1> QED  BY <1>1, <1>2, <1>3

\* A request nobody waits for, or an abort.
LEMMA LateUps ==
  ASSUME Typed, Runs, Ups, Typed', Runs', NEW r \in wire,
         Late(r) \/ AbortAnswered(r) \/ AbortLost(r)
  PROVE  Ups'
<1>1. /\ r \in Request /\ wire' = wire \ {r} /\ items' = items /\ sessions' = sessions
      /\ lost' = lost /\ (refresh' = refresh \/ refresh' = Asked)
  BY DEF Late, AbortAnswered, AbortLost, Runs, WireTypes, local, tray
<1>2. /\ Moves
      /\ \/ record' = record
         \/ record' = NoRecord /\ record.id = r.upload /\ upl'[r.upload].state = "ended"
  <2>1. CASE Late(r) \/ AbortLost(r)
    <3>1. Unheard(r) /\ record' = record
      BY <2>1 DEF Late, AbortLost, local
    <3> QED  BY <1>1, <3>1, MovesUnheard DEF Typed, Ups
  <2>2. CASE AbortAnswered(r) /\ Accepts(r)
    <3>1. /\ Perform(r) /\ UNCHANGED orphans /\ r.kind \in {"abort", "abortSession"}
          /\ removeMultipartRecord(r.upload) \/ record' = record
      BY <2>2 DEF AbortAnswered
    <3>2. Moves /\ upl'[r.upload].state = "ended"
      BY <1>1, <2>2, <3>1, MovesPerform, Performed DEF Typed, Ups
    <3> QED  BY <3>1, <3>2 DEF removeMultipartRecord
  <2>3. CASE AbortAnswered(r) /\ ~Accepts(r)
    <3>1. UNCHANGED <<bucket, record, orphans>>
      BY <2>3 DEF AbortAnswered
    <3> QED  BY <3>1, MovesStill DEF bucket, Ups
  <2> QED  BY <2>1, <2>2, <2>3
<1>3. ASSUME NEW j \in Items, Works(items'[j])
      PROVE  Covered(items[j].upload)'
  BY <1>1, <1>2, <1>3, CoveredStays
<1>4. record'.id \in {record.id, None} /\ refresh'.open \subseteq refresh.open \cup OpenUploads
  BY <1>1, <1>2 DEF NoRecord, Asked
<1> QED  BY <1>1, <1>2, <1>3, <1>4, UpsStep
LEMMA UserUps ==
  ASSUME Typed, Runs, Ups, Typed', Runs', NEW i \in Items,
         Enqueue(i) \/ Pause(i) \/ Resume(i) \/ ResumeSession(i)
  PROVE  Ups'
<1>1. items[i] \in Item /\ UNCHANGED <<bucket, local, tray, orphans>>
  BY ItemOf DEF Enqueue, Pause, Resume, ResumeSession, local
<1>2. CASE Enqueue(i)
  <2> DEFINE x == [NewItem EXCEPT !.at = "pending", !.file = disk]
  <2>1. Set(i, x) /\ wire' = wire
    BY <1>2 DEF Enqueue
  <2>2. x \in Item /\ x.upload = None /\ x.at = "pending"
    BY NewItemType DEF Typed, RestTypes, Item
  <2> HIDE DEF x
  <2> QED  BY <1>1, <2>1, <2>2, UpsQuiet DEF Works
<1>3. CASE Pause(i)
  <2> DEFINE x == [items[i] EXCEPT !.at = "paused", !.todo = {}]
  <2>1. Set(i, x) /\ wire' = Abandoned(i)
    BY <1>3 DEF Pause
  <2>2. x \in Item /\ x.upload = items[i].upload /\ x.at = "paused"
    BY <1>1 DEF Item
  <2>3. \A r \in wire' : \E q \in wire : q.upload = r.upload
    BY <2>1, AbandonedType DEF Runs
  <2> HIDE DEF x
  <2> QED  BY <1>1, <2>1, <2>2, <2>3, UpsQuiet DEF Works
<1>4. CASE Resume(i)
  <2> DEFINE base == [items[i] EXCEPT !.at = "pending"]
             resumed == [base EXCEPT !.resume = TRUE, !.rsum = record.sum]
  <2>1. PICK x \in {base, resumed} : Set(i, x) /\ wire' = wire
    BY <1>4 DEF Resume
  <2>2. x \in Item /\ x.upload = items[i].upload /\ x.at = "pending"
    BY <1>1, S3Assumption DEF Item, Typed, RecordTypes, Record
  <2> QED  BY <1>1, <2>1, <2>2, UpsQuiet DEF Works
<1>5. CASE ResumeSession(i)
  <2>1. PICK s \in Offered :
          /\ s.mine
          /\ Set(i, [NewItem EXCEPT !.at = "pending", !.file = disk, !.upload = s.id,
                                    !.resume = TRUE, !.rsum = s.sum])
    BY <1>5 DEF ResumeSession
  <2> DEFINE x == [NewItem EXCEPT !.at = "pending", !.file = disk, !.upload = s.id,
                                  !.resume = TRUE, !.rsum = s.sum]
  <2>2. s \in sessions /\ s.id \in Uploads /\ s.sum \in 0..Versions
    BY DEF Offered, Typed, TrayTypes
  <2>3. x \in Item /\ x.upload = s.id /\ x.at = "pending"
    BY <2>2, NewItemType DEF Typed, RestTypes, Item
  <2> HIDE DEF x
  <2>4. Set(i, x) /\ wire' = wire
    BY <1>5, <2>1 DEF x, ResumeSession
  <2> QED  BY <1>1, <2>1, <2>2, <2>3, <2>4, UpsQuiet DEF Works
<1> QED  BY <1>2, <1>3, <1>4, <1>5

LEMMA CancelUps ==
  ASSUME Typed, Runs, Ups, Typed', Runs', NEW i \in Items, Cancel(i)
  PROVE  Ups'
<1> DEFINE item == items[i]
           x == IF item.at = "revived" THEN [item EXCEPT !.at = "stuck"]
                ELSE [item EXCEPT !.at = "cancelled", !.todo = {}]
<1>1. item \in Item /\ UNCHANGED <<bucket, local, tray, orphans>>
  BY ItemOf DEF Cancel
<1>2. Set(i, x)
  BY DEF Cancel
<1>3. x \in Item /\ x.upload = item.upload /\ x.at \in {"stuck", "cancelled"}
  BY <1>1 DEF Item, Undead, Ended
<1>4. \A r \in abortMultipartSession(item.upload) \cup {Req("abort", None, item.upload, Nothing)} :
         r.upload = item.upload
  BY DEF abortMultipartSession, Req
<1>5. \A r \in wire' : \/ r.upload = item.upload
                       \/ r \in wire \/ r \in Abandoned(i)
  BY <1>4 DEF Cancel
<1>6. \A r \in wire' : r.upload # None =>
         \/ \E q \in wire : q.upload = r.upload
         \/ r.upload = item.upload
  BY <1>5, AbandonedType DEF Runs
<1> HIDE DEF x
<1> QED  BY <1>1, <1>2, <1>3, <1>6, UpsQuiet DEF Works

LEMMA ReloadUps ==
  ASSUME Typed, Runs, Ups, Typed', Runs', Reload
  PROVE  Ups'
<1>1. Moves /\ sessions' = {} /\ refresh'.open = {}
  BY MovesStill DEF Reload, bucket, Ups, Asked
<1>2. \A j \in Items : /\ items'[j].upload = None
                       /\ ~Works(items'[j]) /\ items'[j].at # "create"
  <2>1. \A j \in Items : items'[j] \in {NewItem, [NewItem EXCEPT !.at = "closed"]}
    BY DEF Reload
  <2> QED  BY <2>1, NewItemType DEF Works, Item
<1>3. record'.id = record.id \/ \E j \in Items : record'.id = items[j].upload
  <2> DEFINE open == {j \in Items : /\ items[j].upload # None
                                    /\ items[j].at \notin {"new", "closed", "done", "cancelled"}}
  <2>1. CASE UNCHANGED <<record, lost>>
    BY <2>1
  <2>2. CASE Flush /\ open # {}
    <3>1. Max(open) \in open
      BY <2>2, S3Assumption, MaxIsIn DEF Items
    <3>2. Upsert(items[Max(open)].upload, IF items[Max(open)].resume THEN items[Max(open)].rsum
                                          ELSE None)
      BY <2>2 DEF Flush
    <3> QED  BY <3>1, <3>2 DEF Upsert
  <2> QED  BY <2>1, <2>2 DEF Reload, Flush
<1>4. \A r \in wire' : \E q \in wire : q.upload = r.upload
  <2>1. \A q \in wire : [q EXCEPT !.item = None,
                            !.kind = IF @ = "abortSession" THEN "abort" ELSE @].upload = q.upload
    BY DEF Runs, WireTypes, Request
  <2> QED  BY <2>1 DEF Reload
<1> QED  BY <1>1, <1>2, <1>3, <1>4, UpsStep

\* Steps that leave the items, and at most list or forget.
LEMMA StillUps ==
  ASSUME Typed, Runs, Ups, Typed', Runs',
         Edit \/ RefreshLists \/ RefreshEnds \/ AbortSession \/ UNCHANGED vars
  PROVE  Ups'
<1>1. Moves /\ items' = items /\ lost \subseteq lost' /\ upl' = upl
  BY MovesStill DEF Edit, RefreshLists, RefreshEnds, AbortSession, vars, bucket, local, Ups
<1>2. \/ record' = record
      \/ record' = NoRecord /\ (record.id # None => record.id \in lost' \/ upl'[record.id].state # "open")
  BY DEF Edit, RefreshLists, RefreshEnds, AbortSession, vars, local, IsOpen, bucket
<1>3. ASSUME NEW j \in Items, Works(items'[j])
      PROVE  Covered(items[j].upload)'
  BY <1>1, <1>2, <1>3, CoveredStays
<1>4. \A s \in sessions' : \/ s \in sessions
                           \/ s.mine /\ s.id = record'.id
                           \/ ~s.mine /\ s.id \in refresh.open
  <2>1. sessions' = sessions \/ sessions' = Merged(record')
    BY DEF Edit, RefreshLists, RefreshEnds, AbortSession, vars, tray
  <2> QED  BY <2>1 DEF Merged
<1>5. \A r \in wire' : r.upload # None => \/ \E q \in wire : q.upload = r.upload
                                         \/ \E s \in sessions : r.upload = s.id
  <2>1. CASE AbortSession
    BY <2>1 DEF AbortSession, Offered, abortMultipartSession, Req
  <2>2. CASE ~AbortSession
    BY <2>2 DEF Edit, RefreshLists, RefreshEnds, vars
  <2> QED  BY <2>1, <2>2
<1>6. refresh'.open \subseteq refresh.open \cup OpenUploads
  BY DEF Edit, RefreshLists, RefreshEnds, AbortSession, vars, tray, Idle, Listed
<1>7. record'.id \in {record.id, None}
  BY <1>2 DEF NoRecord
<1> QED  BY <1>1, <1>3, <1>4, <1>5, <1>6, <1>7, UpsStep

LEMMA UpsInit == Init => Ups
<1> SUFFICES ASSUME Init
             PROVE  Ups
  OBVIOUS
<1>1. \A u \in Uploads : ~Used(u) /\ upl[u].parts = Nothing
  BY DEF Init, Used
<1>2. OpenUploads = {}
  BY DEF Init, OpenUploads, IsOpen
<1>3. \A i \in Items : items[i].upload = None /\ items[i].at = "new"
  BY NewItemType DEF Init
<1>4. record.id = None /\ sessions = {} /\ wire = {} /\ refresh.open = {} /\ orphans = {}
  BY DEF Init, NoRecord, Idle
<1>5. Unborn /\ Swept1 /\ OneOpen
  BY <1>1, <1>2, <1>4 DEF Unborn, Swept1, OneOpen
<1>6. Knowledge /\ Recorded
  BY <1>3, <1>4 DEF Knowledge, Known, Recorded, Works
<1> QED  BY <1>5, <1>6 DEF Ups

LEMMA UpsNext == Typed /\ Runs /\ Ups /\ [Next]_vars => Ups'
<1> SUFFICES ASSUME Typed, Runs, Ups, [Next]_vars
             PROVE  Ups'
  OBVIOUS
<1>1. Typed' /\ Runs'
  BY RunsStep
<1>2. ASSUME NEW i \in Items, Start(i) \/ Step(i)
      PROVE  Ups'
  BY <1>1, <1>2, StartUploadUps, StartResumeUps, SendPartUps, VerifyUps, AnswerUps
     DEF Start, Step, Answer
<1>3. ASSUME NEW i \in Items,
             Enqueue(i) \/ Pause(i) \/ Resume(i) \/ Cancel(i) \/ ResumeSession(i)
      PROVE  Ups'
  BY <1>1, <1>3, UserUps, CancelUps
<1>4. ASSUME NEW r \in wire, Late(r) \/ AbortAnswered(r) \/ AbortLost(r)
      PROVE  Ups'
  BY <1>1, <1>4, LateUps
<1>5. CASE Edit \/ Reload \/ RefreshLists \/ RefreshEnds \/ AbortSession \/ UNCHANGED vars
  BY <1>1, <1>5, StillUps, ReloadUps
<1> QED  BY <1>2, <1>3, <1>4, <1>5 DEF Next

\* At most one multipart upload of the key is open, but for those whose
\* CreateMultipartUpload nobody waited for: abortInProgressMultipartUploadsForKey
\* runs before every one the queue makes, and only one run is under way.
THEOREM OneUploadIsOpen == Spec => []OneOpenUpload
<1>1. Init => Typed /\ Runs /\ Ups
  BY RunsInit, UpsInit
<1>2. Typed /\ Runs /\ Ups /\ [Next]_vars => (Typed /\ Runs /\ Ups)'
  BY RunsStep, UpsNext
<1>3. Typed /\ Runs /\ Ups => OneOpenUpload
  <2> SUFFICES ASSUME OneOpen
               PROVE  Cardinality(OpenUploads \ orphans) <= 1
    BY DEF Ups, OneOpenUpload
  <2> DEFINE S == OpenUploads \ orphans
  <2>1. CASE S = {}
    <3>1. Cardinality(S) = 0
      BY <2>1, FS_EmptySet, Zenon
    <3> QED  BY <3>1
  <2>2. CASE S # {}
    <3>1. PICK u \in S : TRUE
      BY <2>2
    <3>2. S = {u}
      BY <3>1 DEF OneOpen
    <3>3. Cardinality(S) = 1
      BY <3>2, FS_Singleton, Zenon
    <3> QED  BY <3>3
  <2> QED  BY <2>1, <2>2
<1> QED  BY <1>1, <1>2, <1>3, PTL DEF Spec

\* While a run sends parts to an open upload, local storage has its record.
THEOREM RunsAreRecorded == Spec => []RunningUploadIsRecorded
<1>1. Init => Typed /\ Runs /\ Ups
  BY RunsInit, UpsInit
<1>2. Typed /\ Runs /\ Ups /\ [Next]_vars => (Typed /\ Runs /\ Ups)'
  BY RunsStep, UpsNext
<1>3. Typed /\ Runs /\ Ups => RunningUploadIsRecorded
  BY DEF Ups, Recorded, RunningUploadIsRecorded, Covered, Works
<1> QED  BY <1>1, <1>2, <1>3, PTL DEF Spec
-----------------------------------------------------------------------------
(* The parts and the digests: nothing stored is newer than the file on disk, *)
(* and the digest kept with an upload is no newer than any of its parts.     *)

Stands(u) == u # None /\ upl[u].state = "ended" /\ Full(upl[u].parts)

NoNewer ==
  /\ \A u \in Uploads, p \in Parts : upl[u].parts[p] <= disk
  /\ \A r \in wire : r.kind = "part" => \A p \in Parts : r.data[p] <= disk
  /\ \A i \in Items : items[i].file <= disk

Older(s, content) == \A p \in Parts : content[p] # None => s <= content[p]

Origin(u, s) ==
  /\ s # None /\ s <= disk /\ Older(s, upl[u].parts)
  /\ \A r \in wire : r.kind = "part" /\ r.upload = u => Older(s, r.data)

Sound(u, s) == u # None /\ u \notin lost => Origin(u, s)

carried(item) == IF item.resume THEN item.rsum ELSE item.file

Digests ==
  /\ Sound(record.id, record.sum)
  /\ \A i \in Items : Sound(items[i].upload, carried(items[i]))
  /\ \A s \in sessions : s.mine => Sound(s.id, s.sum)

Verified == \A i \in Items : items[i].at = "verify" => small \/ Stands(items[i].upload)

Traced == NoNewer /\ (Check => Digests) /\ Verified

(* Where a step takes the parts of an upload and the requests for parts from. *)
BucketFlow ==
  \A u \in Uploads :
    /\ \A p \in Parts : \/ upl'[u].parts[p] = upl[u].parts[p]
                        \/ \E q \in wire : /\ q.kind = "part" /\ q.upload = u /\ q.data[p] # None
                                           /\ upl'[u].parts[p] = q.data[p]
    /\ upl[u].state = "ended" => upl'[u].state = "ended" /\ upl'[u].parts = upl[u].parts

WireFlow ==
  \A r \in wire' : r.kind = "part" =>
    \/ \E q \in wire : q.kind = "part" /\ q.upload = r.upload /\ q.data = r.data
    \/ \A p \in Parts : r.data[p] \in {None, disk}

(* The digest that goes with an upload after a step went with it before, or the
   upload is new. *)
Inherits(u, s) ==
  \/ u = None \/ u \in lost'
  \/ u = record.id /\ s = record.sum
  \/ \E i \in Items : u = items[i].upload /\ s = carried(items[i])
  \/ \E x \in sessions : x.mine /\ u = x.id /\ s = x.sum
  \/ /\ s # None /\ s <= disk /\ upl'[u].parts = Nothing
     /\ \A r \in wire' : r.kind = "part" => r.upload # u

Flow ==
  /\ disk <= disk' /\ lost \subseteq lost' /\ small' = small
  /\ BucketFlow /\ WireFlow
  /\ \A i \in Items : items'[i].file \in {items[i].file, disk, None}
  /\ Check => /\ Inherits(record'.id, record'.sum)
              /\ \A i \in Items : Inherits(items'[i].upload, carried(items'[i]))
              /\ \A x \in sessions' : x.mine => Inherits(x.id, x.sum)
  /\ \A i \in Items : items'[i].at = "verify" =>
       \/ items[i].at = "verify" /\ items'[i].upload = items[i].upload
       \/ small
       \/ Stands(items[i].upload)'

Numbered ==
  /\ disk \in 1..Versions /\ None = 0 /\ Versions \in Nat
  /\ \A u \in Uploads : upl[u].parts \in Content
  /\ \A u \in Uploads, p \in Parts : upl[u].parts[p] \in 0..Versions
  /\ \A r \in wire, p \in Parts : r.data[p] \in 0..Versions
  /\ \A i \in Items : /\ items[i].file \in 0..Versions /\ carried(items[i]) \in 0..Versions
                      /\ items[i].upload \in Uploads \cup {None}
  /\ record.sum \in 0..Versions
  /\ \A s \in sessions : s.sum \in 0..Versions /\ s.id \in Uploads

\* What is on disk, in the bucket and on the wire is numbered.
LEMMA Numbers == Typed /\ Runs => Numbered
<1> SUFFICES ASSUME Typed, Runs
             PROVE  Numbered
  OBVIOUS
<1>1. \A u \in Uploads : upl[u].parts \in Content
  BY DEF Typed, BucketTypes, Uploaded
<1>2. \A r \in wire : r.data \in Content
  BY DEF Runs, WireTypes, Request
<1>3. \A i \in Items : /\ items[i].file \in 0..Versions /\ items[i].rsum \in 0..Versions
                       /\ items[i].upload \in Uploads \cup {None}
  BY ItemOf DEF Item
<1>4. disk \in 1..Versions /\ record.sum \in 0..Versions
  BY DEF Typed, RestTypes, Files, RecordTypes, Record
<1>5. \A s \in sessions : s.sum \in 0..Versions /\ s.id \in Uploads
  BY DEF Typed, TrayTypes
<1>6. Versions \in Nat /\ None = 0
  BY S3Assumption DEF None
<1>7. \A i \in Items : carried(items[i]) \in 0..Versions
  BY <1>3 DEF carried
<1> QED  BY <1>1, <1>2, <1>3, <1>4, <1>5, <1>6, <1>7 DEF Content, Numbered

LEMMA NumbersNext == Typed' /\ Runs' => Numbered'
BY Numbers, PTL

\* A digest that was sound with its upload stays so.
LEMMA InheritsSound ==
  ASSUME Typed, Runs, Typed', Runs', Traced, Flow, Check,
         NEW u \in Uploads \cup {None}, NEW s \in 0..Versions, Inherits(u, s),
         u # None, u \notin lost'
  PROVE  /\ s # None /\ s <= disk'
         /\ \A p \in Parts : upl'[u].parts[p] # None => s <= upl'[u].parts[p]
         /\ \A r \in wire' : r.kind = "part" /\ r.upload = u =>
              \A p \in Parts : r.data[p] # None => s <= r.data[p]
<1>1. u \in Uploads /\ u \notin lost /\ disk \in 1..Versions /\ disk' \in 1..Versions
      /\ disk <= disk' /\ Versions \in Nat
  BY Numbers, NumbersNext DEF Flow, Numbered
<1>2. CASE /\ s # None /\ s <= disk /\ upl'[u].parts = Nothing
           /\ \A r \in wire' : r.kind = "part" => r.upload # u
  BY <1>1, <1>2 DEF Nothing
<1>3. CASE Origin(u, s)
  <2>1. s # None /\ s <= disk
    BY <1>3 DEF Origin
  <2>2. ASSUME NEW p \in Parts, upl'[u].parts[p] # None
        PROVE  s <= upl'[u].parts[p]
    <3>1. \/ upl'[u].parts[p] = upl[u].parts[p]
          \/ \E q \in wire : /\ q.kind = "part" /\ q.upload = u /\ q.data[p] # None
                             /\ upl'[u].parts[p] = q.data[p]
      BY <1>1 DEF Flow, BucketFlow
    <3> QED  BY <1>3, <2>2, <3>1 DEF Origin, Older
  <2>3. ASSUME NEW r \in wire', r.kind = "part", r.upload = u, NEW p \in Parts, r.data[p] # None
        PROVE  s <= r.data[p]
    <3>1. \/ \E q \in wire : q.kind = "part" /\ q.upload = r.upload /\ q.data = r.data
          \/ r.data[p] = disk
      BY <2>3 DEF Flow, WireFlow
    <3>2. CASE \E q \in wire : q.kind = "part" /\ q.upload = r.upload /\ q.data = r.data
      BY <1>3, <2>3, <3>2 DEF Origin, Older
    <3> QED  BY <2>1, <3>1, <3>2
  <2> QED  BY <1>1, <2>1, <2>2, <2>3
<1>4. Digests /\ u # None
  BY DEF Traced
<1>5. CASE u = record.id /\ s = record.sum
  BY <1>1, <1>3, <1>4, <1>5 DEF Digests, Sound
<1>6. CASE \E i \in Items : u = items[i].upload /\ s = carried(items[i])
  BY <1>1, <1>3, <1>4, <1>6 DEF Digests, Sound
<1>7. CASE \E x \in sessions : x.mine /\ u = x.id /\ s = x.sum
  BY <1>1, <1>3, <1>4, <1>7 DEF Digests, Sound
<1> QED  BY <1>2, <1>5, <1>6, <1>7 DEF Inherits

LEMMA TracedStep ==
  ASSUME Typed, Runs, Typed', Runs', Traced, Flow
  PROVE  Traced'
<1>1. disk \in 1..Versions /\ disk' \in 1..Versions /\ disk <= disk' /\ Versions \in Nat
      /\ None = 0
  BY Numbers, NumbersNext DEF Flow, Numbered
<1>2. ASSUME NEW u \in Uploads, NEW p \in Parts
      PROVE  upl'[u].parts[p] <= disk'
  <2>1. upl'[u].parts[p] <= disk
    BY DEF Flow, BucketFlow, Traced, NoNewer
  <2>2. upl'[u].parts[p] \in 0..Versions
    BY NumbersNext DEF Numbered
  <2> QED  BY <1>1, <2>1, <2>2
<1>3. ASSUME NEW r \in wire', r.kind = "part", NEW p \in Parts
      PROVE  r.data[p] <= disk'
  <2>1. r.data[p] <= disk
    <3>1. CASE \E q \in wire : q.kind = "part" /\ q.upload = r.upload /\ q.data = r.data
      BY <3>1 DEF Traced, NoNewer
    <3>2. CASE r.data[p] \in {None, disk}
      BY <1>1, <3>2
    <3> QED  BY <1>3, <3>1, <3>2 DEF Flow, WireFlow
  <2>2. r.data[p] \in 0..Versions
    BY NumbersNext DEF Numbered
  <2> QED  BY <1>1, <2>1, <2>2
<1>4. ASSUME NEW i \in Items
      PROVE  items'[i].file <= disk'
  <2>1. items'[i].file \in {items[i].file, disk, None} /\ items[i].file <= disk
    BY DEF Flow, Traced, NoNewer
  <2>2. items'[i].file \in 0..Versions
    BY NumbersNext DEF Numbered
  <2> QED  BY <1>1, <2>1, <2>2
<1>5. NoNewer'
  BY <1>2, <1>3, <1>4 DEF NoNewer
<1>6. Check => Digests'
  <2> SUFFICES ASSUME Check
               PROVE  Digests'
    OBVIOUS
  <2>1. Sound(record.id, record.sum)'
    <3>1. record'.id \in Uploads \cup {None} /\ record'.sum \in 0..Versions
          /\ Inherits(record'.id, record'.sum)
      BY DEF Flow, Typed, RecordTypes, Record
    <3> QED  BY <3>1, InheritsSound DEF Sound, Origin, Older
  <2>2. ASSUME NEW i \in Items
        PROVE  Sound(items[i].upload, carried(items[i]))'
    <3>1. items'[i].upload \in Uploads \cup {None} /\ carried(items'[i]) \in 0..Versions
          /\ Inherits(items'[i].upload, carried(items'[i]))
      BY NumbersNext DEF Flow, Numbered
    <3> HIDE DEF carried
    <3> QED  BY <3>1, InheritsSound DEF Sound, Origin, Older
  <2>3. ASSUME NEW x \in sessions', x.mine
        PROVE  Sound(x.id, x.sum)'
    <3>1. x.id \in Uploads \cup {None} /\ x.sum \in 0..Versions /\ Inherits(x.id, x.sum)
      BY <2>3, NumbersNext DEF Flow, Numbered
    <3> QED  BY <3>1, InheritsSound DEF Sound, Origin, Older
  <2> QED  BY <2>1, <2>2, <2>3 DEF Digests
<1>7. Verified'
  <2> SUFFICES ASSUME NEW i \in Items, items'[i].at = "verify", ~small'
               PROVE  Stands(items[i].upload)'
    BY DEF Verified
  <2>1. CASE items[i].at = "verify" /\ items'[i].upload = items[i].upload
    <3>1. Stands(items[i].upload) /\ items[i].upload \in Uploads
      BY <2>1, ItemOf DEF Flow, Traced, Verified, Stands
    <3>2. upl'[items[i].upload].state = "ended"
          /\ upl'[items[i].upload].parts = upl[items[i].upload].parts
      BY <3>1 DEF Flow, BucketFlow, Stands
    <3> QED  BY <2>1, <3>1, <3>2 DEF Stands, Full
  <2> QED  BY <2>1 DEF Flow
<1> QED  BY <1>5, <1>6, <1>7 DEF Traced

\* Where the parts come from.
LEMMA FlowPerform ==
  ASSUME BucketTypes, NEW r \in wire, r \in Request, Accepts(r), r.kind # "create", Perform(r)
  PROVE  BucketFlow
<1> SUFFICES ASSUME NEW u \in Uploads
             PROVE  /\ \A p \in Parts :
                         \/ upl'[u].parts[p] = upl[u].parts[p]
                         \/ \E q \in wire : /\ q.kind = "part" /\ q.upload = u
                                            /\ q.data[p] # None
                                            /\ upl'[u].parts[p] = q.data[p]
                    /\ upl[u].state = "ended" =>
                         upl'[u].state = "ended" /\ upl'[u].parts = upl[u].parts
  BY DEF BucketFlow
<1>1. Ages(u)
  BY Performed
<1>2. CASE r.kind = "part" /\ r.upload = u
  <2>1. upl'[u].state = upl[u].state /\ Stored(u, r.data) /\ upl[u].state = "open"
    BY <1>2, Performed
  <2> QED  BY <1>2, <2>1 DEF Stored
<1>3. CASE ~(r.kind = "part" /\ r.upload = u)
  <2>1. upl'[u].parts = upl[u].parts
    BY <1>3, Performed
  <2> QED  BY <1>1, <2>1 DEF Ages
<1> QED  BY <1>2, <1>3

LEMMA FlowStill ==
  ASSUME UNCHANGED upl
  PROVE  BucketFlow
BY DEF BucketFlow

LEMMA FlowCreate ==
  ASSUME BucketTypes, NEW u \in Uploads, Create(u)
  PROVE  BucketFlow
BY Created DEF BucketFlow

LEMMA FlowUnheard ==
  ASSUME BucketTypes, NEW r \in wire, r \in Request, Unheard(r)
  PROVE  BucketFlow
BY FlowPerform, FlowStill, FlowCreate DEF Unheard, bucket
Keeps(x, item) == /\ x.upload = item.upload /\ x.file = item.file
                  /\ x.resume = item.resume /\ x.rsum = item.rsum

\* A step of one item.
LEMMA ItemFlow ==
  ASSUME Typed, Runs, Runs', disk' = disk, small' = small, lost \subseteq lost',
         BucketFlow, WireFlow, sessions' = sessions,
         NEW i \in Items, NEW x \in Item, Set(i, x), x.file \in {items[i].file, disk},
         Check => Inherits(x.upload, carried(x)),
         Check => Inherits(record'.id, record'.sum),
         x.at = "verify" => \/ small
                            \/ /\ x.upload # None /\ upl'[x.upload].state = "ended"
                               /\ Full(upl'[x.upload].parts)
  PROVE  Flow
<1>1. items'[i] = x /\ \A j \in Items \ {i} : items'[j] = items[j]
  BY DEF Runs, ItemTypes, Set
<1>2. disk <= disk'
  BY Numbers DEF Numbered
<1>3. ASSUME NEW j \in Items
      PROVE  /\ items'[j].file \in {items[j].file, disk, None}
             /\ Check => Inherits(items'[j].upload, carried(items'[j]))
             /\ items'[j].at = "verify" =>
                  \/ items[j].at = "verify" /\ items'[j].upload = items[j].upload
                  \/ small \/ Stands(items[j].upload)'
  <2>1. CASE j = i
    BY <1>1, <2>1 DEF Stands, Full
  <2>2. CASE j # i
    <3>1. items'[j] = items[j]
      BY <1>1, <2>2
    <3> QED  BY <3>1 DEF Inherits
  <2> QED  BY <2>1, <2>2
<1>4. \A s \in sessions' : s.mine => Inherits(s.id, s.sum)
  BY DEF Inherits
<1> QED  BY <1>2, <1>3, <1>4 DEF Flow

LEMMA RecordFlow ==
  ASSUME Typed, Runs, Traced, Check, NEW i \in Items,
         \/ UNCHANGED record
         \/ record' = NoRecord
         \/ Persist(items[i]) \/ PersistProgress(items[i])
  PROVE  Inherits(record'.id, record'.sum)
<1>1. CASE UNCHANGED record \/ record' = NoRecord
  BY <1>1 DEF Inherits, NoRecord
<1>2. CASE Persist(items[i])
  <2>1. record' = [id |-> items[i].upload, sum |-> sum(items[i])]
    BY <1>2 DEF Persist, Upsert
  <2>2. CASE items[i].upload # None /\ items[i].upload \notin lost
    <3>1. carried(items[i]) # None
      BY <2>2 DEF Traced, Digests, Sound, Origin
    <3>2. sum(items[i]) = carried(items[i])
      BY <3>1 DEF sum, carried
    <3> QED  BY <2>1, <3>2 DEF Inherits
  <2>3. CASE items[i].upload = None \/ items[i].upload \in lost
    BY <1>2, <2>1, <2>3 DEF Inherits, Persist, Upsert
  <2> QED  BY <2>2, <2>3
<1>3. CASE PersistProgress(items[i])
  BY <1>3 DEF PersistProgress, Upsert, Inherits
<1> QED  BY <1>1, <1>2, <1>3

LEMMA LostGrows ==
  /\ \A u, s : Upsert(u, s) => lost \subseteq lost'
  /\ \A item : Persist(item) \/ PersistProgress(item) => lost \subseteq lost'
BY DEF Upsert, Persist, PersistProgress

\* A step of an item that keeps what its digest is taken from.
LEMMA KeptFlow ==
  ASSUME Typed, Runs, Traced, Runs', disk' = disk, small' = small,
         BucketFlow, WireFlow, sessions' = sessions,
         NEW i \in Items, NEW x, Set(i, x), Keeps(x, items[i]),
         \/ UNCHANGED <<record, lost>>
         \/ record' = NoRecord /\ lost' = lost
         \/ Persist(items[i]) \/ PersistProgress(items[i]),
         x.at = "verify" => \/ small
                            \/ /\ x.upload # None /\ upl'[x.upload].state = "ended"
                               /\ Full(upl'[x.upload].parts)
  PROVE  Flow
<1>1. x \in Item
  <2>1. items' \in [Items -> Item] /\ items'[i] = x
    BY DEF Runs, ItemTypes, Set
  <2> QED  BY <2>1
<1>2. lost \subseteq lost' /\ (Check => Inherits(record'.id, record'.sum))
  BY RecordFlow, LostGrows
<1>3. Inherits(x.upload, carried(x))
  BY DEF Keeps, Inherits, carried
<1> QED  BY <1>1, <1>2, <1>3, ItemFlow DEF Keeps

LEMMA StartFlow ==
  ASSUME Typed, Runs, Traced, Runs', NEW i \in Items, Start(i)
  PROVE  Flow
<1> DEFINE item == items[i]
<1>1. /\ item \in Item /\ UNCHANGED <<upl, disk, small, sessions>>
      /\ \A r \in wire' : r \in wire \/ r.kind # "part"
  BY ItemOf DEF Start, StartUpload, StartResume, bucket, tray, Req
<1>2. BucketFlow /\ WireFlow
  BY <1>1, FlowStill DEF WireFlow
<1>3. PICK p \in {"failed", "put", "sweep", "list"} : Set(i, [item EXCEPT !.at = p])
  BY DEF Start, StartUpload, StartResume, Failed
<1>4. UNCHANGED <<record, lost>> \/ Persist(item)
  BY DEF Start, StartUpload, StartResume, local
<1> DEFINE x == [item EXCEPT !.at = p]
<1>5. Set(i, x) /\ Keeps(x, item) /\ x.at # "verify"
  BY <1>1, <1>3 DEF Item, Keeps
<1> HIDE DEF x
<1> QED  BY <1>1, <1>2, <1>4, <1>5, KeptFlow

LEMMA SendPartFlow ==
  ASSUME Typed, Runs, Traced, Runs', NEW i \in Items, SendPart(i)
  PROVE  Flow
<1> DEFINE item == items[i]
           p == Min(item.todo)
           rest == [item EXCEPT !.todo = @ \ {p}]
           tired == [rest EXCEPT !.workers = @ - 1]
<1>1. /\ item \in Item /\ UNCHANGED <<upl, disk, small, sessions>>
      /\ (item.at = "parts" \/ Ghost(item))
  BY ItemOf DEF SendPart, bucket, tray
<1>2. BucketFlow /\ item.at # "verify"
  BY <1>1, FlowStill DEF Ghost, Undead
<1>3. /\ Keeps(rest, item) /\ rest.at = item.at
      /\ Keeps(tired, item) /\ tired.at = item.at
      /\ Keeps(Failed(tired), item) /\ Failed(tired).at = "failed"
  BY <1>1 DEF Item, Failed, Keeps
<1>4. CASE Readable(item)
  <2>1. /\ Set(i, rest) /\ UNCHANGED local
        /\ wire' = wire \cup {Req("part", i, item.upload, [Nothing EXCEPT ![p] = item.file])}
    BY <1>4 DEF SendPart
  <2>2. \A n \in Parts : [Nothing EXCEPT ![p] = item.file][n] \in {None, disk}
    BY <1>4 DEF Nothing, Readable
  <2>3. WireFlow
    <3> DEFINE data == [Nothing EXCEPT ![p] = item.file]
               q == Req("part", i, item.upload, data)
    <3>1. wire' = wire \cup {q} /\ q.data = data
      BY <2>1 DEF Req
    <3>2. \A n \in Parts : data[n] \in {None, disk}
      BY <2>2
    <3> HIDE DEF data, q
    <3> QED  BY <3>1, <3>2 DEF WireFlow
  <2> HIDE DEF rest
  <2> QED  BY <1>1, <1>2, <1>3, <2>1, <2>3, KeptFlow DEF local
<1>5. CASE ~Readable(item)
  <2>1. /\ wire' = wire
        /\ \/ Set(i, tired) /\ UNCHANGED <<record, lost>>
           \/ Set(i, Failed(tired)) /\ Persist(item)
    BY <1>5 DEF SendPart
  <2>2. WireFlow
    BY <2>1 DEF WireFlow
  <2> HIDE DEF tired
  <2>3. CASE Set(i, tired) /\ UNCHANGED <<record, lost>>
    BY <1>1, <1>2, <1>3, <2>2, <2>3, KeptFlow
  <2>4. CASE Set(i, Failed(tired)) /\ Persist(item)
    BY <1>1, <1>2, <1>3, <2>2, <2>4, KeptFlow
  <2> QED  BY <2>1, <2>3, <2>4
<1> QED  BY <1>4, <1>5

LEMMA StopFlow ==
  ASSUME Typed, Runs, Traced, Runs', NEW i \in Items, NEW r \in wire, r.item = i,
         Stop(i, r), UNCHANGED <<disk, small, sessions>>, BucketFlow
  PROVE  Flow
<1> DEFINE item == items[i]
           tired == [item EXCEPT !.workers = @ - 1]
<1>1. /\ item \in Item /\ Fits(item, r) /\ wire' = wire \ {r}
  BY ItemOf DEF Stop
<1>2. WireFlow
  BY <1>1 DEF WireFlow
<1>3. /\ Keeps(tired, item) /\ tired.at = item.at
      /\ Keeps(Failed(tired), item) /\ Failed(tired).at = "failed"
      /\ Keeps(Failed(item), item) /\ Failed(item).at = "failed"
  BY <1>1 DEF Item, Failed, Keeps
<1>4. CASE r.kind = "part" /\ Ghost(item)
  <2>1. Set(i, tired) /\ UNCHANGED <<record, lost>> /\ item.at # "verify"
    BY <1>4 DEF Stop, Ghost, Undead
  <2> HIDE DEF tired
  <2> QED  BY <1>2, <1>3, <2>1, KeptFlow
<1>5. CASE r.kind = "part" /\ ~Ghost(item)
  <2>1. Set(i, Failed(tired)) /\ Persist(item)
    BY <1>5 DEF Stop
  <2> HIDE DEF tired
  <2> QED  BY <1>2, <1>3, <2>1, KeptFlow
<1>6. CASE r.kind # "part"
  <2>1. Set(i, Failed(item)) /\ (UNCHANGED <<record, lost>> \/ Persist(item))
    BY <1>1, <1>6 DEF Stop, Fits
  <2> QED  BY <1>2, <1>3, <2>1, KeptFlow
<1> QED  BY <1>4, <1>5, <1>6
LEMMA ContinueFlow ==
  ASSUME Typed, Runs, Traced, Runs', NEW i \in Items, NEW r \in wire, Succeed(i, r),
         r.kind # "create"
  PROVE  Flow
<1> DEFINE item == items[i]
<1>1. /\ item \in Item /\ Fits(item, r) /\ ItemFits(item) /\ r \in Request /\ r.item = i
      /\ Accepts(r) /\ Perform(r) /\ Continue(i, r) /\ UNCHANGED <<disk, small, sessions>>
  BY ItemOf DEF Succeed, Runs, WireTypes
<1>2. BucketFlow
  BY <1>1, FlowPerform DEF Typed
<1>3. r.kind # "part" => item.at = r.kind
  BY <1>1, OnlyRequest
<1>4. CASE r.kind \in {"sweep", "delete"}
  <2>1. /\ Set(i, [item EXCEPT !.at = "create"]) \/ Set(i, [item EXCEPT !.at = "failed"])
        /\ UNCHANGED local
    BY <1>1, <1>4 DEF Continue, Failed
  <2>2. wire' = wire \ {r} \/ wire' = (wire \ {r}) \cup {Req("create", i, None, Nothing)}
    BY <1>1, <1>4 DEF Continue
  <2>3. WireFlow
    BY <2>2 DEF WireFlow, Req
  <2>4. PICK p \in {"create", "failed"} : Set(i, [item EXCEPT !.at = p])
    BY <2>1
  <2> DEFINE x == [item EXCEPT !.at = p]
  <2>5. Set(i, x) /\ Keeps(x, item) /\ x.at # "verify"
    BY <1>1, <2>4 DEF Item, Keeps
  <2> HIDE DEF x
  <2> QED  BY <1>1, <1>2, <2>1, <2>3, <2>5, KeptFlow DEF local
<1>5. CASE r.kind = "list"
  <2> DEFINE have == upl[item.upload].parts
             todo == {p \in Parts : have[p] = None}
             x == [item EXCEPT !.got = have, !.todo = todo, !.workers = Queue,
                               !.at = IF todo = {} THEN "complete" ELSE "parts"]
  <2>1. /\ Set(i, x) /\ PersistProgress(item)
        /\ wire' = IF todo = {} THEN (wire \ {r}) \cup {Complete(i, x)} ELSE wire \ {r}
    BY <1>1, <1>5 DEF Continue
  <2> HIDE DEF have, todo
  <2>2. Keeps(x, item) /\ x.at \in {"parts", "complete"}
    BY <1>1 DEF Item, Keeps
  <2> HIDE DEF x
  <2>3. WireFlow
    BY <2>1 DEF WireFlow, Complete, Req
  <2> QED  BY <1>1, <1>2, <2>1, <2>2, <2>3, KeptFlow
<1>6. CASE r.kind = "part"
  <2> DEFINE got == [p \in Parts |-> IF r.data[p] # None THEN r.data[p] ELSE item.got[p]]
             full == \A p \in Parts : got[p] # None
             x == [item EXCEPT !.got = got, !.at = IF full THEN "complete" ELSE "parts"]
             y == [item EXCEPT !.at = "revived"]
  <2>1. PartStored(i, r)
    BY <1>1, <1>6 DEF Continue
  <2>2. CASE item.at = "parts"
    <3>1. /\ Set(i, x) /\ PersistProgress(item)
          /\ wire' = IF full THEN (wire \ {r}) \cup {Complete(i, x)} ELSE wire \ {r}
      BY <2>1, <2>2 DEF PartStored
    <3> HIDE DEF got, full
    <3>2. Keeps(x, item) /\ x.at \in {"parts", "complete"}
      BY <1>1 DEF Item, Keeps
    <3> HIDE DEF x
    <3>3. WireFlow
      BY <3>1 DEF WireFlow, Complete, Req
    <3> QED  BY <1>1, <1>2, <3>1, <3>2, <3>3, KeptFlow
  <2>3. CASE item.at # "parts"
    <3>1. /\ wire' = wire \ {r}
          /\ \/ Set(i, y) /\ PersistProgress(item)
             \/ items' = items /\ UNCHANGED local /\ item.at = "stuck"
      BY <2>1, <2>3 DEF PartStored
    <3>2. WireFlow
      BY <3>1 DEF WireFlow
    <3>3. Keeps(y, item) /\ y.at = "revived"
      BY <1>1 DEF Item, Keeps
    <3> HIDE DEF y
    <3>4. CASE Set(i, y) /\ PersistProgress(item)
      BY <1>1, <1>2, <3>2, <3>3, <3>4, KeptFlow
    <3>5. CASE items' = items /\ UNCHANGED local /\ item.at = "stuck"
      <4>1. Set(i, items[i]) /\ Keeps(items[i], items[i])
        BY <3>5 DEF Set, Keeps, Runs, ItemTypes
      <4> QED  BY <1>1, <1>2, <3>2, <3>5, <4>1, KeptFlow DEF local
    <3> QED  BY <3>1, <3>4, <3>5
  <2> QED  BY <2>2, <2>3
<1>7. CASE r.kind \in {"put", "complete"}
  <2>1. Published(i, item) /\ wire' = wire \ {r} /\ UNCHANGED lost
    BY <1>1, <1>7 DEF Continue
  <2>2. PICK p \in {"verify", "done"} : Set(i, [item EXCEPT !.at = p])
    BY <2>1 DEF Published, Done
  <2>3. record' = record \/ record' = NoRecord
    BY <2>1 DEF Published, Done, removeMultipartRecord
  <2>4. WireFlow
    BY <2>1 DEF WireFlow
  <2> DEFINE x == [item EXCEPT !.at = p]
  <2>5. Set(i, x) /\ Keeps(x, item)
    BY <1>1, <2>2 DEF Item, Keeps
  <2>6. \/ small
        \/ /\ x.upload # None /\ upl'[x.upload].state = "ended" /\ Full(upl'[x.upload].parts)
    <3>1. CASE r.kind = "put"
      BY <1>1, <1>3, <3>1 DEF ItemFits
    <3>2. CASE r.kind = "complete"
      <4>1. r.upload = item.upload /\ r.data = item.got /\ Full(item.got) /\ item.upload # None
        BY <1>1, <3>2 DEF Fits, ItemFits
      <4>2. upl[r.upload].parts = r.data /\ r.upload \in Uploads
        BY <1>1, <3>2, <4>1 DEF Accepts, Request
      <4>3. upl'[r.upload].state = "ended" /\ upl'[r.upload].parts = upl[r.upload].parts
        BY <1>1, <3>2, <4>2, Performed DEF Typed
      <4> QED  BY <2>5, <4>1, <4>2, <4>3 DEF Keeps, Full
    <3> QED  BY <1>7, <3>1, <3>2
  <2> HIDE DEF x
  <2> QED  BY <1>1, <1>2, <2>1, <2>3, <2>4, <2>5, <2>6, KeptFlow
<1>8. r.kind \in {"part", "complete", "list", "put", "sweep", "create", "delete"}
  BY <1>1 DEF Fits
<1> QED  BY <1>4, <1>5, <1>6, <1>7, <1>8

LEMMA CreateFlow ==
  ASSUME Typed, Runs, Ups, Traced, Typed', Runs', NEW i \in Items, NEW r \in wire,
         Succeed(i, r), r.kind = "create"
  PROVE  Flow
<1>1. PICK u \in Uploads :
        /\ Create(u)
        /\ items' = [items EXCEPT ![i] = [items[i] EXCEPT !.at = "parts", !.upload = u,
                                     !.todo = Parts, !.got = Nothing, !.workers = Queue]]
        /\ Persist(items'[i])
  BY CreateRuns
<1>2. /\ r.item = i /\ wire' = wire \ {r} /\ UNCHANGED <<disk, small, sessions>>
      /\ items[i].at = "create" /\ items[i] \in Item /\ ItemFits(items[i])
  <2>1. r.item = i /\ wire' = wire \ {r} /\ UNCHANGED <<disk, small, sessions>>
    BY DEF Succeed
  <2> QED  BY <2>1, OnlyRequest, ItemOf
<1> DEFINE x == [items[i] EXCEPT !.at = "parts", !.upload = u, !.todo = Parts,
                                 !.got = Nothing, !.workers = Queue]
<1>3. Set(i, x) /\ items'[i] = x
  BY <1>1 DEF Set, Runs, ItemTypes
<1>4. x \in Item
  BY <1>3 DEF Runs, ItemTypes
<1>5. x.upload = u /\ x.at = "parts" /\ x.file = items[i].file /\ x.resume = FALSE
  BY <1>2 DEF ItemFits, Item
<1> HIDE DEF x
<1>6. x.file \in Files /\ x.file <= disk
  BY <1>2, <1>5 DEF ItemFits, Traced, NoNewer
<1>7. upl'[u].parts = Nothing /\ upl[u].state = "unused"
  BY <1>1, Created DEF Typed, Ups, Unborn, Used
<1>8. \A q \in wire' : q.upload # u
  BY <1>2, <1>7 DEF Ups, Knowledge, Used, Uploads, None
<1>9. x.file # None
  BY <1>6 DEF Files, None
<1>10. Inherits(u, x.file)
  BY <1>6, <1>7, <1>8, <1>9 DEF Inherits
<1>11. carried(x) = x.file /\ (Check => record'.id = u /\ record'.sum = x.file)
  BY <1>1, <1>3, <1>5 DEF carried, Persist, Upsert, sum
<1>12. lost \subseteq lost'
  BY <1>1, LostGrows
<1>13. BucketFlow /\ WireFlow
  BY <1>1, <1>2, FlowCreate DEF Typed, WireFlow
<1> QED  BY <1>2, <1>3, <1>4, <1>5, <1>10, <1>11, <1>12, <1>13, ItemFlow

LEMMA AnswerFlow ==
  ASSUME Typed, Runs, Ups, Traced, Typed', Runs', NEW i \in Items, NEW r \in wire,
         Succeed(i, r) \/ Refuse(i, r) \/ Lose(i, r)
  PROVE  Flow
<1>1. CASE Succeed(i, r)
  BY <1>1, ContinueFlow, CreateFlow
<1>2. CASE Refuse(i, r)
  BY <1>2, FlowStill, StopFlow DEF Refuse, bucket, tray
<1>3. CASE Lose(i, r)
  BY <1>3, FlowUnheard, StopFlow DEF Lose, tray, Typed, Runs, WireTypes
<1> QED  BY <1>1, <1>2, <1>3

LEMMA VerifyFlow ==
  ASSUME Typed, Runs, Traced, Runs', NEW i \in Items, Verify(i)
  PROVE  Flow
<1> DEFINE item == items[i]
<1>1. item \in Item /\ UNCHANGED <<upl, disk, small, lost, sessions>>
  BY ItemOf DEF Verify, bucket
<1>2. PICK p \in {"failed", "done", "delete"} : Set(i, [item EXCEPT !.at = p])
  BY DEF Verify, Failed, Done
<1> DEFINE x == [item EXCEPT !.at = p]
<1>3. Set(i, x) /\ Keeps(x, item) /\ x.at # "verify"
  BY <1>1, <1>2 DEF Item, Keeps
<1> HIDE DEF x
<1>4. record' = record \/ record' = NoRecord
  BY DEF Verify, Done, removeMultipartRecord
<1>5. WireFlow
  BY DEF Verify, WireFlow, Req, Done
<1>6. BucketFlow
  BY <1>1, FlowStill
<1> QED  BY <1>1, <1>3, <1>4, <1>5, <1>6, KeptFlow
\* A step that leaves the items.
LEMMA StillFlow ==
  ASSUME Typed, Runs, disk <= disk', small' = small, lost \subseteq lost',
         BucketFlow, WireFlow, items' = items, record' = record \/ record' = NoRecord,
         \A s \in sessions' : s.mine => \/ s \in sessions
                                        \/ s.id = record'.id /\ s.sum = record'.sum
  PROVE  Flow
<1>1. Inherits(record'.id, record'.sum)
  BY DEF Inherits, NoRecord
<1>2. \A s \in sessions' : s.mine => Inherits(s.id, s.sum)
  BY <1>1 DEF Inherits
<1>3. \A j \in Items : Inherits(items'[j].upload, carried(items'[j]))
  BY DEF Inherits
<1> QED  BY <1>1, <1>2, <1>3 DEF Flow

LEMMA LateFlow ==
  ASSUME Typed, Runs, NEW r \in wire, Late(r) \/ AbortAnswered(r) \/ AbortLost(r)
  PROVE  Flow
<1>1. /\ r \in Request /\ wire' = wire \ {r} /\ items' = items /\ sessions' = sessions
      /\ lost' = lost /\ UNCHANGED <<disk, small>> /\ (record' = record \/ record' = NoRecord)
  BY DEF Late, AbortAnswered, AbortLost, Runs, WireTypes, local, tray, removeMultipartRecord
<1>2. BucketFlow
  <2>1. CASE Late(r) \/ AbortLost(r)
    BY <1>1, <2>1, FlowUnheard DEF Late, AbortLost, Typed
  <2>2. CASE AbortAnswered(r)
    <3>1. r.kind # "create" /\ \/ Accepts(r) /\ Perform(r)
                               \/ UNCHANGED bucket
      BY <2>2 DEF AbortAnswered
    <3> QED  BY <1>1, <3>1, FlowPerform, FlowStill DEF Typed, bucket
  <2> QED  BY <2>1, <2>2
<1>3. WireFlow /\ disk <= disk'
  BY <1>1, Numbers DEF WireFlow, Numbered
<1> QED  BY <1>1, <1>2, <1>3, StillFlow

LEMMA TrayFlow ==
  ASSUME Typed, Runs,
         Edit \/ RefreshLists \/ RefreshEnds \/ AbortSession \/ UNCHANGED vars
  PROVE  Flow
<1>1. upl' = upl /\ items' = items /\ small' = small /\ disk <= disk' /\ lost \subseteq lost'
  BY Numbers DEF Edit, RefreshLists, RefreshEnds, AbortSession, vars, bucket, local, Numbered
<1>2. record' = record \/ record' = NoRecord
  BY DEF Edit, RefreshLists, RefreshEnds, AbortSession, vars, local
<1>3. \A s \in sessions' : s.mine => \/ s \in sessions
                                     \/ s.id = record'.id /\ s.sum = record'.sum
  <2>1. sessions' = sessions \/ sessions' = Merged(record')
    BY DEF Edit, RefreshLists, RefreshEnds, AbortSession, vars, tray
  <2> QED  BY <2>1 DEF Merged
<1>4. \A r \in wire' : r \in wire \/ r.kind # "part"
  BY DEF Edit, RefreshLists, RefreshEnds, AbortSession, vars, abortMultipartSession, Req
<1>5. BucketFlow /\ WireFlow
  BY <1>1, <1>4, FlowStill DEF WireFlow
<1> QED  BY <1>1, <1>2, <1>3, <1>5, StillFlow

LEMMA UserFlow ==
  ASSUME Typed, Runs, Traced, Runs', NEW i \in Items,
         Enqueue(i) \/ Pause(i) \/ Resume(i) \/ Cancel(i) \/ ResumeSession(i)
  PROVE  Flow
<1> DEFINE item == items[i]
<1>1. item \in Item /\ UNCHANGED <<upl, record, lost, disk, small, sessions>>
  BY ItemOf DEF Enqueue, Pause, Resume, Cancel, ResumeSession, bucket, local, tray
<1>2. BucketFlow
  BY <1>1, FlowStill
<1>3. WireFlow
  <2>1. \A r \in Abandoned(i) : \E q \in wire : /\ r.kind = q.kind /\ r.upload = q.upload
                                                /\ r.data = q.data
    BY AbandonedType DEF Runs
  <2>2. \A r \in wire' : r \in wire \/ r \in Abandoned(i) \/ r.kind # "part"
    <3>1. \A r \in abortMultipartSession(item.upload)
                    \cup {Req("abort", None, item.upload, Nothing)} : r.kind # "part"
      BY DEF abortMultipartSession, Req
    <3>2. CASE Cancel(i)
      BY <3>1, <3>2 DEF Cancel
    <3>3. CASE ~Cancel(i)
      BY <3>3 DEF Enqueue, Pause, Resume, ResumeSession
    <3> QED  BY <3>2, <3>3
  <2> QED  BY <2>1, <2>2 DEF WireFlow
<1>4. CASE Enqueue(i)
  <2> DEFINE x == [NewItem EXCEPT !.at = "pending", !.file = disk]
  <2>1. Set(i, x)
    BY <1>4 DEF Enqueue
  <2>2. x \in Item /\ x.upload = None /\ x.at = "pending" /\ x.file = disk
    BY NewItemType DEF Typed, RestTypes, Item
  <2> HIDE DEF x
  <2> QED  BY <1>1, <1>2, <1>3, <2>1, <2>2, ItemFlow DEF Inherits
<1>5. CASE Pause(i) \/ Cancel(i)
  <2>1. PICK p \in {"paused", "stuck", "cancelled"}, todo \in {item.todo, {}} :
          Set(i, [item EXCEPT !.at = p, !.todo = todo])
    <3>1. CASE Pause(i)
      BY <3>1 DEF Pause
    <3>2. CASE Cancel(i) /\ item.at # "revived"
      BY <3>2 DEF Cancel
    <3>3. CASE Cancel(i) /\ item.at = "revived"
      <4>1. Set(i, [item EXCEPT !.at = "stuck"])
        BY <3>3 DEF Cancel
      <4>2. [item EXCEPT !.at = "stuck"] = [item EXCEPT !.at = "stuck", !.todo = item.todo]
        BY <1>1 DEF Item
      <4> QED  BY <4>1, <4>2
    <3> QED  BY <1>5, <3>1, <3>2, <3>3
  <2> DEFINE x == [item EXCEPT !.at = p, !.todo = todo]
  <2>2. Set(i, x) /\ Keeps(x, item) /\ x.at # "verify"
    BY <1>1, <2>1 DEF Item, Keeps
  <2> HIDE DEF x
  <2> QED  BY <1>1, <1>2, <1>3, <2>2, KeptFlow
<1>6. CASE Resume(i)
  <2> DEFINE base == [item EXCEPT !.at = "pending"]
             resumed == [base EXCEPT !.resume = TRUE, !.rsum = record.sum]
  <2>1. Set(i, base) \/ (Set(i, resumed) /\ record.id = item.upload)
    BY <1>6 DEF Resume
  <2>2. Keeps(base, item) /\ base.at = "pending"
    BY <1>1 DEF Item, Keeps
  <2>3. /\ resumed \in Item /\ resumed.upload = item.upload /\ resumed.file = item.file
        /\ resumed.at = "pending" /\ resumed.resume = TRUE /\ resumed.rsum = record.sum
    BY <1>1, S3Assumption DEF Item, Typed, RecordTypes, Record
  <2> HIDE DEF base, resumed
  <2>4. CASE Set(i, base)
    BY <1>1, <1>2, <1>3, <2>2, <2>4, KeptFlow
  <2>5. CASE Set(i, resumed) /\ record.id = item.upload
    <3>1. Inherits(resumed.upload, carried(resumed)) /\ Inherits(record'.id, record'.sum)
      BY <1>1, <2>3, <2>5 DEF Inherits, carried
    <3> QED  BY <1>1, <1>2, <1>3, <2>3, <2>5, <3>1, ItemFlow
  <2> QED  BY <2>1, <2>4, <2>5
<1>7. CASE ResumeSession(i)
  <2>1. PICK s \in Offered :
          /\ s.mine
          /\ Set(i, [NewItem EXCEPT !.at = "pending", !.file = disk, !.upload = s.id,
                                    !.resume = TRUE, !.rsum = s.sum])
    BY <1>7 DEF ResumeSession
  <2> DEFINE x == [NewItem EXCEPT !.at = "pending", !.file = disk, !.upload = s.id,
                                  !.resume = TRUE, !.rsum = s.sum]
  <2>2. s \in sessions /\ s.id \in Uploads /\ s.sum \in 0..Versions
    BY DEF Offered, Typed, TrayTypes
  <2>3. /\ x \in Item /\ x.upload = s.id /\ x.at = "pending" /\ x.file = disk
        /\ x.resume = TRUE /\ x.rsum = s.sum
    BY <2>2, NewItemType DEF Typed, RestTypes, Item
  <2>4. Set(i, x)
    BY <2>1
  <2> HIDE DEF x
  <2>5. Inherits(x.upload, carried(x)) /\ Inherits(record'.id, record'.sum)
    BY <1>1, <2>1, <2>2, <2>3 DEF Inherits, carried
  <2> QED  BY <1>1, <1>2, <1>3, <2>3, <2>4, <2>5, ItemFlow
<1> QED  BY <1>4, <1>5, <1>6, <1>7

LEMMA ReloadFlow ==
  ASSUME Typed, Runs, Reload
  PROVE  Flow
<1>1. upl' = upl /\ disk' = disk /\ small' = small /\ sessions' = {}
  BY DEF Reload, bucket
<1>2. \A j \in Items : /\ items'[j].upload = None /\ items'[j].file = None
                       /\ items'[j].at \in {"new", "closed"}
  <2>1. \A j \in Items : items'[j] \in {NewItem, [NewItem EXCEPT !.at = "closed"]}
    BY DEF Reload
  <2>2. NewItem.file = None
    BY DEF NewItem
  <2> QED  BY <2>1, <2>2, NewItemType DEF Item
<1>3. lost \subseteq lost' /\ (Check => Inherits(record'.id, record'.sum))
  <2> DEFINE open == {j \in Items : /\ items[j].upload # None
                                    /\ items[j].at \notin {"new", "closed", "done", "cancelled"}}
             last == items[Max(open)]
  <2>1. CASE UNCHANGED <<record, lost>>
    BY <2>1 DEF Inherits
  <2>2. CASE Flush /\ open # {}
    <3>1. Max(open) \in open
      BY <2>2, S3Assumption, MaxIsIn DEF Items
    <3>2. Upsert(last.upload, IF last.resume THEN last.rsum ELSE None)
      BY <2>2 DEF Flush
    <3>3. CASE last.resume
      BY <3>1, <3>2, <3>3 DEF Upsert, Inherits, carried
    <3>4. CASE ~last.resume
      BY <3>2, <3>4 DEF Upsert, Inherits
    <3> QED  BY <3>2, <3>3, <3>4, LostGrows
  <2> QED  BY <2>1, <2>2 DEF Reload, Flush
<1>4. WireFlow
  <2> DEFINE Op(q) == [q EXCEPT !.item = None,
                                !.kind = IF @ = "abortSession" THEN "abort" ELSE @]
  <2>1. wire' = {Op(q) : q \in wire}
    BY DEF Reload
  <2>2. \A q \in wire : /\ Op(q).upload = q.upload /\ Op(q).data = q.data
                        /\ Op(q).kind = "part" => q.kind = "part"
    BY DEF Runs, WireTypes, Request
  <2> HIDE DEF Op
  <2> QED  BY <2>1, <2>2 DEF WireFlow
<1>5. BucketFlow /\ disk <= disk'
  BY <1>1, FlowStill, Numbers DEF Numbered
<1>6. \A j \in Items : Inherits(items'[j].upload, carried(items'[j]))
  BY <1>2 DEF Inherits
<1> QED  BY <1>1, <1>2, <1>3, <1>4, <1>5, <1>6 DEF Flow

LEMMA TracedInit == Init => Traced
<1> SUFFICES ASSUME Init
             PROVE  Traced
  OBVIOUS
<1>1. \A i \in Items : items[i].upload = None /\ items[i].at = "new" /\ items[i].file = None
  BY NewItemType DEF Init, NewItem
<1>2. /\ \A u \in Uploads, p \in Parts : upl[u].parts[p] = None
      /\ wire = {} /\ sessions = {} /\ record.id = None /\ disk = 1
  BY DEF Init, Nothing, NoRecord
<1>3. NoNewer
  BY <1>1, <1>2 DEF NoNewer, None
<1>4. Digests /\ Verified
  BY <1>1, <1>2 DEF Digests, Sound, Verified
<1> QED  BY <1>3, <1>4 DEF Traced

LEMMA TracedNext == Typed /\ Runs /\ Ups /\ Traced /\ [Next]_vars => Traced'
<1> SUFFICES ASSUME Typed, Runs, Ups, Traced, [Next]_vars
             PROVE  Flow
  BY RunsStep, TracedStep
<1>1. Typed' /\ Runs'
  BY RunsStep
<1>2. ASSUME NEW i \in Items, Start(i) \/ Step(i)
      PROVE  Flow
  BY <1>1, <1>2, StartFlow, SendPartFlow, VerifyFlow, AnswerFlow DEF Step, Answer
<1>3. ASSUME NEW i \in Items,
             Enqueue(i) \/ Pause(i) \/ Resume(i) \/ Cancel(i) \/ ResumeSession(i)
      PROVE  Flow
  BY <1>1, <1>3, UserFlow
<1>4. ASSUME NEW r \in wire, Late(r) \/ AbortAnswered(r) \/ AbortLost(r)
      PROVE  Flow
  BY <1>4, LateFlow
<1>5. CASE Edit \/ Reload \/ RefreshLists \/ RefreshEnds \/ AbortSession \/ UNCHANGED vars
  BY <1>5, TrayFlow, ReloadFlow
<1> QED  BY <1>2, <1>3, <1>4, <1>5 DEF Next
\* A step of one item leaves the others.
LEMMA OthersStay ==
  ASSUME Runs, NEW j \in Items, NEW i \in Items \ {j},
         \/ Start(j) \/ Step(j) \/ Enqueue(j) \/ Pause(j) \/ Resume(j) \/ Cancel(j)
         \/ ResumeSession(j)
  PROVE  items'[i] = items[i]
<1>1. \A x : Set(j, x) => items'[i] = items[i]
  BY DEF Set, Runs, ItemTypes
<1>2. CASE Start(j)
  BY <1>1, <1>2 DEF Start, StartUpload, StartResume
<1>3. CASE SendPart(j)
  BY <1>1, <1>3 DEF SendPart
<1>4. CASE Verify(j)
  BY <1>1, <1>4 DEF Verify, Done
<1>5. ASSUME NEW r \in wire, r.item = j, Stop(j, r)
      PROVE  items'[i] = items[i]
  <2>1. r.kind \in {"part", "list", "complete", "put", "sweep", "create", "delete"}
    BY <1>5, ItemOf DEF Fits
  <2> QED  BY <1>1, <1>5, <2>1 DEF Stop
<1>6. ASSUME NEW r \in wire, r.item = j, Continue(j, r), r.kind # "create"
      PROVE  items'[i] = items[i]
  <2>1. r.kind \in {"part", "list", "complete", "put", "sweep", "create", "delete"}
    BY <1>6, ItemOf DEF Fits
  <2>2. CASE r.kind = "part"
    BY <1>1, <1>6, <2>2 DEF Continue, PartStored
  <2>3. CASE r.kind # "part"
    BY <1>1, <1>6, <2>1, <2>3 DEF Continue, Published, Done
  <2> QED  BY <2>2, <2>3
<1>7. CASE Answer(j)
  <2>1. PICK r \in wire : Succeed(j, r) \/ Refuse(j, r) \/ Lose(j, r)
    BY <1>7 DEF Answer
  <2>2. CASE Succeed(j, r) /\ r.kind = "create"
    BY <1>1, <2>2 DEF Succeed
  <2> QED  BY <1>5, <1>6, <2>1, <2>2 DEF Succeed, Refuse, Lose
<1>8. CASE Enqueue(j) \/ Pause(j) \/ Resume(j) \/ Cancel(j) \/ ResumeSession(j)
  BY <1>1, <1>8 DEF Enqueue, Pause, Resume, Cancel, ResumeSession
<1> QED  BY <1>2, <1>3, <1>4, <1>7, <1>8 DEF Step

\* Only its verification turns an item that is being verified to "done".
LEMMA OnlyVerifyEnds ==
  ASSUME Typed, Runs, [Next]_vars, NEW i \in Items,
         items[i].at = "verify", items'[i].at = "done"
  PROVE  Readable(items[i]) /\ items[i].file = sum(items[i])
<1>1. items' # items
  OBVIOUS
<1>2. \A r \in wire : r.item # i
  BY NoReqs DEF Running, Sending, Undead
<1>3. \A p : items' = [items EXCEPT ![i] = [items[i] EXCEPT !.at = p]] => p = "done"
  BY DEF Runs, ItemTypes, Item
<1>4. PICK j \in Items : \/ Start(j) \/ Step(j) \/ Enqueue(j) \/ Pause(j) \/ Resume(j)
                         \/ Cancel(j) \/ ResumeSession(j)
  <2>1. ASSUME Reload
        PROVE  FALSE
    <3>1. items'[i] \in {NewItem, [NewItem EXCEPT !.at = "closed"]}
      BY <2>1 DEF Reload
    <3> QED  BY <3>1, NewItemType DEF Item
  <2>2. ASSUME NEW r \in wire, Late(r) \/ AbortAnswered(r) \/ AbortLost(r)
        PROVE  FALSE
    BY <1>1, <2>2 DEF Late, AbortAnswered, AbortLost
  <2>3. CASE Edit \/ RefreshLists \/ RefreshEnds \/ AbortSession \/ UNCHANGED vars
    BY <1>1, <2>3 DEF Edit, RefreshLists, RefreshEnds, AbortSession, vars
  <2> QED  BY <2>1, <2>2, <2>3 DEF Next
<1>5. j = i
  BY <1>4, OthersStay
<1>6. Cancel(i) => items'[i].at \in {"stuck", "cancelled"}
  BY ItemOf DEF Cancel, Set, Runs, ItemTypes, Item
<1>7. Verify(i)
  BY <1>2, <1>4, <1>5, <1>6
     DEF Start, StartUpload, StartResume, Turn, Step, Answer, Succeed, Refuse, Lose, SendPart,
         Ghost, Undead, Enqueue, Pause, Sending, Resume, ResumeSession
<1>8. CASE ~Readable(items[i])
  BY <1>3, <1>7, <1>8 DEF Verify, Set, Failed
<1>9. CASE Readable(items[i]) /\ items[i].file # sum(items[i])
  BY <1>3, <1>7, <1>9 DEF Verify, Set
<1> QED  BY <1>8, <1>9

\* An upload that is reported done is the file it was resumed with, whatever was
\* sent to it by other runs: the digest of its record is no newer than any part
\* the bucket holds, and no part is newer than the file sha256Base64Matches reads.
THEOREM DoneIsTheFile == Spec => DoneUploadIsTheFile
<1>1. Init => Typed /\ Runs /\ Ups /\ Traced
  BY RunsInit, UpsInit, TracedInit
<1>2. Typed /\ Runs /\ Ups /\ Traced /\ [Next]_vars => (Typed /\ Runs /\ Ups /\ Traced)'
  BY RunsStep, UpsNext, TracedNext
<1> DEFINE Kept == \A i \in Items :
                     LET item == items[i] IN
                     (items'[i].at = "done" /\ item.at = "verify" /\ ~small /\ item.upload \notin lost)
                        => upl[item.upload].parts = Whole(item.file)
<1>3. Typed /\ Runs /\ Ups /\ Traced /\ [Next]_vars => [Kept]_vars
  <2> SUFFICES ASSUME Typed, Runs, Traced, [Next]_vars, NEW i \in Items,
                      items'[i].at = "done", items[i].at = "verify", ~small,
                      items[i].upload \notin lost
               PROVE  upl[items[i].upload].parts = Whole(items[i].file)
    OBVIOUS
  <2> DEFINE item == items[i]
             parts == upl[item.upload].parts
  <2>1. item.file = disk /\ item.file = sum(item) /\ Check
    BY OnlyVerifyEnds, ItemOf DEF Readable, ItemFits
  <2>2. item.upload \in Uploads /\ item.upload # None /\ Full(parts)
    BY ItemOf DEF Traced, Verified, Stands
  <2>3. Origin(item.upload, carried(item))
    BY <2>1, <2>2 DEF Traced, Digests, Sound
  <2>4. carried(item) = disk
    BY <2>1, <2>3 DEF Origin, carried, sum
  <2>5. ASSUME NEW p \in Parts
        PROVE  parts[p] = item.file
    <3>1. parts[p] # None /\ disk <= parts[p]
      BY <2>2, <2>3, <2>4 DEF Full, Origin, Older
    <3>2. parts[p] <= disk
      BY <2>2 DEF Traced, NoNewer
    <3>3. parts[p] \in 0..Versions /\ disk \in 1..Versions /\ Versions \in Nat
      BY <2>2, Numbers DEF Numbered
    <3> QED  BY <2>1, <3>1, <3>2, <3>3
  <2>6. parts \in Content
    BY <2>2, Numbers DEF Numbered
  <2> QED  BY <2>5, <2>6 DEF Content, Whole
<1> QED  BY <1>1, <1>2, <1>3, PTL DEF Spec, DoneUploadIsTheFile
=============================================================================
