-------------------------- MODULE TusUploadProofs --------------------------
(***************************************************************************)
(* Proofs about the upload store (TusStore) and about the clients that     *)
(* upload to it (TusUpload), for every set of uploads, handlers, targets   *)
(* and tabs and every declared length.                                     *)
(***************************************************************************)
EXTENDS TusUpload, FiniteSetTheorems, SequenceTheorems, TLAPS


-----------------------------------------------------------------------------
(* Facts about the operators the store is built from. *)

\* The declared content is a sequence of the declared length.
LEMMA WholeType ==
  ASSUME NEW u \in Uploads
  PROVE  Whole(u) \in Seq(Bytes) /\ Len(Whole(u)) = Size[u]
BY UploadAssumption DEF Whole, Bytes

\* A body is a sequence of bytes.
LEMMA BodiesType ==
  ASSUME NEW off \in Nat, NEW body \in Bodies(off)
  PROVE  body \in Seq(Bytes)
<1>1. CASE \E n \in 0..MaxBody : body = [i \in 1..n |-> off + i]
  <2>1. PICK n \in 0..MaxBody : body = [i \in 1..n |-> off + i]
    BY <1>1
  <2>2. n \in Nat /\ \A i \in 1..n : off + i \in Nat
    BY UploadAssumption
  <2> QED  BY <2>1, <2>2 DEF Bytes
<1>2. CASE \E n \in 1..MaxBody : body = [i \in 1..n |-> 0]
  <2>1. PICK n \in 1..MaxBody : body = [i \in 1..n |-> 0]
    BY <1>2
  <2>2. n \in Nat
    BY UploadAssumption
  <2> QED  BY <2>1, <2>2 DEF Bytes
<1> QED  BY <1>1, <1>2 DEF Bodies

\* Appending adds the lengths and keeps what was there.
LEMMA AppendKeeps ==
  ASSUME NEW s \in Seq(Bytes), NEW t \in Seq(Bytes)
  PROVE  /\ s \o t \in Seq(Bytes)
         /\ Len(s \o t) = Len(s) + Len(t)
         /\ SubSeq(s \o t, 1, Len(s)) = s
<1>1. s \o t \in Seq(Bytes) /\ Len(s \o t) = Len(s) + Len(t)
  BY ConcatProperties
<1>2. \A i \in 1..Len(s) : (s \o t)[i] = s[i]
  BY ConcatProperties
<1> DEFINE p == SubSeq(s \o t, 1, Len(s))
<1>3. p \in Seq(Bytes) /\ Len(p) = Len(s) /\ \A i \in 1..Len(p) : p[i] = (s \o t)[i]
  BY <1>1, SubSeqProperties, LenProperties
<1>4. p = s
  BY <1>2, <1>3, SeqEqual
<1> QED  BY <1>1, <1>4

\* A prefix of a body is a sequence no longer than it.
LEMMA PrefixType ==
  ASSUME NEW s \in Seq(Bytes), NEW n \in 0..Len(s)
  PROVE  SubSeq(s, 1, n) \in Seq(Bytes) /\ Len(SubSeq(s, 1, n)) = n
BY SubSeqProperties, LenProperties


-----------------------------------------------------------------------------
(* Type correctness.  A handler that is not idle has a request; this is the *)
(* only fact TypeOK needs beside itself.                                    *)

Typed ==
  /\ TypeOK
  /\ \A h \in Handlers : pc[h] # "idle" => req[h] \in Requests

\* The steps a handler takes with the mutex held.
Holding == {"create_sidecar", "copy", "remove_spool", "remove_sidecar"}

\* Exactly the handler inside a critical section has the lock, and while a
\* spool is copied it stays what the checksum accepted.
Locked ==
  /\ \A h \in Handlers : lock = h <=> pc[h] \in Holding
  /\ \A h \in Handlers : pc[h] \in {"copy", "remove_spool"} =>
       SessionOpen(req[h].id) /\ ChecksumMatches(req[h].id)

\* A request is built with the types its handler needs.
LEMMA RequestType ==
  ASSUME NEW u \in Uploads, NEW off \in Nat, NEW body \in Seq(Bytes)
  PROVE  Request(u, off, body) \in Requests
BY DEF Request, Requests, Codes

\* So is what is left of one.
LEMMA OutcomeType ==
  ASSUME NEW u \in Uploads, NEW code \in Codes, NEW upto \in Nat
  PROVE  Outcome(u, code, upto) \in Requests
<1>1. <<>> \in Seq(Bytes)
  OBVIOUS
<1> QED  BY <1>1 DEF Outcome, Requests

\* Answering keeps the types of the handlers.
LEMMA AnswerTyped ==
  ASSUME Typed, NEW h \in Handlers, NEW u \in Uploads,
         NEW code \in Codes, NEW upto \in Nat, Answer(h, u, code, upto)
  PROVE  /\ pc' \in [Handlers -> Steps]
         /\ req' \in [Handlers -> Requests \cup {None}]
         /\ \A g \in Handlers : pc'[g] # "idle" => req'[g] \in Requests
BY OutcomeType DEF Typed, TypeOK, Answer, Goto, Steps

\* So does going on with a request of the type.
LEMMA MovedTyped ==
  ASSUME Typed, NEW h \in Handlers, NEW step \in Steps, NEW r \in Requests,
         Goto(h, step), req' = [req EXCEPT ![h] = r]
  PROVE  /\ pc' \in [Handlers -> Steps]
         /\ req' \in [Handlers -> Requests \cup {None}]
         /\ \A g \in Handlers : pc'[g] # "idle" => req'[g] \in Requests
BY DEF Typed, TypeOK, Goto

\* Type correctness: at the start, and kept by every step.
LEMMA TypedInit == Init => Typed
<1> SUFFICES ASSUME Init PROVE Typed
  OBVIOUS
<1>1. spool \in [Uploads -> Seq(Bytes) \cup {None}]
  BY DEF Init
<1>2. files \in [Targets -> Contents \cup {None}]
  BY DEF Init
<1>3. req \in [Handlers -> Requests \cup {None}] /\ pc \in [Handlers -> Steps]
  BY DEF Init, Steps
<1>4. faulted \in BOOLEAN
  BY DEF Init
<1>5. reported \in [Uploads -> Nat] /\ announced \in [Uploads -> Nat]
  BY DEF Init
<1>6. \A h \in Handlers : pc[h] # "idle" => req[h] \in Requests
  BY DEF Init
<1> QED  BY <1>1, <1>2, <1>3, <1>4, <1>5, <1>6 DEF Init, Typed, TypeOK

\* Every action keeps the types, the state of a copy being what Locked says.
LEMMA TypedStep == Typed /\ Locked /\ [Next]_vars => Typed'
<1> SUFFICES ASSUME Typed, Locked, [Next]_vars PROVE Typed'
  OBVIOUS
<1> USE DEF store, history
<1> DEFINE HandlersTyped ==
             /\ pc' \in [Handlers -> Steps]
             /\ req' \in [Handlers -> Requests \cup {None}]
             /\ \A g \in Handlers : pc'[g] # "idle" => req'[g] \in Requests
<1>req. ASSUME NEW h \in Handlers, pc[h] # "idle"
        PROVE  /\ req[h] \in Requests
               /\ req[h].id \in Uploads /\ req[h].body \in Seq(Bytes)
               /\ req[h].code \in Codes /\ req[h].upto \in Nat
  BY <1>req DEF Typed, Requests
<1>1. ASSUME NEW h \in Handlers, NEW u \in Uploads, CreateSpool(h, u)
      PROVE  Typed'
  <2>1. <<>> \in Seq(Bytes)
    OBVIOUS
  <2>2. HandlersTyped
    BY <1>1, <2>1, RequestType DEF CreateSpool, Goto, Typed, TypeOK, Steps
  <2> QED  BY <1>1, <2>1, <2>2 DEF CreateSpool, Typed, TypeOK
<1>2. ASSUME NEW h \in Handlers, CreateSidecar(h)
      PROVE  Typed'
  <2>1. HandlersTyped
    BY <1>2, <1>req, AnswerTyped DEF CreateSidecar, Codes
  <2> QED  BY <1>2, <1>req, <2>1 DEF CreateSidecar, Typed, TypeOK
<1>3. ASSUME NEW h \in Handlers, CreateSidecarFails(h)
      PROVE  Typed'
  <2>1. HandlersTyped
    BY <1>3, <1>req, AnswerTyped DEF CreateSidecarFails, Codes
  <2> QED  BY <1>3, <2>1 DEF CreateSidecarFails, Typed, TypeOK
<1>4. ASSUME NEW h \in Handlers, NEW u \in Uploads, HeadUpload(h, u)
      PROVE  Typed'
  <2>1. SessionOpen(u) => Len(spool[u]) \in Nat
    BY DEF SessionOpen, Typed, TypeOK
  <2>2. HandlersTyped
    BY <1>4, <2>1, AnswerTyped DEF HeadUpload, Codes
  <2> QED  BY <1>4, <2>2 DEF HeadUpload, Typed, TypeOK
<1>5. ASSUME NEW h \in Handlers, NEW u \in Uploads, NEW off \in 0 .. Size[u],
             NEW body \in Bodies(off), PatchCheck(h, u, off, body)
      PROVE  Typed'
  <2>1. off \in Nat
    BY UploadAssumption
  <2>2. body \in Seq(Bytes)
    BY <2>1, BodiesType
  <2>3. HandlersTyped
    <3>1. CASE SessionOpen(u) /\ Len(spool[u]) = off
      <4>1. /\ pc' = [pc EXCEPT ![h] = "append"]
            /\ req' = [req EXCEPT ![h] = Request(u, off, body)]
        BY <1>5, <3>1 DEF PatchCheck, Goto
      <4>2. Request(u, off, body) \in Requests
        BY <2>1, <2>2, RequestType
      <4> QED  BY <4>1, <4>2 DEF Typed, TypeOK, Steps
    <3>2. CASE ~(SessionOpen(u) /\ Len(spool[u]) = off)
      BY <1>5, <2>1, <3>2, AnswerTyped DEF PatchCheck, Codes
    <3> QED  BY <3>1, <3>2
  <2> QED  BY <1>5, <2>3 DEF PatchCheck, Typed, TypeOK
<1>6. ASSUME NEW h \in Handlers, PatchAppend(h)
      PROVE  Typed'
  <2> DEFINE u == req[h].id
             body == req[h].body
  <2>1. u \in Uploads /\ body \in Seq(Bytes) /\ req[h] \in Requests
    BY <1>6, <1>req DEF PatchAppend
  <2>2. CASE SessionOpen(u) /\ Fits(u, body)
    <3>1. spool[u] \in Seq(Bytes)
      BY <2>1, <2>2 DEF SessionOpen, Typed, TypeOK
    <3>2. spool[u] \o body \in Seq(Bytes) /\ Len(spool[u]) + Len(body) \in Nat
      BY <2>1, <3>1, AppendKeeps, LenProperties
    <3>3. HandlersTyped
      <4>1. /\ pc' = [pc EXCEPT ![h] = "announce"]
            /\ req' = [req EXCEPT ![h] =
                         Outcome(u, "pending", Len(spool[u]) + Len(body))]
        BY <1>6, <2>2 DEF PatchAppend, Goto
      <4>2. Outcome(u, "pending", Len(spool[u]) + Len(body)) \in Requests
        BY <2>1, <3>2, OutcomeType DEF Codes
      <4> QED  BY <4>1, <4>2 DEF Typed, TypeOK, Steps
    <3>4. spool' \in [Uploads -> Seq(Bytes) \cup {None}]
      BY <1>6, <2>1, <2>2, <3>2 DEF PatchAppend, Typed, TypeOK
    <3> QED  BY <1>6, <3>3, <3>4 DEF PatchAppend, Typed, TypeOK
  <2>3. CASE ~(SessionOpen(u) /\ Fits(u, body))
    <3>1. HandlersTyped
      BY <1>6, <2>1, <2>3, AnswerTyped DEF PatchAppend, Codes
    <3> QED  BY <1>6, <2>3, <3>1 DEF PatchAppend, Typed, TypeOK
  <2> QED  BY <2>2, <2>3
<1>7. ASSUME NEW h \in Handlers, PatchAppendFails(h)
      PROVE  Typed'
  <2> DEFINE u == req[h].id
             body == req[h].body
  <2>1. u \in Uploads /\ body \in Seq(Bytes)
    BY <1>7, <1>req DEF PatchAppendFails
  <2>2. PICK n \in 0 .. Len(body) - 1 :
               spool' = [spool EXCEPT ![u] = @ \o SubSeq(body, 1, n)]
    BY <1>7 DEF PatchAppendFails
  <2>3. spool[u] \in Seq(Bytes)
    BY <1>7, <2>1 DEF PatchAppendFails, SessionOpen, Typed, TypeOK
  <2>4. spool[u] \o SubSeq(body, 1, n) \in Seq(Bytes)
    BY <2>1, <2>3, PrefixType, AppendKeeps, LenProperties
  <2>5. HandlersTyped
    BY <1>7, <2>1, AnswerTyped DEF PatchAppendFails, Codes
  <2> QED  BY <1>7, <2>1, <2>2, <2>4, <2>5 DEF PatchAppendFails, Typed, TypeOK
<1>8. ASSUME NEW h \in Handlers, PatchAnnounce(h)
      PROVE  Typed'
  <2>1. req[h].id \in Uploads /\ req[h].upto \in Nat
    BY <1>8, <1>req DEF PatchAnnounce
  <2>2. announced' \in [Uploads -> Nat]
    BY <1>8, <2>1 DEF PatchAnnounce, Larger, Typed, TypeOK
  <2>3. HandlersTyped
    <3>1. CASE req[h].upto = Size[req[h].id]
      BY <1>8, <1>req, <3>1 DEF PatchAnnounce, Goto, Typed, TypeOK, Steps
    <3>2. CASE req[h].upto # Size[req[h].id]
      BY <1>8, <2>1, <3>2, AnswerTyped DEF PatchAnnounce, Codes
    <3> QED  BY <3>1, <3>2
  <2> QED  BY <1>8, <2>2, <2>3 DEF PatchAnnounce, Typed, TypeOK
<1>9. ASSUME NEW h \in Handlers, Finalize(h)
      PROVE  Typed'
  <2> DEFINE u == req[h].id
  <2>1. u \in Uploads /\ pc[h] # "idle" /\ req[h] \in Requests
    BY <1>9, <1>req DEF Finalize
  <2>2. Target[u] \in Targets
    BY <2>1, UploadAssumption
  <2>3. SessionOpen(u) => spool[u] \in Seq(Bytes)
    BY <2>1 DEF SessionOpen, Typed, TypeOK
  <2>4. CASE FinalizeGone(h)
    <3>1. HandlersTyped
      BY <2>1, <2>4, AnswerTyped DEF FinalizeGone, Codes
    <3> QED  BY <1>9, <2>4, <3>1 DEF Finalize, FinalizeGone, Typed, TypeOK
  <2>5. CASE FinalizeMismatch(h)
    <3>1. HandlersTyped
      BY <2>1, <2>5 DEF FinalizeMismatch, Goto, Typed, TypeOK, Steps, Requests, Codes
    <3> QED  BY <1>9, <2>1, <2>5, <3>1 DEF Finalize, FinalizeMismatch, Typed, TypeOK
  <2>7. CASE FinalizeRename(h)
    <3>1. HandlersTyped
      BY <2>1, <2>7 DEF FinalizeRename, Goto, Typed, TypeOK, Steps, Requests, Codes
    <3>2. [from |-> u, data |-> spool[u]] \in Contents
      BY <2>1, <2>3, <2>7 DEF FinalizeRename, ReadyToFinalize, Contents
    <3>3. files' \in [Targets -> Contents \cup {None}]
      BY <2>2, <2>7, <3>2 DEF FinalizeRename, Typed, TypeOK
    <3> QED  BY <1>9, <2>1, <2>7, <3>1, <3>3
             DEF Finalize, FinalizeRename, Typed, TypeOK
  <2>8. CASE FinalizeCopy(h)
    <3>1. HandlersTyped
      BY <2>1, <2>8 DEF FinalizeCopy, Goto, Typed, TypeOK, Steps
    <3>2. [from |-> u, data |-> <<>>] \in Contents
      BY <2>1 DEF Contents
    <3>3. files' \in [Targets -> Contents \cup {None}]
      BY <2>2, <2>8, <3>2 DEF FinalizeCopy, Typed, TypeOK
    <3> QED  BY <1>9, <2>1, <2>8, <3>1, <3>3
             DEF Finalize, FinalizeCopy, Typed, TypeOK
  <2> QED  BY <1>9, <2>4, <2>5, <2>7, <2>8 DEF Finalize
<1>10. ASSUME NEW h \in Handlers, CopyFile(h)
       PROVE  Typed'
  <2> DEFINE u == req[h].id
  <2>1. u \in Uploads /\ Target[u] \in Targets
    BY <1>10, <1>req, UploadAssumption DEF CopyFile
  <2>2. spool[u] \in Seq(Bytes)
    BY <1>10, <2>1 DEF CopyFile, Locked, SessionOpen, Typed, TypeOK
  <2>3. [from |-> u, data |-> spool[u]] \in Contents
    BY <2>1, <2>2 DEF Contents
  <2>4. files' \in [Targets -> Contents \cup {None}]
    BY <1>10, <2>1, <2>3 DEF CopyFile, Typed, TypeOK
  <2>5. HandlersTyped
    BY <1>10, <1>req DEF CopyFile, Goto, Typed, TypeOK, Steps
  <2> QED  BY <1>10, <2>1, <2>4, <2>5 DEF CopyFile, Typed, TypeOK
<1>11. ASSUME NEW h \in Handlers, CopyFileFails(h)
       PROVE  Typed'
  <2> DEFINE u == req[h].id
  <2>1. u \in Uploads /\ Target[u] \in Targets
    BY <1>11, <1>req, UploadAssumption DEF CopyFileFails
  <2>2. spool[u] = Whole(u)
    BY <1>11 DEF CopyFileFails, Locked, ChecksumMatches
  <2>3. PICK n \in 0 .. Size[u] - 1 :
               files' = [files EXCEPT ![Target[u]] =
                           [from |-> u, data |-> SubSeq(spool[u], 1, n)]]
    BY <1>11 DEF CopyFileFails
  <2>4. SubSeq(spool[u], 1, n) \in Seq(Bytes)
    BY <2>1, <2>2, WholeType, PrefixType, UploadAssumption
  <2>5. [from |-> u, data |-> SubSeq(spool[u], 1, n)] \in Contents
    BY <2>1, <2>4 DEF Contents
  <2>6. files' \in [Targets -> Contents \cup {None}]
    BY <2>1, <2>3, <2>5 DEF Typed, TypeOK
  <2>7. HandlersTyped
    BY <1>11, <1>req, AnswerTyped DEF CopyFileFails, Codes
  <2> QED  BY <1>11, <2>6, <2>7 DEF CopyFileFails, Typed, TypeOK
<1>12. ASSUME NEW h \in Handlers, RemoveSpool(h)
       PROVE  Typed'
  <2>1. HandlersTyped
    <3>1. PICK r : r = [req[h] EXCEPT !.code = "patched"]
      OBVIOUS
    <3>2. req[h] \in Requests
      BY <1>12, <1>req DEF RemoveSpool
    <3>3. r \in Requests
      BY <3>1, <3>2 DEF Requests, Codes
    <3>4. Goto(h, "remove_sidecar") /\ req' = [req EXCEPT ![h] = r]
      BY <1>12, <3>1 DEF RemoveSpool
    <3>5. "remove_sidecar" \in Steps
      BY DEF Steps
    <3> QED  BY <3>3, <3>4, <3>5, MovedTyped
  <2> QED  BY <1>12, <1>req, <2>1 DEF RemoveSpool, Typed, TypeOK
<1>13. ASSUME NEW h \in Handlers, NEW u \in Uploads, DeleteUpload(h, u)
       PROVE  Typed'
  <2>1. CASE SessionOpen(u)
    <3>1. Outcome(u, "deleted", 0) \in Requests
      BY OutcomeType DEF Codes
    <3>2. HandlersTyped
      <4>1. PICK r : r = Outcome(u, "deleted", 0)
        OBVIOUS
      <4>2. Goto(h, "remove_sidecar") /\ req' = [req EXCEPT ![h] = r]
        BY <1>13, <2>1, <4>1 DEF DeleteUpload
      <4>3. r \in Requests /\ "remove_sidecar" \in Steps
        BY <3>1, <4>1 DEF Steps
      <4> QED  BY <4>2, <4>3, MovedTyped
    <3> QED  BY <1>13, <2>1, <3>2 DEF DeleteUpload, Typed, TypeOK
  <2>2. CASE ~SessionOpen(u)
    <3>1. HandlersTyped
      BY <1>13, <2>2, AnswerTyped DEF DeleteUpload, Codes
    <3> QED  BY <1>13, <2>2, <3>1 DEF DeleteUpload, Typed, TypeOK
  <2> QED  BY <2>1, <2>2
<1>14. ASSUME NEW h \in Handlers, RemoveSidecar(h)
       PROVE  Typed'
  <2>1. HandlersTyped
    BY <1>14, <1>req, AnswerTyped DEF RemoveSidecar
  <2> QED  BY <1>14, <2>1 DEF RemoveSidecar, Typed, TypeOK
<1>15. ASSUME NEW h \in Handlers, RemoveSidecarFails(h)
       PROVE  Typed'
  <2>1. HandlersTyped
    BY <1>15, <1>req, AnswerTyped DEF RemoveSidecarFails, Codes
  <2> QED  BY <1>15, <2>1 DEF RemoveSidecarFails, Typed, TypeOK
<1>16. ASSUME NEW h \in Handlers, Reply(h)
       PROVE  Typed'
  <2>1. HandlersTyped
    BY <1>16 DEF Reply, Goto, Typed, TypeOK, Steps
  <2>2. reported' \in [Uploads -> Nat]
    BY <1>16, <1>req DEF Reply, Larger, Typed, TypeOK
  <2>3. completed' \subseteq Uploads
    BY <1>16, <1>req DEF Reply, Typed, TypeOK
  <2> QED  BY <1>16, <2>1, <2>2, <2>3 DEF Reply, Typed, TypeOK
<1>17. ASSUME Restart
       PROVE  Typed'
  <2>1. HandlersTyped
    BY <1>17 DEF Restart, Steps
  <2> QED  BY <1>17, <2>1 DEF Restart, Typed, TypeOK
<1>18. ASSUME NEW h \in Handlers, FinalizeFails(h) \/ RemoveSpoolFails(h)
       PROVE  Typed'
  <2>1. HandlersTyped
    BY <1>18, <1>req, AnswerTyped DEF FinalizeFails, RemoveSpoolFails, Codes
  <2> QED  BY <1>18, <2>1 DEF FinalizeFails, RemoveSpoolFails, Typed, TypeOK
<1>19. CASE UNCHANGED vars
  BY <1>19 DEF vars, handlers, Typed, TypeOK
<1>20. ASSUME NEW h \in Handlers, NEW u \in Uploads, RequestFails(h, u)
       PROVE  Typed'
  <2>1. HandlersTyped
    BY <1>20, AnswerTyped DEF RequestFails, Codes
  <2> QED  BY <1>20, <2>1 DEF RequestFails, Typed, TypeOK
<1> QED
  BY <1>1, <1>2, <1>3, <1>4, <1>5, <1>6, <1>7, <1>8, <1>9, <1>10, <1>11, <1>12,
     <1>13, <1>14, <1>15, <1>16, <1>17, <1>18, <1>19, <1>20
     DEF Next, Arrive, Serve, Proceed, Fail

-----------------------------------------------------------------------------
(* The mutex. *)

\* At the start nobody is inside a critical section.
LEMMA LockedInit == Init => Locked
BY NoneAssumption DEF Init, Locked, Holding

\* With the lock free nobody is inside a critical section, and whoever is
\* inside one is there alone.
LEMMA LockFacts ==
  ASSUME Locked
  PROVE  /\ lock = None => \A g \in Handlers : pc[g] \notin Holding
         /\ \A h, g \in Handlers :
              pc[h] \in Holding /\ g # h => lock = h /\ pc[g] \notin Holding
BY NoneAssumption DEF Locked

\* What an answer says, and what it leaves alone.
LEMMA AnswerFrame ==
  ASSUME Typed, NEW h \in Handlers, NEW u, NEW code, NEW upto,
         Answer(h, u, code, upto)
  PROVE  /\ pc'[h] = "reply"
         /\ req'[h].id = u /\ req'[h].code = code /\ req'[h].upto = upto
         /\ \A g \in Handlers : g # h => pc'[g] = pc[g] /\ req'[g] = req[g]
BY DEF Typed, TypeOK, Answer, Outcome, Goto

\* Every action that enters a critical section takes the lock, and every action
\* that leaves one frees it.
LEMMA LockedStep == Typed /\ Locked /\ [Next]_vars => Locked'
<1> SUFFICES ASSUME Typed, Locked, [Next]_vars PROVE Locked'
  OBVIOUS
<1> USE LockFacts DEF store, history, Holding
<1> DEFINE Others(h) ==
             \A g \in Handlers : g # h => pc'[g] = pc[g] /\ req'[g] = req[g]
<1>t. /\ pc \in [Handlers -> Steps]
      /\ req \in [Handlers -> Requests \cup {None}]
      /\ None \notin Handlers
  BY NoneAssumption DEF Typed, TypeOK
\* A handler that takes, keeps or frees the lock in an allowed way.
<1>a. ASSUME NEW h \in Handlers, Others(h), lock = None \/ pc[h] \in Holding,
             \/ lock' = h /\ pc'[h] \in Holding
             \/ lock' = None /\ pc'[h] \notin Holding,
             pc'[h] \in {"copy", "remove_spool"} =>
               (SessionOpen(req[h].id) /\ ChecksumMatches(req[h].id))',
             pc[h] \in Holding => lock = h
      PROVE  Locked'
  BY <1>a, <1>t DEF Locked
\* A handler that works without it.
<1>b. ASSUME NEW h \in Handlers, Others(h), lock' = lock,
             pc[h] \notin Holding, pc'[h] \notin Holding,
             UNCHANGED <<spool, sidecars>>
      PROVE  Locked'
  BY <1>b, <1>t DEF Locked, SessionOpen, ChecksumMatches
<1>1. ASSUME NEW h \in Handlers, NEW u \in Uploads, CreateSpool(h, u)
      PROVE  Locked'
  BY <1>1, <1>a, <1>t DEF CreateSpool, Goto
<1>2. ASSUME NEW h \in Handlers, CreateSidecar(h)
      PROVE  Locked'
  <2>1. pc'[h] = "reply" /\ Others(h)
    BY <1>2, AnswerFrame DEF CreateSidecar
  <2> QED  BY <1>2, <1>a, <2>1 DEF CreateSidecar, Locked
<1>3. ASSUME NEW h \in Handlers, CreateSidecarFails(h)
      PROVE  Locked'
  <2>1. pc'[h] = "reply" /\ Others(h)
    BY <1>3, AnswerFrame DEF CreateSidecarFails
  <2> QED  BY <1>3, <1>a, <2>1 DEF CreateSidecarFails, Locked
<1>4. ASSUME NEW h \in Handlers, NEW u \in Uploads, HeadUpload(h, u)
      PROVE  Locked'
  <2>1. pc'[h] = "reply" /\ Others(h)
    BY <1>4, AnswerFrame DEF HeadUpload
  <2> QED  BY <1>4, <1>b, <2>1 DEF HeadUpload
<1>5. ASSUME NEW h \in Handlers, NEW u \in Uploads, NEW off \in 0 .. Size[u],
             NEW body \in Bodies(off), PatchCheck(h, u, off, body)
      PROVE  Locked'
  <2>1. off \in Nat
    BY UploadAssumption
  <2>2. pc'[h] \in {"reply", "append"} /\ Others(h)
    <3>1. CASE SessionOpen(u) /\ Len(spool[u]) = off
      BY <1>5, <1>t, <3>1 DEF PatchCheck, Goto
    <3>2. CASE ~(SessionOpen(u) /\ Len(spool[u]) = off)
      BY <1>5, <2>1, <3>2, AnswerFrame DEF PatchCheck
    <3> QED  BY <3>1, <3>2
  <2> QED  BY <1>5, <1>b, <2>2 DEF PatchCheck
<1>6. ASSUME NEW h \in Handlers, PatchAppend(h)
      PROVE  Locked'
  <2>1. pc'[h] \in {"reply", "announce"} /\ Others(h)
    <3>1. CASE SessionOpen(req[h].id) /\ Fits(req[h].id, req[h].body)
      BY <1>6, <1>t, <3>1 DEF PatchAppend, Goto
    <3>2. CASE ~(SessionOpen(req[h].id) /\ Fits(req[h].id, req[h].body))
      BY <1>6, <3>2, AnswerFrame DEF PatchAppend
    <3> QED  BY <3>1, <3>2
  <2> QED  BY <1>6, <1>a, <2>1 DEF PatchAppend
<1>7. ASSUME NEW h \in Handlers, PatchAppendFails(h)
      PROVE  Locked'
  <2>1. pc'[h] = "reply" /\ Others(h)
    BY <1>7, AnswerFrame DEF PatchAppendFails
  <2> QED  BY <1>7, <1>a, <2>1 DEF PatchAppendFails
<1>8. ASSUME NEW h \in Handlers, PatchAnnounce(h)
      PROVE  Locked'
  <2>1. pc'[h] \in {"reply", "finalize"} /\ Others(h)
    <3>1. CASE req[h].upto = Size[req[h].id]
      BY <1>8, <1>t, <3>1 DEF PatchAnnounce, Goto
    <3>2. CASE req[h].upto # Size[req[h].id]
      BY <1>8, <3>2, AnswerFrame DEF PatchAnnounce
    <3> QED  BY <3>1, <3>2
  <2> QED  BY <1>8, <1>b, <2>1 DEF PatchAnnounce
<1>9. ASSUME NEW h \in Handlers, Finalize(h)
      PROVE  Locked'
  <2>1. CASE FinalizeGone(h)
    <3>1. pc'[h] = "reply" /\ Others(h)
      BY <1>9, <2>1, AnswerFrame DEF Finalize, FinalizeGone
    <3> QED  BY <1>9, <1>b, <2>1, <3>1 DEF Finalize, FinalizeGone
  <2>2. CASE FinalizeMismatch(h)
    BY <1>9, <1>a, <1>t, <2>2 DEF Finalize, FinalizeMismatch, Goto
  <2>4. CASE FinalizeRename(h)
    BY <1>9, <1>a, <1>t, <2>4 DEF Finalize, FinalizeRename, Goto
  <2>5. CASE FinalizeCopy(h)
    <3>1. pc'[h] = "copy" /\ Others(h) /\ lock = None /\ lock' = h
      BY <1>9, <1>t, <2>5 DEF Finalize, FinalizeCopy, Goto
    <3>2. (SessionOpen(req[h].id) /\ ChecksumMatches(req[h].id))'
      BY <2>5 DEF FinalizeCopy, ReadyToFinalize, SessionOpen, ChecksumMatches
    <3> QED  BY <1>a, <3>1, <3>2
  <2> QED  BY <1>9, <2>1, <2>2, <2>4, <2>5 DEF Finalize
<1>10. ASSUME NEW h \in Handlers, CopyFile(h)
       PROVE  Locked'
  <2>1. pc'[h] = "remove_spool" /\ Others(h) /\ lock = h /\ lock' = h
    BY <1>10, <1>t DEF CopyFile, Goto, Locked
  <2>2. (SessionOpen(req[h].id) /\ ChecksumMatches(req[h].id))'
    BY <1>10 DEF CopyFile, Locked, SessionOpen, ChecksumMatches
  <2> QED  BY <1>10, <1>a, <2>1, <2>2 DEF CopyFile
<1>11. ASSUME NEW h \in Handlers, CopyFileFails(h)
       PROVE  Locked'
  <2>1. pc'[h] = "reply" /\ Others(h)
    BY <1>11, AnswerFrame DEF CopyFileFails
  <2> QED  BY <1>11, <1>a, <2>1 DEF CopyFileFails, Locked
<1>12. ASSUME NEW h \in Handlers, RemoveSpool(h)
       PROVE  Locked'
  <2>1. pc'[h] = "remove_sidecar" /\ Others(h) /\ lock = h /\ lock' = h
    BY <1>12, <1>t DEF RemoveSpool, Goto, Locked
  <2> QED  BY <1>12, <1>a, <2>1 DEF RemoveSpool
<1>13. ASSUME NEW h \in Handlers, NEW u \in Uploads, DeleteUpload(h, u)
       PROVE  Locked'
  <2>1. CASE SessionOpen(u)
    BY <1>13, <1>a, <1>t, <2>1 DEF DeleteUpload, Goto
  <2>2. CASE ~SessionOpen(u)
    <3>1. pc'[h] = "reply" /\ Others(h)
      BY <1>13, <2>2, AnswerFrame DEF DeleteUpload
    <3> QED  BY <1>13, <1>b, <2>2, <3>1 DEF DeleteUpload
  <2> QED  BY <2>1, <2>2
<1>14. ASSUME NEW h \in Handlers, RemoveSidecar(h)
       PROVE  Locked'
  <2>1. pc'[h] = "reply" /\ Others(h)
    BY <1>14, AnswerFrame DEF RemoveSidecar
  <2> QED  BY <1>14, <1>a, <2>1 DEF RemoveSidecar, Locked
<1>15. ASSUME NEW h \in Handlers, RemoveSidecarFails(h)
       PROVE  Locked'
  <2>1. pc'[h] = "reply" /\ Others(h)
    BY <1>15, AnswerFrame DEF RemoveSidecarFails
  <2> QED  BY <1>15, <1>a, <2>1 DEF RemoveSidecarFails, Locked
<1>16. ASSUME NEW h \in Handlers, Reply(h)
       PROVE  Locked'
  <2>1. pc'[h] = "idle" /\ Others(h)
    BY <1>16, <1>t DEF Reply, Goto
  <2> QED  BY <1>16, <1>b, <2>1 DEF Reply
<1>17. ASSUME Restart
       PROVE  Locked'
  BY <1>17, <1>t DEF Restart, Locked
<1>18. ASSUME NEW h \in Handlers, FinalizeFails(h) \/ RemoveSpoolFails(h)
       PROVE  Locked'
  <2>1. pc'[h] = "reply" /\ Others(h)
    BY <1>18, AnswerFrame DEF FinalizeFails, RemoveSpoolFails
  <2>2. CASE FinalizeFails(h)
    BY <1>b, <2>1, <2>2 DEF FinalizeFails
  <2>3. CASE RemoveSpoolFails(h)
    BY <1>a, <2>1, <2>3 DEF RemoveSpoolFails, Locked
  <2> QED  BY <1>18, <2>2, <2>3
<1>19. CASE UNCHANGED vars
  BY <1>19 DEF vars, handlers, Locked, SessionOpen, ChecksumMatches
<1>20. ASSUME NEW h \in Handlers, NEW u \in Uploads, RequestFails(h, u)
       PROVE  Locked'
  <2>1. pc'[h] = "reply" /\ Others(h)
    BY <1>20, AnswerFrame DEF RequestFails
  <2> QED  BY <1>20, <1>b, <2>1 DEF RequestFails
<1> QED
  BY <1>1, <1>2, <1>3, <1>4, <1>5, <1>6, <1>7, <1>8, <1>9, <1>10, <1>11, <1>12,
     <1>13, <1>14, <1>15, <1>16, <1>17, <1>18, <1>19, <1>20
     DEF Next, Arrive, Serve, Proceed, Fail

\* Every value the store, the handlers and the histories take has its type, and
\* the mutex is held by exactly the handler inside a critical section.
THEOREM TypeCorrect == Spec => []TypeOK
<1>1. Init => Typed /\ Locked
  BY TypedInit, LockedInit
<1>2. Typed /\ Locked /\ [Next]_vars => (Typed /\ Locked)'
  BY TypedStep, LockedStep
<1>3. Typed => TypeOK
  BY DEF Typed
<1> QED  BY <1>1, <1>2, <1>3, PTL DEF Spec

-----------------------------------------------------------------------------
(* What clients are told.  The invariant follows every offset from the lock *)
(* section that measured it, through the handler that carries it outside    *)
(* the lock, to the history of what was told; it also needs that a session  *)
(* which ended cannot be opened again under its id.                         *)

\* What a handler may rely on at each of its steps.
HandlerInv(h) ==
  LET u == req[h].id
      upto == req[h].upto
      code == req[h].code
  IN /\ pc[h] = "create_sidecar" => spool[u] = <<>> /\ u \notin opened
     /\ pc[h] \in {"append", "announce", "finalize",
                   "copy", "remove_spool", "remove_sidecar"} => u \in opened
     /\ pc[h] = "announce" =>
          upto <= Size[u] /\ (SessionOpen(u) => upto <= Len(spool[u]))
     /\ pc[h] \in {"finalize", "copy", "remove_spool"} => announced[u] = Size[u]
     /\ pc[h] \in {"copy", "remove_spool"} => Target[u] \in OffDevice
     /\ pc[h] = "remove_spool" => u \in published
     /\ pc[h] = "remove_sidecar" =>
          spool[u] = None /\ (code = "patched" => u \in published)
     /\ pc[h] = "reply" /\ code \in {"offset", "patched"} =>
          u \in opened /\ (SessionOpen(u) => upto <= Len(spool[u]))
     /\ pc[h] = "reply" /\ code = "patched" /\ upto = Size[u] => u \in published

\* What is true of each upload at every moment.
SessionInv(u) ==
  /\ u \notin opened =>
       /\ u \notin sidecars /\ u \notin published
       /\ spool[u] \in {None, <<>>}
       /\ reported[u] = 0 /\ announced[u] = 0
  /\ SessionOpen(u) =>
       /\ Len(spool[u]) <= Size[u]
       /\ reported[u] <= Len(spool[u])
       /\ announced[u] <= Len(spool[u])
  /\ announced[u] <= Size[u]
  /\ u \in published => announced[u] = Size[u]
  /\ u \in published /\ Target[u] \notin OffDevice => spool[u] = None

\* What a name the spool can be renamed to holds.
TargetInv(t) ==
  files[t] # None => Target[files[t].from] = t /\ files[t].data = Whole(files[t].from)

Consistent ==
  /\ \A h \in Handlers : pc[h] # "idle" => HandlerInv(h)
  /\ \A u \in Uploads : SessionInv(u)
  /\ \A t \in Targets \ OffDevice : TargetInv(t)
  /\ completed \subseteq published

\* At the start no client was told anything.
LEMMA ConsistentInit == Init => Consistent
<1> SUFFICES ASSUME Init PROVE Consistent
  OBVIOUS
<1>1. \A h \in Handlers : pc[h] = "idle"
  BY DEF Init
<1>2. ASSUME NEW u \in Uploads PROVE SessionInv(u)
  BY <1>2, UploadAssumption DEF Init, SessionInv, SessionOpen
<1>3. ASSUME NEW t \in Targets PROVE TargetInv(t)
  BY <1>3 DEF Init, TargetInv
<1> QED  BY <1>1, <1>2, <1>3 DEF Init, Consistent

\* The handlers that did not move keep what they rely on when the step lets no
\* session shrink, end twice or lose what was announced.
LEMMA OthersKeep ==
  ASSUME Typed, Typed', Locked, Consistent, NEW h \in Handlers,
         \A g \in Handlers : g # h => pc'[g] = pc[g] /\ req'[g] = req[g],
         opened \subseteq opened', published \subseteq published',
         \A v \in opened : SessionOpen(v)' =>
           SessionOpen(v) /\ Len(spool[v]) <= Len(spool'[v]),
         \A v \in Uploads : announced[v] = Size[v] => announced'[v] = Size[v],
         lock = None \/ lock = h \/ UNCHANGED <<spool, opened>>
  PROVE  \A g \in Handlers : g # h /\ pc'[g] # "idle" => HandlerInv(g)'
<1> SUFFICES ASSUME NEW g \in Handlers, g # h, pc'[g] # "idle"
             PROVE  HandlerInv(g)'
  OBVIOUS
<1> DEFINE u == req[g].id
<1>1. /\ HandlerInv(g) /\ pc'[g] = pc[g] /\ req'[g] = req[g]
      /\ u \in Uploads /\ req[g].upto \in Nat
  BY DEF Consistent, Typed, Requests
<1>2. pc[g] \in Holding => UNCHANGED <<spool, opened>>
  BY LockFacts, NoneAssumption DEF Locked
<1>3. SessionOpen(u)' /\ u \in opened =>
        SessionOpen(u) /\ Len(spool[u]) \in Nat /\ Len(spool'[u]) \in Nat
                       /\ Len(spool[u]) <= Len(spool'[u])
  BY <1>1 DEF SessionOpen, Typed, TypeOK
<1>4. Size[u] \in Nat
  BY <1>1, UploadAssumption
<1>5. CASE pc[g] \in Holding
  BY <1>1, <1>2, <1>5 DEF HandlerInv, Holding
<1>6. CASE pc[g] = "announce"
  BY <1>1, <1>3, <1>4, <1>6 DEF HandlerInv
<1>7. CASE pc[g] = "reply"
  BY <1>1, <1>3, <1>7 DEF HandlerInv
<1>8. CASE pc[g] \in {"append", "finalize"}
  BY <1>1, <1>8 DEF HandlerInv
<1> QED
  BY <1>1, <1>5, <1>6, <1>7, <1>8 DEF Holding, Steps, Typed, TypeOK

\* A session whose files and history are left alone keeps its invariant.
LEMMA SessionKept ==
  ASSUME NEW v \in Uploads, SessionInv(v),
         spool'[v] = spool[v], v \in sidecars' <=> v \in sidecars,
         v \in opened' <=> v \in opened, v \in published' <=> v \in published,
         reported'[v] = reported[v], announced'[v] = announced[v]
  PROVE  SessionInv(v)'
BY DEF SessionInv, SessionOpen

\* So does a target.
LEMMA TargetKept ==
  ASSUME NEW t \in Targets, TargetInv(t), files'[t] = files[t]
  PROVE  TargetInv(t)'
BY DEF TargetInv

\* Answering without an offset and without claiming completion needs no proof.
LEMMA PlainAnswer ==
  ASSUME NEW h \in Handlers, pc'[h] = "reply",
         req'[h].code \notin {"offset", "patched"}
  PROVE  HandlerInv(h)'
BY DEF HandlerInv

\* Every action keeps what the handlers rely on, what clients were told, and what
\* the targets hold.
LEMMA ConsistentStep ==
  Typed /\ Locked /\ Consistent /\ [Next]_vars => Consistent'
<1> SUFFICES ASSUME Typed, Locked, Consistent, [Next]_vars PROVE Consistent'
  OBVIOUS
<1> USE DEF store, history
<1> DEFINE Others(h) ==
             \A g \in Handlers : g # h => pc'[g] = pc[g] /\ req'[g] = req[g]
           SessionsKept == \A v \in Uploads : SessionInv(v)'
           TargetsKept == \A t \in Targets \ OffDevice : TargetInv(t)'
           Settled(h) == pc'[h] # "idle" => HandlerInv(h)'
<1>t. Typed'
  BY TypedStep
<1>u. /\ pc \in [Handlers -> Steps]
      /\ req \in [Handlers -> Requests \cup {None}]
      /\ spool \in [Uploads -> Seq(Bytes) \cup {None}]
      /\ files \in [Targets -> Contents \cup {None}]
      /\ reported \in [Uploads -> Nat] /\ announced \in [Uploads -> Nat]
      /\ opened \subseteq Uploads /\ published \subseteq Uploads
      /\ sidecars \subseteq Uploads
      /\ None \notin Seq(Bytes) /\ None \notin Contents
  BY NoneAssumption DEF Typed, TypeOK, Bytes, Contents
<1>r. ASSUME NEW h \in Handlers, pc[h] # "idle"
      PROVE  /\ req[h] \in Requests /\ req[h].id \in Uploads
             /\ req[h].body \in Seq(Bytes) /\ req[h].upto \in Nat
             /\ Target[req[h].id] \in Targets /\ Size[req[h].id] \in Nat
             /\ HandlerInv(h) /\ SessionInv(req[h].id)
  BY <1>r, UploadAssumption DEF Typed, Consistent, Requests
<1>z. \A v \in Uploads : SessionInv(v) /\ Size[v] \in Nat
  BY UploadAssumption DEF Consistent
<1>h. ASSUME NEW h \in Handlers, pc[h] \in Holding
      PROVE  lock = h
  BY <1>h DEF Locked
\* Steps that touch neither sessions nor targets.
<1>q. ASSUME NEW h \in Handlers, Others(h), Settled(h), UNCHANGED store,
             UNCHANGED <<opened, published, reported, announced, completed>>
      PROVE  Consistent'
  <2>1. SessionsKept
    BY <1>q, <1>z, SessionKept
  <2>2. TargetsKept
    BY <1>q, TargetKept DEF Consistent
  <2>3. \A g \in Handlers : g # h /\ pc'[g] # "idle" => HandlerInv(g)'
    BY <1>q, <1>t, <1>u, OthersKeep DEF SessionOpen
  <2> QED  BY <1>q, <2>1, <2>2, <2>3 DEF Consistent
\* A step that only touches a target the spool cannot be renamed to.
<1>c. ASSUME NEW h \in Handlers, NEW u \in Uploads, Others(h), Settled(h),
             Target[u] \in OffDevice,
             \E c : files' = [files EXCEPT ![Target[u]] = c],
             UNCHANGED <<spool, sidecars, opened, published, reported,
                         announced, completed>>
      PROVE  Consistent'
  <2>1. \A t \in Targets \ OffDevice : files'[t] = files[t]
    BY <1>c, <1>u
  <2>2. TargetsKept
    BY <2>1, TargetKept DEF Consistent
  <2>3. SessionsKept
    BY <1>c, <1>z, SessionKept
  <2>4. \A g \in Handlers : g # h /\ pc'[g] # "idle" => HandlerInv(g)'
    <3>1. \A v \in opened : SessionOpen(v)' =>
            SessionOpen(v) /\ Len(spool[v]) <= Len(spool'[v])
      BY <1>c, <1>u DEF SessionOpen
    <3> QED  BY <1>c, <1>t, <3>1, OthersKeep
  <2> QED  BY <1>c, <2>2, <2>3, <2>4 DEF Consistent
\* A session that grows within its declared length.
<1>g. ASSUME NEW h \in Handlers, NEW u \in Uploads, NEW t \in Seq(Bytes),
             Others(h), Settled(h), lock = None, SessionOpen(u), u \in opened,
             Len(spool[u]) + Len(t) <= Size[u],
             spool' = [spool EXCEPT ![u] = @ \o t],
             UNCHANGED <<sidecars, files, opened, published, reported,
                         announced, completed>>
      PROVE  Consistent'
  <2>1. /\ spool'[u] = spool[u] \o t
        /\ \A v \in Uploads : v # u => spool'[v] = spool[v]
    BY <1>g, <1>u
  <2>2. spool[u] \in Seq(Bytes)
    BY <1>g, <1>u DEF SessionOpen
  <2>3. Len(spool'[u]) = Len(spool[u]) + Len(t) /\ Len(t) \in Nat /\ Len(spool[u]) \in Nat
    BY <1>g, <2>1, <2>2, AppendKeeps
  <2>4. SessionInv(u)'
    <3>1. Len(spool'[u]) <= Size[u] /\ Len(spool[u]) <= Len(spool'[u])
      BY <1>g, <2>3
    <3>2. reported'[u] <= Len(spool'[u]) /\ announced'[u] <= Len(spool'[u])
      BY <1>g, <1>u, <1>z, <2>3 DEF SessionInv
    <3> QED  BY <1>g, <1>z, <3>1, <3>2 DEF SessionInv, SessionOpen
  <2>5. \A v \in Uploads : v # u => SessionInv(v)'
    BY <1>g, <1>z, <2>1, SessionKept
  <2>6. SessionsKept
    BY <2>4, <2>5
  <2>7. \A g \in Handlers : g # h /\ pc'[g] # "idle" => HandlerInv(g)'
    <3>1. \A v \in opened : SessionOpen(v)' =>
            SessionOpen(v) /\ Len(spool[v]) <= Len(spool'[v])
      <4> SUFFICES ASSUME NEW v \in opened, SessionOpen(v)'
                   PROVE  SessionOpen(v) /\ Len(spool[v]) <= Len(spool'[v])
        OBVIOUS
      <4>1. CASE v = u
        BY <1>g, <2>3, <4>1
      <4>2. CASE v # u
        BY <1>g, <1>u, <2>1, <4>2 DEF SessionOpen
      <4> QED  BY <4>1, <4>2
    <3> QED  BY <1>g, <1>t, <3>1, OthersKeep
  <2>8. TargetsKept
    BY <1>g, TargetKept DEF Consistent
  <2> QED  BY <1>g, <2>6, <2>7, <2>8 DEF Consistent
\* A session whose spool is removed.
<1>e. ASSUME NEW h \in Handlers, NEW u \in Uploads, Others(h), Settled(h),
             lock \in {None, h}, u \in opened,
             spool' = [spool EXCEPT ![u] = None],
             UNCHANGED <<sidecars, files, opened, published, reported,
                         announced, completed>>
      PROVE  Consistent'
  <2>1. spool'[u] = None /\ \A v \in Uploads : v # u => spool'[v] = spool[v]
    BY <1>e, <1>u
  <2>2. SessionInv(u)'
    BY <1>e, <1>z, <2>1 DEF SessionInv, SessionOpen
  <2>3. \A v \in Uploads : v # u => SessionInv(v)'
    BY <1>e, <1>z, <2>1, SessionKept
  <2>4. SessionsKept
    BY <2>2, <2>3
  <2>5. \A g \in Handlers : g # h /\ pc'[g] # "idle" => HandlerInv(g)'
    <3>1. \A v \in opened : SessionOpen(v)' =>
            SessionOpen(v) /\ Len(spool[v]) <= Len(spool'[v])
      BY <1>e, <1>u, <2>1 DEF SessionOpen
    <3> QED  BY <1>e, <1>t, <3>1, OthersKeep
  <2>6. TargetsKept
    BY <1>e, TargetKept DEF Consistent
  <2> QED  BY <1>e, <2>4, <2>5, <2>6 DEF Consistent
<1>1. ASSUME NEW h \in Handlers, NEW u \in Uploads, CreateSpool(h, u)
      PROVE  Consistent'
  <2>1. Others(h) /\ pc'[h] = "create_sidecar" /\ req'[h] = Request(u, 0, <<>>)
    BY <1>1, <1>u DEF CreateSpool, Goto
  <2>2. u \notin opened /\ u \notin sidecars /\ spool[u] = None /\ spool'[u] = <<>>
    BY <1>1, <1>u DEF CreateSpool, FreshId
  <2>3. Settled(h)
    BY <1>1, <2>1, <2>2 DEF CreateSpool, HandlerInv, Request
  <2>4. SessionInv(u)'
    BY <1>1, <1>z, <2>2 DEF CreateSpool, SessionInv, SessionOpen
  <2>5. \A v \in Uploads : v # u => SessionInv(v)'
    BY <1>1, <1>z, SessionKept DEF CreateSpool
  <2>6. \A g \in Handlers : g # h /\ pc'[g] # "idle" => HandlerInv(g)'
    <3>1. \A v \in opened : SessionOpen(v)' =>
            SessionOpen(v) /\ Len(spool[v]) <= Len(spool'[v])
      BY <1>1, <1>u, <2>2 DEF CreateSpool, SessionOpen
    <3> QED  BY <1>1, <1>t, <2>1, <3>1, OthersKeep DEF CreateSpool
  <2>7. TargetsKept
    BY <1>1, TargetKept DEF CreateSpool, Consistent
  <2> QED  BY <1>1, <2>3, <2>4, <2>5, <2>6, <2>7 DEF CreateSpool, Consistent
<1>2. ASSUME NEW h \in Handlers, CreateSidecar(h)
      PROVE  Consistent'
  <2> PICK u \in Uploads : u = req[h].id
    BY <1>2, <1>r DEF CreateSidecar
  <2>1. /\ Others(h) /\ pc'[h] = "reply" /\ req'[h].code = "created"
        /\ u \in Uploads /\ lock = h
    BY <1>2, <1>h, <1>r, <1>u, AnswerFrame
       DEF CreateSidecar, Answer, Holding, Requests
  <2>2. spool[u] = <<>> /\ u \notin opened
    BY <1>2, <1>r DEF CreateSidecar, HandlerInv
  <2>3. SessionInv(u)'
    <3>1. /\ spool'[u] = <<>> /\ Len(spool'[u]) = 0 /\ u \in opened'
          /\ reported'[u] = 0 /\ announced'[u] = 0
          /\ u \notin published' /\ Size[u] \in Nat
      BY <1>2, <1>z, <2>1, <2>2 DEF CreateSidecar, SessionInv
    <3> QED  BY <3>1 DEF SessionInv, SessionOpen
  <2>4. \A v \in Uploads : v # u => SessionInv(v)'
    BY <1>2, <1>z, SessionKept DEF CreateSidecar
  <2>5. \A g \in Handlers : g # h /\ pc'[g] # "idle" => HandlerInv(g)'
    <3>1. \A v \in opened : SessionOpen(v)' =>
            SessionOpen(v) /\ Len(spool[v]) <= Len(spool'[v])
      BY <1>2, <1>u, <2>2 DEF CreateSidecar, SessionOpen
    <3> QED  BY <1>2, <1>t, <2>1, <3>1, OthersKeep DEF CreateSidecar
  <2>6. TargetsKept
    BY <1>2, TargetKept DEF CreateSidecar, Consistent
  <2>7. Settled(h)
    BY <2>1, PlainAnswer
  <2>8. SessionsKept
    BY <2>3, <2>4
  <2>9. completed' \subseteq published'
    BY <1>2 DEF CreateSidecar, Consistent
  <2> QED  BY <2>5, <2>6, <2>7, <2>8, <2>9 DEF Consistent
<1>3. ASSUME NEW h \in Handlers, CreateSidecarFails(h)
      PROVE  Consistent'
  <2>1. Others(h) /\ pc'[h] = "reply" /\ req'[h].code = "failed"
    BY <1>3, <1>r, <1>u, AnswerFrame DEF CreateSidecarFails, Answer, Requests
  <2>2. Settled(h)
    BY <2>1, PlainAnswer
  <2> QED  BY <1>3, <1>q, <2>1, <2>2 DEF CreateSidecarFails
<1>4. ASSUME NEW h \in Handlers, NEW u \in Uploads, HeadUpload(h, u)
      PROVE  Consistent'
  <2>1. Others(h) /\ pc'[h] = "reply"
    BY <1>4, AnswerFrame DEF HeadUpload
  <2>2. CASE SessionOpen(u)
    <3>1. /\ req'[h].id = u /\ req'[h].code = "offset"
          /\ req'[h].upto = Len(spool[u])
      BY <1>4, <2>2, AnswerFrame DEF HeadUpload
    <3>2. u \in opened /\ Len(spool[u]) \in Nat
      BY <1>u, <1>z, <2>2 DEF SessionInv, SessionOpen
    <3>3. Settled(h)
      BY <1>4, <2>1, <3>1, <3>2 DEF HeadUpload, HandlerInv, SessionOpen
    <3> QED  BY <1>4, <1>q, <2>1, <3>3 DEF HeadUpload
  <2>3. CASE ~SessionOpen(u)
    <3>1. req'[h].code = "missing"
      BY <1>4, <2>3, AnswerFrame DEF HeadUpload
    <3>2. Settled(h)
      BY <2>1, <3>1, PlainAnswer
    <3> QED  BY <1>4, <1>q, <2>1, <3>2 DEF HeadUpload
  <2> QED  BY <2>2, <2>3
<1>5. ASSUME NEW h \in Handlers, NEW u \in Uploads, NEW off \in 0 .. Size[u],
             NEW body \in Bodies(off), PatchCheck(h, u, off, body)
      PROVE  Consistent'
  <2>1. off \in Nat
    BY UploadAssumption
  <2>2. CASE SessionOpen(u) /\ Len(spool[u]) = off
    <3>1. /\ Others(h) /\ pc'[h] = "append"
          /\ req'[h] = Request(u, off, body)
      BY <1>5, <1>u, <2>2 DEF PatchCheck, Goto
    <3>2. u \in opened
      BY <1>z, <2>2 DEF SessionInv, SessionOpen
    <3>3. Settled(h)
      BY <1>5, <3>1, <3>2 DEF PatchCheck, HandlerInv, Request
    <3> QED  BY <1>5, <1>q, <3>1, <3>3 DEF PatchCheck
  <2>3. CASE ~(SessionOpen(u) /\ Len(spool[u]) = off)
    <3>1. Others(h) /\ pc'[h] = "reply" /\ req'[h].code \in {"conflict", "missing"}
      <4>1. PICK code \in {"conflict", "missing"} : Answer(h, u, code, 0)
        BY <1>5, <2>3 DEF PatchCheck
      <4>2. Others(h) /\ pc'[h] = "reply"
        BY <2>1, <4>1, AnswerFrame
      <4>3. req'[h].code = code
        BY <4>1, AnswerFrame
      <4> QED  BY <4>1, <4>2, <4>3
    <3>2. Settled(h)
      BY <3>1, PlainAnswer
    <3> QED  BY <1>5, <1>q, <3>1, <3>2 DEF PatchCheck
  <2> QED  BY <2>2, <2>3
<1>6. ASSUME NEW h \in Handlers, PatchAppend(h)
      PROVE  Consistent'
  <2>1. pc[h] = "append" /\ req[h] \in Requests /\ HandlerInv(h) /\ lock = None
    BY <1>6, <1>r DEF PatchAppend
  <2>p. PICK u \in Uploads, body \in Seq(Bytes) : u = req[h].id /\ body = req[h].body
    BY <2>1, <1>r
  <2>2. u \in opened
    BY <2>1, <2>p DEF HandlerInv
  <2>3. CASE SessionOpen(u) /\ Fits(u, body)
    <3>1. /\ spool' = [spool EXCEPT ![u] = @ \o body]
          /\ pc' = [pc EXCEPT ![h] = "announce"]
          /\ req' = [req EXCEPT ![h] =
                       Outcome(u, "pending", Len(spool[u]) + Len(body))]
          /\ UNCHANGED <<sidecars, files, lock, opened, published, reported,
                         announced, completed>>
      BY <1>6, <2>3, <2>p DEF PatchAppend, Goto
    <3>2. /\ Others(h) /\ pc'[h] = "announce" /\ req'[h].id = u
          /\ req'[h].upto = Len(spool[u]) + Len(body)
      BY <1>u, <3>1 DEF Outcome
    <3>3. spool[u] \in Seq(Bytes)
      BY <1>u, <2>3 DEF SessionOpen
    <3>4. spool'[u] = spool[u] \o body /\ Len(spool'[u]) = Len(spool[u]) + Len(body)
      BY <1>u, <3>1, <3>3, AppendKeeps
    <3>5. Len(spool[u]) + Len(body) <= Size[u] /\ Len(spool[u]) + Len(body) \in Nat
      <4>1. Len(spool[u]) \in Nat /\ Len(body) \in Nat
        BY <3>3, LenProperties
      <4> QED  BY <2>3, <4>1 DEF Fits
    <3>6. Settled(h)
      <4>1. req'[h].upto <= Size[u] /\ req'[h].upto <= Len(spool'[u])
        BY <3>2, <3>4, <3>5
      <4> QED  BY <2>2, <3>1, <3>2, <4>1 DEF HandlerInv, SessionOpen
    <3> QED  BY <1>g, <2>1, <2>2, <2>3, <3>1, <3>2, <3>5, <3>6
  <2>4. CASE ~(SessionOpen(u) /\ Fits(u, body))
    <3>1. PICK code \in {"failed", "missing"} : Answer(h, u, code, 0)
      BY <1>6, <2>4, <2>p DEF PatchAppend
    <3>2. Others(h)
      BY <2>1, <3>1, AnswerFrame
    <3>3. Settled(h)
      BY <2>1, <3>1, AnswerFrame, PlainAnswer
    <3>4. UNCHANGED spool
      BY <1>6, <2>4, <2>p DEF PatchAppend
    <3> QED  BY <1>6, <1>q, <3>2, <3>3, <3>4 DEF PatchAppend
  <2> QED  BY <2>3, <2>4
<1>7. ASSUME NEW h \in Handlers, PatchAppendFails(h)
      PROVE  Consistent'
  <2>1. pc[h] = "append" /\ req[h] \in Requests /\ HandlerInv(h) /\ lock = None
    BY <1>7, <1>r DEF PatchAppendFails
  <2>p. PICK u \in Uploads, body \in Seq(Bytes) : u = req[h].id /\ body = req[h].body
    BY <2>1, <1>r
  <2>2. u \in opened
    BY <2>1, <2>p DEF HandlerInv
  <2>3. SessionOpen(u) /\ Len(spool[u]) + Len(body) <= Size[u]
    BY <1>7, <2>p DEF PatchAppendFails, Fits
  <2>4. PICK n \in 0 .. Len(body) - 1 :
               spool' = [spool EXCEPT ![u] = @ \o SubSeq(body, 1, n)]
    BY <1>7, <2>p DEF PatchAppendFails
  <2>5. Others(h) /\ Settled(h)
    BY <1>7, <2>1, AnswerFrame, PlainAnswer DEF PatchAppendFails
  <2>6. spool[u] \in Seq(Bytes) /\ Len(spool[u]) \in Nat /\ Len(body) \in Nat
    BY <1>u, <2>3, LenProperties DEF SessionOpen
  <2>7. n \in 0 .. Len(body)
    BY <2>6
  <2>8. SubSeq(body, 1, n) \in Seq(Bytes) /\ Len(SubSeq(body, 1, n)) = n
    BY <2>7, PrefixType
  <2>9. Len(spool[u]) + n <= Size[u]
    <3>1. Size[u] \in Nat
      BY <1>z
    <3> QED  BY <2>3, <2>6, <3>1
  <2>10. UNCHANGED <<sidecars, files, opened, published, reported, announced, completed>>
    BY <1>7, <2>p DEF PatchAppendFails
  <2> QED  BY <1>g, <2>1, <2>2, <2>3, <2>4, <2>5, <2>8, <2>9, <2>10
<1>8. ASSUME NEW h \in Handlers, PatchAnnounce(h)
      PROVE  Consistent'
  <2>1. pc[h] = "announce" /\ req[h] \in Requests /\ HandlerInv(h)
    BY <1>8, <1>r DEF PatchAnnounce
  <2> PICK u \in Uploads, upto \in Nat : u = req[h].id /\ upto = req[h].upto
    BY <2>1, <1>r
  <2>2. /\ u \in opened /\ upto <= Size[u] /\ Size[u] \in Nat
        /\ SessionOpen(u) => upto <= Len(spool[u])
        /\ announced[u] <= Size[u] /\ announced[u] \in Nat
    BY <1>u, <1>z, <2>1 DEF HandlerInv, SessionInv
  <2>3. /\ announced'[u] = Larger(announced[u], upto)
        /\ \A v \in Uploads : v # u => announced'[v] = announced[v]
        /\ UNCHANGED <<spool, sidecars, files, lock, opened, published, reported, completed>>
    BY <1>8, <1>u DEF PatchAnnounce
  <2>4. /\ announced'[u] <= Size[u]
        /\ upto = Size[u] \/ announced[u] = Size[u] => announced'[u] = Size[u]
        /\ SessionOpen(u) => announced'[u] <= Len(spool[u])
    BY <1>z, <2>2, <2>3 DEF Larger, SessionInv
  <2>5. SessionInv(u)'
    BY <1>z, <2>2, <2>3, <2>4 DEF SessionInv, SessionOpen
  <2>6. \A v \in Uploads : v # u => SessionInv(v)'
    BY <1>z, <2>3, SessionKept
  <2>7. SessionsKept
    BY <2>5, <2>6
  <2>8. Others(h) /\ Settled(h)
    <3>1. CASE upto = Size[u]
      <4>1. pc' = [pc EXCEPT ![h] = "finalize"] /\ req' = req
        BY <1>8, <3>1 DEF PatchAnnounce, Goto
      <4>2. Others(h) /\ pc'[h] = "finalize" /\ req'[h].id = u
        BY <1>u, <4>1
      <4> QED  BY <2>2, <2>3, <2>4, <3>1, <4>2 DEF HandlerInv
    <3>2. CASE upto # Size[u]
      <4>1. Answer(h, u, "patched", upto)
        BY <1>8, <3>2 DEF PatchAnnounce
      <4>2. Others(h)
        BY <2>1, <4>1, AnswerFrame
      <4>3. /\ pc'[h] = "reply" /\ req'[h].id = u
            /\ req'[h].code = "patched" /\ req'[h].upto = upto
        BY <2>1, <4>1, AnswerFrame
      <4> QED  BY <2>2, <2>3, <3>2, <4>2, <4>3 DEF HandlerInv, SessionOpen
    <3> QED  BY <3>1, <3>2
  <2>9. \A g \in Handlers : g # h /\ pc'[g] # "idle" => HandlerInv(g)'
    <3>1. \A v \in opened : SessionOpen(v)' =>
            SessionOpen(v) /\ Len(spool[v]) <= Len(spool'[v])
      BY <1>u, <2>3 DEF SessionOpen
    <3>2. \A v \in Uploads : announced[v] = Size[v] => announced'[v] = Size[v]
      BY <2>3, <2>4
    <3> QED  BY <1>t, <2>3, <2>8, <3>1, <3>2, OthersKeep
  <2>10. TargetsKept
    BY <2>3, TargetKept DEF Consistent
  <2> QED  BY <2>3, <2>7, <2>8, <2>9, <2>10 DEF Consistent
<1>9. ASSUME NEW h \in Handlers, Finalize(h)
      PROVE  Consistent'
  <2>1. /\ pc[h] = "finalize" /\ req[h] \in Requests /\ HandlerInv(h) /\ lock = None
        /\ UNCHANGED <<opened, reported, announced, completed>>
    BY <1>9, <1>r DEF Finalize
  <2>p. PICK u \in Uploads : u = req[h].id
    BY <2>1, <1>r
  <2>2. u \in opened /\ announced[u] = Size[u] /\ Target[u] \in Targets
    BY <2>1, <2>p, <1>r DEF HandlerInv
  <2>3. CASE FinalizeGone(h)
    <3>1. Others(h) /\ Settled(h)
      BY <2>1, <2>3, AnswerFrame, PlainAnswer DEF FinalizeGone
    <3> QED  BY <1>q, <2>1, <2>3, <3>1 DEF FinalizeGone
  <2>4. CASE FinalizeMismatch(h)
    <3>1. /\ Others(h) /\ pc'[h] = "remove_sidecar" /\ req'[h].id = u
          /\ req'[h].code = "mismatch" /\ spool' = [spool EXCEPT ![u] = None]
      BY <1>u, <2>1, <2>4, <2>p DEF FinalizeMismatch, Goto, Requests
    <3>2. Settled(h)
      BY <1>u, <2>1, <2>2, <3>1 DEF HandlerInv
    <3> QED  BY <1>e, <2>1, <2>2, <2>4, <3>1, <3>2 DEF FinalizeMismatch
  <2>6. CASE FinalizeRename(h)
    <3>1. /\ Others(h) /\ pc'[h] = "remove_sidecar" /\ req'[h].id = u
          /\ req'[h].code = "patched" /\ spool' = [spool EXCEPT ![u] = None]
          /\ files' = [files EXCEPT ![Target[u]] = [from |-> u, data |-> spool[u]]]
          /\ published' = published \cup {u} /\ sidecars' = sidecars
          /\ spool[u] = Whole(u)
      BY <1>u, <2>1, <2>6, <2>p
         DEF FinalizeRename, Goto, Requests, ChecksumMatches
    <3>2. spool'[u] = None /\ \A v \in Uploads : v # u => spool'[v] = spool[v]
      BY <1>u, <3>1
    <3>3. Settled(h)
      BY <2>1, <2>2, <3>1, <3>2 DEF HandlerInv
    <3>4. SessionInv(u)'
      BY <1>z, <2>1, <2>2, <3>1, <3>2 DEF SessionInv, SessionOpen
    <3>5. \A v \in Uploads : v # u => SessionInv(v)'
      BY <1>z, <2>1, <3>1, <3>2, SessionKept
    <3>6. SessionsKept
      BY <3>4, <3>5
    <3>7. \A g \in Handlers : g # h /\ pc'[g] # "idle" => HandlerInv(g)'
      <4>1. \A v \in opened : SessionOpen(v)' =>
              SessionOpen(v) /\ Len(spool[v]) <= Len(spool'[v])
        BY <1>u, <3>1, <3>2 DEF SessionOpen
      <4> QED  BY <1>t, <2>1, <3>1, <4>1, OthersKeep
    <3>8. TargetsKept
      <4> SUFFICES ASSUME NEW t \in Targets \ OffDevice PROVE TargetInv(t)'
        OBVIOUS
      <4>1. CASE t = Target[u]
        <5>1. files'[t] = [from |-> u, data |-> Whole(u)]
          BY <1>u, <2>2, <3>1, <4>1
        <5> QED  BY <4>1, <5>1 DEF TargetInv, Whole
      <4>2. CASE t # Target[u]
        <5>1. files'[t] = files[t]
          BY <1>u, <3>1, <4>2
        <5> QED  BY <5>1, TargetKept DEF Consistent
      <4> QED  BY <4>1, <4>2
    <3>9. completed' \subseteq published'
      BY <2>1, <3>1 DEF Consistent
    <3> QED  BY <3>1, <3>3, <3>6, <3>7, <3>8, <3>9 DEF Consistent
  <2>7. CASE FinalizeCopy(h)
    <3>1. /\ Others(h) /\ pc'[h] = "copy" /\ req'[h].id = u
          /\ Target[u] \in OffDevice
          /\ files' = [files EXCEPT ![Target[u]] = [from |-> u, data |-> <<>>]]
          /\ UNCHANGED <<spool, sidecars, req, published>>
      BY <1>u, <2>1, <2>7, <2>p DEF FinalizeCopy, Goto
    <3>2. Settled(h)
      BY <2>1, <2>2, <3>1 DEF HandlerInv
    <3> QED  BY <1>c, <2>1, <3>1, <3>2
  <2> QED  BY <1>9, <2>3, <2>4, <2>6, <2>7 DEF Finalize
<1>10. ASSUME NEW h \in Handlers, CopyFile(h)
       PROVE  Consistent'
  <2>1. pc[h] = "copy" /\ req[h] \in Requests /\ HandlerInv(h) /\ lock = h
    BY <1>10, <1>h, <1>r DEF CopyFile, Holding
  <2>p. PICK u \in Uploads : u = req[h].id
    BY <2>1, <1>r
  <2>2. u \in opened /\ announced[u] = Size[u] /\ Target[u] \in OffDevice
    BY <2>1, <2>p DEF HandlerInv
  <2>3. /\ Others(h) /\ pc'[h] = "remove_spool" /\ req'[h].id = u
        /\ published' = published \cup {u}
        /\ files' = [files EXCEPT ![Target[u]] = [from |-> u, data |-> spool[u]]]
        /\ UNCHANGED <<spool, sidecars, opened, reported, announced, completed>>
    BY <1>10, <1>u, <2>1, <2>p DEF CopyFile, Goto
  <2>4. Settled(h)
    BY <2>2, <2>3 DEF HandlerInv
  <2>5. SessionInv(u)'
    BY <1>z, <2>2, <2>3 DEF SessionInv, SessionOpen
  <2>6. \A v \in Uploads : v # u => SessionInv(v)'
    BY <1>z, <2>3, SessionKept
  <2>7. SessionsKept
    BY <2>5, <2>6
  <2>8. \A g \in Handlers : g # h /\ pc'[g] # "idle" => HandlerInv(g)'
    <3>1. \A v \in opened : SessionOpen(v)' =>
            SessionOpen(v) /\ Len(spool[v]) <= Len(spool'[v])
      BY <1>u, <2>3 DEF SessionOpen
    <3> QED  BY <1>t, <2>1, <2>3, <3>1, OthersKeep
  <2>9. TargetsKept
    <3>1. \A t \in Targets \ OffDevice : files'[t] = files[t]
      BY <1>u, <2>2, <2>3
    <3> QED  BY <3>1, TargetKept DEF Consistent
  <2>10. completed' \subseteq published'
    BY <2>3 DEF Consistent
  <2> QED  BY <2>4, <2>7, <2>8, <2>9, <2>10 DEF Consistent
<1>11. ASSUME NEW h \in Handlers, CopyFileFails(h)
       PROVE  Consistent'
  <2>1. pc[h] = "copy" /\ req[h] \in Requests /\ HandlerInv(h) /\ lock = h
    BY <1>11, <1>h, <1>r DEF CopyFileFails, Holding
  <2>p. PICK u \in Uploads : u = req[h].id
    BY <2>1, <1>r
  <2>2. Target[u] \in OffDevice
    BY <2>1, <2>p DEF HandlerInv
  <2>3. Others(h) /\ Settled(h)
    BY <1>11, <2>1, AnswerFrame, PlainAnswer DEF CopyFileFails
  <2>4. \E c : files' = [files EXCEPT ![Target[u]] = c]
    BY <1>11, <2>p DEF CopyFileFails
  <2> QED  BY <1>11, <1>c, <2>1, <2>2, <2>3, <2>4 DEF CopyFileFails
<1>12. ASSUME NEW h \in Handlers, RemoveSpool(h)
       PROVE  Consistent'
  <2>1. pc[h] = "remove_spool" /\ req[h] \in Requests /\ HandlerInv(h) /\ lock = h
    BY <1>12, <1>h, <1>r DEF RemoveSpool, Holding
  <2>p. PICK u \in Uploads : u = req[h].id
    BY <2>1, <1>r
  <2>2. u \in opened /\ u \in published
    BY <2>1, <2>p DEF HandlerInv
  <2>3. /\ Others(h) /\ pc'[h] = "remove_sidecar" /\ req'[h].id = u
        /\ spool' = [spool EXCEPT ![u] = None]
        /\ UNCHANGED <<sidecars, files, history>>
    BY <1>12, <1>u, <2>1, <2>p DEF RemoveSpool, Goto, Requests
  <2>4. Settled(h)
    BY <1>u, <2>2, <2>3 DEF HandlerInv
  <2> QED  BY <1>e, <2>1, <2>2, <2>3, <2>4
<1>13. ASSUME NEW h \in Handlers, NEW u \in Uploads, DeleteUpload(h, u)
       PROVE  Consistent'
  <2>1. CASE SessionOpen(u)
    <3>1. /\ Others(h) /\ pc'[h] = "remove_sidecar"
          /\ req'[h].id = u /\ req'[h].code = "deleted"
          /\ spool' = [spool EXCEPT ![u] = None] /\ lock = None
          /\ UNCHANGED <<sidecars, files, history>>
      BY <1>13, <1>u, <2>1 DEF DeleteUpload, Goto, Outcome
    <3>2. u \in opened
      BY <1>z, <2>1 DEF SessionInv, SessionOpen
    <3>3. Settled(h)
      BY <1>u, <3>1, <3>2 DEF HandlerInv
    <3> QED  BY <1>e, <3>1, <3>2, <3>3
  <2>2. CASE ~SessionOpen(u)
    <3>1. Answer(h, u, "missing", 0)
      BY <1>13, <2>2 DEF DeleteUpload
    <3>2. Others(h) /\ pc'[h] = "reply"
      BY <3>1, AnswerFrame
    <3>3. req'[h].code = "missing"
      BY <3>1, AnswerFrame
    <3>4. Settled(h)
      BY <3>2, <3>3, PlainAnswer
    <3> QED  BY <1>13, <1>q, <2>2, <3>2, <3>4 DEF DeleteUpload
  <2> QED  BY <2>1, <2>2
<1>14. ASSUME NEW h \in Handlers, RemoveSidecar(h)
       PROVE  Consistent'
  <2>1. pc[h] = "remove_sidecar" /\ req[h] \in Requests /\ HandlerInv(h) /\ lock = h
    BY <1>14, <1>h, <1>r DEF RemoveSidecar, Holding
  <2>p. PICK u \in Uploads : u = req[h].id
    BY <2>1, <1>r
  <2>2. /\ u \in opened /\ spool[u] = None
        /\ req[h].code = "patched" => u \in published
    BY <2>1, <2>p DEF HandlerInv
  <2>3. /\ sidecars' = sidecars \ {u} /\ Answer(h, u, req[h].code, req[h].upto)
        /\ UNCHANGED <<spool, files, history>>
    BY <1>14, <2>p DEF RemoveSidecar
  <2>4. Others(h)
    BY <2>1, <2>3, AnswerFrame
  <2>5. /\ pc'[h] = "reply" /\ req'[h].id = u
        /\ req'[h].code = req[h].code
    BY <2>1, <2>3, <2>p, AnswerFrame
  <2>6. Settled(h)
    BY <2>2, <2>3, <2>5 DEF HandlerInv, SessionOpen
  <2>7. SessionInv(u)'
    BY <1>z, <2>2, <2>3 DEF SessionInv, SessionOpen
  <2>8. \A v \in Uploads : v # u => SessionInv(v)'
    BY <1>z, <2>3, SessionKept
  <2>9. SessionsKept
    BY <2>7, <2>8
  <2>10. \A g \in Handlers : g # h /\ pc'[g] # "idle" => HandlerInv(g)'
    <3>1. \A v \in opened : SessionOpen(v)' =>
            SessionOpen(v) /\ Len(spool[v]) <= Len(spool'[v])
      BY <1>u, <2>3 DEF SessionOpen
    <3> QED  BY <1>t, <2>1, <2>3, <2>4, <3>1, OthersKeep
  <2>11. TargetsKept
    BY <2>3, TargetKept DEF Consistent
  <2> QED  BY <2>3, <2>6, <2>9, <2>10, <2>11 DEF Consistent
<1>15. ASSUME NEW h \in Handlers, RemoveSidecarFails(h)
       PROVE  Consistent'
  <2>1. pc[h] = "remove_sidecar" /\ req[h] \in Requests /\ HandlerInv(h)
    BY <1>15, <1>r DEF RemoveSidecarFails
  <2>2. CASE req[h].code = "patched"
    <3>1. Answer(h, req[h].id, "patched", req[h].upto)
      BY <1>15, <2>2 DEF RemoveSidecarFails
    <3>2. Others(h)
      BY <2>1, <3>1, AnswerFrame
    <3>3. pc'[h] = "reply" /\ req'[h].id = req[h].id
      BY <2>1, <3>1, AnswerFrame
    <3>4. Settled(h)
      BY <1>15, <2>1, <2>2, <3>3 DEF RemoveSidecarFails, HandlerInv, SessionOpen
    <3> QED  BY <1>15, <1>q, <3>2, <3>4 DEF RemoveSidecarFails
  <2>3. CASE req[h].code # "patched"
    <3>1. Answer(h, req[h].id, "failed", 0)
      BY <1>15, <2>3 DEF RemoveSidecarFails
    <3>2. Others(h) /\ Settled(h)
      BY <2>1, <3>1, AnswerFrame, PlainAnswer
    <3> QED  BY <1>15, <1>q, <3>2 DEF RemoveSidecarFails
  <2> QED  BY <2>2, <2>3
<1>16. ASSUME NEW h \in Handlers, Reply(h)
       PROVE  Consistent'
  <2>1. pc[h] = "reply" /\ HandlerInv(h)
    BY <1>16, <1>r DEF Reply
  <2>p. PICK u \in Uploads : u = req[h].id
    BY <2>1, <1>r
  <2>2. PICK upto \in Nat, code \in Codes : upto = req[h].upto /\ code = req[h].code
    BY <2>1, <1>r DEF Requests
  <2>3. /\ code \in {"offset", "patched"} =>
             u \in opened /\ (SessionOpen(u) => upto <= Len(spool[u]))
        /\ code = "patched" /\ upto = Size[u] => u \in published
    BY <2>1, <2>2, <2>p DEF HandlerInv
  <2>4. /\ Others(h) /\ pc'[h] = "idle"
        /\ UNCHANGED <<spool, sidecars, files, lock, opened, published, announced>>
    BY <1>16, <1>u DEF Reply, Goto
  <2>5. /\ \A v \in Uploads : v # u => reported'[v] = reported[v]
        /\ code \in {"offset", "patched"} => reported'[u] = Larger(reported[u], upto)
        /\ code \notin {"offset", "patched"} => reported'[u] = reported[u]
    BY <1>16, <1>u, <2>2, <2>p DEF Reply
  <2>6. SessionInv(u)'
    <3>1. reported[u] \in Nat /\ (SessionOpen(u) => Len(spool[u]) \in Nat)
      BY <1>u DEF SessionOpen
    <3>2. SessionOpen(u) => reported'[u] <= Len(spool[u])
      BY <1>z, <2>3, <2>5, <3>1 DEF Larger, SessionInv
    <3>3. u \notin opened => reported'[u] = 0
      BY <1>z, <2>3, <2>5 DEF SessionInv
    <3> QED  BY <1>z, <2>4, <3>2, <3>3 DEF SessionInv, SessionOpen
  <2>7. \A v \in Uploads : v # u => SessionInv(v)'
    BY <1>z, <2>4, <2>5, SessionKept
  <2>8. SessionsKept
    BY <2>6, <2>7
  <2>9. \A g \in Handlers : g # h /\ pc'[g] # "idle" => HandlerInv(g)'
    <3>1. \A v \in opened : SessionOpen(v)' =>
            SessionOpen(v) /\ Len(spool[v]) <= Len(spool'[v])
      BY <1>u, <2>4 DEF SessionOpen
    <3> QED  BY <1>t, <2>4, <3>1, OthersKeep
  <2>10. TargetsKept
    BY <2>4, TargetKept DEF Consistent
  <2>11. completed' \subseteq published'
    BY <1>16, <2>2, <2>3, <2>4, <2>p DEF Reply, Consistent
  <2> QED  BY <2>4, <2>8, <2>9, <2>10, <2>11 DEF Consistent
<1>17. ASSUME Restart
       PROVE  Consistent'
  <2>1. SessionsKept
    BY <1>17, <1>z, SessionKept DEF Restart
  <2>2. TargetsKept
    BY <1>17, TargetKept DEF Restart, Consistent
  <2>3. \A h \in Handlers : pc'[h] = "idle"
    BY <1>17 DEF Restart
  <2> QED  BY <1>17, <2>1, <2>2, <2>3 DEF Restart, Consistent
<1>18. ASSUME NEW h \in Handlers, FinalizeFails(h) \/ RemoveSpoolFails(h)
       PROVE  Consistent'
  <2>1. Others(h) /\ Settled(h)
    BY <1>18, AnswerFrame, PlainAnswer DEF FinalizeFails, RemoveSpoolFails
  <2> QED  BY <1>18, <1>q, <2>1 DEF FinalizeFails, RemoveSpoolFails
<1>19. CASE UNCHANGED vars
  <2>1. SessionsKept
    BY <1>19, <1>z, SessionKept DEF vars
  <2>2. TargetsKept
    BY <1>19, TargetKept DEF vars, Consistent
  <2>3. \A h \in Handlers : pc'[h] # "idle" => HandlerInv(h)'
    BY <1>19 DEF vars, handlers, Consistent, HandlerInv, SessionOpen
  <2> QED  BY <1>19, <2>1, <2>2, <2>3 DEF vars, Consistent
<1>20. ASSUME NEW h \in Handlers, NEW u \in Uploads, RequestFails(h, u)
       PROVE  Consistent'
  <2>1. Others(h) /\ Settled(h)
    BY <1>20, AnswerFrame, PlainAnswer DEF RequestFails
  <2> QED  BY <1>20, <1>q, <2>1 DEF RequestFails
<1> QED
  BY <1>1, <1>2, <1>3, <1>4, <1>5, <1>6, <1>7, <1>8, <1>9, <1>10, <1>11, <1>12,
     <1>13, <1>14, <1>15, <1>16, <1>17, <1>18, <1>19, <1>20
     DEF Next, Arrive, Serve, Proceed, Fail

\* The three parts of the inductive invariant together.
LEMMA ConsistentAlways == Spec => [](Typed /\ Locked /\ Consistent)
<1>1. Init => Typed /\ Locked /\ Consistent
  BY TypedInit, LockedInit, ConsistentInit
<1>2. Typed /\ Locked /\ Consistent /\ [Next]_vars => (Typed /\ Locked /\ Consistent)'
  BY TypedStep, LockedStep, ConsistentStep
<1> QED  BY <1>1, <1>2, PTL DEF Spec

\* Whatever requests race, fail or are cut short by a restart, no offset that a
\* client was told, by an answer or by an upload_progress event, is ahead of the
\* bytes its session holds.
THEOREM ToldIsKept == Spec => []NothingToldIsLost
<1>1. Consistent => NothingToldIsLost
  BY DEF Consistent, SessionInv, NothingToldIsLost
<1> QED  BY <1>1, ConsistentAlways, PTL

\* A client is told that its upload is complete only once all of the declared
\* content reached the target name, and after the progress event of the last byte.
THEOREM CompletionIsReal == Spec => []CompleteMeansPublished
<1>1. Typed /\ Consistent => CompleteMeansPublished
  BY DEF Typed, TypeOK, Consistent, SessionInv, CompleteMeansPublished
<1> QED  BY <1>1, ConsistentAlways, PTL

-----------------------------------------------------------------------------
(* What one step may do to a session that is open before and after it. *)

\* A step leaves an open session alone or appends to it.
LEMMA SpoolStep ==
  ASSUME Typed, Locked, Consistent, [Next]_vars,
         NEW u \in Uploads, SessionOpen(u), SessionOpen(u)'
  PROVE  \/ spool'[u] = spool[u]
         \/ \E t \in Seq(Bytes) : spool'[u] = spool[u] \o t
<1> USE DEF store, history
<1>u. spool \in [Uploads -> Seq(Bytes) \cup {None}]
  BY DEF Typed, TypeOK
<1>r. ASSUME NEW h \in Handlers, pc[h] # "idle"
      PROVE  req[h].id \in Uploads /\ req[h].body \in Seq(Bytes)
  BY <1>r DEF Typed, Requests
<1>1. ASSUME NEW h \in Handlers, NEW v \in Uploads, CreateSpool(h, v)
      PROVE  spool'[u] = spool[u]
  BY <1>1, <1>u DEF CreateSpool, FreshId, SessionOpen
<1>2. ASSUME NEW h \in Handlers, PatchAppend(h)
      PROVE  \/ spool'[u] = spool[u]
             \/ \E t \in Seq(Bytes) : spool'[u] = spool[u] \o t
  BY <1>2, <1>r, <1>u DEF PatchAppend
<1>3. ASSUME NEW h \in Handlers, PatchAppendFails(h)
      PROVE  \/ spool'[u] = spool[u]
             \/ \E t \in Seq(Bytes) : spool'[u] = spool[u] \o t
  <2>1. PICK n \in 0 .. Len(req[h].body) - 1 :
               spool' = [spool EXCEPT ![req[h].id] = @ \o SubSeq(req[h].body, 1, n)]
    BY <1>3 DEF PatchAppendFails
  <2>2. SubSeq(req[h].body, 1, n) \in Seq(Bytes)
    <3>1. req[h].body \in Seq(Bytes)
      BY <1>3, <1>r DEF PatchAppendFails
    <3>2. n \in 0 .. Len(req[h].body)
      BY <3>1, LenProperties
    <3> QED  BY <3>1, <3>2, PrefixType
  <2> QED  BY <1>u, <2>1, <2>2
<1>4. ASSUME NEW v, spool' = [spool EXCEPT ![v] = None]
      PROVE  spool'[u] = spool[u]
  BY <1>4, <1>u DEF SessionOpen
<1>5. ASSUME NEW h \in Handlers, Finalize(h)
      PROVE  spool'[u] = spool[u]
  BY <1>4, <1>5 DEF Finalize, FinalizeGone, FinalizeMismatch, FinalizeRename,
                    FinalizeCopy
<1>6. ASSUME NEW h \in Handlers, RemoveSpool(h)
      PROVE  spool'[u] = spool[u]
  BY <1>4, <1>6 DEF RemoveSpool
<1>7. ASSUME NEW h \in Handlers, NEW v \in Uploads, DeleteUpload(h, v)
      PROVE  spool'[u] = spool[u]
  BY <1>4, <1>7 DEF DeleteUpload
<1>8. ASSUME NEW h \in Handlers,
             \/ CreateSidecar(h) \/ CreateSidecarFails(h) \/ PatchAnnounce(h)
             \/ CopyFile(h) \/ CopyFileFails(h) \/ RemoveSidecar(h)
             \/ RemoveSidecarFails(h) \/ FinalizeFails(h) \/ RemoveSpoolFails(h)
             \/ Reply(h)
             \/ \E v \in Uploads : HeadUpload(h, v) \/ RequestFails(h, v)
             \/ \E v \in Uploads : \E off \in 0 .. Size[v] :
                  \E body \in Bodies(off) : PatchCheck(h, v, off, body)
      PROVE  spool'[u] = spool[u]
  BY <1>8 DEF CreateSidecar, CreateSidecarFails, PatchAnnounce, CopyFile,
              CopyFileFails, RemoveSidecar, RemoveSidecarFails, FinalizeFails,
              RemoveSpoolFails, Reply, HeadUpload, RequestFails, PatchCheck
<1>9. CASE Restart \/ UNCHANGED vars
  BY <1>9 DEF Restart, vars
<1> QED
  BY <1>1, <1>2, <1>3, <1>5, <1>6, <1>7, <1>8, <1>9 DEF Next, Arrive, Serve, Proceed, Fail

\* Although PATCH compares the offset and appends under two acquisitions of the
\* lock, what an open session holds is only ever added to, and stays within the
\* length it declared.
THEOREM SessionsGrow == Spec => SpoolOnlyGrows
<1> DEFINE Grown(u) == /\ Len(spool'[u]) \in Len(spool[u]) .. Size[u]
                       /\ SubSeq(spool'[u], 1, Len(spool[u])) = spool[u]
<1>1. ASSUME Typed, Locked, Consistent, [Next]_vars,
             NEW u \in Uploads, SessionOpen(u), SessionOpen(u)'
      PROVE  Grown(u)
  <2>1. Typed' /\ Consistent'
    BY <1>1, TypedStep, ConsistentStep
  <2>2. spool[u] \in Seq(Bytes) /\ spool'[u] \in Seq(Bytes)
    BY <1>1, <2>1 DEF SessionOpen, Typed, TypeOK
  <2>3. Len(spool'[u]) <= Size[u] /\ Size[u] \in Nat
    BY <1>1, <2>1, UploadAssumption DEF Consistent, SessionInv
  <2>4. CASE spool'[u] = spool[u]
    <3>1. \A i \in 1 .. Len(spool[u]) : spool[u][i] = SubSeq(spool[u], 1, Len(spool[u]))[i]
      BY <2>2, SubSeqProperties, LenProperties
    <3>2. SubSeq(spool[u], 1, Len(spool[u])) = spool[u]
      BY <2>2, <3>1, SubSeqProperties, LenProperties, SeqEqual
    <3>3. Len(spool[u]) \in Nat
      BY <2>2, LenProperties
    <3> QED  BY <2>3, <2>4, <3>2, <3>3
  <2>5. CASE \E t \in Seq(Bytes) : spool'[u] = spool[u] \o t
    <3>1. PICK t \in Seq(Bytes) : spool'[u] = spool[u] \o t
      BY <2>5
    <3>2. /\ Len(spool'[u]) = Len(spool[u]) + Len(t)
          /\ SubSeq(spool'[u], 1, Len(spool[u])) = spool[u]
      BY <2>2, <3>1, AppendKeeps
    <3>3. Len(spool[u]) \in Nat /\ Len(t) \in Nat
      BY <2>2, LenProperties
    <3> QED  BY <2>3, <3>2, <3>3
  <2> QED  BY <1>1, <2>4, <2>5, SpoolStep
<1>2. Typed /\ Locked /\ Consistent /\ [Next]_vars =>
        [\A u \in Uploads : SessionOpen(u) /\ SessionOpen(u)' => Grown(u)]_store
  BY <1>1
<1> QED  BY <1>2, ConsistentAlways, PTL DEF Spec, SpoolOnlyGrows

-----------------------------------------------------------------------------
(* The store implements AtomicUpload for the targets a spool is renamed to. *)

\* Steps that an observer of the renamed targets cannot see.
LEMMA Unseen ==
  ASSUME \A v \in Renamed :
           /\ v \in opened' <=> v \in opened
           /\ v \in published' <=> v \in published
           /\ SessionOpen(v)' <=> SessionOpen(v)
           /\ SessionOpen(v) => spool'[v] = spool[v],
         \A t \in Targets \ OffDevice : files'[t] = files[t]
  PROVE  UNCHANGED Promise!abstractVars
<1>1. \A v \in Renamed : StatusOf(v)' = StatusOf(v) /\ ReceivedOf(v)' = ReceivedOf(v)
  BY DEF StatusOf, ReceivedOf
<1>2. \A t \in Targets \ OffDevice : HolderOf(t)' = HolderOf(t)
  BY DEF HolderOf, Whole
<1> QED  BY <1>1, <1>2 DEF Promise!abstractVars, Renamed

\* An open session is seen as open, with as many bytes as its spool has.
LEMMA OpenSeen ==
  ASSUME Typed, Consistent, NEW u \in Renamed, SessionOpen(u)
  PROVE  /\ u \in Uploads /\ u \in opened /\ u \notin published
         /\ StatusOf(u) = "open" /\ ReceivedOf(u) = Len(spool[u])
         /\ Len(spool[u]) \in Nat
<1>1. u \in Uploads /\ Target[u] \notin OffDevice
  BY DEF Renamed
<1>2. u \in opened /\ u \notin published
  BY <1>1 DEF Consistent, SessionInv, SessionOpen
<1>3. Len(spool[u]) \in Nat
  BY <1>1 DEF SessionOpen, Typed, TypeOK
<1> QED  BY <1>1, <1>2, <1>3 DEF StatusOf, ReceivedOf

\* A session whose spool is removed is discarded, once.
LEMMA DiscardSeen ==
  ASSUME Typed, Consistent, NEW u \in Uploads, SessionOpen(u),
         spool' = [spool EXCEPT ![u] = None],
         UNCHANGED <<sidecars, files, opened, published>>
  PROVE  [Promise!Next]_(Promise!abstractVars)
<1>u. spool'[u] = None /\ \A v \in Uploads : v # u => spool'[v] = spool[v]
  BY DEF Typed, TypeOK
<1>1. CASE u \in Renamed
  <2>1. /\ u \in opened /\ u \notin published
        /\ StatusOf(u) = "open" /\ ReceivedOf(u) = Len(spool[u])
    BY <1>1, OpenSeen
  <2>2. StatusOf(u)' = "discarded" /\ ReceivedOf(u)' = 0
    BY <1>u, <2>1 DEF StatusOf, ReceivedOf, SessionOpen
  <2>3. \A v \in Renamed : v # u =>
          StatusOf(v)' = StatusOf(v) /\ ReceivedOf(v)' = ReceivedOf(v)
    BY <1>u DEF StatusOf, ReceivedOf, SessionOpen, Renamed
  <2>4. \A t \in Targets \ OffDevice : HolderOf(t)' = HolderOf(t)
    BY DEF HolderOf, Whole
  <2>5. Promise!Discard(u)
    BY <1>1, <2>1, <2>2, <2>3, <2>4 DEF Promise!Discard, Renamed
  <2> QED  BY <1>1, <2>5 DEF Promise!Next
<1>2. CASE u \notin Renamed
  <2>1. \A v \in Renamed : spool'[v] = spool[v]
    BY <1>u, <1>2 DEF Renamed
  <2>2. UNCHANGED Promise!abstractVars
    BY <2>1, Unseen DEF SessionOpen
  <2> QED  BY <2>2
<1> QED  BY <1>1, <1>2

\* A session that grows is seen to receive.
LEMMA ReceiveSeen ==
  ASSUME Typed, Consistent, NEW u \in Uploads, SessionOpen(u), NEW c \in Seq(Bytes),
         Len(c) \in Len(spool[u]) .. Size[u],
         spool' = [spool EXCEPT ![u] = c],
         UNCHANGED <<sidecars, files, opened, published>>
  PROVE  [Promise!Next]_(Promise!abstractVars)
<1>u. /\ spool'[u] = c /\ \A v \in Uploads : v # u => spool'[v] = spool[v]
      /\ c # None
  BY NoneAssumption DEF Typed, TypeOK, Bytes
<1>1. CASE u \in Renamed
  <2>1. /\ u \in opened /\ u \notin published
        /\ StatusOf(u) = "open" /\ ReceivedOf(u) = Len(spool[u])
    BY <1>1, OpenSeen
  <2>2. StatusOf(u)' = "open" /\ ReceivedOf(u)' = Len(c)
    BY <1>u, <2>1 DEF StatusOf, ReceivedOf, SessionOpen
  <2>3. \A v \in Renamed : v # u =>
          StatusOf(v)' = StatusOf(v) /\ ReceivedOf(v)' = ReceivedOf(v)
    BY <1>u DEF StatusOf, ReceivedOf, SessionOpen, Renamed
  <2>4. \A t \in Targets \ OffDevice : HolderOf(t)' = HolderOf(t)
    BY DEF HolderOf, Whole
  <2>5. Promise!Receive(u)
    BY <1>1, <2>1, <2>2, <2>3, <2>4 DEF Promise!Receive, Renamed
  <2> QED  BY <1>1, <2>5 DEF Promise!Next
<1>2. CASE u \notin Renamed
  <2>1. \A v \in Renamed : spool'[v] = spool[v]
    BY <1>u, <1>2 DEF Renamed
  <2>2. UNCHANGED Promise!abstractVars
    BY <2>1, Unseen DEF SessionOpen
  <2> QED  BY <2>2
<1> QED  BY <1>1, <1>2

\* The initial states map to the initial state of AtomicUpload.
LEMMA PromiseInit == Init => Promise!Init
<1> SUFFICES ASSUME Init PROVE Promise!Init
  OBVIOUS
<1>1. \A u \in Renamed : StatusOf(u) = "new" /\ ReceivedOf(u) = 0
  BY DEF Init, StatusOf, ReceivedOf
<1>2. \A t \in Targets \ OffDevice : HolderOf(t) = None
  BY DEF Init, HolderOf
<1> QED  BY <1>1, <1>2 DEF Promise!Init

\* Every step maps to a step of AtomicUpload or to a stutter.
LEMMA PromiseStep ==
  Typed /\ Locked /\ Consistent /\ [Next]_vars =>
    [Promise!Next]_(Promise!abstractVars)
<1> SUFFICES ASSUME Typed, Locked, Consistent, [Next]_vars
             PROVE  [Promise!Next]_(Promise!abstractVars)
  OBVIOUS
<1> USE DEF store, history
<1>u. /\ spool \in [Uploads -> Seq(Bytes) \cup {None}]
      /\ files \in [Targets -> Contents \cup {None}]
      /\ None \notin Seq(Bytes)
  BY NoneAssumption DEF Typed, TypeOK, Bytes
<1>r. ASSUME NEW h \in Handlers, pc[h] # "idle"
      PROVE  /\ req[h].id \in Uploads /\ req[h].body \in Seq(Bytes)
             /\ HandlerInv(h) /\ SessionInv(req[h].id)
             /\ Target[req[h].id] \in Targets /\ Size[req[h].id] \in Nat
  BY <1>r, UploadAssumption DEF Typed, Requests, Consistent
\* The rest of the system moves, and the store does not.
<1>q. ASSUME UNCHANGED <<spool, sidecars, files, opened, published>>
      PROVE  [Promise!Next]_(Promise!abstractVars)
  BY <1>q, Unseen DEF SessionOpen
<1>1. ASSUME NEW h \in Handlers, NEW u \in Uploads, CreateSpool(h, u)
      PROVE  [Promise!Next]_(Promise!abstractVars)
  <2>1. \A v \in Renamed : v # u => spool'[v] = spool[v]
    BY <1>1, <1>u DEF CreateSpool, Renamed
  <2>2. \A v \in Renamed : /\ SessionOpen(v)' <=> SessionOpen(v)
                           /\ SessionOpen(v) => spool'[v] = spool[v]
    BY <1>1, <2>1 DEF CreateSpool, FreshId, SessionOpen
  <2> QED  BY <1>1, <2>2, Unseen DEF CreateSpool
<1>2. ASSUME NEW h \in Handlers, CreateSidecar(h)
      PROVE  [Promise!Next]_(Promise!abstractVars)
  <2>p. PICK u \in Uploads : u = req[h].id
    BY <1>2, <1>r DEF CreateSidecar
  <2>1. /\ spool[u] = <<>> /\ u \notin opened /\ u \notin published
        /\ sidecars' = sidecars \cup {u} /\ opened' = opened \cup {u}
        /\ UNCHANGED <<spool, files, published>>
    BY <1>2, <1>r, <2>p DEF CreateSidecar, HandlerInv, SessionInv
  <2>2. \A v \in Uploads : v # u => (SessionOpen(v)' <=> SessionOpen(v))
    BY <2>1 DEF SessionOpen
  <2>3. CASE u \in Renamed
    <3>1. StatusOf(u) = "new" /\ ReceivedOf(u) = 0
      BY <2>1 DEF StatusOf, ReceivedOf
    <3>2. StatusOf(u)' = "open" /\ ReceivedOf(u)' = 0
      <4>1. <<>> \in Seq(Bytes) /\ Len(<<>>) = 0
        OBVIOUS
      <4> QED  BY <1>u, <2>1, <4>1 DEF StatusOf, ReceivedOf, SessionOpen
    <3>3. \A v \in Renamed : v # u =>
            StatusOf(v)' = StatusOf(v) /\ ReceivedOf(v)' = ReceivedOf(v)
      BY <2>1, <2>2 DEF StatusOf, ReceivedOf, Renamed
    <3>4. \A t \in Targets \ OffDevice : HolderOf(t)' = HolderOf(t)
      BY <2>1 DEF HolderOf, Whole
    <3>5. Promise!Open(u)
      BY <2>3, <3>1, <3>2, <3>3, <3>4 DEF Promise!Open, Renamed
    <3> QED  BY <2>3, <3>5 DEF Promise!Next
  <2>4. CASE u \notin Renamed
    <3>1. \A v \in Renamed : v # u /\ v \in Uploads
      BY <2>4 DEF Renamed
    <3> QED  BY <2>1, <2>2, <3>1, Unseen
  <2> QED  BY <2>3, <2>4
<1>3. ASSUME NEW h \in Handlers, PatchAppend(h)
      PROVE  [Promise!Next]_(Promise!abstractVars)
  <2>p. PICK u \in Uploads, body \in Seq(Bytes) : u = req[h].id /\ body = req[h].body
    BY <1>3, <1>r DEF PatchAppend
  <2>1. CASE SessionOpen(u) /\ Fits(u, body)
    <3>1. spool[u] \in Seq(Bytes)
      BY <1>u, <2>1 DEF SessionOpen
    <3>2. /\ spool[u] \o body \in Seq(Bytes)
          /\ Len(spool[u] \o body) = Len(spool[u]) + Len(body)
          /\ Len(spool[u]) \in Nat /\ Len(body) \in Nat
      BY <3>1, AppendKeeps
    <3>3. Len(spool[u]) + Len(body) <= Size[u] /\ Size[u] \in Nat
      BY <2>1, UploadAssumption DEF Fits
    <3>4. Len(spool[u] \o body) \in Len(spool[u]) .. Size[u]
      BY <3>2, <3>3
    <3>5. /\ spool' = [spool EXCEPT ![u] = spool[u] \o body]
          /\ UNCHANGED <<sidecars, files, opened, published>>
      BY <1>3, <2>1, <2>p DEF PatchAppend
    <3> QED  BY <2>1, <3>2, <3>4, <3>5, ReceiveSeen
  <2>2. CASE ~(SessionOpen(u) /\ Fits(u, body))
    BY <1>3, <1>q, <2>2, <2>p DEF PatchAppend
  <2> QED  BY <2>1, <2>2
<1>4. ASSUME NEW h \in Handlers, PatchAppendFails(h)
      PROVE  [Promise!Next]_(Promise!abstractVars)
  <2>p. PICK u \in Uploads, body \in Seq(Bytes) : u = req[h].id /\ body = req[h].body
    BY <1>4, <1>r DEF PatchAppendFails
  <2>1. SessionOpen(u) /\ Len(spool[u]) + Len(body) <= Size[u]
    BY <1>4, <2>p DEF PatchAppendFails, Fits
  <2>2. PICK n \in 0 .. Len(body) - 1 :
               spool' = [spool EXCEPT ![u] = spool[u] \o SubSeq(body, 1, n)]
    BY <1>4, <2>p DEF PatchAppendFails
  <2>3. spool[u] \in Seq(Bytes) /\ Len(spool[u]) \in Nat /\ Len(body) \in Nat
    BY <1>u, <2>1, LenProperties DEF SessionOpen
  <2>4. n \in 0 .. Len(body)
    BY <2>3
  <2>5. PICK t \in Seq(Bytes) : t = SubSeq(body, 1, n) /\ Len(t) = n
    BY <2>4, PrefixType
  <2>6. spool[u] \o t \in Seq(Bytes) /\ Len(spool[u] \o t) = Len(spool[u]) + n
    <3>1. spool[u] \o t \in Seq(Bytes) /\ Len(spool[u] \o t) = Len(spool[u]) + Len(t)
      BY <2>3, AppendKeeps
    <3> QED  BY <2>5, <3>1
  <2>7. Len(spool[u] \o t) \in Len(spool[u]) .. Size[u]
    <3>1. Size[u] \in Nat
      BY UploadAssumption
    <3> QED  BY <2>1, <2>3, <2>4, <2>6, <3>1
  <2>8. UNCHANGED <<sidecars, files, opened, published>>
    BY <1>4 DEF PatchAppendFails
  <2> QED  BY <2>1, <2>2, <2>5, <2>6, <2>7, <2>8, ReceiveSeen
<1>5. ASSUME NEW h \in Handlers, Finalize(h)
      PROVE  [Promise!Next]_(Promise!abstractVars)
  <2>p. PICK u \in Uploads : u = req[h].id /\ Target[u] \in Targets
    BY <1>5, <1>r DEF Finalize
  <2>1. UNCHANGED opened
    BY <1>5 DEF Finalize
  <2>2. CASE FinalizeGone(h)
    BY <1>q, <2>1, <2>2 DEF FinalizeGone
  <2>3. CASE FinalizeMismatch(h)
    BY <2>1, <2>3, <2>p, DiscardSeen DEF FinalizeMismatch, ReadyToFinalize
  <2>4. CASE FinalizeRename(h)
    <3>1. /\ SessionOpen(u) /\ Len(spool[u]) = Size[u] /\ spool[u] = Whole(u)
          /\ Target[u] \notin OffDevice
          /\ files' = [files EXCEPT ![Target[u]] = [from |-> u, data |-> spool[u]]]
          /\ spool' = [spool EXCEPT ![u] = None]
          /\ published' = published \cup {u} /\ UNCHANGED <<sidecars, opened>>
      BY <2>1, <2>4, <2>p DEF FinalizeRename, ReadyToFinalize, ChecksumMatches
    <3>2. u \in Renamed
      BY <3>1 DEF Renamed
    <3>3. u \in opened /\ StatusOf(u) = "open" /\ ReceivedOf(u) = Size[u]
      BY <3>1, <3>2, OpenSeen
    <3>4. StatusOf(u)' = "published" /\ ReceivedOf(u)' = 0
      BY <3>1, <3>3 DEF StatusOf, ReceivedOf
    <3>5. \A v \in Uploads : v # u => spool'[v] = spool[v]
      BY <1>u, <3>1
    <3>6. \A v \in Renamed : v # u =>
            StatusOf(v)' = StatusOf(v) /\ ReceivedOf(v)' = ReceivedOf(v)
      BY <3>1, <3>5 DEF StatusOf, ReceivedOf, SessionOpen, Renamed
    <3>7. HolderOf(Target[u])' = u
      <4>1. files'[Target[u]] = [from |-> u, data |-> Whole(u)]
        BY <1>u, <2>p, <3>1
      <4>2. [from |-> u, data |-> Whole(u)] \in Contents
        BY WholeType DEF Contents
      <4>3. files'[Target[u]] # None
        BY <4>1, <4>2, NoneAssumption DEF Contents, Bytes
      <4>4. files'[Target[u]].from = u /\ files'[Target[u]].data = Whole(u)
        BY <4>1
      <4> QED  BY <4>3, <4>4 DEF HolderOf, Whole
    <3>8. \A t \in Targets \ OffDevice : t # Target[u] => HolderOf(t)' = HolderOf(t)
      BY <1>u, <3>1 DEF HolderOf, Whole
    <3>9. Promise!Publish(u)
      BY <2>p, <3>1, <3>2, <3>3, <3>4, <3>6, <3>7, <3>8 DEF Promise!Publish, Renamed
    <3> QED  BY <3>2, <3>9 DEF Promise!Next
  <2>5. CASE FinalizeCopy(h)
    <3>1. \A t \in Targets \ OffDevice : files'[t] = files[t]
      BY <1>u, <2>5, <2>p DEF FinalizeCopy
    <3> QED  BY <2>1, <2>5, <3>1, Unseen DEF FinalizeCopy, SessionOpen
  <2> QED  BY <1>5, <2>2, <2>3, <2>4, <2>5 DEF Finalize
<1>6. ASSUME NEW h \in Handlers, CopyFile(h) \/ CopyFileFails(h)
      PROVE  [Promise!Next]_(Promise!abstractVars)
  <2>p. PICK u \in Uploads : u = req[h].id /\ Target[u] \in OffDevice
    BY <1>6, <1>r DEF CopyFile, CopyFileFails, HandlerInv
  <2>1. \E c : files' = [files EXCEPT ![Target[u]] = c]
    BY <1>6, <2>p DEF CopyFile, CopyFileFails
  <2>2. \A t \in Targets \ OffDevice : files'[t] = files[t]
    BY <1>u, <2>1, <2>p
  <2>3. UNCHANGED <<spool, sidecars, opened>> /\ published' \in {published, published \cup {u}}
    BY <1>6, <2>p DEF CopyFile, CopyFileFails
  <2>4. \A v \in Renamed : v # u
    BY <2>p DEF Renamed
  <2> QED  BY <2>2, <2>3, <2>4, Unseen DEF SessionOpen
<1>7. ASSUME NEW h \in Handlers, RemoveSpool(h)
      PROVE  [Promise!Next]_(Promise!abstractVars)
  BY <1>7, <1>r, DiscardSeen DEF RemoveSpool, Locked
<1>8. ASSUME NEW h \in Handlers, NEW u \in Uploads, DeleteUpload(h, u)
      PROVE  [Promise!Next]_(Promise!abstractVars)
  <2>1. CASE SessionOpen(u)
    BY <1>8, <2>1, DiscardSeen DEF DeleteUpload
  <2>2. CASE ~SessionOpen(u)
    BY <1>8, <1>q, <2>2 DEF DeleteUpload
  <2> QED  BY <2>1, <2>2
<1>9. ASSUME NEW h \in Handlers, RemoveSidecar(h)
      PROVE  [Promise!Next]_(Promise!abstractVars)
  <2>1. spool[req[h].id] = None
    BY <1>9, <1>r DEF RemoveSidecar, HandlerInv
  <2>2. \A v : SessionOpen(v)' <=> SessionOpen(v)
    BY <1>9, <2>1 DEF RemoveSidecar, SessionOpen
  <2> QED  BY <1>9, <2>2, Unseen DEF RemoveSidecar
<1>10. ASSUME NEW h \in Handlers,
              \/ CreateSidecarFails(h) \/ PatchAnnounce(h)
              \/ RemoveSidecarFails(h) \/ FinalizeFails(h)
              \/ RemoveSpoolFails(h) \/ Reply(h)
              \/ \E v \in Uploads : HeadUpload(h, v) \/ RequestFails(h, v)
              \/ \E v \in Uploads : \E off \in 0 .. Size[v] :
                   \E body \in Bodies(off) : PatchCheck(h, v, off, body)
       PROVE  [Promise!Next]_(Promise!abstractVars)
  BY <1>10, <1>q DEF CreateSidecarFails, PatchAnnounce, RemoveSidecarFails,
                     FinalizeFails, RemoveSpoolFails, Reply, HeadUpload,
                     RequestFails, PatchCheck
<1>11. CASE Restart \/ UNCHANGED vars
  BY <1>11, <1>q DEF Restart, vars
<1> QED
  BY <1>1, <1>2, <1>3, <1>4, <1>5, <1>6, <1>7, <1>8, <1>9, <1>10, <1>11
     DEF Next, Arrive, Serve, Proceed, Fail

\* A session whose target the spool can be renamed to ends exactly once: all of
\* its declared content appears under its name in one step, or it is discarded
\* and nothing appears, whatever requests race and wherever the server restarts.
THEOREM StoreImplementsAtomicUpload == Spec => ImplementsAtomicUpload
BY PromiseInit, PromiseStep, ConsistentAlways, PTL
   DEF Spec, ImplementsAtomicUpload, Promise!Spec

-----------------------------------------------------------------------------
(* Half sessions and torn targets belong to the handler inside the lock. *)

PairedSession(u) == spool[u] # None <=> u \in sidecars
WholeFile(t) == files[t] # None => files[t].data = Whole(files[t].from)
WorksOn(h, u) == pc[h] \in {"create_sidecar", "remove_sidecar"} /\ req[h].id = u
Fills(h, t) == pc[h] = "copy" /\ Target[req[h].id] = t

Paired ==
  ~faulted =>
    /\ \A u \in Uploads : PairedSession(u) \/ \E h \in Handlers : WorksOn(h, u)
    /\ \A t \in Targets : WholeFile(t) \/ \E h \in Handlers : Fills(h, t)

\* At the start there are no sessions and no files.
LEMMA PairedInit == Init => Paired
BY DEF Init, Paired, PairedSession, WholeFile

\* What failed once stays on record.
LEMMA FaultStays ==
  ASSUME Typed, [Next]_vars, ~faulted'
  PROVE  ~faulted
<1> USE DEF store, history
<1> DEFINE Kept == faulted' = faulted \/ faulted' = TRUE
<1>1. ASSUME NEW h \in Handlers, Serve(h) PROVE Kept
  <2>1. ASSUME \/ CreateSidecar(h) \/ CreateSidecarFails(h) \/ PatchAppend(h)
               \/ PatchAppendFails(h) \/ PatchAnnounce(h) PROVE Kept
    BY <2>1 DEF CreateSidecar, CreateSidecarFails, PatchAppend, PatchAppendFails,
                PatchAnnounce
  <2>2. ASSUME \/ Finalize(h) \/ FinalizeFails(h) \/ CopyFile(h)
               \/ CopyFileFails(h) \/ RemoveSpoolFails(h) PROVE Kept
    BY <2>2 DEF Finalize, FinalizeFails, CopyFile, CopyFileFails, RemoveSpoolFails
  <2>3. ASSUME \/ RemoveSpool(h) \/ RemoveSidecar(h) \/ RemoveSidecarFails(h)
               \/ Reply(h) PROVE Kept
    BY <2>3 DEF RemoveSpool, RemoveSidecar, RemoveSidecarFails, Reply
  <2> QED  BY <1>1, <2>1, <2>2, <2>3 DEF Serve, Proceed, Fail
<1>2. ASSUME NEW h \in Handlers, Arrive(h) PROVE Kept
  BY <1>2 DEF Arrive, CreateSpool, HeadUpload, PatchCheck, DeleteUpload, RequestFails
<1>3. ASSUME Restart \/ UNCHANGED vars PROVE Kept
  BY <1>3 DEF Restart, vars
<1>4. Kept
  BY <1>1, <1>2, <1>3 DEF Next
<1> QED  BY <1>4

\* No step leaves a half session or a torn target behind with the lock free.
LEMMA PairedStep ==
  Typed /\ Locked /\ Consistent /\ Paired /\ [Next]_vars => Paired'
<1> SUFFICES ASSUME Typed, Locked, Consistent, Paired, [Next]_vars, ~faulted'
             PROVE  /\ \A u \in Uploads : PairedSession(u)'
                                            \/ \E h \in Handlers : WorksOn(h, u)'
                    /\ \A t \in Targets : WholeFile(t)'
                                            \/ \E h \in Handlers : Fills(h, t)'
  BY DEF Paired
<1> USE DEF store, history
<1> DEFINE Others(h) ==
             \A g \in Handlers : g # h => pc'[g] = pc[g] /\ req'[g] = req[g]
           Goal == /\ \A u \in Uploads : PairedSession(u)'
                                            \/ \E h \in Handlers : WorksOn(h, u)'
                   /\ \A t \in Targets : WholeFile(t)'
                                            \/ \E h \in Handlers : Fills(h, t)'
<1>u. /\ pc \in [Handlers -> Steps] /\ req \in [Handlers -> Requests \cup {None}]
      /\ spool \in [Uploads -> Seq(Bytes) \cup {None}]
      /\ files \in [Targets -> Contents \cup {None}]
      /\ None \notin Seq(Bytes)
  BY NoneAssumption DEF Typed, TypeOK, Bytes
<1>r. ASSUME NEW h \in Handlers, pc[h] # "idle"
      PROVE  /\ req[h] \in Requests /\ req[h].id \in Uploads
             /\ req[h].body \in Seq(Bytes) /\ HandlerInv(h)
  BY <1>r DEF Typed, Requests, Consistent
<1>f. ~faulted
  BY FaultStays
\* With the lock free every session is paired and every file whole; with the
\* lock held, all but those its holder works on.
<1>n. /\ lock = None => /\ \A u \in Uploads : PairedSession(u)
                        /\ \A t \in Targets : WholeFile(t)
      /\ \A h \in Handlers : pc[h] \in Holding =>
           /\ \A u \in Uploads : PairedSession(u) \/ WorksOn(h, u)
           /\ \A t \in Targets : WholeFile(t) \/ Fills(h, t)
  BY <1>f, LockFacts DEF Paired, WorksOn, Fills, Holding
\* The rest of the system moves, and the store does not.
<1>q. ASSUME NEW h \in Handlers, Others(h), UNCHANGED store,
             pc[h] \notin {"create_sidecar", "remove_sidecar", "copy"}
      PROVE  Goal
  <2>1. \A u \in Uploads : PairedSession(u)' <=> PairedSession(u)
    BY <1>q DEF PairedSession
  <2>2. \A t \in Targets : WholeFile(t)' <=> WholeFile(t)
    BY <1>q DEF WholeFile, Whole
  <2>3. \A g \in Handlers, u \in Uploads : WorksOn(g, u) => WorksOn(g, u)'
    BY <1>q DEF WorksOn
  <2>4. \A g \in Handlers, t \in Targets : Fills(g, t) => Fills(g, t)'
    BY <1>q DEF Fills
  <2> QED  BY <1>f, <2>1, <2>2, <2>3, <2>4 DEF Paired
\* The handler that has the lock, or takes it, leaves at most its own upload
\* half done.
<1>a. ASSUME NEW h \in Handlers, NEW u \in Uploads,
             \A v \in Uploads : v # u => (PairedSession(v)' <=> PairedSession(v)),
             lock = None \/ (pc[h] \in Holding /\ req[h].id = u),
             PairedSession(u)' \/ WorksOn(h, u)',
             \A t \in Targets : files'[t] = files[t],
             pc[h] # "copy"
      PROVE  Goal
  <2>1. \A v \in Uploads : v # u => PairedSession(v)
    BY <1>a, <1>n DEF WorksOn
  <2>2. \A t \in Targets : WholeFile(t)
    BY <1>a, <1>n DEF Fills
  <2>3. \A t \in Targets : WholeFile(t)'
    BY <1>a, <2>2 DEF WholeFile, Whole
  <2> QED  BY <1>a, <2>1, <2>3
\* A step on one target leaves the others whole.
<1>b. ASSUME NEW h \in Handlers, NEW u \in Uploads,
             \A v \in Uploads : PairedSession(v)' \/ WorksOn(h, v)',
             lock = None \/ (pc[h] \in Holding /\ req[h].id = u),
             \A t \in Targets : t # Target[u] => files'[t] = files[t],
             WholeFile(Target[u])' \/ Fills(h, Target[u])'
      PROVE  Goal
  <2>1. \A t \in Targets : t # Target[u] => WholeFile(t)
    BY <1>b, <1>n DEF Fills
  <2>2. \A t \in Targets : t # Target[u] => WholeFile(t)'
    BY <1>b, <2>1 DEF WholeFile, Whole
  <2> QED  BY <1>b, <2>2
<1>1. ASSUME NEW h \in Handlers, NEW u \in Uploads, CreateSpool(h, u)
      PROVE  Goal
  <2>1. lock = None /\ pc[h] = "idle" /\ UNCHANGED <<sidecars, files>>
    BY <1>1 DEF CreateSpool
  <2>2. pc'[h] = "create_sidecar" /\ req'[h].id = u
    BY <1>1, <1>u DEF CreateSpool, Goto, Request
  <2>3. \A v \in Uploads : v # u => (PairedSession(v)' <=> PairedSession(v))
    BY <1>1, <1>u DEF CreateSpool, PairedSession
  <2> QED  BY <1>a, <2>1, <2>2, <2>3 DEF WorksOn
<1>2. ASSUME NEW h \in Handlers, CreateSidecar(h)
      PROVE  Goal
  <2>p. PICK u \in Uploads : u = req[h].id
    BY <1>2, <1>r DEF CreateSidecar
  <2>1. /\ pc[h] = "create_sidecar" /\ spool[u] = <<>>
        /\ sidecars' = sidecars \cup {u} /\ UNCHANGED <<spool, files>>
    BY <1>2, <1>r, <2>p DEF CreateSidecar, HandlerInv
  <2>2. PairedSession(u)'
    <3>1. <<>> \in Seq(Bytes)
      OBVIOUS
    <3> QED  BY <1>u, <2>1, <3>1 DEF PairedSession
  <2>3. \A v \in Uploads : v # u => (PairedSession(v)' <=> PairedSession(v))
    BY <2>1 DEF PairedSession
  <2> QED  BY <1>a, <2>1, <2>2, <2>3, <2>p DEF Holding
<1>3. ASSUME NEW h \in Handlers, PatchAppend(h)
      PROVE  Goal
  <2>p. PICK u \in Uploads, body \in Seq(Bytes) : u = req[h].id /\ body = req[h].body
    BY <1>3, <1>r DEF PatchAppend
  <2>1. pc[h] = "append" /\ lock = None /\ UNCHANGED <<sidecars, files>>
    BY <1>3 DEF PatchAppend
  <2>2. /\ \A v \in Uploads : v # u => spool'[v] = spool[v]
        /\ spool'[u] # None <=> spool[u] # None
    <3>1. CASE SessionOpen(u) /\ Fits(u, body)
      <4>1. spool' = [spool EXCEPT ![u] = spool[u] \o body]
        BY <1>3, <2>p, <3>1 DEF PatchAppend
      <4>2. spool[u] \in Seq(Bytes)
        BY <1>u, <3>1 DEF SessionOpen
      <4>3. spool[u] \o body \in Seq(Bytes)
        BY <4>2, AppendKeeps
      <4> QED  BY <1>u, <4>1, <4>2, <4>3
    <3>2. CASE ~(SessionOpen(u) /\ Fits(u, body))
      BY <1>3, <2>p, <3>2 DEF PatchAppend
    <3> QED  BY <3>1, <3>2
  <2>3. \A v \in Uploads : PairedSession(v)' <=> PairedSession(v)
    BY <2>1, <2>2 DEF PairedSession
  <2>4. PairedSession(u)
    BY <1>n, <2>1
  <2> QED  BY <1>a, <2>1, <2>3, <2>4
<1>4. ASSUME NEW h \in Handlers, NEW u \in Uploads, SessionOpen(u), lock = None,
             pc[h] # "copy",
             spool' = [spool EXCEPT ![u] = None], UNCHANGED <<sidecars, files>>,
             pc'[h] = "remove_sidecar", req'[h].id = u
      PROVE  Goal
  <2>1. \A v \in Uploads : v # u => (PairedSession(v)' <=> PairedSession(v))
    BY <1>4, <1>u DEF PairedSession
  <2> QED  BY <1>4, <1>a, <2>1 DEF WorksOn
<1>5. ASSUME NEW h \in Handlers, Finalize(h)
      PROVE  Goal
  <2>p. PICK u \in Uploads : u = req[h].id /\ Target[u] \in Targets
    BY <1>5, <1>r, UploadAssumption DEF Finalize
  <2>1. pc[h] = "finalize" /\ lock = None /\ req[h] \in Requests
    BY <1>5, <1>r DEF Finalize
  <2>2. CASE FinalizeGone(h)
    <3>1. Others(h)
      BY <2>1, <2>2, AnswerFrame DEF FinalizeGone
    <3> QED  BY <1>q, <2>1, <2>2, <3>1 DEF FinalizeGone
  <2>3. CASE FinalizeMismatch(h)
    <3>1. pc'[h] = "remove_sidecar" /\ req'[h].id = u
      BY <1>u, <2>1, <2>3, <2>p DEF FinalizeMismatch, Goto, Requests
    <3> QED  BY <1>4, <2>1, <2>3, <2>p, <3>1 DEF FinalizeMismatch, ReadyToFinalize
  <2>4. CASE FinalizeRename(h)
    <3>1. pc'[h] = "remove_sidecar" /\ req'[h].id = u
      BY <1>u, <2>1, <2>4, <2>p DEF FinalizeRename, Goto, Requests
    <3>2. /\ spool' = [spool EXCEPT ![u] = None] /\ UNCHANGED sidecars
          /\ files' = [files EXCEPT ![Target[u]] = [from |-> u, data |-> Whole(u)]]
      BY <2>4, <2>p DEF FinalizeRename, ChecksumMatches
    <3>3. \A v \in Uploads : PairedSession(v)' \/ WorksOn(h, v)'
      BY <1>n, <1>u, <2>1, <3>1, <3>2 DEF PairedSession, WorksOn
    <3>4. /\ files'[Target[u]] = [from |-> u, data |-> Whole(u)]
          /\ \A t \in Targets : t # Target[u] => files'[t] = files[t]
      BY <1>u, <2>p, <3>2
    <3>5. WholeFile(Target[u])'
      BY <3>4 DEF WholeFile, Whole
    <3> QED  BY <1>b, <2>1, <3>3, <3>4, <3>5
  <2>5. CASE FinalizeCopy(h)
    <3>1. /\ pc'[h] = "copy" /\ req'[h].id = u /\ UNCHANGED <<spool, sidecars>>
          /\ \A t \in Targets : t # Target[u] => files'[t] = files[t]
      BY <1>u, <2>1, <2>5, <2>p DEF FinalizeCopy, Goto
    <3>2. \A v \in Uploads : PairedSession(v)'
      BY <1>n, <2>1, <3>1 DEF PairedSession
    <3> QED  BY <1>b, <2>1, <3>1, <3>2 DEF Fills
  <2> QED  BY <1>5, <2>2, <2>3, <2>4, <2>5 DEF Finalize
<1>6. ASSUME NEW h \in Handlers, CopyFile(h)
      PROVE  Goal
  <2>p. PICK u \in Uploads : u = req[h].id /\ Target[u] \in Targets
    BY <1>6, <1>r, UploadAssumption DEF CopyFile
  <2>1. /\ pc[h] = "copy" /\ spool[u] = Whole(u) /\ UNCHANGED <<spool, sidecars>>
        /\ files' = [files EXCEPT ![Target[u]] = [from |-> u, data |-> Whole(u)]]
    BY <1>6, <2>p DEF CopyFile, Locked, ChecksumMatches
  <2>2. \A v \in Uploads : PairedSession(v)'
    BY <1>n, <2>1 DEF PairedSession, WorksOn, Holding
  <2>3. /\ files'[Target[u]] = [from |-> u, data |-> Whole(u)]
        /\ \A t \in Targets : t # Target[u] => files'[t] = files[t]
    BY <1>u, <2>1, <2>p
  <2>4. WholeFile(Target[u])'
    BY <2>3 DEF WholeFile, Whole
  <2> QED  BY <1>b, <2>1, <2>2, <2>3, <2>4, <2>p DEF Holding
<1>7. ASSUME NEW h \in Handlers, RemoveSpool(h)
      PROVE  Goal
  <2>p. PICK u \in Uploads : u = req[h].id
    BY <1>7, <1>r DEF RemoveSpool
  <2>1. /\ pc[h] = "remove_spool" /\ req[h] \in Requests
        /\ pc'[h] = "remove_sidecar" /\ req'[h].id = u
        /\ spool' = [spool EXCEPT ![u] = None] /\ UNCHANGED <<sidecars, files>>
    BY <1>7, <1>r, <1>u, <2>p DEF RemoveSpool, Goto, Requests
  <2>2. \A v \in Uploads : v # u => (PairedSession(v)' <=> PairedSession(v))
    BY <1>u, <2>1 DEF PairedSession
  <2> QED  BY <1>a, <2>1, <2>2, <2>p DEF WorksOn, Holding
<1>8. ASSUME NEW h \in Handlers, NEW u \in Uploads, DeleteUpload(h, u)
      PROVE  Goal
  <2>1. CASE SessionOpen(u)
    <3>1. pc'[h] = "remove_sidecar" /\ req'[h].id = u
      BY <1>8, <1>u, <2>1 DEF DeleteUpload, Goto, Outcome
    <3> QED  BY <1>4, <1>8, <2>1, <3>1 DEF DeleteUpload
  <2>2. CASE ~SessionOpen(u)
    <3>1. Others(h)
      BY <1>8, <2>2, AnswerFrame DEF DeleteUpload
    <3> QED  BY <1>8, <1>q, <2>2, <3>1 DEF DeleteUpload
  <2> QED  BY <2>1, <2>2
<1>9. ASSUME NEW h \in Handlers, RemoveSidecar(h)
      PROVE  Goal
  <2>p. PICK u \in Uploads : u = req[h].id
    BY <1>9, <1>r DEF RemoveSidecar
  <2>1. /\ pc[h] = "remove_sidecar" /\ spool[u] = None
        /\ sidecars' = sidecars \ {u} /\ UNCHANGED <<spool, files>>
    BY <1>9, <1>r, <2>p DEF RemoveSidecar, HandlerInv
  <2>2. PairedSession(u)'
    BY <2>1 DEF PairedSession
  <2>3. \A v \in Uploads : v # u => (PairedSession(v)' <=> PairedSession(v))
    BY <2>1 DEF PairedSession
  <2> QED  BY <1>a, <2>1, <2>2, <2>3, <2>p DEF Holding
<1>10. ASSUME NEW h \in Handlers, NEW u \in Uploads, HeadUpload(h, u)
       PROVE  Goal
  <2>1. Others(h)
    BY <1>10, AnswerFrame DEF HeadUpload
  <2> QED  BY <1>10, <1>q, <2>1 DEF HeadUpload
<1>11. ASSUME NEW h \in Handlers, NEW u \in Uploads, NEW off \in 0 .. Size[u],
              NEW body \in Bodies(off), PatchCheck(h, u, off, body)
       PROVE  Goal
  <2>1. off \in Nat
    BY UploadAssumption
  <2>2. Others(h)
    BY <1>11, <1>u, <2>1, AnswerFrame DEF PatchCheck, Goto
  <2> QED  BY <1>11, <1>q, <2>2 DEF PatchCheck
<1>12. ASSUME NEW h \in Handlers, PatchAnnounce(h)
       PROVE  Goal
  <2>1. Others(h)
    BY <1>12, <1>u, AnswerFrame DEF PatchAnnounce, Goto
  <2> QED  BY <1>12, <1>q, <2>1 DEF PatchAnnounce
<1>13. ASSUME NEW h \in Handlers, Reply(h)
       PROVE  Goal
  <2>1. Others(h)
    BY <1>13, <1>u DEF Reply, Goto
  <2> QED  BY <1>13, <1>q, <2>1 DEF Reply
<1>14. CASE UNCHANGED vars
  <2>1. Paired'
    BY <1>14 DEF vars, handlers, Paired, PairedSession, WholeFile, WorksOn, Fills, Whole
  <2> QED  BY <2>1 DEF Paired
<1>15. CASE Restart \/ \E h \in Handlers :
              \/ CreateSidecarFails(h) \/ PatchAppendFails(h)
              \/ CopyFileFails(h) \/ RemoveSidecarFails(h)
              \/ FinalizeFails(h) \/ RemoveSpoolFails(h)
              \/ \E u \in Uploads : RequestFails(h, u)
  BY <1>15 DEF Restart, CreateSidecarFails, PatchAppendFails, CopyFileFails,
               RemoveSidecarFails, FinalizeFails, RemoveSpoolFails, RequestFails
<1> QED
  BY <1>1, <1>2, <1>3, <1>5, <1>6, <1>7, <1>8, <1>9, <1>10, <1>11, <1>12, <1>13,
     <1>14, <1>15
     DEF Next, Arrive, Serve, Proceed, Fail

\* As long as nothing failed, half a session and a target that is not whole are
\* only ever seen by the handler that holds the lock.
THEOREM SessionsStayPaired == Spec => []PairedUnlessFaulted
<1>1. Init => Paired
  BY PairedInit
<1>2. Typed /\ Locked /\ Consistent /\ Paired /\ [Next]_vars => Paired'
  BY PairedStep
<1>3. Locked /\ Paired => PairedUnlessFaulted
  BY LockFacts DEF Paired, PairedUnlessFaulted, PairedSession, WholeFile,
                   WorksOn, Fills, Holding
<1> QED  BY <1>1, <1>2, <1>3, ConsistentAlways, PTL DEF Spec

-----------------------------------------------------------------------------
(* What the actions of the store do to the handlers. *)

\* A request that begins belongs to its upload.
LEMMA Begins ==
  ASSUME Typed, NEW h \in Handlers, NEW u \in Uploads,
         \/ CreateSpool(h, u) \/ HeadUpload(h, u) \/ DeleteUpload(h, u)
         \/ RequestFails(h, u)
         \/ \E off \in 0 .. Size[u] : \E body \in Bodies(off) : PatchCheck(h, u, off, body)
  PROVE  /\ pc'[h] # "idle" /\ req'[h].id = u
         /\ \A g \in Handlers : g # h => pc'[g] = pc[g] /\ req'[g] = req[g]
         /\ reported' = reported
<1> USE DEF history
<1>u. pc \in [Handlers -> Steps] /\ req \in [Handlers -> Requests \cup {None}]
  BY DEF Typed, TypeOK
<1>1. CASE CreateSpool(h, u)
  BY <1>1, <1>u DEF CreateSpool, Goto, Request
<1>2. CASE HeadUpload(h, u)
  BY <1>2, AnswerFrame DEF HeadUpload
<1>3. CASE DeleteUpload(h, u)
  <2>1. CASE SessionOpen(u)
    BY <1>3, <2>1, <1>u DEF DeleteUpload, Goto, Outcome
  <2>2. CASE ~SessionOpen(u)
    BY <1>3, <2>2, AnswerFrame DEF DeleteUpload
  <2> QED  BY <2>1, <2>2
<1>4. CASE RequestFails(h, u)
  BY <1>4, AnswerFrame DEF RequestFails
<1>5. ASSUME NEW off \in 0 .. Size[u], NEW body \in Bodies(off),
             PatchCheck(h, u, off, body)
      PROVE  /\ pc'[h] # "idle" /\ req'[h].id = u
             /\ \A g \in Handlers : g # h => pc'[g] = pc[g] /\ req'[g] = req[g]
             /\ reported' = reported
  <2>1. CASE SessionOpen(u) /\ Len(spool[u]) = off
    BY <1>5, <2>1, <1>u DEF PatchCheck, Goto, Request
  <2>2. CASE ~(SessionOpen(u) /\ Len(spool[u]) = off)
    BY <1>5, <2>2, AnswerFrame DEF PatchCheck
  <2> QED  BY <2>1, <2>2
<1> QED  BY <1>1, <1>2, <1>3, <1>4, <1>5

\* A request that is being served stays one of its upload.
LEMMA GoesOn ==
  ASSUME Typed, NEW h \in Handlers, Proceed(h) \/ Fail(h)
  PROVE  /\ pc[h] # "idle" /\ pc'[h] # "idle" /\ req'[h].id = req[h].id
         /\ \A g \in Handlers : g # h => pc'[g] = pc[g] /\ req'[g] = req[g]
         /\ reported' = reported
<1> USE DEF history
<1>u. /\ pc \in [Handlers -> Steps] /\ req \in [Handlers -> Requests \cup {None}]
      /\ pc[h] # "idle" => req[h] \in Requests
  BY DEF Typed, TypeOK
<1>1. CASE CreateSidecar(h)
  BY <1>1, AnswerFrame DEF CreateSidecar
<1>2. CASE CreateSidecarFails(h)
  BY <1>2, AnswerFrame DEF CreateSidecarFails
<1>3. CASE PatchAppend(h)
  <2>1. PICK u : u = req[h].id
    OBVIOUS
  <2>2. CASE SessionOpen(u) /\ Fits(u, req[h].body)
    BY <1>3, <2>1, <2>2, <1>u DEF PatchAppend, Goto, Outcome
  <2>3. CASE ~(SessionOpen(u) /\ Fits(u, req[h].body))
    BY <1>3, <2>1, <2>3, AnswerFrame DEF PatchAppend
  <2> QED  BY <2>2, <2>3
<1>4. CASE PatchAppendFails(h)
  BY <1>4, AnswerFrame DEF PatchAppendFails
<1>5. CASE PatchAnnounce(h)
  <2>1. CASE req[h].upto = Size[req[h].id]
    BY <1>5, <2>1, <1>u DEF PatchAnnounce, Goto
  <2>2. CASE req[h].upto # Size[req[h].id]
    BY <1>5, <2>2, AnswerFrame DEF PatchAnnounce
  <2> QED  BY <2>1, <2>2
<1>6. CASE Finalize(h)
  <2>1. CASE FinalizeGone(h)
    BY <1>6, <2>1, AnswerFrame DEF Finalize, FinalizeGone
  <2>2. CASE FinalizeMismatch(h)
    BY <1>6, <2>2, <1>u DEF Finalize, FinalizeMismatch, Goto, Requests
  <2>3. CASE FinalizeRename(h)
    BY <1>6, <2>3, <1>u DEF Finalize, FinalizeRename, Goto, Requests
  <2>4. CASE FinalizeCopy(h)
    BY <1>6, <2>4, <1>u DEF Finalize, FinalizeCopy, Goto
  <2> QED  BY <1>6, <2>1, <2>2, <2>3, <2>4 DEF Finalize
<1>7. CASE FinalizeFails(h)
  BY <1>7, AnswerFrame DEF FinalizeFails
<1>8. CASE CopyFile(h)
  BY <1>8, <1>u DEF CopyFile, Goto
<1>9. CASE CopyFileFails(h)
  BY <1>9, AnswerFrame DEF CopyFileFails
<1>10. CASE RemoveSpool(h)
  BY <1>10, <1>u DEF RemoveSpool, Goto, Requests
<1>11. CASE RemoveSpoolFails(h)
  BY <1>11, AnswerFrame DEF RemoveSpoolFails
<1>12. CASE RemoveSidecar(h)
  BY <1>12, AnswerFrame DEF RemoveSidecar
<1>13. CASE RemoveSidecarFails(h)
  BY <1>13, AnswerFrame DEF RemoveSidecarFails
<1> QED
  BY <1>1, <1>2, <1>3, <1>4, <1>5, <1>6, <1>7, <1>8, <1>9, <1>10, <1>11, <1>12,
     <1>13 DEF Proceed, Fail

-----------------------------------------------------------------------------
(* The invariant.  It ties every client that waits to the one handler that  *)
(* has its request, on the way or being served, and to a request about the  *)
(* client's own session: the answer it hears is then about that session,    *)
(* and an offset in it one the store itself has told.                       *)

Serves(h, c) ==
  /\ client[c].step \in Busy
  /\ call[h] = None => pc[h] # "idle"
  /\ client[c].step # "create" =>
       /\ call[h] # None => call[h].id = client[c].session
       /\ call[h] = None => req[h].id = client[c].session

Linked ==
  /\ \A h \in Handlers : call[h] # None => pc[h] = "idle"
  /\ \A h \in Handlers, c \in Clients : waiter[h] = c => Serves(h, c)
  /\ \A h, g \in Handlers, c \in Clients : waiter[h] = c /\ waiter[g] = c => g = h

\* What is on its way is a request the store's handlers are specified for.
CallFits(h) ==
  call[h] # None =>
    /\ IF call[h].op = "create" THEN call[h].id = None ELSE call[h].id \in Uploads
    /\ call[h].op = "patch" =>
         /\ call[h].off \in 0 .. Size[call[h].id]
         /\ call[h].body \in Bodies(call[h].off)

OffsetTold(c) ==
  client[c].step = "patch" =>
    /\ client[c].offset < Size[client[c].session]
    /\ client[c].offset <= reported[client[c].session]

UploadInv ==
  /\ UploadTypeOK
  /\ Linked
  /\ \A h \in Handlers : CallFits(h)
  /\ \A c \in Clients : OffsetTold(c)

StoreInv == Typed /\ Locked /\ Consistent

\* A chunk is never empty, starts where the client says, and is no longer than
\* what the file has left.
LEMMA ChunkFits ==
  ASSUME UploadInv, NEW c \in Clients, client[c].step = "patch"
  PROVE  /\ client[c].session \in Uploads
         /\ client[c].offset \in 0 .. Size[client[c].session]
         /\ NextChunk(c) \in Bodies(client[c].offset)
<1>1. PICK u \in Uploads, off \in Nat, place \in Nat :
        u = client[c].session /\ off = client[c].offset /\ place = client[c].place
  BY DEF UploadInv, UploadTypeOK, ClientStates, Busy
<1>2. off < Size[u] /\ Size[u] \in Nat
  BY <1>1, UploadAssumption DEF UploadInv, OffsetTold
<1> DEFINE left == Size[u] - off
           n == IF left < Chunk THEN left ELSE Chunk
<1>3. n \in 1 .. MaxBody
  BY <1>2, ClientAssumption, UploadAssumption
<1>4. NextChunk(c) = [i \in 1..n |-> IF place = off THEN off + i ELSE 0]
  BY <1>1 DEF NextChunk
<1>5. CASE place = off
  BY <1>1, <1>2, <1>3, <1>4, <1>5 DEF Bodies
<1>6. CASE place # off
  <2>1. NextChunk(c) = [i \in 1..n |-> 0]
    BY <1>4, <1>6
  <2> QED  BY <1>1, <1>2, <1>3, <2>1 DEF Bodies
<1> QED  BY <1>5, <1>6

\* What clients were told only grows, and an answer adds the offset it carries.
LEMMA ReplyTells ==
  ASSUME Typed, NEW h \in Handlers, Reply(h)
  PROVE  /\ req[h] \in Requests /\ reported' \in [Uploads -> Nat]
         /\ \A u \in Uploads : reported[u] <= reported'[u]
         /\ req[h].code \in {"offset", "patched"} =>
              req[h].upto <= reported'[req[h].id]
         /\ \A g \in Handlers : g # h => pc'[g] = pc[g] /\ req'[g] = req[g]
<1>1. /\ req[h] \in Requests /\ reported \in [Uploads -> Nat]
      /\ pc \in [Handlers -> Steps] /\ req \in [Handlers -> Requests \cup {None}]
  BY DEF Reply, Typed, TypeOK
<1>2. PICK u \in Uploads, upto \in Nat : u = req[h].id /\ upto = req[h].upto
  BY <1>1 DEF Requests
<1>3. \A g \in Handlers : g # h => pc'[g] = pc[g] /\ req'[g] = req[g]
  BY <1>1 DEF Reply, Goto
<1>4. CASE req[h].code \in {"offset", "patched"}
  <2>1. reported' = [reported EXCEPT ![u] = Larger(reported[u], upto)]
    BY <1>2, <1>4 DEF Reply
  <2>2. /\ Larger(reported[u], upto) \in Nat
        /\ reported[u] <= Larger(reported[u], upto) /\ upto <= Larger(reported[u], upto)
    BY <1>1 DEF Larger
  <2> QED  BY <1>1, <1>2, <1>3, <2>1, <2>2
<1>5. CASE req[h].code \notin {"offset", "patched"}
  <2>1. reported' = reported
    BY <1>5 DEF Reply
  <2> QED  BY <1>1, <1>3, <1>5, <2>1
<1> QED  BY <1>4, <1>5

\* What a client may become when it hears an answer.
HeardBy(c) ==
  /\ client' \in [Clients -> ClientStates]
  /\ client'[c].step \in Busy \ {"create"} => client'[c].session # None
  /\ client'[c].step = "patch" =>
       /\ client'[c].offset < Size[client'[c].session]
       /\ client'[c].offset <= reported'[client'[c].session]
  /\ \A d \in Clients : d # c => client'[d] = client[d]

\* Every field of a client that UploadInv describes, by a name that does not change.
LEMMA ClientParts ==
  ASSUME UploadInv, NEW c \in Clients
  PROVE  /\ client \in [Clients -> ClientStates]
         /\ client[c].step \in ClientSteps /\ client[c].offset \in Nat
         /\ client[c].place \in Nat /\ client[c].session \in Uploads \cup {None}
         /\ client[c].step \in Busy \ {"create"} => client[c].session \in Uploads
BY DEF UploadInv, UploadTypeOK, ClientStates

\* A client that stops, succeeds, or waits for another answer has no offset to be
\* right about.
LEMMA HearsStep ==
  ASSUME UploadInv, NEW c \in Clients, NEW u \in Uploads \cup {None},
         NEW s \in ClientSteps, s # "patch",
         \/ /\ client' = [client EXCEPT ![c].step = s]
            /\ s \in Busy \ {"create"} => client[c].session \in Uploads
         \/ /\ client' = [client EXCEPT ![c] = [@ EXCEPT !.step = s, !.session = u]]
            /\ s \in Busy \ {"create"} => u \in Uploads
  PROVE  HeardBy(c)
<1>1. PICK old \in ClientStates : old = client[c]
  BY ClientParts
<1>2. CASE /\ client' = [client EXCEPT ![c].step = s]
           /\ s \in Busy \ {"create"} => client[c].session \in Uploads
  <2>1. client' = [client EXCEPT ![c] = [old EXCEPT !.step = s]]
    BY <1>1, <1>2
  <2>2. client'[c] = [old EXCEPT !.step = s]
    BY <2>1, ClientParts
  <2>3. /\ client'[c] \in ClientStates /\ client'[c].step = s
        /\ client'[c].session = old.session
    BY <2>2 DEF ClientStates
  <2>4. /\ client' \in [Clients -> ClientStates]
        /\ \A d \in Clients : d # c => client'[d] = client[d]
    BY <2>1, <2>2, <2>3, ClientParts
  <2> QED  BY <1>1, <1>2, <2>3, <2>4, NoneAssumption DEF HeardBy
<1>3. CASE /\ client' = [client EXCEPT ![c] = [@ EXCEPT !.step = s, !.session = u]]
           /\ s \in Busy \ {"create"} => u \in Uploads
  <2>1. client' = [client EXCEPT ![c] = [old EXCEPT !.step = s, !.session = u]]
    BY <1>1, <1>3
  <2>2. client'[c] = [old EXCEPT !.step = s, !.session = u]
    BY <2>1, ClientParts
  <2>3. /\ client'[c] \in ClientStates /\ client'[c].step = s
        /\ client'[c].session = u
    BY <2>2 DEF ClientStates
  <2>4. /\ client' \in [Clients -> ClientStates]
        /\ \A d \in Clients : d # c => client'[d] = client[d]
    BY <2>1, <2>2, <2>3, ClientParts
  <2> QED  BY <1>3, <2>3, <2>4, NoneAssumption DEF HeardBy
<1> QED  BY <1>2, <1>3

\* A client that goes on from an offset it was told is not ahead.
LEMMA HearsOffset ==
  ASSUME UploadInv, NEW c \in Clients, NEW u \in Uploads, client[c].session = u,
         NEW n \in Nat, NEW place \in Nat, n <= reported'[u], NEW s \in ClientSteps,
         s = "patch" => n < Size[u],
         client' = [client EXCEPT ![c] =
           [@ EXCEPT !.offset = n, !.place = place, !.step = s]]
  PROVE  HeardBy(c)
<1>1. PICK old \in ClientStates : old = client[c]
  BY ClientParts
<1>2. client' = [client EXCEPT ![c] =
                   [old EXCEPT !.offset = n, !.place = place, !.step = s]]
  BY <1>1
<1>3. client'[c] = [old EXCEPT !.offset = n, !.place = place, !.step = s]
  BY <1>2, ClientParts
<1>4. /\ client'[c] \in ClientStates /\ client'[c].step = s
      /\ client'[c].session = u /\ client'[c].offset = n
  <2>1. old.session = u
    BY <1>1
  <2>2. PICK new : new = client'[c]
    OBVIOUS
  <2>3. new = [old EXCEPT !.offset = n, !.place = place, !.step = s]
    BY <1>3, <2>2
  <2>4. /\ new \in ClientStates /\ new.step = s
        /\ new.session = old.session /\ new.offset = n
    BY <2>3 DEF ClientStates
  <2> QED  BY <2>1, <2>2, <2>4
<1>5. /\ client' \in [Clients -> ClientStates]
      /\ \A d \in Clients : d # c => client'[d] = client[d]
  BY <1>2, <1>3, <1>4, ClientParts
<1> QED  BY <1>4, <1>5, NoneAssumption DEF HeardBy

\* A tab that hears an answer keeps to its session and to what it was told.
LEMMA TabAnswered ==
  ASSUME Typed, UploadInv, NEW h \in Handlers, Reply(h),
         NEW c \in Clients, waiter[h] = c,
         TabHears(c, req[h].id, req[h].code, req[h].upto)
  PROVE  /\ HeardBy(c)
         /\ records' \subseteq Uploads /\ aborts' \subseteq Uploads
         /\ stateFile' = stateFile
<1>1. PICK u \in Uploads, code \in Codes, upto \in Nat :
        u = req[h].id /\ code = req[h].code /\ upto = req[h].upto
  BY ReplyTells DEF Requests
<1>2. /\ code \in {"offset", "patched"} => upto <= reported'[u]
      /\ stateFile' = stateFile
      /\ records \subseteq Uploads /\ aborts \subseteq Uploads
  BY <1>1, ReplyTells DEF TabHears, UploadInv, UploadTypeOK
<1>3. client[c].step # "create" => client[c].session = u
  <2>1. call[h] = None
    BY DEF Reply, UploadInv, Linked
  <2>2. Serves(h, c)
    BY DEF UploadInv, Linked
  <2> QED  BY <1>1, <2>1, <2>2 DEF Serves
<1>4. CASE TabCreated(c, u, code)
  BY <1>2, <1>4, HearsStep DEF TabCreated, DropOthers, ClientSteps
<1>5. ASSUME client[c].step # "create", code \in {"offset", "patched"},
             GoOnFrom(c, upto, "confirm"), UNCHANGED <<records, aborts>>
      PROVE  HeardBy(c) /\ records' \subseteq Uploads /\ aborts' \subseteq Uploads
  <2>1. PICK s \in ClientSteps : s = IF upto < Size[u] THEN "patch" ELSE "confirm"
    BY DEF ClientSteps
  <2>2. client' = [client EXCEPT ![c] =
                     [@ EXCEPT !.offset = upto, !.place = upto, !.step = s]]
    BY <1>3, <1>5, <2>1 DEF GoOnFrom
  <2>3. s = "patch" => upto < Size[u]
    BY <2>1
  <2> QED  BY <1>2, <1>3, <1>5, <2>2, <2>3, HearsOffset
<1>6. CASE TabOffset(c, code, upto)
  <2>1. /\ client[c].step # "create" /\ code \in {"offset", "patched"}
        /\ UNCHANGED <<records, aborts>>
    BY <1>6 DEF TabOffset
  <2>2. GoOnFrom(c, upto, "confirm")
    BY <1>6 DEF TabOffset
  <2> QED  BY <1>2, <1>5, <2>1, <2>2
<1>7. CASE TabPatched(c, code, upto)
  <2>1. /\ client[c].step # "create" /\ code \in {"offset", "patched"}
        /\ UNCHANGED <<records, aborts>>
    BY <1>7 DEF TabPatched
  <2>2. GoOnFrom(c, upto, "confirm")
    BY <1>7 DEF TabPatched
  <2> QED  BY <1>2, <1>5, <2>1, <2>2
<1>8. CASE TabRefused(c, code)
  BY <1>2, <1>3, <1>8, HearsStep DEF TabRefused, ClientSteps
<1>9. CASE TabConfirmed(c, code)
  BY <1>2, <1>3, <1>9, HearsStep
     DEF TabConfirmed, SessionFinished, DropOthers, ClientSteps, Busy
<1>10. CASE TabStops(c, code, upto)
  BY <1>2, <1>10, HearsStep DEF TabStops, Stop, ClientSteps, Busy
<1> QED
  BY <1>1, <1>2, <1>4, <1>6, <1>7, <1>8, <1>9, <1>10 DEF TabHears

\* So does a run of the command.
LEMMA RunAnswered ==
  ASSUME Typed, UploadInv, NEW h \in Handlers, Reply(h),
         NEW c \in Clients, waiter[h] = c,
         RunHears(c, req[h].id, req[h].code, req[h].upto)
  PROVE  /\ HeardBy(c)
         /\ records' = records /\ aborts' = aborts
         /\ stateFile' \in Uploads \cup {None}
<1>1. PICK u \in Uploads, code \in Codes, upto \in Nat :
        u = req[h].id /\ code = req[h].code /\ upto = req[h].upto
  BY ReplyTells DEF Requests
<1>2. /\ code \in {"offset", "patched"} => upto <= reported'[u]
      /\ records' = records /\ aborts' = aborts
      /\ stateFile \in Uploads \cup {None}
      /\ reported'[u] \in Nat
  BY <1>1, ReplyTells DEF RunHears, UploadInv, UploadTypeOK
<1>3. client[c].step # "create" => client[c].session = u
  <2>1. call[h] = None
    BY DEF Reply, UploadInv, Linked
  <2>2. Serves(h, c)
    BY DEF UploadInv, Linked
  <2> QED  BY <1>1, <2>1, <2>2 DEF Serves
<1>4. CASE RunCreated(c, u, code)
  BY <1>2, <1>4, HearsStep DEF RunCreated, ClientSteps
<1>5. ASSUME client[c].step # "create", NEW n \in Nat, NEW place \in Nat,
             n <= reported'[u], RunGoesOn(c, n, place)
      PROVE  HeardBy(c) /\ stateFile' \in Uploads \cup {None}
  <2>1. PICK s \in ClientSteps : s = IF n >= Size[u] THEN "done" ELSE "patch"
    BY DEF ClientSteps
  <2>2. client' = [client EXCEPT ![c] =
                     [@ EXCEPT !.offset = n, !.place = place, !.step = s]]
    BY <1>3, <1>5, <2>1 DEF RunGoesOn
  <2>3. s = "patch" => n < Size[u]
    BY <2>1, UploadAssumption
  <2>4. stateFile' \in Uploads \cup {None}
    BY <1>2, <1>5 DEF RunGoesOn
  <2> QED  BY <1>3, <1>5, <2>2, <2>3, <2>4, HearsOffset
<1>6. CASE RunOffset(c, code, upto)
  <2>1. PICK n \in Nat : n = IF code = "offset" THEN upto ELSE 0
    OBVIOUS
  <2>2. n <= reported'[u]
    BY <1>2, <2>1
  <2>3. RunGoesOn(c, n, n)
    BY <1>6, <2>1 DEF RunOffset
  <2>4. client[c].step # "create"
    BY <1>6 DEF RunOffset
  <2> QED  BY <1>2, <1>5, <2>2, <2>3, <2>4
<1>7. CASE RunPatched(c, code, upto)
  <2>1. PICK place \in Nat : place = client[c].place + Len(NextChunk(c))
    <3>1. client[c].offset \in Nat /\ NextChunk(c) \in Bodies(client[c].offset)
      BY <1>7, ChunkFits, ClientParts DEF RunPatched
    <3>2. Len(NextChunk(c)) \in Nat
      BY <3>1, BodiesType, LenProperties
    <3> QED  BY <3>2, ClientParts
  <2> QED  BY <1>2, <1>5, <1>7, <2>1 DEF RunPatched
<1>8. CASE RunStops(c, code)
  BY <1>2, <1>8, HearsStep DEF RunStops, Stop, ClientSteps, Busy
<1> QED
  BY <1>1, <1>2, <1>4, <1>6, <1>7, <1>8 DEF RunHears

-----------------------------------------------------------------------------
(* Every step of the clients and their connections keeps the invariant.     *)

\* The types of what the tabs and the command remember, and of the bounds.
MemoryTyped ==
  /\ records \subseteq Uploads /\ aborts \subseteq Uploads
  /\ stateFile \in Uploads \cup {None}
  /\ started \in 0 .. Cardinality(Uploads) /\ trouble \in 0 .. MaxTrouble

\* The bounds are kept by every action that counts what goes wrong.
LEMMA MemoryKept ==
  ASSUME UploadInv, started' = started, Trouble \/ trouble' = trouble,
         records' \subseteq Uploads, aborts' \subseteq Uploads,
         stateFile' \in Uploads \cup {None}
  PROVE  MemoryTyped'
<1>1. /\ started \in 0 .. Cardinality(Uploads) /\ trouble \in 0 .. MaxTrouble
      /\ MaxTrouble \in Nat
  BY ClientAssumption DEF UploadInv, UploadTypeOK
<1>2. trouble' \in 0 .. MaxTrouble
  BY <1>1 DEF Trouble
<1> QED  BY <1>1, <1>2 DEF MemoryTyped

\* Clients are told more, never less.
TellsMore ==
  /\ reported \in [Uploads -> Nat] /\ reported' \in [Uploads -> Nat]
  /\ \A u \in Uploads : reported[u] <= reported'[u]

\* Most steps tell clients nothing.
LEMMA ToldTheSame == ASSUME Typed, reported' = reported PROVE TellsMore
BY DEF Typed, TypeOK, TellsMore

\* A client that did not move is not ahead of what it was told.
LEMMA ToldStays ==
  ASSUME UploadInv, TellsMore, NEW c \in Clients, client'[c] = client[c]
  PROVE  OffsetTold(c)'
<1>1. CASE client[c].step = "patch"
  <2>1. client[c].session \in Uploads /\ client[c].offset \in Nat
    BY <1>1, ClientParts DEF Busy
  <2>2. PICK u \in Uploads, n \in Nat : u = client[c].session /\ n = client[c].offset
    BY <2>1
  <2>3. n < Size[u] /\ n <= reported[u] /\ reported[u] <= reported'[u]
    BY <1>1, <2>2 DEF UploadInv, OffsetTold, TellsMore
  <2>4. reported[u] \in Nat /\ reported'[u] \in Nat
    BY DEF TellsMore
  <2>5. n <= reported'[u]
    BY <2>3, <2>4
  <2> QED  BY <2>2, <2>3, <2>5 DEF OffsetTold
<1>2. CASE client[c].step # "patch"
  BY <1>2 DEF OffsetTold
<1> QED  BY <1>1, <1>2

\* A handler's connection or request changes while no client does.
LEMMA HandlerMoves ==
  ASSUME UploadInv, NEW h \in Handlers, MemoryTyped',
         client' = client, TellsMore,
         call' \in [Handlers -> Messages \cup {None}],
         waiter' \in [Handlers -> Clients \cup {None}],
         \A g \in Handlers : g # h =>
           /\ pc'[g] = pc[g] /\ req'[g] = req[g]
           /\ call'[g] = call[g] /\ waiter'[g] = waiter[g],
         call'[h] # None => pc'[h] = "idle",
         CallFits(h)',
         \A c \in Clients : waiter'[h] = c =>
           Serves(h, c)' /\ (waiter[h] = c \/ ~Waiting(c))
  PROVE  UploadInv'
<1>1. UploadTypeOK'
  BY DEF UploadInv, UploadTypeOK, MemoryTyped
<1>2. \A g \in Handlers : call'[g] # None => pc'[g] = "idle"
  BY DEF UploadInv, Linked
<1>3. ASSUME NEW g \in Handlers, NEW c \in Clients, waiter'[g] = c
      PROVE  Serves(g, c)'
  BY <1>3 DEF UploadInv, Linked, Serves
<1>4. ASSUME NEW f \in Handlers, NEW g \in Handlers, NEW c \in Clients,
             waiter'[f] = c, waiter'[g] = c
      PROVE  g = f
  BY <1>4 DEF UploadInv, Linked, Waiting
<1>5. \A g \in Handlers : CallFits(g)'
  BY DEF UploadInv, CallFits
<1>6. \A c \in Clients : OffsetTold(c)'
  BY ToldStays
<1>7. Linked'
  BY <1>2, <1>3, <1>4 DEF Linked
<1> QED  BY <1>1, <1>5, <1>6, <1>7 DEF UploadInv

\* A client that waits for nothing afterwards goes on to another step.
LEMMA ClientMoves ==
  ASSUME UploadInv, NEW c \in Clients, MemoryTyped', HeardBy(c), call' = call, TellsMore,
         waiter' \in [Handlers -> Clients \cup {None}],
         \A g \in Handlers : waiter'[g] # None =>
           /\ waiter'[g] = waiter[g] /\ waiter[g] # c
           /\ pc'[g] = pc[g] /\ req'[g] = req[g],
         \A g \in Handlers : call[g] # None => pc'[g] = pc[g]
  PROVE  UploadInv'
<1>n. None \notin Clients
  BY ClientAssumption
<1>1. UploadTypeOK'
  <2>1. \A d \in Clients : client'[d].step \in Busy \ {"create"} => client'[d].session # None
    BY DEF UploadInv, UploadTypeOK, HeardBy
  <2> QED  BY <2>1 DEF UploadInv, UploadTypeOK, MemoryTyped, HeardBy
<1>2. \A g \in Handlers : call'[g] # None => pc'[g] = "idle"
  BY DEF UploadInv, Linked
<1>3. ASSUME NEW g \in Handlers, NEW d \in Clients, waiter'[g] = d
      PROVE  Serves(g, d)'
  <2>1. waiter[g] = d /\ d # c /\ pc'[g] = pc[g] /\ req'[g] = req[g]
    BY <1>3, <1>n
  <2>2. client'[d] = client[d]
    BY <2>1 DEF HeardBy
  <2> QED  BY <2>1, <2>2 DEF UploadInv, Linked, Serves
<1>4. ASSUME NEW f \in Handlers, NEW g \in Handlers, NEW d \in Clients,
             waiter'[f] = d, waiter'[g] = d
      PROVE  g = f
  BY <1>4, <1>n DEF UploadInv, Linked
<1>5. \A g \in Handlers : CallFits(g)'
  BY DEF UploadInv, CallFits
<1>6. ASSUME NEW d \in Clients PROVE OffsetTold(d)'
  <2>1. CASE d = c
    BY <2>1 DEF HeardBy, OffsetTold
  <2>2. CASE d # c
    <3>1. client'[d] = client[d] /\ OffsetTold(d)
      BY <2>2 DEF HeardBy, UploadInv
    <3> QED  BY <3>1, ToldStays
  <2> QED  BY <2>1, <2>2
<1>7. Linked'
  BY <1>2, <1>3, <1>4 DEF Linked
<1> QED  BY <1>1, <1>5, <1>6, <1>7 DEF UploadInv

\* At the start nobody does anything.
LEMMA UploadInvInit == UploadInit => UploadInv
<1> SUFFICES ASSUME UploadInit PROVE UploadInv
  OBVIOUS
<1>1. Cardinality(Uploads) \in Nat
  BY FS_CardinalityType, ClientAssumption
<1>2. UploadTypeOK
  <2>1. client \in [Clients -> ClientStates]
    BY DEF UploadInit, ClientStates, ClientSteps
  <2> QED  BY <1>1, <2>1, ClientAssumption DEF UploadInit, UploadTypeOK, Busy
<1>3. Linked
  BY ClientAssumption DEF UploadInit, Linked
<1>4. (\A h \in Handlers : CallFits(h)) /\ \A c \in Clients : OffsetTold(c)
  BY DEF UploadInit, CallFits, OffsetTold
<1> QED  BY <1>2, <1>3, <1>4 DEF UploadInv

\* A user's action starts an attempt of a client that waits for nothing.
LEMMA UserStep ==
  ASSUME Typed, UploadInv, NEW c \in Clients, Start(c) \/ Resume(c)
  PROVE  UploadInv'
<1>1. /\ client[c].step \notin Busy
      /\ UNCHANGED <<vars, network, records, aborts, stateFile>>
  BY DEF Start, Resume, memory
<1>2. reported' = reported /\ pc' = pc /\ req' = req /\ call' = call /\ waiter' = waiter
  BY <1>1 DEF vars, history, handlers, network
<1>3. \A g \in Handlers : waiter[g] # c
  BY <1>1 DEF UploadInv, Linked, Serves
<1>4. MemoryTyped'
  <2>1. /\ Cardinality(Uploads) \in Nat /\ started \in Nat
        /\ trouble \in 0 .. MaxTrouble
        /\ records \subseteq Uploads /\ aborts \subseteq Uploads
        /\ stateFile \in Uploads \cup {None}
    BY FS_CardinalityType, ClientAssumption DEF UploadInv, UploadTypeOK
  <2>2. CASE Start(c)
    <3>1. started' \in 0 .. Cardinality(Uploads) /\ trouble' = trouble
      BY <2>1, <2>2 DEF Start
    <3> QED  BY <1>1, <2>1, <3>1 DEF MemoryTyped
  <2>3. CASE Resume(c)
    BY <1>1, <2>1, <2>3, MemoryKept DEF Resume
  <2> QED  BY <2>2, <2>3
<1>5. HeardBy(c)
  <2>1. CASE Start(c)
    BY <2>1, HearsStep DEF Start, ClientSteps, Busy
  <2>2. CASE Resume(c)
    <3>1. PICK u \in Uploads :
            client' = [client EXCEPT ![c] = [@ EXCEPT !.step = "head", !.session = u]]
      BY <2>2 DEF Resume, UploadInv, UploadTypeOK
    <3> QED  BY <3>1, HearsStep DEF ClientSteps
  <2> QED  BY <2>1, <2>2
<1>6. TellsMore
  BY <1>2, ToldTheSame
<1>7. waiter' \in [Handlers -> Clients \cup {None}]
  BY <1>2 DEF UploadInv, UploadTypeOK
<1> QED  BY <1>2, <1>3, <1>4, <1>5, <1>6, <1>7, ClientMoves

\* A client sends what it may send from where it is.
LEMMA SendStep ==
  ASSUME Typed, UploadInv, NEW c \in Clients, Send(c)
  PROVE  UploadInv'
<1>1. PICK h \in Handlers :
        /\ Free(h)
        /\ call' = [call EXCEPT ![h] = MessageOf(c)]
        /\ waiter' = [waiter EXCEPT ![h] = c]
  BY DEF Send
<1>2. /\ client[c].step \in Busy /\ ~Waiting(c) /\ client' = client
      /\ reported' = reported /\ pc' = pc /\ req' = req
      /\ records' = records /\ aborts' = aborts /\ stateFile' = stateFile
      /\ started' = started /\ trouble' = trouble
  BY DEF Send, vars, history, handlers, memory, bounds
<1>3. /\ call \in [Handlers -> Messages \cup {None}]
      /\ waiter \in [Handlers -> Clients \cup {None}] /\ MemoryTyped'
  BY <1>2 DEF UploadInv, UploadTypeOK, MemoryTyped
<1>4. /\ call'[h] = MessageOf(c) /\ waiter'[h] = c
      /\ \A g \in Handlers : g # h => call'[g] = call[g] /\ waiter'[g] = waiter[g]
  BY <1>1, <1>3
<1>5. PICK m : m = MessageOf(c)
  OBVIOUS
<1>6. /\ m \in Messages
      /\ m.op = "create" <=> client[c].step = "create"
      /\ m.op = "create" => m.id = None
      /\ m.op # "create" => m.id = client[c].session /\ m.id \in Uploads
      /\ m.op = "patch" => m.off \in 0 .. Size[m.id] /\ m.body \in Bodies(m.off)
  <2>0. <<>> \in Seq(Bytes)
    OBVIOUS
  <2>1. CASE client[c].step = "create"
    <3>1. m = [op |-> "create", id |-> None, off |-> 0, body |-> <<>>]
      BY <1>5, <2>1 DEF MessageOf, Message
    <3> QED  BY <2>0, <2>1, <3>1 DEF Messages
  <2>2. CASE client[c].step = "patch"
    <3>1. PICK u \in Uploads, off \in Nat, body \in Seq(Bytes) :
            /\ u = client[c].session /\ off = client[c].offset /\ body = NextChunk(c)
            /\ off \in 0 .. Size[u] /\ body \in Bodies(off)
      <4>1. client[c].offset \in Nat
        BY ClientParts
      <4> QED  BY <2>2, <4>1, ChunkFits, BodiesType
    <3>2. m = [op |-> "patch", id |-> u, off |-> off, body |-> body]
      BY <1>5, <2>2, <3>1 DEF MessageOf, Message
    <3>3. m.op = "patch" /\ m.id = u /\ m.off = off /\ m.body = body
      BY <3>2
    <3>4. m \in Messages
      BY <3>2 DEF Messages
    <3> QED  BY <2>2, <3>1, <3>3, <3>4
  <2>3. CASE client[c].step \notin {"create", "patch"}
    <3>1. PICK u \in Uploads : u = client[c].session
      BY <1>2, <2>3, ClientParts
    <3>2. m = [op |-> "head", id |-> u, off |-> 0, body |-> <<>>]
      BY <1>5, <2>3, <3>1 DEF MessageOf, Message
    <3>3. m.op = "head" /\ m.id = u
      BY <3>2
    <3>4. m \in Messages
      BY <2>0, <3>2 DEF Messages
    <3> QED  BY <2>3, <3>1, <3>3, <3>4
  <2> QED  BY <2>1, <2>2, <2>3
<1>n. m # None /\ None \notin Clients
  BY <1>6, ClientAssumption
<1>7. call' \in [Handlers -> Messages \cup {None}]
      /\ waiter' \in [Handlers -> Clients \cup {None}]
  BY <1>1, <1>3, <1>5, <1>6
<1>8. CallFits(h)'
  BY <1>4, <1>5, <1>6 DEF CallFits
<1>9. pc'[h] = "idle"
  BY <1>1, <1>2 DEF Free
<1>10. Serves(h, c)'
  BY <1>2, <1>4, <1>5, <1>6, <1>n DEF Serves
<1> QED
  BY <1>2, <1>3, <1>4, <1>7, <1>8, <1>9, <1>10, ToldTheSame, HandlerMoves

\* The user aborts a listed session.
LEMMA AbortStep ==
  ASSUME Typed, UploadInv, NEW u \in Uploads, AbortSession(u)
  PROVE  UploadInv'
<1>1. /\ client' = client /\ call' = call /\ waiter' = waiter
      /\ pc' = pc /\ req' = req /\ reported' = reported
  BY DEF AbortSession, vars, history, handlers, network
<1>2. MemoryTyped'
  BY MemoryKept DEF AbortSession, UploadInv, UploadTypeOK
<1>3. UploadTypeOK'
  BY <1>1, <1>2 DEF UploadInv, UploadTypeOK, MemoryTyped
<1>4. Linked'
  BY <1>1 DEF UploadInv, Linked, Serves
<1>5. (\A h \in Handlers : CallFits(h)') /\ \A c \in Clients : OffsetTold(c)'
  BY <1>1 DEF UploadInv, CallFits, OffsetTold
<1> QED  BY <1>3, <1>4, <1>5 DEF UploadInv

\* The DELETE of an aborted session is sent.
LEMMA SendAbortStep ==
  ASSUME Typed, UploadInv, NEW u \in Uploads, SendAbort(u)
  PROVE  UploadInv'
<1>1. PICK h \in Handlers :
        Free(h) /\ call' = [call EXCEPT ![h] = Message("delete", u, 0, <<>>)]
  BY DEF SendAbort
<1>2. PICK m : m = [op |-> "delete", id |-> u, off |-> 0, body |-> <<>>]
  OBVIOUS
<1>3. m \in Messages /\ m.op = "delete" /\ m.id = u
  <2>1. <<>> \in Seq(Bytes)
    OBVIOUS
  <2> QED  BY <1>2, <2>1 DEF Messages
<1>4. /\ client' = client /\ waiter' = waiter /\ pc' = pc /\ req' = req
      /\ reported' = reported
  BY DEF SendAbort, vars, history, handlers
<1>5. MemoryTyped'
  BY MemoryKept DEF SendAbort, UploadInv, UploadTypeOK, bounds
<1>6. /\ call \in [Handlers -> Messages \cup {None}]
      /\ waiter \in [Handlers -> Clients \cup {None}]
  BY DEF UploadInv, UploadTypeOK
<1>7. /\ call' \in [Handlers -> Messages \cup {None}] /\ call'[h] = m
      /\ \A g \in Handlers : g # h => call'[g] = call[g]
  BY <1>1, <1>2, <1>3, <1>6 DEF Message
<1>8. CallFits(h)'
  BY <1>3, <1>7 DEF CallFits
<1>9. pc'[h] = "idle" /\ waiter'[h] = None /\ None \notin Clients
  BY <1>1, <1>4, ClientAssumption DEF Free
<1> QED  BY <1>4, <1>5, <1>6, <1>7, <1>8, <1>9, ToldTheSame, HandlerMoves

\* A request arrives, served or refused.
LEMMA DeliverStep ==
  ASSUME Typed, UploadInv, NEW h \in Handlers, Deliver(h) \/ DeliverFails(h)
  PROVE  UploadInv' /\ Arrive(h)
<1>1. /\ call[h] # None /\ call[h] \in Messages
      /\ call' = [call EXCEPT ![h] = None]
      /\ client' = client /\ waiter' = waiter
  BY DEF Deliver, DeliverFails, UploadInv, UploadTypeOK
<1>2. PICK u \in Uploads :
        /\ call[h].op # "create" => u = call[h].id
        /\ \/ CreateSpool(h, u) \/ HeadUpload(h, u) \/ DeleteUpload(h, u)
           \/ RequestFails(h, u)
           \/ \E off \in 0 .. Size[u] : \E body \in Bodies(off) : PatchCheck(h, u, off, body)
  <2>1. CASE call[h].op = "create"
    BY <2>1 DEF Deliver, DeliverFails
  <2>2. CASE call[h].op # "create"
    <3>1. PICK u \in Uploads : u = call[h].id
      BY <1>1, <2>2 DEF UploadInv, CallFits
    <3>2. CASE PatchCheck(h, u, call[h].off, call[h].body) /\ call[h].op = "patch"
      <4>1. call[h].off \in 0 .. Size[u] /\ call[h].body \in Bodies(call[h].off)
        BY <1>1, <3>1, <3>2 DEF UploadInv, CallFits
      <4> QED  BY <3>1, <3>2, <4>1
    <3> QED  BY <2>2, <3>1, <3>2 DEF Deliver, DeliverFails
  <2> QED  BY <2>1, <2>2
<1>3. /\ pc'[h] # "idle" /\ req'[h].id = u
      /\ \A g \in Handlers : g # h => pc'[g] = pc[g] /\ req'[g] = req[g]
      /\ reported' = reported
  BY <1>2, Begins
<1>4. MemoryTyped'
  BY MemoryKept DEF Deliver, DeliverFails, UploadInv, UploadTypeOK, memory, bounds
<1>5. /\ call \in [Handlers -> Messages \cup {None}]
      /\ waiter \in [Handlers -> Clients \cup {None}]
  BY DEF UploadInv, UploadTypeOK
<1>6. /\ call' \in [Handlers -> Messages \cup {None}] /\ call'[h] = None
      /\ \A g \in Handlers : g # h => call'[g] = call[g]
  BY <1>1, <1>5
<1>7. CallFits(h)'
  BY <1>6 DEF CallFits
<1>8. ASSUME NEW c \in Clients, waiter'[h] = c
      PROVE  Serves(h, c)' /\ waiter[h] = c
  <2>1. waiter[h] = c /\ Serves(h, c)
    BY <1>1, <1>8 DEF UploadInv, Linked
  <2>2. client[c].step # "create" => u = client[c].session
    <3>1. CASE call[h].op = "create"
      <4>1. call[h].id = None
        BY <1>1, <3>1 DEF UploadInv, CallFits
      <4>2. client[c].step # "create" => client[c].session \in Uploads
        BY <2>1, ClientParts DEF Serves
      <4> QED  BY <1>1, <2>1, <4>1, <4>2, NoneAssumption DEF Serves
    <3> QED  BY <1>1, <1>2, <2>1, <3>1 DEF Serves
  <2> QED  BY <1>1, <1>3, <1>6, <2>1, <2>2 DEF Serves
<1>9. UploadInv'
  BY <1>1, <1>3, <1>4, <1>5, <1>6, <1>7, <1>8, ToldTheSame, HandlerMoves
<1> QED  BY <1>2, <1>9 DEF Arrive

\* A request is worked on.
LEMMA WorkStep ==
  ASSUME Typed, UploadInv, NEW h \in Handlers, Work(h) \/ WorkFails(h)
  PROVE  UploadInv' /\ Serve(h)
<1>1. /\ Proceed(h) \/ Fail(h)
      /\ client' = client /\ call' = call /\ waiter' = waiter
  BY DEF Work, WorkFails, network
<1>2. /\ pc[h] # "idle" /\ pc'[h] # "idle" /\ req'[h].id = req[h].id
      /\ \A g \in Handlers : g # h => pc'[g] = pc[g] /\ req'[g] = req[g]
      /\ reported' = reported
  BY <1>1, GoesOn
<1>3. MemoryTyped'
  BY MemoryKept DEF Work, WorkFails, UploadInv, UploadTypeOK, memory, bounds
<1>4. /\ call \in [Handlers -> Messages \cup {None}]
      /\ waiter \in [Handlers -> Clients \cup {None}]
  BY DEF UploadInv, UploadTypeOK
<1>5. call[h] = None
  BY <1>2 DEF UploadInv, Linked
<1>6. CallFits(h)'
  BY <1>1, <1>5 DEF CallFits
<1>7. ASSUME NEW c \in Clients, waiter'[h] = c
      PROVE  Serves(h, c)' /\ waiter[h] = c
  <2>1. waiter[h] = c /\ Serves(h, c)
    BY <1>1, <1>7 DEF UploadInv, Linked
  <2> QED  BY <1>1, <1>2, <1>5, <2>1 DEF Serves
<1>8. UploadInv'
  BY <1>1, <1>2, <1>3, <1>4, <1>5, <1>6, <1>7, ToldTheSame, HandlerMoves
<1> QED  BY <1>1, <1>8 DEF Serve

\* A client loses its connection.
LEMMA LoseStep ==
  ASSUME Typed, UploadInv, NEW h \in Handlers, Lose(h)
  PROVE  UploadInv'
<1>n. None \notin Clients
  BY ClientAssumption
<1>1. /\ waiter \in [Handlers -> Clients \cup {None}]
      /\ pc' = pc /\ req' = req /\ reported' = reported /\ call' = call
  BY DEF Lose, UploadInv, UploadTypeOK, vars, history, handlers
<1>2. PICK c \in Clients : c = waiter[h]
  BY <1>1 DEF Lose
<1>3. HeardBy(c)
  <2>1. client' = [client EXCEPT ![c].step = "stopped"]
    BY <1>2 DEF Lose, Stop
  <2> QED  BY <2>1, HearsStep DEF ClientSteps, Busy
<1>4. waiter' = [waiter EXCEPT ![h] = None]
  BY DEF Lose
<1>5. MemoryTyped'
  BY MemoryKept DEF Lose, UploadInv, UploadTypeOK, memory
<1>6. \A g \in Handlers : waiter'[g] # None =>
        waiter'[g] = waiter[g] /\ waiter[g] # c
  BY <1>1, <1>2, <1>4 DEF UploadInv, Linked
<1>7. waiter' \in [Handlers -> Clients \cup {None}]
  BY <1>1, <1>4
<1> QED  BY <1>1, <1>3, <1>5, <1>6, <1>7, ToldTheSame, ClientMoves

\* What nobody waits for is lost on its way.
LEMMA DropStep ==
  ASSUME Typed, UploadInv, NEW h \in Handlers, Drop(h)
  PROVE  UploadInv'
<1>1. /\ call \in [Handlers -> Messages \cup {None}]
      /\ waiter \in [Handlers -> Clients \cup {None}]
      /\ call' = [call EXCEPT ![h] = None] /\ waiter[h] = None /\ waiter' = waiter
      /\ pc' = pc /\ req' = req /\ reported' = reported /\ client' = client
  BY DEF Drop, UploadInv, UploadTypeOK, vars, history, handlers
<1>2. /\ call' \in [Handlers -> Messages \cup {None}] /\ call'[h] = None
      /\ \A g \in Handlers : g # h => call'[g] = call[g]
  BY <1>1
<1>3. MemoryTyped'
  BY MemoryKept DEF Drop, UploadInv, UploadTypeOK, memory
<1>4. CallFits(h)'
  BY <1>2 DEF CallFits
<1>5. None \notin Clients
  BY ClientAssumption
<1> QED  BY <1>1, <1>2, <1>3, <1>4, <1>5, ToldTheSame, HandlerMoves

\* An answer is heard, or nobody hears it.
LEMMA AnsweredStep ==
  ASSUME Typed, UploadInv, NEW h \in Handlers, Answered(h)
  PROVE  UploadInv' /\ Serve(h)
<1>n. None \notin Clients
  BY ClientAssumption
<1>1. /\ Reply(h) /\ pc[h] = "reply" /\ call' = call
      /\ waiter' = [waiter EXCEPT ![h] = None]
      /\ waiter \in [Handlers -> Clients \cup {None}]
      /\ call \in [Handlers -> Messages \cup {None}]
      /\ started' = started /\ trouble' = trouble
  BY DEF Answered, Reply, UploadInv, UploadTypeOK, bounds
<1>2. TellsMore /\ \A g \in Handlers : g # h => pc'[g] = pc[g] /\ req'[g] = req[g]
  BY <1>1, ReplyTells DEF TellsMore, Typed, TypeOK
<1>3. call[h] = None
  BY <1>1 DEF UploadInv, Linked
<1>4. /\ waiter' \in [Handlers -> Clients \cup {None}] /\ waiter'[h] = None
      /\ \A g \in Handlers : g # h => waiter'[g] = waiter[g]
  BY <1>1
<1>5. CASE waiter[h] = None
  <2>1. client' = client /\ stateFile' = stateFile /\ aborts' = aborts
        /\ records' \subseteq records
    BY <1>5, <1>n DEF Answered, NobodyHears, Clients
  <2>2. MemoryTyped'
    BY <1>1, <2>1, MemoryKept DEF UploadInv, UploadTypeOK
  <2>3. CallFits(h)'
    BY <1>1, <1>3 DEF CallFits
  <2>4. UploadInv'
    BY <1>1, <1>2, <1>3, <1>4, <1>n, <2>1, <2>2, <2>3, HandlerMoves
  <2> QED  BY <1>1, <2>4 DEF Serve
<1>6. CASE waiter[h] # None
  <2>1. PICK c \in Clients : c = waiter[h]
    BY <1>1, <1>6
  <2>2. HeardBy(c) /\ MemoryTyped'
    <3>0. /\ records \subseteq Uploads /\ aborts \subseteq Uploads
          /\ stateFile \in Uploads \cup {None}
      BY DEF UploadInv, UploadTypeOK
    <3>1. CASE TabHears(c, req[h].id, req[h].code, req[h].upto)
      BY <1>1, <2>1, <3>0, <3>1, TabAnswered, MemoryKept
    <3>2. CASE RunHears(c, req[h].id, req[h].code, req[h].upto)
      BY <1>1, <2>1, <3>0, <3>2, RunAnswered, MemoryKept
    <3> QED  BY <1>6, <2>1, <3>1, <3>2 DEF Answered
  <2>3. \A g \in Handlers : waiter'[g] # None =>
          /\ waiter'[g] = waiter[g] /\ waiter[g] # c
          /\ pc'[g] = pc[g] /\ req'[g] = req[g]
    BY <1>2, <1>4, <2>1 DEF UploadInv, Linked
  <2>4. \A g \in Handlers : call[g] # None => pc'[g] = pc[g]
    BY <1>2, <1>3
  <2>5. UploadInv'
    BY <1>1, <1>2, <1>4, <2>2, <2>3, <2>4, ClientMoves
  <2> QED  BY <1>1, <2>5 DEF Serve
<1> QED  BY <1>5, <1>6

\* Every connection breaks.
LEMMA RestartStep ==
  ASSUME Typed, UploadInv, ServerRestart
  PROVE  UploadInv'
<1>n. None \notin Clients
  BY ClientAssumption
<1>1. /\ \A h \in Handlers : call'[h] = None /\ waiter'[h] = None /\ pc'[h] = "idle"
      /\ reported' = reported
  BY DEF ServerRestart, Restart
<1>2. /\ call' \in [Handlers -> Messages \cup {None}]
      /\ waiter' \in [Handlers -> Clients \cup {None}]
  BY DEF ServerRestart
<1>3. MemoryTyped'
  BY MemoryKept DEF ServerRestart, UploadInv, UploadTypeOK, memory
<1>4. ASSUME NEW c \in Clients
      PROVE  /\ client'[c] \in ClientStates
             /\ client'[c].step \in Busy \ {"create"} => client'[c].session # None
             /\ OffsetTold(c)'
  <2>1. CASE Waiting(c)
    <3>1. PICK old \in ClientStates : old = client[c]
      BY ClientParts
    <3>2. client'[c] = [old EXCEPT !.step = "stopped"]
      BY <2>1, <3>1 DEF ServerRestart
    <3>3. client'[c] \in ClientStates /\ client'[c].step = "stopped"
      BY <3>2 DEF ClientStates, ClientSteps
    <3> QED  BY <3>3 DEF Busy, OffsetTold
  <2>2. CASE ~Waiting(c)
    <3>1. client'[c] = client[c]
      BY <2>2 DEF ServerRestart
    <3>2. OffsetTold(c)'
      BY <1>1, <3>1, ToldTheSame, ToldStays
    <3> QED  BY <3>1, <3>2 DEF UploadInv, UploadTypeOK
  <2> QED  BY <2>1, <2>2
<1>5. client' \in [Clients -> ClientStates]
  BY <1>4 DEF ServerRestart
<1>6. UploadTypeOK'
  BY <1>2, <1>3, <1>4, <1>5 DEF UploadTypeOK, MemoryTyped
<1>7. Linked' /\ \A h \in Handlers : CallFits(h)'
  BY <1>1, <1>n DEF Linked, CallFits
<1> QED  BY <1>4, <1>6, <1>7 DEF UploadInv

\* Every step is a step of the store, or one the store does not notice, and
\* keeps the invariant.
LEMMA UploadStep ==
  ASSUME Typed, UploadInv, [UploadNext]_uploadVars
  PROVE  UploadInv' /\ [Next]_vars
<1>1. ASSUME NEW c \in Clients, Start(c) \/ Resume(c) \/ Send(c)
      PROVE  UploadInv' /\ UNCHANGED vars
  BY <1>1, UserStep, SendStep DEF Start, Resume, Send
<1>2. ASSUME NEW u \in Uploads, AbortSession(u) \/ SendAbort(u)
      PROVE  UploadInv' /\ UNCHANGED vars
  BY <1>2, AbortStep, SendAbortStep DEF AbortSession, SendAbort
<1>3. ASSUME NEW h \in Handlers, Connection(h)
      PROVE  UploadInv' /\ Next
  BY <1>3, DeliverStep, WorkStep, AnsweredStep DEF Connection, Next
<1>4. ASSUME NEW h \in Handlers, Lose(h) \/ Drop(h)
      PROVE  UploadInv' /\ UNCHANGED vars
  BY <1>4, LoseStep, DropStep DEF Lose, Drop
<1>5. CASE ServerRestart
  BY <1>5, RestartStep DEF ServerRestart, Next
<1>6. CASE UNCHANGED uploadVars
  <2>1. UNCHANGED vars /\ UNCHANGED <<client, call, waiter, records, stateFile,
                                      aborts, started, trouble>>
    BY <1>6 DEF uploadVars, network, memory, bounds
  <2>2. pc' = pc /\ req' = req /\ reported' = reported
    BY <2>1 DEF vars, handlers, history
  <2>3. UploadTypeOK'
    BY <2>1 DEF UploadInv, UploadTypeOK
  <2>4. Linked'
    BY <2>1, <2>2 DEF UploadInv, Linked, Serves
  <2>5. (\A h \in Handlers : CallFits(h)') /\ \A c \in Clients : OffsetTold(c)'
    BY <2>1, <2>2 DEF UploadInv, CallFits, OffsetTold
  <2> QED  BY <2>1, <2>3, <2>4, <2>5 DEF UploadInv
<1> QED  BY <1>1, <1>2, <1>3, <1>4, <1>5, <1>6 DEF UploadNext

-----------------------------------------------------------------------------
\* The store's invariant and that of its clients hold together.
LEMMA UploadsConsistent ==
  UploadSpec => [](StoreInv /\ UploadInv) /\ [][Next]_vars
<1>1. UploadInit => StoreInv /\ UploadInv
  BY TypedInit, LockedInit, ConsistentInit, UploadInvInit DEF UploadInit, StoreInv
<1>2. StoreInv /\ UploadInv /\ [UploadNext]_uploadVars =>
        (StoreInv /\ UploadInv)' /\ [Next]_vars
  BY UploadStep, TypedStep, LockedStep, ConsistentStep DEF StoreInv
<1> QED  BY <1>1, <1>2, PTL DEF UploadSpec

\* Type correctness of the clients and their connections.
THEOREM UploadTypeCorrect == UploadSpec => []UploadTypeOK
<1>1. UploadInv => UploadTypeOK
  BY DEF UploadInv
<1> QED  BY <1>1, UploadsConsistent, PTL

\* However many tabs and runs resume one session, meet requests of their own that
\* are still being served, or lose a connection at any moment: none of them ever
\* sends from an offset beyond what its session holds.
THEOREM ClientsStayBehind == UploadSpec => []NeverAhead
<1>1. StoreInv /\ UploadInv => NeverAhead
  <2> SUFFICES ASSUME StoreInv, UploadInv, NEW c \in Clients,
                      client[c].step = "patch", SessionOpen(client[c].session)
               PROVE  client[c].offset <= Len(spool[client[c].session])
    BY DEF NeverAhead
  <2>1. PICK u \in Uploads, n \in Nat : u = client[c].session /\ n = client[c].offset
    BY ClientParts DEF Busy
  <2>2. n <= reported[u]
    BY <2>1 DEF UploadInv, OffsetTold
  <2>3. reported[u] <= Len(spool[u])
    BY <2>1 DEF StoreInv, Consistent, SessionInv
  <2>4. reported[u] \in Nat /\ Len(spool[u]) \in Nat
    BY <2>1 DEF StoreInv, Typed, TypeOK, SessionOpen
  <2>5. n <= Len(spool[u])
    BY <2>2, <2>3, <2>4
  <2> QED  BY <2>1, <2>5
<1> QED  BY <1>1, UploadsConsistent, PTL

\* What the store promises one request at a time it keeps for whole uploads over
\* connections that break: a session ends once, and its content appears in one step.
THEOREM UploadsImplementAtomicUpload == UploadSpec => ImplementsAtomicUpload
<1>1. UploadInit => Promise!Init
  BY PromiseInit DEF UploadInit
<1>2. StoreInv /\ [Next]_vars => [Promise!Next]_(Promise!abstractVars)
  BY PromiseStep DEF StoreInv
<1> QED
  BY <1>1, <1>2, UploadsConsistent, PTL DEF UploadSpec, ImplementsAtomicUpload, Promise!Spec

\* So is what clients were told of: neither an offset nor a completion is ever
\* taken back by a retry, a lost answer or a restart.
THEOREM UploadsKeepWhatWasTold ==
  UploadSpec => [](NothingToldIsLost /\ CompleteMeansPublished)
<1>1. StoreInv => NothingToldIsLost /\ CompleteMeansPublished
  BY DEF StoreInv, Typed, TypeOK, Consistent, SessionInv, NothingToldIsLost,
         CompleteMeansPublished
<1> QED  BY <1>1, UploadsConsistent, PTL
-----------------------------------------------------------------------------
(* Where a session ends.  The answers a client draws conclusions from, 404   *)
(* and a DELETE that succeeded, tell of the moment they were written and are *)
(* heard later.  They stay true because the end of a session is final.       *)

\* A session that existed and does not any more.
Gone(u) == u \in opened /\ ~SessionOpen(u)

\* No session comes back, and none is opened twice.
EndsAreFinal ==
  /\ opened \subseteq opened'
  /\ \A v \in Uploads : v \in opened /\ SessionOpen(v)' => SessionOpen(v)

\* What the answers on their way say of the sessions.
AnswerHolds(h) ==
  /\ pc[h] = "remove_sidecar" => req[h].code \in {"patched", "mismatch", "deleted"}
  /\ pc[h] = "reply" /\ req[h].code = "created" => req[h].id \in opened
  /\ pc[h] = "reply" /\ req[h].code \in {"missing", "deleted"} => Gone(req[h].id)

\* A handler that is making a session, or has made one and not said so yet.
Makes(h) == pc[h] = "create_sidecar" \/ (pc[h] = "reply" /\ req[h].code = "created")

\* The session that is there after a step and was not there before it.
Made(h) ==
  \A v \in Uploads : SessionOpen(v)' /\ ~SessionOpen(v) =>
    /\ pc[h] = "create_sidecar" /\ req[h].id = v /\ v \notin opened
    /\ pc'[h] = "reply" /\ req'[h].code = "created" /\ req'[h].id = v

\* An ended session stays so.
LEMMA GoneStays ==
  ASSUME NEW u \in Uploads, Gone(u), EndsAreFinal
  PROVE  Gone(u)'
BY DEF Gone, EndsAreFinal

\* A new session was not opened before.
LEMMA MadeIsFinal ==
  ASSUME NEW h, Made(h), opened \subseteq opened'
  PROVE  EndsAreFinal
BY DEF Made, EndsAreFinal

\* An answer of another kind holds whatever it says.
LEMMA PlainAnswerHolds ==
  ASSUME Typed, NEW h \in Handlers, NEW u, NEW upto,
         NEW code \in {"offset", "patched", "conflict", "mismatch", "failed"},
         Answer(h, u, code, upto)
  PROVE  AnswerHolds(h)' /\ ~Makes(h)'
BY AnswerFrame DEF AnswerHolds, Makes

\* What a request that arrives does to the sessions.  It is about a session that
\* was opened, unless it makes one.
LEMMA ArrivalTells ==
  ASSUME StoreInv, NEW h \in Handlers, NEW u \in Uploads,
         \/ CreateSpool(h, u) \/ RequestFails(h, u)
         \/ /\ u \in opened
            /\ \/ HeadUpload(h, u) \/ DeleteUpload(h, u)
               \/ \E off \in 0 .. Size[u] : \E body \in Bodies(off) : PatchCheck(h, u, off, body)
  PROVE  /\ opened' = opened /\ Made(h) /\ AnswerHolds(h)'
         /\ \A v \in Uploads : SessionOpen(v)' => SessionOpen(v)
         /\ Makes(h)' => CreateSpool(h, u)
<1> USE DEF history, store
<1>u. /\ pc \in [Handlers -> Steps] /\ req \in [Handlers -> Requests \cup {None}]
      /\ spool \in [Uploads -> Seq(Bytes) \cup {None}] /\ Typed
  BY DEF StoreInv, Typed, TypeOK
<1> SUFFICES /\ opened' = opened /\ AnswerHolds(h)'
             /\ \A v \in Uploads : SessionOpen(v)' => SessionOpen(v)
             /\ Makes(h)' => CreateSpool(h, u)
  BY DEF Made
<1>1. CASE CreateSpool(h, u)
  <2>1. pc'[h] = "create_sidecar" /\ opened' = opened /\ sidecars' = sidecars
    BY <1>1, <1>u DEF CreateSpool, Goto
  <2>2. \A v \in Uploads : v # u => spool'[v] = spool[v]
    BY <1>1, <1>u DEF CreateSpool
  <2>3. u \notin sidecars
    BY <1>1 DEF CreateSpool, FreshId
  <2> QED  BY <1>1, <2>1, <2>2, <2>3 DEF SessionOpen, AnswerHolds
<1>2. CASE RequestFails(h, u)
  BY <1>2, <1>u, PlainAnswerHolds DEF RequestFails, SessionOpen
<1>3. CASE u \in opened /\ HeadUpload(h, u)
  <2>1. CASE SessionOpen(u)
    BY <1>3, <2>1, <1>u, PlainAnswerHolds DEF HeadUpload, SessionOpen
  <2>2. CASE ~SessionOpen(u)
    BY <1>3, <2>2, <1>u, AnswerFrame
       DEF HeadUpload, SessionOpen, AnswerHolds, Gone, Makes
  <2> QED  BY <2>1, <2>2
<1>4. CASE u \in opened /\ DeleteUpload(h, u)
  <2>1. CASE SessionOpen(u)
    <3>1. /\ pc'[h] = "remove_sidecar" /\ req'[h].code = "deleted" /\ opened' = opened
          /\ sidecars' = sidecars
      BY <1>4, <2>1, <1>u DEF DeleteUpload, Goto, Outcome
    <3>2. \A v \in Uploads : spool'[v] # None => spool'[v] = spool[v]
      BY <1>4, <2>1, <1>u DEF DeleteUpload
    <3> QED  BY <3>1, <3>2 DEF SessionOpen, AnswerHolds, Makes
  <2>2. CASE ~SessionOpen(u)
    BY <1>4, <2>2, <1>u, AnswerFrame
       DEF DeleteUpload, SessionOpen, AnswerHolds, Gone, Makes
  <2> QED  BY <2>1, <2>2
<1>5. ASSUME u \in opened, NEW off \in 0 .. Size[u], NEW body \in Bodies(off),
             PatchCheck(h, u, off, body)
      PROVE  /\ opened' = opened /\ AnswerHolds(h)'
             /\ \A v \in Uploads : SessionOpen(v)' => SessionOpen(v)
             /\ Makes(h)' => CreateSpool(h, u)
  <2>0. opened' = opened /\ spool' = spool /\ sidecars' = sidecars
    BY <1>5 DEF PatchCheck
  <2>1. CASE SessionOpen(u) /\ Len(spool[u]) = off
    BY <1>5, <2>0, <2>1, <1>u DEF PatchCheck, Goto, SessionOpen, AnswerHolds, Makes
  <2>2. CASE SessionOpen(u) /\ Len(spool[u]) # off
    BY <1>5, <2>0, <2>2, <1>u, PlainAnswerHolds DEF PatchCheck, SessionOpen
  <2>3. CASE ~SessionOpen(u)
    BY <1>5, <2>0, <2>3, <1>u, AnswerFrame
       DEF PatchCheck, SessionOpen, AnswerHolds, Gone, Makes
  <2> QED  BY <2>1, <2>2, <2>3
<1> QED  BY <1>1, <1>2, <1>3, <1>4, <1>5

\* What the work on a request does to the sessions.
LEMMA WorkTells ==
  ASSUME StoreInv, NEW h \in Handlers, AnswerHolds(h), Proceed(h) \/ Fail(h)
  PROVE  /\ opened \subseteq opened' /\ Made(h) /\ AnswerHolds(h)'
         /\ Makes(h)' => Makes(h)
<1> USE DEF history, store
<1>u. /\ pc \in [Handlers -> Steps] /\ req \in [Handlers -> Requests \cup {None}]
      /\ spool \in [Uploads -> Seq(Bytes) \cup {None}] /\ Typed
      /\ pc[h] # "idle" => req[h] \in Requests /\ HandlerInv(h)
  BY DEF StoreInv, Typed, TypeOK, Consistent
<1>n. pc[h] # "idle"
  BY GoesOn, <1>u
<1>p. PICK u \in Uploads : u = req[h].id
  BY <1>u, <1>n DEF Requests
\* Most steps leave open what was open, and make nothing.
<1>a. ASSUME opened' = opened, AnswerHolds(h)', ~Makes(h)',
             \A v \in Uploads : SessionOpen(v)' => SessionOpen(v)
      PROVE  /\ opened \subseteq opened' /\ Made(h) /\ AnswerHolds(h)'
             /\ Makes(h)' => Makes(h)
  BY <1>a DEF Made
<1>s. ASSUME spool' = spool, sidecars' = sidecars
      PROVE  \A v \in Uploads : SessionOpen(v)' => SessionOpen(v)
  BY <1>s DEF SessionOpen
<1>1. CASE CreateSidecar(h)
  <2>1. /\ pc[h] = "create_sidecar" /\ pc'[h] = "reply" /\ req'[h].code = "created"
        /\ req'[h].id = u /\ opened' = opened \cup {u} /\ spool' = spool
        /\ sidecars' = sidecars \cup {u}
    BY <1>1, <1>p, <1>u, AnswerFrame DEF CreateSidecar
  <2>2. u \notin opened
    BY <1>n, <1>p, <1>u, <2>1 DEF HandlerInv
  <2>3. Made(h)
    BY <1>p, <2>1, <2>2 DEF Made, SessionOpen
  <2> QED  BY <2>1, <2>3 DEF AnswerHolds, Makes
<1>2. CASE CreateSidecarFails(h)
  BY <1>2, <1>u, <1>a, <1>s, PlainAnswerHolds DEF CreateSidecarFails
<1>3. CASE PatchAppend(h)
  <2>0. pc[h] = "append" /\ u \in opened /\ opened' = opened /\ sidecars' = sidecars
    BY <1>3, <1>n, <1>p, <1>u DEF PatchAppend, HandlerInv
  <2>1. CASE SessionOpen(u) /\ Fits(u, req[h].body)
    <3>1. pc'[h] = "announce"
      BY <1>3, <1>p, <2>1, <1>u DEF PatchAppend, Goto
    <3>2. \A v \in Uploads : v # u => spool'[v] = spool[v]
      BY <1>3, <1>p, <2>1, <1>u DEF PatchAppend
    <3>3. \A v \in Uploads : SessionOpen(v)' => SessionOpen(v)
      BY <2>0, <2>1, <3>2 DEF SessionOpen
    <3>4. AnswerHolds(h)' /\ ~Makes(h)'
      BY <3>1 DEF AnswerHolds, Makes
    <3> QED  BY <1>a, <2>0, <3>3, <3>4
  <2>2. CASE SessionOpen(u) /\ ~Fits(u, req[h].body)
    BY <1>3, <1>p, <2>0, <2>2, <1>u, <1>a, <1>s, PlainAnswerHolds DEF PatchAppend
  <2>3. CASE ~SessionOpen(u)
    <3>1. spool' = spool /\ Answer(h, u, "missing", 0)
      BY <1>3, <1>p, <2>3 DEF PatchAppend
    <3>2. AnswerHolds(h)' /\ ~Makes(h)'
      BY <2>0, <2>3, <3>1, <1>u, AnswerFrame DEF AnswerHolds, Gone, Makes, SessionOpen
    <3> QED  BY <1>a, <1>s, <2>0, <3>1, <3>2
  <2> QED  BY <2>1, <2>2, <2>3
<1>4. CASE PatchAppendFails(h)
  <2>1. /\ SessionOpen(u) /\ opened' = opened /\ sidecars' = sidecars
        /\ Answer(h, u, "failed", 0)
    BY <1>4, <1>p DEF PatchAppendFails
  <2>2. \A v \in Uploads : v # u => spool'[v] = spool[v]
    BY <1>4, <1>p, <1>u DEF PatchAppendFails
  <2>3. \A v \in Uploads : SessionOpen(v)' => SessionOpen(v)
    BY <2>1, <2>2 DEF SessionOpen
  <2> QED  BY <1>a, <1>u, <2>1, <2>3, PlainAnswerHolds
<1>5. CASE PatchAnnounce(h)
  <2>0. opened' = opened /\ spool' = spool /\ sidecars' = sidecars
    BY <1>5 DEF PatchAnnounce
  <2>1. CASE req[h].upto = Size[u]
    <3>1. pc'[h] = "finalize"
      BY <1>5, <1>p, <2>1, <1>u DEF PatchAnnounce, Goto
    <3> QED  BY <1>a, <1>s, <2>0, <3>1 DEF AnswerHolds, Makes
  <2>2. CASE req[h].upto # Size[u]
    BY <1>5, <1>p, <2>0, <2>2, <1>u, <1>a, <1>s, PlainAnswerHolds DEF PatchAnnounce
  <2> QED  BY <2>1, <2>2
<1>6. CASE Finalize(h)
  <2>0. pc[h] = "finalize" /\ opened' = opened /\ u \in opened
    BY <1>6, <1>n, <1>p, <1>u DEF Finalize, HandlerInv
  <2>1. CASE FinalizeGone(h)
    <3>1. ~SessionOpen(u)
      <4>1. SUFFICES ASSUME SessionOpen(u) PROVE FALSE
        OBVIOUS
      <4>2. /\ announced[u] = Size[u] /\ announced[u] <= Len(spool[u])
            /\ Len(spool[u]) <= Size[u] /\ Size[u] \in Nat
        BY <1>n, <1>p, <1>u, <2>0, <4>1, UploadAssumption
           DEF HandlerInv, StoreInv, Consistent, SessionInv
      <4>3. Len(spool[u]) \in Nat
        BY <1>u, <4>1 DEF SessionOpen
      <4>4. Len(spool[u]) = Size[u]
        BY <4>2, <4>3
      <4> QED  BY <1>p, <2>1, <4>1, <4>4 DEF FinalizeGone, ReadyToFinalize
    <3>2. /\ spool' = spool /\ sidecars' = sidecars /\ Answer(h, u, "missing", 0)
      BY <1>p, <2>1 DEF FinalizeGone
    <3>3. AnswerHolds(h)' /\ ~Makes(h)'
      BY <2>0, <3>1, <3>2, <1>u, AnswerFrame DEF AnswerHolds, Gone, Makes, SessionOpen
    <3> QED  BY <1>a, <1>s, <2>0, <3>2, <3>3
  <2>2. CASE FinalizeMismatch(h)
    <3>1. /\ pc'[h] = "remove_sidecar" /\ req'[h].code = "mismatch"
          /\ sidecars' = sidecars
      BY <2>2, <1>u, <1>n DEF FinalizeMismatch, Goto, Requests
    <3>2. \A v \in Uploads : spool'[v] # None => spool'[v] = spool[v]
      BY <2>2, <1>p, <1>u DEF FinalizeMismatch
    <3> QED  BY <1>a, <2>0, <3>1, <3>2 DEF AnswerHolds, Makes, SessionOpen
  <2>3. CASE FinalizeRename(h)
    <3>1. /\ pc'[h] = "remove_sidecar" /\ req'[h].code = "patched"
          /\ sidecars' = sidecars
      BY <2>3, <1>u, <1>n DEF FinalizeRename, Goto, Requests
    <3>2. \A v \in Uploads : spool'[v] # None => spool'[v] = spool[v]
      BY <2>3, <1>p, <1>u DEF FinalizeRename
    <3> QED  BY <1>a, <2>0, <3>1, <3>2 DEF AnswerHolds, Makes, SessionOpen
  <2>4. CASE FinalizeCopy(h)
    <3>1. pc'[h] = "copy" /\ spool' = spool /\ sidecars' = sidecars
      BY <2>4, <1>u DEF FinalizeCopy, Goto
    <3> QED  BY <1>a, <1>s, <2>0, <3>1 DEF AnswerHolds, Makes
  <2> QED  BY <1>6, <2>1, <2>2, <2>3, <2>4 DEF Finalize
<1>7. CASE FinalizeFails(h)
  BY <1>7, <1>u, <1>a, <1>s, PlainAnswerHolds DEF FinalizeFails
<1>8. CASE CopyFile(h)
  <2>1. /\ pc'[h] = "remove_spool" /\ spool' = spool /\ sidecars' = sidecars
        /\ opened' = opened
    BY <1>8, <1>u DEF CopyFile, Goto
  <2> QED  BY <1>a, <1>s, <2>1 DEF AnswerHolds, Makes
<1>9. CASE CopyFileFails(h)
  BY <1>9, <1>u, <1>a, <1>s, PlainAnswerHolds DEF CopyFileFails
<1>10. CASE RemoveSpool(h)
  <2>1. /\ pc'[h] = "remove_sidecar" /\ req'[h].code = "patched"
        /\ sidecars' = sidecars /\ opened' = opened
    BY <1>10, <1>u, <1>n DEF RemoveSpool, Goto, Requests
  <2>2. \A v \in Uploads : spool'[v] # None => spool'[v] = spool[v]
    BY <1>10, <1>p, <1>u DEF RemoveSpool
  <2> QED  BY <1>a, <2>1, <2>2 DEF AnswerHolds, Makes, SessionOpen
<1>11. CASE RemoveSpoolFails(h)
  BY <1>11, <1>u, <1>a, <1>s, PlainAnswerHolds DEF RemoveSpoolFails
<1>12. CASE RemoveSidecar(h)
  <2>1. /\ pc[h] = "remove_sidecar" /\ spool' = spool /\ opened' = opened
        /\ sidecars' = sidecars \ {u}
        /\ pc'[h] = "reply" /\ req'[h].code = req[h].code /\ req'[h].id = u
    BY <1>12, <1>p, <1>u, AnswerFrame DEF RemoveSidecar
  <2>2. u \in opened /\ req[h].code \in {"patched", "mismatch", "deleted"}
    BY <1>n, <1>p, <1>u, <2>1 DEF HandlerInv, AnswerHolds
  <2>3. \A v \in Uploads : SessionOpen(v)' => SessionOpen(v)
    BY <2>1 DEF SessionOpen
  <2>4. AnswerHolds(h)' /\ ~Makes(h)'
    BY <2>1, <2>2 DEF AnswerHolds, Makes, Gone, SessionOpen
  <2> QED  BY <1>a, <2>1, <2>3, <2>4
<1>13. CASE RemoveSidecarFails(h)
  <2>1. opened' = opened /\ spool' = spool /\ sidecars' = sidecars
    BY <1>13 DEF RemoveSidecarFails
  <2>2. Answer(h, u, "patched", req[h].upto) \/ Answer(h, u, "failed", 0)
    BY <1>13, <1>p DEF RemoveSidecarFails
  <2>3. AnswerHolds(h)' /\ ~Makes(h)'
    BY <1>u, <2>2, PlainAnswerHolds
  <2> QED  BY <1>a, <1>s, <2>1, <2>3
<1> QED
  BY <1>1, <1>2, <1>3, <1>4, <1>5, <1>6, <1>7, <1>8, <1>9, <1>10, <1>11, <1>12,
     <1>13 DEF Proceed, Fail
-----------------------------------------------------------------------------
(* What a client makes of an answer.                                        *)

\* A client that takes another step keeps its session.
LEMMA StepsOn ==
  ASSUME UploadInv, NEW c \in Clients, NEW s,
         \/ client' = [client EXCEPT ![c].step = s]
         \/ \E n, place : client' = [client EXCEPT ![c] =
              [@ EXCEPT !.offset = n, !.place = place, !.step = s]]
  PROVE  client'[c].step = s /\ client'[c].session = client[c].session
<1>1. PICK old \in ClientStates : old = client[c]
  BY ClientParts
<1>2. CASE client' = [client EXCEPT ![c].step = s]
  <2>1. client'[c] = [old EXCEPT !.step = s]
    BY <1>1, <1>2, ClientParts
  <2> QED  BY <1>1, <2>1 DEF ClientStates
<1>3. CASE \E n, place : client' = [client EXCEPT ![c] =
             [@ EXCEPT !.offset = n, !.place = place, !.step = s]]
  <2>1. PICK n, place : client' = [client EXCEPT ![c] =
             [@ EXCEPT !.offset = n, !.place = place, !.step = s]]
    BY <1>3
  <2>2. client'[c] = [old EXCEPT !.offset = n, !.place = place, !.step = s]
    BY <1>1, <2>1, ClientParts
  <2> QED  BY <1>1, <2>2 DEF ClientStates
<1> QED  BY <1>2, <1>3

\* A client that is given a session has it.
LEMMA TakesSession ==
  ASSUME UploadInv, NEW c \in Clients, NEW s, NEW u,
         client' = [client EXCEPT ![c] = [@ EXCEPT !.step = s, !.session = u]]
  PROVE  client'[c].step = s /\ client'[c].session = u
<1>1. PICK old \in ClientStates : old = client[c]
  BY ClientParts
<1>2. client'[c] = [old EXCEPT !.step = s, !.session = u]
  BY <1>1, ClientParts
<1> QED  BY <1>1, <1>2 DEF ClientStates

\* A tab succeeds only on 404 to its HEAD, takes no session but the one it was
\* told of, and drops no record but that of a session it was told is gone.
LEMMA TabLearns ==
  ASSUME UploadInv, NEW c \in Clients, NEW u, NEW code, NEW upto,
         TabHears(c, u, code, upto)
  PROVE  /\ \/ client'[c].session = client[c].session
            \/ code = "created" /\ client'[c].session = u
         /\ client'[c].step = "done" =>
              /\ client[c].step = "confirm" /\ code = "missing"
              /\ client'[c].session = client[c].session
         /\ records' \subseteq records \/ (code = "created" /\ records' = {u})
         /\ aborts' \subseteq (aborts \cup records)
         /\ \A v \in (records \cup aborts) :
              \/ v \in (records' \cup aborts')
              \/ /\ code = "missing" /\ v = client[c].session
                 /\ client[c].step # "create"
         /\ code = "created" /\ client[c].step = "create" => u \in records'
         /\ stateFile' = stateFile
<1>s. stateFile' = stateFile
  BY DEF TabHears
<1>1. CASE TabCreated(c, u, code)
  <2>1. client'[c].step = "head" /\ client'[c].session = u
    BY <1>1, TakesSession DEF TabCreated
  <2> QED  BY <1>1, <1>s, <2>1 DEF TabCreated, DropOthers
<1>2. CASE TabOffset(c, code, upto) \/ TabPatched(c, code, upto)
  <2>1. GoOnFrom(c, upto, "confirm") /\ records' = records /\ aborts' = aborts
    BY <1>2 DEF TabOffset, TabPatched
  <2>2. PICK s \in {"patch", "confirm"} :
          client' = [client EXCEPT ![c] =
            [@ EXCEPT !.offset = upto, !.place = upto, !.step = s]]
    BY <2>1 DEF GoOnFrom
  <2>3. client'[c].step = s /\ client'[c].session = client[c].session
    BY <2>2, StepsOn
  <2>4. code # "created" \/ client[c].step # "create"
    BY <1>2 DEF TabOffset, TabPatched
  <2> QED  BY <1>s, <2>1, <2>3, <2>4
<1>3. CASE TabRefused(c, code)
  <2>1. client'[c].step = "recheck" /\ client'[c].session = client[c].session
    BY <1>3, StepsOn DEF TabRefused
  <2> QED  BY <1>3, <1>s, <2>1 DEF TabRefused
<1>4. CASE TabConfirmed(c, code)
  <2>1. client'[c].step = "done" /\ client'[c].session = client[c].session
    BY <1>4, StepsOn DEF TabConfirmed
  <2> QED  BY <1>4, <1>s, <2>1 DEF TabConfirmed, SessionFinished, DropOthers
<1>5. CASE TabStops(c, code, upto)
  <2>1. client'[c].step = "stopped" /\ client'[c].session = client[c].session
    BY <1>5, StepsOn DEF TabStops, Stop
  <2>2. code # "created" \/ client[c].step # "create"
    BY <1>5 DEF TabStops
  <2> QED  BY <1>5, <1>s, <2>1, <2>2 DEF TabStops
<1> QED  BY <1>1, <1>2, <1>3, <1>4, <1>5 DEF TabHears

\* A run of the command keeps to its session too, and remembers no other.
LEMMA RunLearns ==
  ASSUME UploadInv, NEW c \in Clients, NEW u, NEW code, NEW upto,
         RunHears(c, u, code, upto)
  PROVE  /\ \/ client'[c].session = client[c].session
            \/ code = "created" /\ client'[c].session = u
         /\ \/ stateFile' \in {stateFile, None}
            \/ code = "created" /\ stateFile' = u
         /\ records' = records /\ aborts' = aborts
<1>m. records' = records /\ aborts' = aborts
  BY DEF RunHears
<1>1. CASE RunCreated(c, u, code)
  <2>1. client'[c].session = u
    BY <1>1, TakesSession DEF RunCreated
  <2> QED  BY <1>1, <1>m, <2>1 DEF RunCreated
<1>2. ASSUME NEW n, NEW place, RunGoesOn(c, n, place)
      PROVE  /\ client'[c].session = client[c].session
             /\ stateFile' \in {stateFile, None}
  <2>1. PICK s \in {"done", "patch"} :
          client' = [client EXCEPT ![c] =
            [@ EXCEPT !.offset = n, !.place = place, !.step = s]]
    BY <1>2 DEF RunGoesOn
  <2>2. client'[c].session = client[c].session
    BY <2>1, StepsOn
  <2>3. stateFile' \in {stateFile, None}
    BY <1>2 DEF RunGoesOn
  <2> QED  BY <2>2, <2>3
<1>3. CASE RunOffset(c, code, upto) \/ RunPatched(c, code, upto)
  <2>1. PICK n, place : RunGoesOn(c, n, place)
    BY <1>3 DEF RunOffset, RunPatched
  <2> QED  BY <1>2, <1>m, <2>1
<1>4. CASE RunStops(c, code)
  <2>1. client'[c].session = client[c].session
    BY <1>4, StepsOn DEF RunStops, Stop
  <2> QED  BY <1>4, <1>m, <2>1 DEF RunStops
<1> QED  BY <1>1, <1>3, <1>4 DEF RunHears
-----------------------------------------------------------------------------
(* Every session a client, a record or a request on its way names was       *)
(* opened: then nothing but its end is new about it.                         *)

SessionsKnown ==
  /\ \A c \in Clients : client[c].session # None => client[c].session \in opened
  /\ records \subseteq opened /\ aborts \subseteq opened
  /\ stateFile # None => stateFile \in opened
  /\ \A h \in Handlers : call[h] # None /\ call[h].op # "create" => call[h].id \in opened

\* The session of a tab that succeeded was opened, and has ended.
DoneIsGone(c) ==
  client[c].step = "done" => client[c].session \in Uploads /\ Gone(client[c].session)

EndInv ==
  /\ SessionsKnown
  /\ \A h \in Handlers : AnswerHolds(h)
  /\ \A c \in Tabs : DoneIsGone(c)

\* At the start there is neither a session nor an answer.
LEMMA EndInvInit == UploadInit => EndInv
BY ClientAssumption
   DEF UploadInit, Init, EndInv, SessionsKnown, AnswerHolds, DoneIsGone, Clients

\* The answer of a handler that does not move stays true.
LEMMA AnswerStays ==
  ASSUME Typed, EndsAreFinal, NEW g \in Handlers, AnswerHolds(g),
         pc'[g] = pc[g], req'[g] = req[g]
  PROVE  AnswerHolds(g)'
<1>1. pc[g] = "reply" => req[g].id \in Uploads
  BY DEF Typed, Requests
<1> QED  BY <1>1, GoneStays DEF AnswerHolds, EndsAreFinal

\* The session of a tab that does not move stays gone.
LEMMA DoneStays ==
  ASSUME EndsAreFinal, EndInv, NEW c \in Tabs,
         client'[c].session = client[c].session,
         client'[c].step = "done" => client[c].step = "done"
  PROVE  DoneIsGone(c)'
<1> SUFFICES ASSUME client'[c].step = "done" PROVE DoneIsGone(c)'
  BY DEF DoneIsGone
<1>1. PICK u \in Uploads : u = client[c].session /\ Gone(u)
  BY DEF EndInv, DoneIsGone
<1>2. Gone(u)'
  BY <1>1, GoneStays
<1> QED  BY <1>1, <1>2 DEF DoneIsGone

\* What a request that is delivered does: it makes a session, it is about one that
\* was opened, or it fails.
LEMMA Delivered ==
  ASSUME UploadInv, SessionsKnown, NEW h \in Handlers, Deliver(h) \/ DeliverFails(h)
  PROVE  \E u \in Uploads :
           \/ CreateSpool(h, u) /\ call[h].op = "create"
           \/ RequestFails(h, u) /\ Trouble
           \/ /\ u \in opened /\ call[h].op # "create"
              /\ \/ HeadUpload(h, u) \/ DeleteUpload(h, u)
                 \/ \E off \in 0 .. Size[u] : \E body \in Bodies(off) :
                      PatchCheck(h, u, off, body)
              /\ call[h].op = "delete" => u = call[h].id /\ DeleteUpload(h, u)
<1>1. call[h] # None
  BY DEF Deliver, DeliverFails
<1>2. CASE DeliverFails(h)
  <2>1. CASE call[h].op = "create"
    BY <1>2, <2>1 DEF DeliverFails
  <2>2. CASE call[h].op # "create"
    BY <1>1, <1>2, <2>2 DEF DeliverFails, UploadInv, CallFits
  <2> QED  BY <2>1, <2>2
<1>3. CASE Deliver(h)
  <2>1. CASE call[h].op = "create"
    BY <1>3, <2>1 DEF Deliver
  <2>2. CASE call[h].op # "create"
    <3>1. PICK u \in Uploads : u = call[h].id /\ u \in opened
      BY <1>1, <2>2 DEF UploadInv, CallFits, SessionsKnown
    <3>2. CASE call[h].op = "patch"
      <4>1. call[h].off \in 0 .. Size[u] /\ call[h].body \in Bodies(call[h].off)
        BY <1>1, <3>1, <3>2 DEF UploadInv, CallFits
      <4>2. PatchCheck(h, u, call[h].off, call[h].body)
        BY <1>3, <3>1, <3>2 DEF Deliver
      <4> QED  BY <3>1, <3>2, <4>1, <4>2
    <3> QED  BY <1>3, <2>2, <3>1, <3>2 DEF Deliver
  <2> QED  BY <2>1, <2>2
<1> QED  BY <1>2, <1>3

\* An answer that is heard changes no session.
LEMMA ReplyEnds ==
  ASSUME Typed, NEW h \in Handlers, Reply(h)
  PROVE  /\ opened' = opened /\ \A v \in Uploads : SessionOpen(v)' <=> SessionOpen(v)
         /\ pc'[h] = "idle"
         /\ EndsAreFinal
<1>1. opened' = opened /\ spool' = spool /\ sidecars' = sidecars
  BY DEF Reply, store
<1>2. pc'[h] = "idle"
  BY DEF Reply, Goto, Typed, TypeOK
<1> QED  BY <1>1, <1>2 DEF SessionOpen, EndsAreFinal

\* Nothing in the store changes: neither do the sessions and the answers.
LEMMA StoreRests ==
  ASSUME UNCHANGED vars
  PROVE  /\ EndsAreFinal /\ opened' = opened
         /\ \A v \in Uploads : SessionOpen(v)' <=> SessionOpen(v)
         /\ pc' = pc /\ req' = req
BY DEF vars, store, handlers, history, EndsAreFinal, SessionOpen
\* What users and connections do leaves the store alone, and names no session
\* that was not named before.
LEMMA EndRests ==
  ASSUME StoreInv, UploadInv, EndInv, UNCHANGED vars, SessionsKnown',
         \A c \in Tabs : /\ client'[c].step = "done" => client[c].step = "done"
                         /\ \/ client'[c].session = client[c].session
                            \/ client'[c].step # "done"
  PROVE  EndInv'
<1>1. \A h \in Handlers : AnswerHolds(h)'
  BY StoreRests, AnswerStays DEF EndInv, StoreInv
<1>2. ASSUME NEW c \in Tabs PROVE DoneIsGone(c)'
  <2>1. CASE client'[c].step = "done"
    BY <2>1, StoreRests, DoneStays
  <2>2. CASE client'[c].step # "done"
    BY <2>2 DEF DoneIsGone
  <2> QED  BY <2>1, <2>2
<1> QED  BY <1>1, <1>2 DEF EndInv

\* A user's action, or one of a connection.
LEMMA EndUserStep ==
  ASSUME StoreInv, UploadInv, EndInv, NEW c \in Clients, Start(c) \/ Resume(c) \/ Send(c)
  PROVE  EndInv'
<1>n. SessionsKnown /\ None \notin Messages /\ call \in [Handlers -> Messages \cup {None}]
  BY ClientAssumption DEF EndInv, UploadInv, UploadTypeOK
<1>v. UNCHANGED vars
  BY DEF Start, Resume, Send
<1>o. opened' = opened
  BY <1>v, StoreRests
<1>1. CASE Start(c)
  <2>1. client'[c].step = "create" /\ client'[c].session = None
    BY <1>1, TakesSession DEF Start
  <2>2. \A d \in Clients : d # c => client'[d] = client[d]
    BY <1>1, ClientParts DEF Start
  <2>3. SessionsKnown'
    BY <1>1, <1>n, <1>o, <2>1, <2>2 DEF Start, SessionsKnown, network, memory
  <2>4. \A d \in Tabs : /\ client'[d].step = "done" => client[d].step = "done"
                         /\ (client'[d].session = client[d].session \/ client'[d].step # "done")
    BY <2>1, <2>2 DEF Clients
  <2> QED  BY <1>v, <2>3, <2>4, EndRests
<1>2. CASE Resume(c)
  <2>1. PICK u \in IF c \in Tabs THEN records ELSE {stateFile} \ {None} :
          client' = [client EXCEPT ![c] = [@ EXCEPT !.step = "head", !.session = u]]
    BY <1>2 DEF Resume
  <2>2. u \in opened
    BY <1>n, <2>1 DEF SessionsKnown
  <2>3. client'[c].step = "head" /\ client'[c].session = u
    BY <2>1, TakesSession
  <2>4. \A d \in Clients : d # c => client'[d] = client[d]
    BY <2>1, ClientParts
  <2>5. SessionsKnown'
    BY <1>2, <1>n, <1>o, <2>2, <2>3, <2>4 DEF Resume, SessionsKnown, network, memory
  <2>6. \A d \in Tabs : /\ client'[d].step = "done" => client[d].step = "done"
                         /\ (client'[d].session = client[d].session \/ client'[d].step # "done")
    BY <2>3, <2>4 DEF Clients
  <2> QED  BY <1>v, <2>5, <2>6, EndRests
<1>3. CASE Send(c)
  <2>1. PICK h \in Handlers : call' = [call EXCEPT ![h] = MessageOf(c)]
    BY <1>3 DEF Send
  <2>2. client[c].step \in Busy
    BY <1>3 DEF Send
  <2>3. call'[h].op # "create" => call'[h].id = client[c].session
    BY <1>n, <2>1 DEF MessageOf, Message
  <2>4. call'[h].op # "create" => client[c].step # "create"
    BY <1>n, <2>1 DEF MessageOf, Message
  <2>5. call'[h].op # "create" => call'[h].id \in opened
    BY <1>n, <2>2, <2>3, <2>4 DEF UploadInv, UploadTypeOK, SessionsKnown
  <2>6. \A g \in Handlers : g # h => call'[g] = call[g]
    BY <1>n, <2>1
  <2>7. client' = client
    BY <1>3 DEF Send
  <2>8. SessionsKnown'
    BY <1>3, <1>n, <1>o, <2>5, <2>6, <2>7 DEF Send, SessionsKnown, memory
  <2> QED  BY <1>v, <2>7, <2>8, EndRests
<1> QED  BY <1>1, <1>2, <1>3

\* A session is aborted, or its DELETE is sent.
LEMMA EndAbortStep ==
  ASSUME StoreInv, UploadInv, EndInv, NEW u \in Uploads, AbortSession(u) \/ SendAbort(u)
  PROVE  EndInv'
<1>n. SessionsKnown /\ call \in [Handlers -> Messages \cup {None}]
  BY DEF EndInv, UploadInv, UploadTypeOK
<1>v. UNCHANGED vars /\ client' = client
  BY DEF AbortSession, SendAbort
<1>o. opened' = opened
  BY <1>v, StoreRests
<1>1. CASE AbortSession(u)
  <2>1. SessionsKnown'
    BY <1>1, <1>n, <1>v, <1>o DEF AbortSession, SessionsKnown, network
  <2> QED  BY <1>v, <2>1, EndRests
<1>2. CASE SendAbort(u)
  <2>1. PICK h \in Handlers : call' = [call EXCEPT ![h] = Message("delete", u, 0, <<>>)]
    BY <1>2 DEF SendAbort
  <2>2. call'[h].id = u /\ u \in opened
    BY <1>2, <1>n, <2>1 DEF Message, SendAbort, SessionsKnown
  <2>3. \A g \in Handlers : g # h => call'[g] = call[g]
    BY <1>n, <2>1
  <2>4. SessionsKnown'
    BY <1>2, <1>n, <1>v, <1>o, <2>2, <2>3 DEF SendAbort, SessionsKnown
  <2> QED  BY <1>v, <2>4, EndRests
<1> QED  BY <1>1, <1>2

\* A connection is lost, or what it carried.
LEMMA EndLossStep ==
  ASSUME StoreInv, UploadInv, EndInv, NEW h \in Handlers, Lose(h) \/ Drop(h)
  PROVE  EndInv'
<1>n. /\ SessionsKnown /\ call \in [Handlers -> Messages \cup {None}]
      /\ waiter \in [Handlers -> Clients \cup {None}]
  BY DEF EndInv, UploadInv, UploadTypeOK
<1>v. UNCHANGED vars
  BY DEF Lose, Drop
<1>o. opened' = opened
  BY <1>v, StoreRests
<1>1. CASE Lose(h)
  <2>1. PICK c \in Clients : c = waiter[h]
    BY <1>1, <1>n DEF Lose
  <2>2. client' = [client EXCEPT ![c].step = "stopped"]
    BY <1>1, <2>1 DEF Lose, Stop
  <2>3. client'[c].step = "stopped" /\ client'[c].session = client[c].session
    BY <2>2, StepsOn
  <2>4. \A d \in Clients : d # c => client'[d] = client[d]
    BY <2>2, ClientParts
  <2>5. SessionsKnown'
    BY <1>1, <1>n, <1>o, <2>3, <2>4 DEF Lose, SessionsKnown, memory
  <2>6. \A d \in Tabs : /\ client'[d].step = "done" => client[d].step = "done"
                         /\ (client'[d].session = client[d].session \/ client'[d].step # "done")
    BY <2>3, <2>4 DEF Clients
  <2> QED  BY <1>v, <2>5, <2>6, EndRests
<1>2. CASE Drop(h)
  <2>1. call' = [call EXCEPT ![h] = None] /\ client' = client
    BY <1>2 DEF Drop
  <2>2. \A g \in Handlers : call'[g] # None => call'[g] = call[g]
    BY <1>n, <2>1
  <2>3. SessionsKnown'
    BY <1>2, <1>n, <1>o, <2>1, <2>2 DEF Drop, SessionsKnown, memory
  <2> QED  BY <1>v, <2>1, <2>3, EndRests
<1> QED  BY <1>1, <1>2

\* A request is delivered.
LEMMA EndDeliverStep ==
  ASSUME StoreInv, UploadInv, EndInv, NEW h \in Handlers, Deliver(h) \/ DeliverFails(h)
  PROVE  EndInv'
<1>n. SessionsKnown /\ Typed /\ call \in [Handlers -> Messages \cup {None}]
  BY DEF EndInv, StoreInv, UploadInv, UploadTypeOK
<1>1. PICK u \in Uploads :
        \/ CreateSpool(h, u) \/ RequestFails(h, u)
        \/ /\ u \in opened
           /\ \/ HeadUpload(h, u) \/ DeleteUpload(h, u)
              \/ \E off \in 0 .. Size[u] : \E body \in Bodies(off) : PatchCheck(h, u, off, body)
  BY <1>n, Delivered
<1>2. opened' = opened /\ Made(h) /\ AnswerHolds(h)'
  BY <1>1, ArrivalTells
<1>3. EndsAreFinal
  BY <1>2, MadeIsFinal
<1>4. \A g \in Handlers : g # h => pc'[g] = pc[g] /\ req'[g] = req[g]
  BY <1>n, <1>1, Begins
<1>5. \A g \in Handlers : AnswerHolds(g)'
  BY <1>n, <1>2, <1>3, <1>4, AnswerStays DEF EndInv
<1>6. /\ client' = client /\ records' = records /\ aborts' = aborts
      /\ stateFile' = stateFile /\ call' = [call EXCEPT ![h] = None]
  BY DEF Deliver, DeliverFails, memory
<1>7. SessionsKnown'
  BY <1>n, <1>2, <1>6 DEF SessionsKnown
<1>8. \A c \in Tabs : DoneIsGone(c)'
  BY <1>3, <1>6, DoneStays
<1> QED  BY <1>5, <1>7, <1>8 DEF EndInv

\* A request is worked on.
LEMMA EndWorkStep ==
  ASSUME StoreInv, UploadInv, EndInv, NEW h \in Handlers, Work(h) \/ WorkFails(h)
  PROVE  EndInv'
<1>n. SessionsKnown /\ Typed /\ AnswerHolds(h)
  BY DEF EndInv, StoreInv
<1>1. Proceed(h) \/ Fail(h)
  BY DEF Work, WorkFails
<1>2. opened \subseteq opened' /\ Made(h) /\ AnswerHolds(h)'
  BY <1>n, <1>1, WorkTells
<1>3. EndsAreFinal
  BY <1>2, MadeIsFinal
<1>4. \A g \in Handlers : g # h => pc'[g] = pc[g] /\ req'[g] = req[g]
  BY <1>n, <1>1, GoesOn
<1>5. \A g \in Handlers : AnswerHolds(g)'
  BY <1>n, <1>2, <1>3, <1>4, AnswerStays DEF EndInv
<1>6. /\ client' = client /\ records' = records /\ aborts' = aborts
      /\ stateFile' = stateFile /\ call' = call
  BY DEF Work, WorkFails, memory, network
<1>7. SessionsKnown'
  BY <1>n, <1>2, <1>6 DEF SessionsKnown
<1>8. \A c \in Tabs : DoneIsGone(c)'
  BY <1>3, <1>6, DoneStays
<1> QED  BY <1>5, <1>7, <1>8 DEF EndInv
\* An answer is heard: what it says of a session is still so.
LEMMA EndAnsweredStep ==
  ASSUME StoreInv, UploadInv, EndInv, NEW h \in Handlers, Answered(h)
  PROVE  EndInv'
<1>n. /\ SessionsKnown /\ Typed /\ AnswerHolds(h) /\ None \notin Clients
      /\ waiter \in [Handlers -> Clients \cup {None}] /\ Tabs \cap Runs = {}
  BY ClientAssumption DEF EndInv, StoreInv, UploadInv, UploadTypeOK
<1>1. Reply(h) /\ pc[h] = "reply" /\ call' = call
  BY DEF Answered, Reply
<1>2. /\ opened' = opened /\ \A v \in Uploads : SessionOpen(v)' <=> SessionOpen(v)
      /\ pc'[h] = "idle" /\ EndsAreFinal
  BY <1>n, <1>1, ReplyEnds
<1>3. /\ req[h] \in Requests
      /\ \A g \in Handlers : g # h => pc'[g] = pc[g] /\ req'[g] = req[g]
  BY <1>n, <1>1, ReplyTells
<1>4. AnswerHolds(h)'
  BY <1>2 DEF AnswerHolds
<1>5. \A g \in Handlers : AnswerHolds(g)'
  BY <1>n, <1>2, <1>3, <1>4, AnswerStays DEF EndInv
<1>6. PICK u \in Uploads : u = req[h].id
  BY <1>3 DEF Requests
<1>7. req[h].code = "created" => u \in opened
  BY <1>n, <1>1, <1>6 DEF AnswerHolds
<1>8. CASE waiter[h] = None
  <2>1. client' = client /\ stateFile' = stateFile /\ aborts' = aborts /\ records' \subseteq records
    BY <1>8, <1>n DEF Answered, NobodyHears, Clients
  <2>2. SessionsKnown'
    BY <1>n, <1>1, <1>2, <2>1 DEF SessionsKnown
  <2>3. \A c \in Tabs : DoneIsGone(c)'
    BY <1>2, <2>1, DoneStays
  <2> QED  BY <1>5, <2>2, <2>3 DEF EndInv
<1>9. CASE waiter[h] # None
  <2>1. PICK c \in Clients : c = waiter[h]
    BY <1>9, <1>n
  <2>2. Serves(h, c) /\ call[h] = None
    BY <1>1, <2>1 DEF UploadInv, Linked
  <2>3. \/ c \in Tabs /\ TabHears(c, u, req[h].code, req[h].upto)
        \/ c \in Runs /\ RunHears(c, u, req[h].code, req[h].upto)
    BY <1>6, <1>9, <2>1 DEF Answered
  <2>4. \A d \in Clients : d # c => client'[d] = client[d]
    BY <1>n, <1>1, <1>6, <2>1, <2>3, TabAnswered, RunAnswered DEF HeardBy
  <2>5. CASE c \in Tabs /\ TabHears(c, u, req[h].code, req[h].upto)
    <3>1. /\ \/ client'[c].session = client[c].session
             \/ req[h].code = "created" /\ client'[c].session = u
          /\ client'[c].step = "done" =>
               /\ client[c].step = "confirm" /\ req[h].code = "missing"
               /\ client'[c].session = client[c].session
          /\ records' \subseteq records \/ (req[h].code = "created" /\ records' = {u})
          /\ aborts' \subseteq (aborts \cup records)
          /\ stateFile' = stateFile
      BY <2>5, TabLearns
    <3>2. SessionsKnown'
      BY <1>n, <1>1, <1>2, <1>7, <2>4, <3>1 DEF SessionsKnown
    <3>3. DoneIsGone(c)'
      <4>1. CASE client'[c].step = "done"
        <5>1. client[c].session = u /\ Gone(u)
          BY <1>n, <1>1, <1>6, <2>2, <3>1, <4>1 DEF Serves, AnswerHolds
        <5>2. Gone(u)'
          BY <1>2, <5>1, GoneStays
        <5> QED  BY <3>1, <4>1, <5>1, <5>2 DEF DoneIsGone
      <4>2. CASE client'[c].step # "done"
        BY <4>2 DEF DoneIsGone
      <4> QED  BY <4>1, <4>2
    <3>4. \A d \in Tabs : d # c => DoneIsGone(d)'
      BY <1>2, <2>4, DoneStays DEF Clients
    <3> QED  BY <1>5, <3>2, <3>3, <3>4 DEF EndInv
  <2>6. CASE c \in Runs /\ RunHears(c, u, req[h].code, req[h].upto)
    <3>1. /\ \/ client'[c].session = client[c].session
             \/ req[h].code = "created" /\ client'[c].session = u
          /\ \/ stateFile' \in {stateFile, None}
             \/ req[h].code = "created" /\ stateFile' = u
          /\ records' = records /\ aborts' = aborts
      BY <2>6, RunLearns
    <3>2. SessionsKnown'
      BY <1>n, <1>1, <1>2, <1>7, <2>4, <3>1 DEF SessionsKnown
    <3>3. \A d \in Tabs : d # c /\ d \in Clients
      BY <1>n, <2>6 DEF Clients
    <3>4. \A d \in Tabs : DoneIsGone(d)'
      BY <1>2, <2>4, <3>3, DoneStays
    <3> QED  BY <1>5, <3>2, <3>4 DEF EndInv
  <2> QED  BY <2>3, <2>5, <2>6
<1> QED  BY <1>8, <1>9

\* Nobody waits for anything any more, and no session has changed.
LEMMA EndRestartStep ==
  ASSUME StoreInv, UploadInv, EndInv, ServerRestart
  PROVE  EndInv'
<1>1. /\ opened' = opened /\ spool' = spool /\ sidecars' = sidecars
      /\ records' = records /\ aborts' = aborts /\ stateFile' = stateFile
      /\ \A h \in Handlers : pc'[h] = "idle" /\ call'[h] = None
  BY DEF ServerRestart, Restart, store, memory
<1>2. EndsAreFinal
  BY <1>1 DEF EndsAreFinal, SessionOpen
<1>3. \A h \in Handlers : AnswerHolds(h)'
  BY <1>1 DEF AnswerHolds
<1>4. ASSUME NEW c \in Clients
      PROVE  /\ client'[c].session = client[c].session
             /\ client'[c].step = "done" => client[c].step = "done"
  <2>1. CASE Waiting(c)
    <3>1. PICK old \in ClientStates : old = client[c]
      BY ClientParts
    <3>2. client'[c] = [old EXCEPT !.step = "stopped"]
      BY <2>1, <3>1 DEF ServerRestart
    <3> QED  BY <3>1, <3>2 DEF ClientStates
  <2>2. CASE ~Waiting(c)
    BY <2>2 DEF ServerRestart
  <2> QED  BY <2>1, <2>2
<1>5. SessionsKnown'
  BY <1>1, <1>4 DEF EndInv, SessionsKnown
<1>6. \A c \in Tabs : DoneIsGone(c)'
  BY <1>2, <1>4, DoneStays DEF Clients
<1> QED  BY <1>3, <1>5, <1>6 DEF EndInv

\* Every step keeps what is known of the sessions and their ends.
LEMMA EndStep ==
  StoreInv /\ UploadInv /\ EndInv /\ [UploadNext]_uploadVars => EndInv'
<1> SUFFICES ASSUME StoreInv, UploadInv, EndInv, [UploadNext]_uploadVars
             PROVE  EndInv'
  OBVIOUS
<1>1. ASSUME NEW h \in Handlers, Connection(h)
      PROVE  EndInv'
  BY <1>1, EndDeliverStep, EndWorkStep, EndAnsweredStep DEF Connection
<1>2. CASE UNCHANGED uploadVars
  <2>1. UNCHANGED vars /\ UNCHANGED <<client, call, records, stateFile, aborts>>
    BY <1>2 DEF uploadVars, network, memory
  <2>2. SessionsKnown'
    BY <2>1, StoreRests DEF EndInv, SessionsKnown
  <2> QED  BY <2>1, <2>2, EndRests
<1> QED
  BY <1>1, <1>2, EndUserStep, EndAbortStep, EndLossStep, EndRestartStep DEF UploadNext

\* The client's invariant, and what its answers say.
LEMMA UploadsEnd == UploadSpec => [](StoreInv /\ UploadInv /\ EndInv)
<1>1. UploadInit => EndInv
  BY EndInvInit
<1> QED  BY <1>1, EndStep, UploadsConsistent, PTL DEF UploadSpec

\* A tab that reports success leaves no session behind on the server, whatever
\* other tabs do with the session while its last HEAD is on its way: the 404 it
\* takes for success is never one of a session that will still be there.
THEOREM DoneLeavesNoSession == UploadSpec => []DoneEndsSession
<1>1. EndInv => DoneEndsSession
  BY DEF EndInv, DoneIsGone, Gone, DoneEndsSession
<1> QED  BY <1>1, UploadsEnd, PTL
-----------------------------------------------------------------------------
(* Where a session is held on to.  From the moment its sidecar exists it is  *)
(* first the answer of its creation that names it, then the record of the    *)
(* tab that heard the answer, then the abort of whoever replaced or ended    *)
(* it, then the DELETE.  The chain holds as long as no connection and no     *)
(* file operation fails, because the tab that asked for the session is still *)
(* listening when the answer comes.                                          *)

Quiet == trouble = 0 /\ Runs = {}

\* Whoever sent a request listens for its answer, and to a creation it listens
\* as one that wants a session.
Attended(h) ==
  /\ call[h] # None /\ call[h].op # "delete" => waiter[h] # None
  /\ (call[h] # None /\ call[h].op = "create") \/ Makes(h) =>
       waiter[h] # None /\ client[waiter[h]].step = "create"

Deletes(h, u) == call[h] # None /\ call[h].op = "delete" /\ call[h].id = u

Announces(h, u) == pc[h] = "reply" /\ req[h].code = "created" /\ req[h].id = u

HeldOn(u) ==
  \/ u \in records \/ u \in aborts
  \/ \E h \in Handlers : Deletes(h, u) \/ Announces(h, u)

KeepInv ==
  Quiet => /\ \A h \in Handlers : Attended(h)
           /\ \A u \in Uploads : SessionOpen(u) => HeldOn(u)

\* At the start there is no session.
LEMMA KeepInvInit == UploadInit => KeepInv
BY NoneAssumption DEF UploadInit, Init, KeepInv, Attended, Makes, SessionOpen

\* What happens after something went wrong is not what KeepInv is about.
LEMMA TroubleEndsQuiet ==
  ASSUME UploadInv, Trouble
  PROVE  ~Quiet'
BY DEF UploadInv, UploadTypeOK, Trouble, Quiet

\* The users' actions: only a client that waits for nothing starts.
LEMMA KeepUserStep ==
  ASSUME StoreInv, UploadInv, KeepInv, NEW c \in Clients, Start(c) \/ Resume(c) \/ Send(c)
  PROVE  KeepInv'
<1>n. /\ call \in [Handlers -> Messages \cup {None}]
      /\ waiter \in [Handlers -> Clients \cup {None}]
      /\ None \notin Messages /\ None \notin Clients
  BY ClientAssumption DEF UploadInv, UploadTypeOK
<1>v. UNCHANGED vars
  BY DEF Start, Resume, Send
<1>o. pc' = pc /\ req' = req /\ \A u \in Uploads : SessionOpen(u)' <=> SessionOpen(u)
  BY <1>v, StoreRests
<1>1. CASE Start(c)
  <2>1. /\ call' = call /\ waiter' = waiter /\ records' = records /\ aborts' = aborts
        /\ trouble' = trouble
    BY <1>1 DEF Start, network, memory
  <2>2. \A d \in Clients : d # c => client'[d] = client[d]
    BY <1>1, ClientParts DEF Start
  <2>3. \A h \in Handlers : waiter[h] # c
    BY <1>1 DEF Start, UploadInv, Linked, Serves
  <2>4. \A h \in Handlers : waiter[h] # None => client'[waiter[h]] = client[waiter[h]]
    BY <1>n, <2>2, <2>3
  <2>5. Quiet' => Quiet
    BY <2>1 DEF Quiet
  <2>6. ASSUME Quiet', NEW h \in Handlers
        PROVE  Attended(h)'
    BY <1>o, <2>1, <2>4, <2>5, <2>6 DEF KeepInv, Attended, Makes
  <2>7. ASSUME Quiet', NEW u \in Uploads, SessionOpen(u)'
        PROVE  HeldOn(u)'
    BY <1>o, <2>1, <2>5, <2>7 DEF KeepInv, HeldOn, Deletes, Announces
  <2> QED  BY <2>6, <2>7 DEF KeepInv
<1>2. CASE Resume(c)
  BY <1>2, TroubleEndsQuiet DEF Resume, KeepInv
<1>3. CASE Send(c)
  <2>1. PICK h \in Handlers :
          /\ Free(h)
          /\ call' = [call EXCEPT ![h] = MessageOf(c)]
          /\ waiter' = [waiter EXCEPT ![h] = c]
    BY <1>3 DEF Send
  <2>2. /\ client' = client /\ records' = records /\ aborts' = aborts
        /\ trouble' = trouble
    BY <1>3 DEF Send, memory, bounds
  <2>3. /\ call'[h] = MessageOf(c) /\ waiter'[h] = c
        /\ \A g \in Handlers : g # h => call'[g] = call[g] /\ waiter'[g] = waiter[g]
    BY <1>n, <2>1
  <2>4. MessageOf(c).op = "create" => client[c].step = "create"
    BY DEF MessageOf, Message
  <2>5. Quiet' => Quiet
    BY <2>2 DEF Quiet
  <2>6. pc[h] = "idle" /\ call[h] = None
    BY <2>1 DEF Free
  <2>7. ASSUME Quiet', NEW g \in Handlers
        PROVE  Attended(g)'
    <3>1. CASE g = h
      BY <1>n, <1>o, <2>2, <2>3, <2>4, <2>6, <3>1 DEF Attended, Makes
    <3>2. CASE g # h
      <4>1. Attended(g)
        BY <2>5, <2>7 DEF KeepInv
      <4> QED  BY <1>o, <2>2, <2>3, <3>2, <4>1 DEF Attended, Makes
    <3> QED  BY <3>1, <3>2
  <2>8. ASSUME Quiet', NEW u \in Uploads, SessionOpen(u)'
        PROVE  HeldOn(u)'
    <3>1. HeldOn(u)
      BY <1>o, <2>5, <2>8 DEF KeepInv
    <3> QED  BY <1>o, <2>2, <2>3, <2>6, <3>1 DEF HeldOn, Deletes, Announces
  <2> QED  BY <2>7, <2>8 DEF KeepInv
<1> QED  BY <1>1, <1>2, <1>3

\* An abort becomes a DELETE.
LEMMA KeepAbortStep ==
  ASSUME StoreInv, UploadInv, KeepInv, NEW u \in Uploads, AbortSession(u) \/ SendAbort(u)
  PROVE  KeepInv'
<1>1. CASE AbortSession(u)
  BY <1>1, TroubleEndsQuiet DEF AbortSession, KeepInv
<1>2. CASE SendAbort(u)
  <2>n. /\ call \in [Handlers -> Messages \cup {None}]
        /\ None \notin Messages /\ u # None
    BY ClientAssumption, NoneAssumption DEF UploadInv, UploadTypeOK
  <2>1. PICK h \in Handlers :
          Free(h) /\ call' = [call EXCEPT ![h] = Message("delete", u, 0, <<>>)]
    BY <1>2 DEF SendAbort
  <2>m. PICK m : m = Message("delete", u, 0, <<>>)
    OBVIOUS
  <2>p. m.op = "delete" /\ m.id = u /\ m \in Messages
    <3>1. <<>> \in Seq(Bytes)
      OBVIOUS
    <3> QED  BY <2>m, <3>1 DEF Message, Messages
  <2>2. /\ client' = client /\ waiter' = waiter /\ records' = records
        /\ aborts' = aborts \ {u} /\ trouble' = trouble /\ pc' = pc /\ req' = req
        /\ \A v \in Uploads : SessionOpen(v)' <=> SessionOpen(v)
    BY <1>2, StoreRests DEF SendAbort, bounds
  <2>3. /\ call'[h] = m /\ pc[h] = "idle" /\ call[h] = None
        /\ \A g \in Handlers : g # h => call'[g] = call[g]
    BY <2>n, <2>1, <2>m DEF Free
  <2>4. Quiet' => Quiet
    BY <2>2 DEF Quiet
  <2>5. ASSUME Quiet', NEW g \in Handlers
        PROVE  Attended(g)'
    <3>1. CASE g = h
      BY <2>2, <2>3, <2>p, <3>1 DEF Attended, Makes
    <3>2. CASE g # h
      <4>1. Attended(g)
        BY <2>4, <2>5 DEF KeepInv
      <4> QED  BY <2>2, <2>3, <3>2, <4>1 DEF Attended, Makes
    <3> QED  BY <3>1, <3>2
  <2>6. ASSUME Quiet', NEW v \in Uploads, SessionOpen(v)'
        PROVE  HeldOn(v)'
    <3>1. HeldOn(v)
      BY <2>2, <2>4, <2>6 DEF KeepInv
    <3>2. CASE v = u
      BY <2>n, <2>3, <2>p, <3>2 DEF HeldOn, Deletes
    <3>3. CASE v # u
      BY <2>2, <2>3, <3>1, <3>3 DEF HeldOn, Deletes, Announces
    <3> QED  BY <3>2, <3>3
  <2> QED  BY <2>5, <2>6 DEF KeepInv
<1> QED  BY <1>1, <1>2

\* What is lost is trouble: nothing else on its way has nobody that listens.
LEMMA KeepLossStep ==
  ASSUME StoreInv, UploadInv, KeepInv, NEW h \in Handlers, Lose(h) \/ Drop(h)
  PROVE  KeepInv'
<1>1. CASE Lose(h)
  BY <1>1, TroubleEndsQuiet DEF Lose, KeepInv
<1>2. CASE Drop(h) /\ call[h].op = "delete"
  BY <1>2, TroubleEndsQuiet DEF Drop, KeepInv
<1>3. CASE Drop(h) /\ call[h].op # "delete"
  <2>1. call[h] # None /\ waiter[h] = None /\ trouble' = trouble
    BY <1>3 DEF Drop
  <2>2. ~Quiet
    BY <1>3, <2>1 DEF KeepInv, Attended
  <2> QED  BY <2>1, <2>2 DEF KeepInv, Quiet
<1> QED  BY <1>1, <1>2, <1>3
\* A creation that is delivered is attended as it was while on its way, and a
\* DELETE ends the session it is about.
LEMMA KeepDeliverStep ==
  ASSUME StoreInv, UploadInv, EndInv, KeepInv, NEW h \in Handlers,
         Deliver(h) \/ DeliverFails(h)
  PROVE  KeepInv'
<1>n. SessionsKnown /\ Typed /\ call \in [Handlers -> Messages \cup {None}]
  BY DEF EndInv, StoreInv, UploadInv, UploadTypeOK
<1>0. /\ call[h] # None /\ call' = [call EXCEPT ![h] = None]
      /\ client' = client /\ waiter' = waiter /\ records' = records /\ aborts' = aborts
  BY DEF Deliver, DeliverFails, memory
<1>1. PICK u \in Uploads :
        \/ CreateSpool(h, u) /\ call[h].op = "create"
        \/ RequestFails(h, u) /\ Trouble
        \/ /\ u \in opened /\ call[h].op # "create"
           /\ \/ HeadUpload(h, u) \/ DeleteUpload(h, u)
              \/ \E off \in 0 .. Size[u] : \E body \in Bodies(off) :
                   PatchCheck(h, u, off, body)
           /\ call[h].op = "delete" => u = call[h].id /\ DeleteUpload(h, u)
  BY <1>n, Delivered
<1>2. /\ \A v \in Uploads : SessionOpen(v)' => SessionOpen(v)
      /\ Makes(h)' => CreateSpool(h, u)
  BY <1>1, ArrivalTells
<1>3. \A g \in Handlers : g # h => pc'[g] = pc[g] /\ req'[g] = req[g]
  BY <1>n, <1>1, Begins
<1>4. CASE RequestFails(h, u) /\ Trouble
  BY <1>4, TroubleEndsQuiet DEF KeepInv
<1>5. CASE ~(RequestFails(h, u) /\ Trouble)
  <2>1. pc[h] = "idle"
    BY <1>1, <1>5 DEF CreateSpool, HeadUpload, DeleteUpload, PatchCheck
  <2>2. Quiet' => Quiet
    <3>1. trouble' = trouble \/ Trouble
      BY DEF Deliver, DeliverFails, bounds
    <3> QED  BY <3>1, TroubleEndsQuiet DEF Quiet
  <2>3. Makes(h)' => call[h].op = "create"
    <3>1. CASE CreateSpool(h, u) /\ call[h].op = "create"
      BY <3>1
    <3>2. CASE /\ u \in opened
               /\ \/ HeadUpload(h, u) \/ DeleteUpload(h, u)
                  \/ \E off \in 0 .. Size[u] : \E body \in Bodies(off) :
                       PatchCheck(h, u, off, body)
      BY <1>2, <3>2 DEF CreateSpool, FreshId
    <3> QED  BY <1>1, <1>5, <3>1, <3>2
  <2>4. ASSUME Quiet', NEW g \in Handlers
        PROVE  Attended(g)'
    <3>0. Attended(g)
      BY <2>2, <2>4 DEF KeepInv
    <3>1. CASE g = h
      BY <1>n, <1>0, <2>3, <3>0, <3>1 DEF Attended, Makes
    <3>2. CASE g # h
      BY <1>n, <1>0, <1>3, <3>0, <3>2 DEF Attended, Makes
    <3> QED  BY <3>1, <3>2
  <2>5. ASSUME Quiet', NEW v \in Uploads, SessionOpen(v)'
        PROVE  HeldOn(v)'
    <3>1. HeldOn(v)
      BY <1>2, <2>2, <2>5 DEF KeepInv
    <3>2. ~Deletes(h, v)
      <4>1. SUFFICES ASSUME Deletes(h, v) PROVE FALSE
        OBVIOUS
      <4>2. DeleteUpload(h, v) /\ v = u
        BY <1>1, <1>5, <4>1 DEF Deletes
      <4>3. SessionOpen(v) => spool' = [spool EXCEPT ![v] = None]
        BY <4>2 DEF DeleteUpload
      <4>4. ~SessionOpen(v)'
        BY <1>2, <4>3, <1>n DEF SessionOpen, Typed, TypeOK
      <4> QED  BY <2>5, <4>4
    <3>3. ~Announces(h, v)
      BY <2>1 DEF Announces
    <3>4. \A g \in Handlers : g # h => call'[g] = call[g]
      BY <1>n, <1>0
    <3> QED  BY <1>0, <1>3, <3>1, <3>2, <3>3, <3>4 DEF HeldOn, Deletes, Announces
  <2> QED  BY <2>4, <2>5 DEF KeepInv
<1> QED  BY <1>4, <1>5

\* A session appears together with the answer that names it.
LEMMA KeepWorkStep ==
  ASSUME StoreInv, UploadInv, EndInv, KeepInv, NEW h \in Handlers, Work(h) \/ WorkFails(h)
  PROVE  KeepInv'
<1>n. Typed /\ AnswerHolds(h)
  BY DEF EndInv, StoreInv
<1>0. /\ Proceed(h) \/ Fail(h)
      /\ call' = call /\ client' = client /\ waiter' = waiter
      /\ records' = records /\ aborts' = aborts
  BY DEF Work, WorkFails, network, memory
<1>1. Made(h) /\ (Makes(h)' => Makes(h))
  BY <1>n, <1>0, WorkTells
<1>2. /\ \A g \in Handlers : g # h => pc'[g] = pc[g] /\ req'[g] = req[g]
      /\ pc[h] # "reply"
  BY <1>n, <1>0, GoesOn
     DEF Proceed, Fail, CreateSidecar, PatchAppend, PatchAnnounce, Finalize, CopyFile,
         RemoveSpool, RemoveSidecar, CreateSidecarFails, PatchAppendFails,
         FinalizeFails, CopyFileFails, RemoveSpoolFails, RemoveSidecarFails
<1>3. Quiet' => Quiet
  <2>1. trouble' = trouble \/ Trouble
    BY DEF Work, WorkFails, bounds
  <2> QED  BY <2>1, TroubleEndsQuiet DEF Quiet
<1>4. ASSUME Quiet', NEW g \in Handlers
      PROVE  Attended(g)'
  <2>0. Attended(g)
    BY <1>3, <1>4 DEF KeepInv
  <2>1. Makes(g)' => Makes(g)
    BY <1>1, <1>2 DEF Makes
  <2> QED  BY <1>0, <2>0, <2>1 DEF Attended, Makes
<1>5. ASSUME Quiet', NEW v \in Uploads, SessionOpen(v)'
      PROVE  HeldOn(v)'
  <2>1. CASE SessionOpen(v)
    <3>1. HeldOn(v)
      BY <1>3, <1>5, <2>1 DEF KeepInv
    <3> QED  BY <1>0, <1>2, <3>1 DEF HeldOn, Deletes, Announces
  <2>2. CASE ~SessionOpen(v)
    <3>1. pc'[h] = "reply" /\ req'[h].code = "created" /\ req'[h].id = v
      BY <1>1, <1>5, <2>2 DEF Made
    <3> QED  BY <3>1 DEF HeldOn, Announces
  <2> QED  BY <2>1, <2>2
<1> QED  BY <1>4, <1>5 DEF KeepInv

\* The tab that asked for the session hears of it and records it; no other answer
\* makes a tab drop a session that is still there.
LEMMA KeepAnsweredStep ==
  ASSUME StoreInv, UploadInv, EndInv, KeepInv, NEW h \in Handlers, Answered(h)
  PROVE  KeepInv'
<1>n. /\ Typed /\ AnswerHolds(h) /\ None \notin Clients
      /\ waiter \in [Handlers -> Clients \cup {None}]
  BY ClientAssumption DEF EndInv, StoreInv, UploadInv, UploadTypeOK
<1>0. /\ Reply(h) /\ pc[h] = "reply" /\ call' = call /\ trouble' = trouble
      /\ waiter' = [waiter EXCEPT ![h] = None]
  BY DEF Answered, Reply, bounds
<1> SUFFICES ASSUME Quiet PROVE KeepInv'
  BY <1>0 DEF KeepInv, Quiet
<1>1. /\ \A v \in Uploads : SessionOpen(v)' <=> SessionOpen(v)
      /\ pc'[h] = "idle"
  BY <1>n, <1>0, ReplyEnds
<1>2. /\ req[h] \in Requests
      /\ \A g \in Handlers : g # h => pc'[g] = pc[g] /\ req'[g] = req[g]
  BY <1>n, <1>0, ReplyTells
<1>3. PICK u \in Uploads : u = req[h].id
  BY <1>2 DEF Requests
<1>4. call[h] = None /\ \A g \in Handlers : Attended(g)
  BY <1>0 DEF UploadInv, Linked, KeepInv
<1>w. waiter'[h] = None /\ \A g \in Handlers : g # h => waiter'[g] = waiter[g]
  BY <1>n, <1>0
<1>5. Attended(h)'
  BY <1>0, <1>1, <1>4 DEF Attended, Makes
<1>6. CASE waiter[h] = None
  <2>1. /\ client' = client /\ aborts' = aborts
        /\ \/ records' = records
           \/ req[h].code = "deleted" /\ records' = records \ {u}
    BY <1>3, <1>6, <1>n DEF Answered, NobodyHears, Clients
  <2>2. ~Makes(h)
    BY <1>4, <1>6 DEF Attended
  <2>3. ASSUME NEW g \in Handlers PROVE Attended(g)'
    <3>1. CASE g # h
      BY <1>0, <1>2, <1>4, <1>w, <2>1, <3>1 DEF Attended, Makes
    <3> QED  BY <1>5, <3>1
  <2>4. ASSUME NEW v \in Uploads, SessionOpen(v)'
        PROVE  HeldOn(v)'
    <3>1. HeldOn(v)
      BY <1>1, <2>4 DEF KeepInv
    <3>2. v \in records => v \in records'
      <4>1. req[h].code = "deleted" => v # u
        BY <1>n, <1>0, <1>1, <1>3, <2>4 DEF AnswerHolds, Gone
      <4> QED  BY <2>1, <4>1
    <3>3. ~Announces(h, v)
      BY <2>2 DEF Makes, Announces
    <3> QED  BY <1>0, <1>2, <2>1, <3>1, <3>2, <3>3 DEF HeldOn, Deletes, Announces
  <2> QED  BY <2>3, <2>4 DEF KeepInv
<1>7. CASE waiter[h] # None
  <2>1. PICK c \in Clients : c = waiter[h]
    BY <1>7, <1>n
  <2>2. TabHears(c, u, req[h].code, req[h].upto)
    BY <1>3, <1>7, <2>1 DEF Answered, Quiet
  <2>3. /\ records' \subseteq records \/ (req[h].code = "created" /\ records' = {u})
        /\ \A v \in (records \cup aborts) :
             \/ v \in (records' \cup aborts')
             \/ /\ req[h].code = "missing" /\ v = client[c].session
                /\ client[c].step # "create"
        /\ req[h].code = "created" /\ client[c].step = "create" => u \in records'
    BY <2>2, TabLearns
  <2>4. Serves(h, c) /\ \A g \in Handlers : waiter[g] = c => g = h
    BY <2>1 DEF UploadInv, Linked
  <2>5. \A d \in Clients : d # c => client'[d] = client[d]
    BY <1>n, <1>0, <1>3, <2>1, <2>2, TabAnswered DEF HeardBy
  <2>6. ASSUME NEW g \in Handlers PROVE Attended(g)'
    <3>1. CASE g # h
      <4>1. waiter[g] # None => client'[waiter[g]] = client[waiter[g]]
        BY <1>n, <2>4, <2>5, <3>1
      <4> QED  BY <1>0, <1>2, <1>4, <1>w, <3>1, <4>1 DEF Attended, Makes
    <3> QED  BY <1>5, <3>1
  <2>7. ASSUME NEW v \in Uploads, SessionOpen(v)'
        PROVE  HeldOn(v)'
    <3>1. HeldOn(v)
      BY <1>1, <2>7 DEF KeepInv
    <3>2. CASE Announces(h, v)
      <4>1. client[c].step = "create"
        BY <1>4, <2>1, <3>2 DEF Attended, Makes, Announces
      <4> QED  BY <1>3, <2>3, <3>2, <4>1 DEF HeldOn, Announces
    <3>3. CASE v \in records \/ v \in aborts
      <4>1. ~(/\ req[h].code = "missing" /\ v = client[c].session
              /\ client[c].step # "create")
        BY <1>n, <1>0, <1>1, <1>4, <2>4, <2>7 DEF Serves, AnswerHolds, Gone
      <4> QED  BY <2>3, <3>3, <4>1 DEF HeldOn
    <3>4. CASE \E g \in Handlers : Deletes(g, v) \/ (g # h /\ Announces(g, v))
      BY <1>0, <1>2, <3>4 DEF HeldOn, Deletes, Announces
    <3> QED  BY <3>1, <3>2, <3>3, <3>4 DEF HeldOn
  <2> QED  BY <2>6, <2>7 DEF KeepInv
<1> QED  BY <1>6, <1>7

\* Every step holds on to the sessions.
LEMMA KeepStep ==
  StoreInv /\ UploadInv /\ EndInv /\ KeepInv /\ [UploadNext]_uploadVars => KeepInv'
<1> SUFFICES ASSUME StoreInv, UploadInv, EndInv, KeepInv, [UploadNext]_uploadVars
             PROVE  KeepInv'
  OBVIOUS
<1>1. ASSUME NEW h \in Handlers, Connection(h)
      PROVE  KeepInv'
  BY <1>1, KeepDeliverStep, KeepWorkStep, KeepAnsweredStep DEF Connection
<1>2. CASE UNCHANGED uploadVars
  <2>1. /\ call' = call /\ waiter' = waiter /\ client' = client /\ records' = records
        /\ aborts' = aborts /\ trouble' = trouble /\ pc' = pc /\ req' = req
        /\ \A v \in Uploads : SessionOpen(v)' <=> SessionOpen(v)
    BY <1>2, StoreRests DEF uploadVars, network, memory, bounds
  <2> QED
    BY <2>1 DEF KeepInv, Quiet, Attended, Makes, HeldOn, Deletes, Announces
<1>3. CASE ServerRestart
  BY <1>3, TroubleEndsQuiet DEF ServerRestart, KeepInv
<1> QED
  BY <1>1, <1>2, <1>3, KeepUserStep, KeepAbortStep, KeepLossStep DEF UploadNext

\* However many tabs upload to one target, replace each other's sessions and meet
\* sessions that another tab has ended: as long as nothing fails and no connection
\* breaks, no session stays on the server that nobody would ever end.
THEOREM SessionsAreHeldOn == UploadSpec => []NoSessionIsForgotten
<1>1. UploadInit => KeepInv
  BY KeepInvInit
<1>2. StoreInv /\ UploadInv /\ KeepInv => NoSessionIsForgotten
  <2> SUFFICES ASSUME StoreInv, UploadInv, KeepInv, Quiet, NEW u \in Uploads, SessionOpen(u)
               PROVE  \/ u \in records \cup aborts
                      \/ \E h \in Handlers : call[h] # None /\ call[h].id = u
                      \/ \E h \in Handlers : req[h] # None /\ req[h].id = u
    BY DEF NoSessionIsForgotten, Quiet
  <2>1. HeldOn(u)
    BY DEF KeepInv
  <2>2. ASSUME NEW h \in Handlers, Announces(h, u)
        PROVE  req[h] # None /\ req[h].id = u
    <3>1. req[h] \in Requests /\ None \notin Requests
      BY <2>2, ClientAssumption DEF StoreInv, Typed, Announces
    <3> QED  BY <2>2, <3>1 DEF Announces
  <2> QED  BY <2>1, <2>2 DEF HeldOn, Deletes
<1> QED  BY <1>1, <1>2, KeepStep, UploadsEnd, PTL DEF UploadSpec
=============================================================================
