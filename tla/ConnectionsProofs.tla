-------------------------- MODULE ConnectionsProofs --------------------------
(***************************************************************************)
(* Proofs about Connections: the types, that rejected keys stay dropped,   *)
(* that keys are on disk only for a record that says so, and that the      *)
(* connection a reload comes back to is the mounted one, for any number of *)
(* connections, keys, validations and reloads.                             *)
(***************************************************************************)
EXTENDS Connections, TLAPS

-----------------------------------------------------------------------------
(* Types. *)

Keyring == [Ids -> MaybeKey]

StoreTypes ==
  /\ issued \in SUBSET Ids /\ saved \in SUBSET issued /\ remember \in SUBSET saved
  /\ session \in Keyring /\ stored \in Keyring
  /\ lastActive \in Ids \cup {Browser}
MountTypes ==
  /\ link \in MaybeKey
  /\ active \in [id : S3Ids \cup {Browser}, keys : MaybeKey]
  /\ frozen \in BOOLEAN
DialogTypes ==
  activating \in BOOLEAN /\ booted \in BOOLEAN /\ dialog \in Dialog /\ failure \in Failure
CallTypes ==
  /\ checks \in SUBSET Check /\ requests \in SUBSET [id : S3Ids, keys : Keys]
  /\ valid \in SUBSET Keys /\ calls \in Nat
HistoryTypes ==
  dropped \in SUBSET (Ids \X Keys) /\ overtaken \in SUBSET Ids /\ consent \in SUBSET Ids

LEMMA TypeParts ==
  TypeOK <=> StoreTypes /\ MountTypes /\ DialogTypes /\ CallTypes /\ HistoryTypes
BY DEF TypeOK, StoreTypes, MountTypes, DialogTypes, CallTypes, HistoryTypes, Keyring

LEMMA NextTypeParts ==
  TypeOK' <=> StoreTypes' /\ MountTypes' /\ DialogTypes' /\ CallTypes' /\ HistoryTypes'
BY DEF TypeOK, StoreTypes, MountTypes, DialogTypes, CallTypes, HistoryTypes, Keyring

(* The ids that are about: of validations, of the mounted connection, of the
   record in the editor, and of keys that were dropped. *)
IdsAreIssued ==
  /\ \A c \in checks : IF c.from = "create" THEN c.id = None
                       ELSE c.id \in issued \cup {Link}
  /\ active.id \in Ids => active.id \in issued
  /\ active.id \in S3Ids => active.keys \in Keys
  /\ dialog.view = "edit" => dialog.id \in saved
  /\ \A p \in dropped : p[1] \in issued

(* A validation that will store its keys is of a record that says so, unless
   the record changed since. *)
ChecksRemember ==
  \A c \in checks : c.remember => c.id \in remember \cup overtaken \cup {None, Link}

IInv ==
  /\ TypeOK /\ IdsAreIssued /\ ChecksRemember
  /\ RememberedConnectionIsMounted /\ StoredKeysFollowTheRecord /\ DroppedKeysAreGone

-----------------------------------------------------------------------------
(* The helpers. *)

LEMMA CredentialsType ==
  ASSUME StoreTypes, NEW id \in Ids
  PROVE  /\ credentials(id) \in MaybeKey
         /\ credentials(id) \in {session[id], stored[id]}
         /\ credentials(id) = NoKeys => session[id] = NoKeys /\ stored[id] = NoKeys
BY DEF StoreTypes, Keyring, credentials

LEMMA CredentialsForType ==
  ASSUME StoreTypes, MountTypes, NEW id \in S3Ids
  PROVE  credentialsFor(id) \in MaybeKey
BY CredentialsType DEF MountTypes, credentialsFor, S3Ids

LEMMA SaveType ==
  ASSUME StoreTypes, NEW id \in Ids, NEW k \in MaybeKey, NEW keep,
         saveCredentials(id, k, keep)
  PROVE  /\ session' \in Keyring /\ stored' \in Keyring
         /\ session' = [session EXCEPT ![id] = k]
         /\ keep => stored' = [stored EXCEPT ![id] = k]
         /\ ~keep => stored' = [stored EXCEPT ![id] = NoKeys]
BY DEF StoreTypes, Keyring, saveCredentials, MaybeKey

LEMMA DropType ==
  ASSUME StoreTypes, NEW id \in Ids, dropCredentials(id)
  PROVE  session' \in Keyring /\ stored' \in Keyring
BY DEF StoreTypes, Keyring, dropCredentials, MaybeKey

(* What a call adds to the validations. *)
Asked(id, from, keep) ==
  \/ checks' = checks
  \/ \E c \in Check : /\ checks' = checks \cup {c}
                      /\ c.id = id /\ c.from = from /\ c.remember = keep

LEMMA ValidateType ==
  ASSUME CallTypes, DialogTypes, NEW id \in S3Ids \cup {None}, NEW k \in Keys,
         NEW keep \in BOOLEAN, NEW from \in Origins, NEW cancel \in BOOLEAN,
         Validate(id, k, keep, from, cancel)
  PROVE  /\ checks' \in SUBSET Check /\ calls' \in Nat /\ activating' \in BOOLEAN
         /\ Asked(id, from, keep)
<1> DEFINE c == [id |-> id, keys |-> k, remember |-> keep, from |-> from,
                 cancel |-> cancel]
<1>1. c \in Check
  BY DEF Check
<1>2. checks' = checks \cup {c} /\ calls' \in Nat
  BY DEF Validate, Call, CallTypes
<1>3. activating' = (activating \/ from # "create")
  BY DEF Validate
<1>4. activating' \in BOOLEAN
  BY <1>3
<1>5. c.id = id /\ c.from = from /\ c.remember = keep
  OBVIOUS
<1> HIDE DEF c
<1> QED  BY <1>1, <1>2, <1>4, <1>5 DEF Asked, CallTypes

LEMMA RememberBoolean ==
  ASSUME NEW id
  PROVE  (id \in remember) \in BOOLEAN
OBVIOUS

LEMMA OpenType ==
  ASSUME NEW v \in Views, NEW id \in S3Ids \cup {None}
  PROVE  Open(v, id) \in Dialog /\ Open(v, id).view = v /\ Open(v, id).id = id
BY DEF Open, Dialog, Views

LEMMA NothingOpen ==
  /\ NoDialog \in Dialog /\ NoDialog.view # "edit" /\ NoFailure \in Failure
BY DEF Dialog, NoDialog, Views, NoFailure, Failure

LEMMA BrowserMounted ==
  /\ [id |-> Browser, keys |-> NoKeys] \in [id : S3Ids \cup {Browser}, keys : MaybeKey]
  /\ NoKeys \in MaybeKey
BY DEF MaybeKey

LEMMA ActivateStoredType ==
  ASSUME TypeOK, NEW id \in S3Ids, NEW from \in Origins, NEW cancel \in BOOLEAN,
         ActivateStored(id, from, cancel)
  PROVE  /\ checks' \in SUBSET Check /\ calls' \in Nat /\ activating' \in BOOLEAN
         /\ Asked(id, from, id \in remember)
         /\ dialog' \in Dialog
         /\ dialog' = dialog \/ dialog'.view = "credentials"
<1> USE TypeParts
<1>1. CASE credentialsFor(id) = NoKeys
  <2>1. dialog' = Open("credentials", id) /\ UNCHANGED <<checks, activating, calls>>
    BY <1>1 DEF ActivateStored
  <2>2. dialog' \in Dialog /\ dialog'.view = "credentials"
    BY <2>1, OpenType DEF Views
  <2> QED  BY <2>1, <2>2 DEF CallTypes, DialogTypes, Asked
<1>2. CASE credentialsFor(id) # NoKeys
  <2>1. credentialsFor(id) \in Keys
    BY <1>2, CredentialsForType DEF MaybeKey
  <2>2. /\ Validate(id, credentialsFor(id), id \in remember, from, cancel)
        /\ UNCHANGED dialog
    BY <1>2 DEF ActivateStored
  <2>3. /\ checks' \in SUBSET Check /\ calls' \in Nat /\ activating' \in BOOLEAN
        /\ Asked(id, from, id \in remember)
    BY <2>1, <2>2, RememberBoolean, ValidateType
  <2> QED  BY <2>2, <2>3 DEF DialogTypes
<1> QED  BY <1>1, <1>2

LEMMA MountBrowserType ==
  ASSUME MountBrowser
  PROVE  /\ lastActive' = Browser /\ frozen' \in BOOLEAN /\ failure' \in Failure
         /\ active' \in [id : S3Ids \cup {Browser}, keys : MaybeKey]
         /\ active'.id = Browser
<1>1. lastActive' = Browser /\ active' = [id |-> Browser, keys |-> NoKeys]
  BY DEF MountBrowser
<1>2. frozen' = FALSE /\ failure' = NoFailure
  BY DEF MountBrowser
<1> QED  BY <1>1, <1>2, BrowserMounted, NothingOpen

LEMMA OvertakeType ==
  ASSUME HistoryTypes, NEW id \in Ids, Overtake(id)
  PROVE  /\ overtaken' \in SUBSET Ids /\ overtaken \subseteq overtaken'
         /\ \A c \in checks : c.id = id => id \in overtaken'
BY DEF HistoryTypes, Overtake

LEMMA ConsentType ==
  ASSUME HistoryTypes, NEW id \in Ids, NEW keep, Consent(id, keep)
  PROVE  consent' \in SUBSET Ids
BY DEF HistoryTypes, Consent

-----------------------------------------------------------------------------
(* Steps that leave the registry and the mounted connection alone. *)

LEMMA InitInv == Init => IInv
<1> SUFFICES ASSUME Init
             PROVE  IInv
  OBVIOUS
<1>1. NoKeys \in MaybeKey /\ active = [id |-> Browser, keys |-> NoKeys]
  BY DEF MaybeKey, Init, FreshTab
<1>2. TypeOK
  <2>1. StoreTypes
    BY <1>1 DEF Init, FreshTab, StoreTypes, Keyring
  <2>2. MountTypes
    <3>1. link \in MaybeKey /\ active \in [id : S3Ids \cup {Browser}, keys : MaybeKey]
      BY BrowserMounted DEF Init, FreshTab
    <3>2. frozen = FALSE
      BY DEF Init, FreshTab
    <3> QED  BY <3>1, <3>2 DEF MountTypes
  <2>3. DialogTypes
    <3>1. activating = FALSE /\ booted = FALSE /\ dialog = NoDialog /\ failure = NoFailure
      BY DEF Init, FreshTab
    <3> QED  BY <3>1, NothingOpen DEF DialogTypes
  <2>4. CallTypes /\ HistoryTypes
    BY DEF Init, FreshTab, CallTypes, HistoryTypes
  <2> QED  BY <2>1, <2>2, <2>3, <2>4, TypeParts
<1>3. IdsAreIssued /\ ChecksRemember
  BY <1>1, ConnectionsAssumption, NothingOpen
  DEF Init, FreshTab, IdsAreIssued, ChecksRemember, S3Ids
<1>4. RememberedConnectionIsMounted /\ StoredKeysFollowTheRecord /\ DroppedKeysAreGone
  BY <1>1, ConnectionsAssumption
  DEF Init, FreshTab, RememberedConnectionIsMounted, StoredKeysFollowTheRecord,
      DroppedKeysAreGone
<1> QED  BY <1>2, <1>3, <1>4 DEF IInv

(* A validation as IInv asks for it. *)
Founded(c) ==
  /\ IF c.from = "create" THEN c.id = None ELSE c.id \in issued \cup {Link}
  /\ c.remember => c.id \in remember \cup overtaken \cup {None, Link}

LEMMA AskedFounded ==
  ASSUME NEW id \in S3Ids, id \in Ids => id \in issued, NEW from \in Origins,
         from # "create", Asked(id, from, id \in remember)
  PROVE  \A c \in checks' \ checks : Founded(c)
BY ConnectionsAssumption DEF Asked, Founded, S3Ids

LEMMA QuietStep ==
  ASSUME IInv, TypeOK', UNCHANGED <<store, active, history>>,
         \A c \in checks' \ checks : Founded(c),
         dialog'.view = "edit" => dialog'.id \in saved
  PROVE  IInv'
<1>1. IdsAreIssued' /\ ChecksRemember'
  BY DEF IInv, store, history, IdsAreIssued, ChecksRemember, Founded
<1>2. RememberedConnectionIsMounted' /\ StoredKeysFollowTheRecord' /\ DroppedKeysAreGone'
  BY DEF IInv, store, history, RememberedConnectionIsMounted, StoredKeysFollowTheRecord,
         DroppedKeysAreGone
<1> QED  BY <1>1, <1>2 DEF IInv

LEMMA ReloadStep == IInv /\ Reload => IInv'
<1> SUFFICES ASSUME IInv, Reload
             PROVE  IInv'
  OBVIOUS
<1> USE TypeParts, NextTypeParts
<1>1. /\ NoKeys \in MaybeKey
      /\ active' = [id |-> Browser, keys |-> NoKeys] /\ checks' = {}
      /\ dialog' = NoDialog
      /\ session' = [id \in Ids |-> NoKeys]
      /\ UNCHANGED <<issued, saved, remember, stored, lastActive, valid, history>>
  BY DEF MaybeKey, Reload
<1>2. TypeOK'
  <2>1. StoreTypes'
    BY <1>1 DEF IInv, StoreTypes, Keyring
  <2>2. MountTypes'
    <3>1. link' = NoKeys /\ frozen' = FALSE
      BY DEF Reload
    <3> QED  BY <1>1, <3>1, BrowserMounted DEF MountTypes
  <2>3. DialogTypes'
    <3>1. /\ activating' = FALSE /\ booted' = FALSE
          /\ dialog' = NoDialog /\ failure' = NoFailure
      BY DEF Reload
    <3> QED  BY <3>1, NothingOpen DEF DialogTypes
  <2>4. CallTypes' /\ HistoryTypes'
    BY <1>1 DEF IInv, Reload, Call, CallTypes, HistoryTypes, history
  <2> QED  BY <2>1, <2>2, <2>3, <2>4
<1>3. IdsAreIssued' /\ ChecksRemember'
  BY <1>1, ConnectionsAssumption, NothingOpen
  DEF IInv, IdsAreIssued, ChecksRemember, history, S3Ids
<1>4. RememberedConnectionIsMounted' /\ StoredKeysFollowTheRecord'
  BY <1>1, ConnectionsAssumption
  DEF IInv, RememberedConnectionIsMounted, StoredKeysFollowTheRecord, history
<1>5. DroppedKeysAreGone'
  BY <1>1, ConnectionsAssumption
  DEF IInv, DroppedKeysAreGone, HistoryTypes, history
<1> QED  BY <1>2, <1>3, <1>4, <1>5 DEF IInv

(* The types of a step that changes dialogs and validations only. *)
LEMMA QuietTypes ==
  ASSUME TypeOK, UNCHANGED <<store, link, active, frozen, history>>,
         activating' \in BOOLEAN, booted' \in BOOLEAN, dialog' \in Dialog,
         failure' \in Failure, checks' \in SUBSET Check,
         requests' \in SUBSET [id : S3Ids, keys : Keys], valid' \in SUBSET Keys,
         calls' \in Nat
  PROVE  TypeOK'
<1> USE TypeParts, NextTypeParts
<1>1. StoreTypes' /\ MountTypes'
  BY DEF StoreTypes, MountTypes, store
<1>2. DialogTypes' /\ CallTypes'
  BY DEF DialogTypes, CallTypes
<1>3. HistoryTypes'
  BY DEF HistoryTypes, history
<1> QED  BY <1>1, <1>2, <1>3

LEMMA BootStep ==
  ASSUME IInv, BootDialog \/ BootLink \/ BootSaved \/ BootRemembered
  PROVE  IInv'
<1> USE TypeParts
<1>1. /\ booted' = TRUE
      /\ UNCHANGED <<store, link, active, frozen, failure, requests, valid, history>>
  BY DEF BootDialog, BootLink, BootSaved, BootRemembered, BootUnchanged
<1>2. CASE BootDialog
  <2>1. PICK v \in {"list", "create"} : dialog' = Open(v, None)
    BY <1>2 DEF BootDialog
  <2>2. dialog' \in Dialog /\ dialog'.view # "edit"
    BY <2>1, OpenType DEF Views
  <2>3. UNCHANGED <<activating, checks, calls>>
    BY <1>2 DEF BootDialog
  <2>4. TypeOK'
    BY <1>1, <2>2, <2>3, QuietTypes DEF IInv, DialogTypes, CallTypes
  <2> QED  BY <1>1, <2>2, <2>3, <2>4, QuietStep
<1>3. CASE BootLink
  <2>1. PICK k \in Keys : Validate(Link, k, FALSE, "boot", FALSE)
    BY <1>3 DEF BootLink
  <2>2. /\ checks' \in SUBSET Check /\ calls' \in Nat /\ activating' \in BOOLEAN
        /\ Asked(Link, "boot", FALSE)
    BY <2>1, ValidateType DEF IInv, S3Ids, Origins
  <2>3. UNCHANGED dialog
    BY <1>3 DEF BootLink
  <2>4. TypeOK'
    BY <1>1, <2>2, <2>3, QuietTypes DEF IInv, DialogTypes, CallTypes
  <2>5. \A c \in checks' \ checks : Founded(c)
    BY <2>2 DEF Asked, Founded
  <2> QED  BY <1>1, <2>3, <2>4, <2>5, QuietStep DEF IInv, IdsAreIssued
<1>4. ASSUME NEW id \in saved, ActivateStored(id, "boot", FALSE)
      PROVE  IInv'
  <2>1. id \in S3Ids /\ id \in issued
    BY DEF IInv, StoreTypes, S3Ids
  <2>2. /\ checks' \in SUBSET Check /\ calls' \in Nat /\ activating' \in BOOLEAN
        /\ Asked(id, "boot", id \in remember)
        /\ dialog' \in Dialog
        /\ dialog' = dialog \/ dialog'.view = "credentials"
    BY <1>4, <2>1, ActivateStoredType DEF IInv, Origins
  <2>3. TypeOK'
    BY <1>1, <2>2, QuietTypes DEF IInv, DialogTypes, CallTypes
  <2>4. \A c \in checks' \ checks : Founded(c)
    BY <2>1, <2>2, AskedFounded DEF Origins
  <2> QED  BY <1>1, <2>2, <2>3, <2>4, QuietStep DEF IInv, IdsAreIssued
<1>5. CASE BootSaved
  BY <1>4, <1>5 DEF BootSaved
<1>6. CASE BootRemembered
  <2>1. CASE activeId # Browser /\ credentials(activeId) # NoKeys
    <3>1. activeId \in saved
      BY <2>1 DEF activeId
    <3> QED  BY <1>4, <1>6, <2>1, <3>1 DEF BootRemembered
  <2>2. CASE ~(activeId # Browser /\ credentials(activeId) # NoKeys)
    <3>1. UNCHANGED <<checks, activating, dialog, calls>>
      BY <1>6, <2>2 DEF BootRemembered
    <3>2. TypeOK'
      BY <1>1, <3>1, QuietTypes DEF IInv, DialogTypes, CallTypes
    <3> QED  BY <1>1, <3>1, <3>2, QuietStep DEF IInv, IdsAreIssued
  <2> QED  BY <2>1, <2>2
<1> QED  BY <1>2, <1>3, <1>5, <1>6

LEMMA CheckFailsStep ==
  ASSUME IInv, NEW c \in checks, CheckFails(c)
  PROVE  IInv'
<1> USE TypeParts
<1>1. c.id \in S3Ids \cup {None} /\ c.cancel \in BOOLEAN
  BY DEF IInv, CallTypes, Check
<1>2. failure' \in Failure
  BY <1>1 DEF CheckFails, IInv, DialogTypes, Failure
<1>3. /\ dialog' \in Dialog /\ dialog'.view = dialog.view /\ dialog'.id = dialog.id
  BY DEF CheckFails, IInv, DialogTypes, Dialog
<1>4. /\ UNCHANGED <<store, link, active, frozen, booted, requests, valid, calls, history>>
      /\ checks' = checks \ {c} /\ activating' \in BOOLEAN
  BY DEF CheckFails
<1>5. TypeOK'
  BY <1>2, <1>3, <1>4, QuietTypes DEF IInv, DialogTypes, CallTypes
<1> QED  BY <1>3, <1>4, <1>5, QuietStep DEF IInv, IdsAreIssued

LEMMA DialogStep ==
  ASSUME IInv, OpenDialog \/ CloseDialog \/ OpenEditor \/ LeaveFailure
  PROVE  IInv'
<1> USE TypeParts
<1>1. dialog' \in Dialog /\ (dialog'.view = "edit" => dialog'.id \in saved \/ dialog' = dialog)
  <2>1. None \in S3Ids \cup {None} /\ saved \subseteq S3Ids
    BY DEF IInv, StoreTypes, S3Ids
  <2>2. CASE OpenDialog
    <3>1. active.id # Browser => active.id \in S3Ids
      BY DEF IInv, MountTypes
    <3> QED  BY <2>1, <2>2, <3>1, OpenType DEF OpenDialog, Views
  <2>3. CASE CloseDialog
    BY <2>3, NothingOpen DEF CloseDialog
  <2>4. CASE OpenEditor
    BY <2>1, <2>4, OpenType DEF OpenEditor, Views
  <2>5. CASE LeaveFailure
    <3>1. dialog' = Open("list", None) \/ dialog' = dialog
      BY <2>5 DEF LeaveFailure
    <3> QED  BY <2>1, <3>1, OpenType DEF Views, IInv, DialogTypes
  <2> QED  BY <2>2, <2>3, <2>4, <2>5
<1>2. failure' \in Failure
  BY NothingOpen
  DEF IInv, DialogTypes, OpenDialog, CloseDialog, OpenEditor, LeaveFailure
<1>3. /\ UNCHANGED <<store, link, active, frozen, history>>
      /\ UNCHANGED <<activating, booted, checks, requests, valid, calls>>
  BY DEF OpenDialog, CloseDialog, OpenEditor, LeaveFailure, ListUnchanged
<1>4. TypeOK'
  BY <1>1, <1>2, <1>3, QuietTypes DEF IInv, DialogTypes, CallTypes
<1> QED  BY <1>1, <1>3, <1>4, QuietStep DEF IInv, IdsAreIssued

LEMMA RetryStep ==
  ASSUME IInv, Retry
  PROVE  IInv'
<1> USE TypeParts
<1>1. UNCHANGED <<store, link, active, frozen, booted, requests, valid, history>>
  BY DEF Retry
<1>2. CASE Known(failure.id)
  <2>1. failure' = NoFailure /\ ActivateStored(failure.id, "retry", failure.cancel)
    BY <1>2 DEF Retry
  <2>2. failure.id \in S3Ids \cup {None} /\ failure.cancel \in BOOLEAN
    BY DEF IInv, DialogTypes, Failure
  <2>3. failure.id \in S3Ids /\ (failure.id \in Ids => failure.id \in issued)
    BY <1>2, <2>2, ConnectionsAssumption DEF Known, IInv, StoreTypes, S3Ids
  <2>4. /\ checks' \in SUBSET Check /\ calls' \in Nat /\ activating' \in BOOLEAN
        /\ Asked(failure.id, "retry", failure.id \in remember)
        /\ dialog' \in Dialog
        /\ dialog' = dialog \/ dialog'.view = "credentials"
    BY <2>1, <2>2, <2>3, ActivateStoredType DEF IInv, Origins
  <2>5. TypeOK'
    BY <1>1, <2>1, <2>4, NothingOpen, QuietTypes DEF IInv, DialogTypes, CallTypes
  <2>6. \A c \in checks' \ checks : Founded(c)
    BY <2>3, <2>4, AskedFounded DEF Origins
  <2> QED  BY <1>1, <2>4, <2>5, <2>6, QuietStep DEF IInv, IdsAreIssued
<1>3. CASE ~Known(failure.id)
  <2>1. UNCHANGED <<failure, dialog, checks, activating, calls>>
    BY <1>3 DEF Retry
  <2>2. TypeOK'
    BY <1>1, <2>1, QuietTypes DEF IInv, DialogTypes, CallTypes
  <2> QED  BY <1>1, <2>1, <2>2, QuietStep DEF IInv, IdsAreIssued
<1> QED  BY <1>2, <1>3

LEMMA SubmitCreateStep ==
  ASSUME IInv, SubmitCreate
  PROVE  IInv'
<1> USE TypeParts
<1>1. UNCHANGED <<store, link, active, frozen, failure, booted, requests, valid, history>>
  BY DEF SubmitCreate
<1>2. PICK k \in Keys, keep \in BOOLEAN : Validate(None, k, keep, "create", FALSE)
  BY DEF SubmitCreate
<1>3. /\ checks' \in SUBSET Check /\ calls' \in Nat /\ activating' \in BOOLEAN
      /\ Asked(None, "create", keep)
  BY <1>2, ValidateType DEF IInv, Origins
<1>4. dialog' = [dialog EXCEPT !.busy = TRUE]
  BY DEF SubmitCreate
<1>5. dialog' \in Dialog /\ dialog'.view = dialog.view /\ dialog'.id = dialog.id
  BY <1>4 DEF IInv, DialogTypes, Dialog
<1>6. TypeOK'
  BY <1>1, <1>3, <1>5, QuietTypes DEF IInv, DialogTypes, CallTypes
<1>7. \A c \in checks' \ checks : Founded(c)
  BY <1>3 DEF Asked, Founded
<1> QED  BY <1>1, <1>5, <1>6, <1>7, QuietStep DEF IInv, IdsAreIssued

LEMMA NetworkStep ==
  ASSUME IInv,
         \/ RequestSent
         \/ \E r \in requests : RequestAnswered(r)
         \/ \E k \in Keys : Expire(k)
  PROVE  IInv'
<1> USE TypeParts
<1>1. UNCHANGED <<store, screen, checks, history>>
  BY DEF RequestSent, RequestAnswered, Expire
<1>2. requests' \in SUBSET [id : S3Ids, keys : Keys]
  <2>1. CASE RequestSent
    <3>1. active.id \in S3Ids /\ active.keys \in Keys
      BY <2>1 DEF RequestSent, IInv, IdsAreIssued
    <3> QED  BY <2>1, <3>1 DEF RequestSent, IInv, CallTypes
  <2>2. CASE ~RequestSent
    BY <2>2 DEF RequestAnswered, Expire, IInv, CallTypes
  <2> QED  BY <2>1, <2>2
<1>3. valid' \in SUBSET Keys /\ calls' \in Nat
  BY DEF RequestSent, RequestAnswered, Expire, Call, IInv, CallTypes
<1>4. TypeOK'
  BY <1>1, <1>2, <1>3, QuietTypes DEF IInv, DialogTypes, CallTypes, screen
<1> QED  BY <1>1, <1>4, QuietStep DEF IInv, IdsAreIssued, screen

-----------------------------------------------------------------------------
(* Steps that write to the registry. *)

(* What the steps that change the registry from a dialog leave alone. *)
LEMMA ListTypes ==
  ASSUME TypeOK, UNCHANGED <<link, activating, booted, checks, requests, valid, calls>>,
         active' \in [id : S3Ids \cup {Browser}, keys : MaybeKey], frozen' \in BOOLEAN,
         dialog' \in Dialog, failure' \in Failure
  PROVE  MountTypes' /\ DialogTypes' /\ CallTypes'
<1> USE TypeParts
<1>1. MountTypes'
  BY DEF MountTypes
<1>2. DialogTypes'
  BY DEF DialogTypes
<1>3. CallTypes'
  BY DEF CallTypes
<1> QED  BY <1>1, <1>2, <1>3

LEMMA SameMount ==
  ASSUME TypeOK, UNCHANGED <<active, frozen, failure>>
  PROVE  /\ active' \in [id : S3Ids \cup {Browser}, keys : MaybeKey]
         /\ frozen' \in BOOLEAN /\ failure' \in Failure
BY TypeParts DEF MountTypes, DialogTypes

(* Keys put into the registry for one connection: not of a pair that was
   dropped, unless it is no longer counted as dropped. *)
LEMMA SavedNotDropped ==
  ASSUME TypeOK, DroppedKeysAreGone, NEW id \in Ids, NEW k \in MaybeKey, NEW keep,
         saveCredentials(id, k, keep), dropped' \subseteq dropped,
         <<id, k>> \notin dropped'
  PROVE  DroppedKeysAreGone'
<1> USE TypeParts
<1>1. /\ session' = [session EXCEPT ![id] = k]
      /\ keep => stored' = [stored EXCEPT ![id] = k]
      /\ ~keep => stored' = [stored EXCEPT ![id] = NoKeys]
  BY SaveType
<1> SUFFICES ASSUME NEW p \in dropped'
             PROVE  session'[p[1]] # p[2] /\ stored'[p[1]] # p[2]
  BY DEF DroppedKeysAreGone
<1>2. p \in dropped /\ p \in Ids \X Keys /\ p = <<p[1], p[2]>>
  BY DEF HistoryTypes
<1>3. session[p[1]] # p[2] /\ stored[p[1]] # p[2]
  BY <1>2 DEF DroppedKeysAreGone
<1>4. p[2] # NoKeys
  BY <1>2, ConnectionsAssumption
<1>5. p[1] = id => p[2] # k
  BY <1>2
<1>6. CASE p[1] = id
  BY <1>1, <1>4, <1>5, <1>6 DEF StoreTypes, Keyring
<1>7. CASE p[1] # id
  BY <1>1, <1>2, <1>3, <1>7 DEF StoreTypes, Keyring
<1> QED  BY <1>6, <1>7

LEMMA BootBrowserStep ==
  ASSUME IInv, BootBrowser
  PROVE  IInv'
<1> USE TypeParts, NextTypeParts
<1>1. /\ lastActive' = Browser /\ frozen' \in BOOLEAN /\ failure' \in Failure
      /\ active' \in [id : S3Ids \cup {Browser}, keys : MaybeKey]
      /\ active'.id = Browser
  BY MountBrowserType DEF BootBrowser
<1>2. /\ UNCHANGED <<issued, saved, remember, session, stored, history>>
      /\ UNCHANGED <<link, activating, dialog, checks, requests, valid, calls>>
      /\ booted' = TRUE
  BY DEF BootBrowser
<1>3. TypeOK'
  <2>1. StoreTypes'
    BY <1>1, <1>2 DEF IInv, StoreTypes
  <2>2. MountTypes'
    BY <1>1, <1>2 DEF IInv, MountTypes
  <2>3. DialogTypes'
    BY <1>1, <1>2 DEF IInv, DialogTypes
  <2>4. CallTypes' /\ HistoryTypes'
    BY <1>2 DEF IInv, CallTypes, HistoryTypes, history
  <2> QED  BY <2>1, <2>2, <2>3, <2>4
<1>4. IdsAreIssued' /\ ChecksRemember'
  BY <1>1, <1>2, ConnectionsAssumption
  DEF IInv, IdsAreIssued, ChecksRemember, history, S3Ids
<1>5. RememberedConnectionIsMounted' /\ StoredKeysFollowTheRecord' /\ DroppedKeysAreGone'
  BY <1>1, <1>2, ConnectionsAssumption
  DEF IInv, RememberedConnectionIsMounted, StoredKeysFollowTheRecord,
      DroppedKeysAreGone, history
<1> QED  BY <1>3, <1>4, <1>5 DEF IInv

LEMMA CheckPassesStep ==
  ASSUME IInv, NEW c \in checks, CheckPasses(c)
  PROVE  IInv'
<1> USE TypeParts, NextTypeParts
<1>1. /\ c \in Check /\ c.from # "create" /\ c.id \in issued \cup {Link}
      /\ c.keys \in Keys /\ c.keys \in MaybeKey
      /\ c.remember => c.id \in remember \cup overtaken \cup {None, Link}
  BY DEF CheckPasses, IInv, CallTypes, Check, IdsAreIssued, ChecksRemember, MaybeKey
<1>2. /\ Keep(c)
      /\ active' = [id |-> c.id, keys |-> c.keys]
      /\ frozen' = FALSE /\ failure' = NoFailure /\ activating' = FALSE
      /\ dialog' = NoDialog \/ dialog' = dialog
      /\ checks' = checks \ {c} /\ dropped' = dropped \ {<<c.id, c.keys>>}
      /\ UNCHANGED <<issued, saved, remember, booted, requests, valid, calls, overtaken,
                     consent>>
  BY DEF CheckPasses, FinishActivate
<1>3. /\ link' \in MaybeKey /\ session' \in Keyring /\ stored' \in Keyring
      /\ lastActive' \in Ids \cup {Browser}
      /\ c.id \in Ids => lastActive' = c.id
      /\ \A id \in Ids : stored'[id] # NoKeys =>
            stored[id] # NoKeys \/ (id = c.id /\ c.remember)
      /\ DroppedKeysAreGone'
  <2>1. CASE c.id = Link
    <3>1. link' = c.keys /\ UNCHANGED <<session, stored, lastActive>>
      BY <1>2, <2>1 DEF Keep
    <3> QED  BY <1>1, <1>2, <2>1, <3>1, ConnectionsAssumption
             DEF IInv, StoreTypes, DroppedKeysAreGone
  <2>2. CASE c.id # Link
    <3>1. c.id \in Ids
      BY <1>1, <2>2 DEF IInv, StoreTypes
    <3>2. saveCredentials(c.id, c.keys, c.remember) /\ lastActive' = c.id /\ UNCHANGED link
      BY <1>2, <2>2 DEF Keep
    <3>3. /\ session' \in Keyring /\ stored' \in Keyring
          /\ c.remember => stored' = [stored EXCEPT ![c.id] = c.keys]
          /\ ~c.remember => stored' = [stored EXCEPT ![c.id] = NoKeys]
      BY <1>1, <3>1, <3>2, SaveType DEF IInv
    <3>4. DroppedKeysAreGone'
      BY <1>1, <1>2, <3>1, <3>2, SavedNotDropped DEF IInv
    <3>5. \A id \in Ids : stored'[id] # NoKeys =>
            stored[id] # NoKeys \/ (id = c.id /\ c.remember)
      BY <3>1, <3>3 DEF IInv, StoreTypes, Keyring
    <3> QED  BY <3>1, <3>2, <3>3, <3>4, <3>5 DEF IInv, MountTypes
  <2> QED  BY <2>1, <2>2
<1>4. TypeOK'
  <2>1. StoreTypes'
    BY <1>2, <1>3 DEF IInv, StoreTypes
  <2>2. MountTypes'
    <3>1. c.id \in S3Ids
      BY <1>1 DEF IInv, StoreTypes, S3Ids
    <3>2. active' \in [id : S3Ids \cup {Browser}, keys : MaybeKey]
      BY <1>1, <1>2, <3>1
    <3> QED  BY <1>2, <1>3, <3>2 DEF MountTypes
  <2>3. DialogTypes'
    BY <1>2, NothingOpen DEF IInv, DialogTypes
  <2>4. CallTypes' /\ HistoryTypes'
    BY <1>2 DEF IInv, CallTypes, HistoryTypes
  <2> QED  BY <2>1, <2>2, <2>3, <2>4
<1>5. IdsAreIssued' /\ ChecksRemember'
  BY <1>1, <1>2, NothingOpen, ConnectionsAssumption
  DEF IInv, IdsAreIssued, ChecksRemember, StoreTypes
<1>6. RememberedConnectionIsMounted'
  BY <1>2, <1>3 DEF RememberedConnectionIsMounted
<1>7. StoredKeysFollowTheRecord'
  BY <1>1, <1>2, <1>3, ConnectionsAssumption DEF IInv, StoredKeysFollowTheRecord
<1> QED  BY <1>3, <1>4, <1>5, <1>6, <1>7 DEF IInv

(* A record is created, with keys or without. *)
LEMMA NewRecord ==
  ASSUME IInv, NEW id \in Ids \ issued, NEW k \in MaybeKey, NEW keep, NEW box,
         issued' = issued \cup {id}, saved' = saved \cup {id},
         remember' \in {remember, remember \cup {id}},
         saveCredentials(id, k, keep) \/ UNCHANGED <<session, stored>>,
         keep => id \in remember', Consent(id, box),
         UNCHANGED <<lastActive, active, dropped, overtaken>>,
         dialog'.view = "edit" => dialog'.view = dialog.view /\ dialog'.id = dialog.id,
         \A c \in checks' \ checks :
            /\ c.from # "create" /\ c.id = id
            /\ c.remember => c.id \in remember'
  PROVE  /\ StoreTypes' /\ HistoryTypes' /\ IdsAreIssued' /\ ChecksRemember'
         /\ RememberedConnectionIsMounted' /\ StoredKeysFollowTheRecord'
         /\ DroppedKeysAreGone'
<1> USE TypeParts
<1>1. id \in Ids /\ TypeOK
  BY DEF IInv
<1>2. /\ session' \in Keyring /\ stored' \in Keyring
      /\ \A i \in Ids : stored'[i] # NoKeys => stored[i] # NoKeys \/ (i = id /\ keep)
  <2>1. CASE saveCredentials(id, k, keep)
    <3>1. /\ session' \in Keyring /\ stored' \in Keyring
          /\ keep => stored' = [stored EXCEPT ![id] = k]
          /\ ~keep => stored' = [stored EXCEPT ![id] = NoKeys]
      BY <1>1, <2>1, SaveType
    <3> QED  BY <1>1, <3>1 DEF StoreTypes, Keyring
  <2>2. CASE UNCHANGED <<session, stored>>
    BY <1>1, <2>2 DEF StoreTypes
  <2> QED  BY <2>1, <2>2
<1>3. StoreTypes'
  BY <1>1, <1>2 DEF StoreTypes
<1>4. HistoryTypes'
  BY <1>1, ConsentType DEF HistoryTypes
<1>5. IdsAreIssued'
  BY DEF IInv, IdsAreIssued
<1>6. ChecksRemember'
  BY DEF IInv, ChecksRemember
<1>7. RememberedConnectionIsMounted'
  BY DEF IInv, RememberedConnectionIsMounted
<1>8. StoredKeysFollowTheRecord'
  BY <1>2 DEF IInv, StoredKeysFollowTheRecord
<1>9. DroppedKeysAreGone'
  <2>1. <<id, k>> \notin dropped'
    BY DEF IInv, IdsAreIssued
  <2>2. CASE saveCredentials(id, k, keep)
    BY <1>1, <2>1, <2>2, SavedNotDropped DEF IInv
  <2>3. CASE UNCHANGED <<session, stored>>
    BY <2>3 DEF IInv, DroppedKeysAreGone
  <2> QED  BY <2>2, <2>3
<1> QED  BY <1>3, <1>4, <1>5, <1>6, <1>7, <1>8, <1>9

LEMMA CreateCheckPassesStep ==
  ASSUME IInv, NEW c \in checks, CreateCheckPasses(c)
  PROVE  IInv'
<1> USE TypeParts, NextTypeParts
<1>1. c \in Check /\ c.keys \in Keys /\ c.keys \in MaybeKey
  BY DEF IInv, CallTypes, Check, MaybeKey
<1>2. PICK id \in Ids \ issued :
        /\ issued' = issued \cup {id}
        /\ saved'  = saved \cup {id}
        /\ remember' = IF c.remember THEN remember \cup {id} ELSE remember
        /\ saveCredentials(id, c.keys, c.remember)
        /\ Consent(id, c.remember)
        /\ checks' = (checks \ {c}) \cup {[c EXCEPT !.id = id, !.from = "submit"]}
  BY DEF CreateCheckPasses
<1> DEFINE d == [c EXCEPT !.id = id, !.from = "submit"]
<1>3. d \in Check /\ d.id = id /\ d.from = "submit" /\ d.remember = c.remember
  BY <1>1 DEF Check, S3Ids, Origins
<1>4. checks' = (checks \ {c}) \cup {d}
  BY <1>2
<1> HIDE DEF d
<1>5. /\ activating' = TRUE /\ calls' \in Nat
      /\ UNCHANGED <<lastActive, link, active, frozen, dialog, failure, booted,
                     requests, valid, dropped, overtaken>>
  BY DEF CreateCheckPasses, Call, IInv, CallTypes
<1>6. /\ StoreTypes' /\ HistoryTypes' /\ IdsAreIssued' /\ ChecksRemember'
      /\ RememberedConnectionIsMounted' /\ StoredKeysFollowTheRecord'
      /\ DroppedKeysAreGone'
  <2>1. c.remember => id \in remember'
    BY <1>2
  <2>2. remember' \in {remember, remember \cup {id}}
    BY <1>2
  <2>3. \A e \in checks' \ checks :
          /\ e.from # "create" /\ e.id = id
          /\ e.remember => e.id \in remember'
    BY <1>3, <1>4, <2>1
  <2> QED  BY <1>1, <1>2, <1>5, <2>1, <2>2, <2>3, NewRecord
<1>7. MountTypes' /\ DialogTypes' /\ CallTypes'
  <2>1. MountTypes'
    BY <1>5 DEF IInv, MountTypes
  <2>2. DialogTypes'
    BY <1>5 DEF IInv, DialogTypes
  <2>3. CallTypes'
    BY <1>3, <1>4, <1>5 DEF IInv, CallTypes
  <2> QED  BY <2>1, <2>2, <2>3
<1> QED  BY <1>6, <1>7 DEF IInv

LEMMA DuplicateStep ==
  ASSUME IInv, NEW id \in Ids, Duplicate(id)
  PROVE  IInv'
<1> USE TypeParts, NextTypeParts
<1>1. PICK new \in Ids \ issued :
        /\ issued' = issued \cup {new}
        /\ saved'  = saved \cup {new}
        /\ remember' = IF id \in remember THEN remember \cup {new} ELSE remember
        /\ Consent(new, id \in consent)
        /\ IF credentials(id) # NoKeys
           THEN saveCredentials(new, credentials(id), id \in remember)
           ELSE UNCHANGED <<session, stored>>
  BY DEF Duplicate
<1>2. /\ UNCHANGED <<lastActive, active, frozen, dialog, failure, dropped, overtaken>>
      /\ UNCHANGED <<link, activating, booted, checks, requests, valid, calls>>
  BY DEF Duplicate, ListUnchanged
<1>3. credentials(id) \in MaybeKey
  BY CredentialsType DEF IInv
<1>4. /\ remember' \in {remember, remember \cup {new}}
      /\ id \in remember => new \in remember'
      /\ saveCredentials(new, credentials(id), id \in remember)
           \/ UNCHANGED <<session, stored>>
  BY <1>1
<1>5. /\ StoreTypes' /\ HistoryTypes' /\ IdsAreIssued' /\ ChecksRemember'
      /\ RememberedConnectionIsMounted' /\ StoredKeysFollowTheRecord'
      /\ DroppedKeysAreGone'
  <2>1. checks' \ checks = {}
    BY <1>2
  <2> QED  BY <1>1, <1>2, <1>3, <1>4, <2>1, NewRecord
<1>6. MountTypes' /\ DialogTypes' /\ CallTypes'
  <2>1. dialog' \in Dialog
    BY <1>2 DEF IInv, DialogTypes
  <2> QED  BY <1>2, <2>1, SameMount, ListTypes DEF IInv
<1> QED  BY <1>5, <1>6 DEF IInv

LEMMA SaveEphemeralStep ==
  ASSUME IInv, SaveEphemeral
  PROVE  IInv'
<1> USE TypeParts, NextTypeParts
<1>1. PICK id \in Ids \ issued :
        /\ issued' = issued \cup {id}
        /\ saved'  = saved \cup {id}
        /\ saveCredentials(id, link, FALSE)
        /\ Consent(id, FALSE)
        /\ Validate(id, link, FALSE, "save", FALSE)
  BY DEF SaveEphemeral
<1>2. /\ link' = NoKeys
      /\ UNCHANGED <<remember, lastActive, active, frozen, dialog, failure, booted,
                     requests, valid, dropped, overtaken>>
  BY DEF SaveEphemeral
<1>3. link \in MaybeKey /\ link \in Keys
  BY DEF SaveEphemeral, IInv, MountTypes, MaybeKey
<1>4. /\ checks' \in SUBSET Check /\ calls' \in Nat /\ activating' \in BOOLEAN
      /\ Asked(id, "save", FALSE)
  BY <1>1, <1>3, ValidateType DEF IInv, S3Ids, Origins
<1>5. /\ StoreTypes' /\ HistoryTypes' /\ IdsAreIssued' /\ ChecksRemember'
      /\ RememberedConnectionIsMounted' /\ StoredKeysFollowTheRecord'
      /\ DroppedKeysAreGone'
  <2>1. \A c \in checks' \ checks :
          /\ c.from # "create" /\ c.id = id
          /\ c.remember => c.id \in remember'
    BY <1>4 DEF Asked
  <2> QED  BY <1>1, <1>2, <1>3, <2>1, NewRecord
<1>6. MountTypes'
  BY <1>2, BrowserMounted DEF IInv, MountTypes
<1>7. DialogTypes'
  BY <1>2, <1>4 DEF IInv, DialogTypes
<1>8. CallTypes'
  BY <1>2, <1>4 DEF IInv, CallTypes
<1> QED  BY <1>5, <1>6, <1>7, <1>8 DEF IInv

LEMMA ActivateFromDialogStep ==
  ASSUME IInv, NEW id \in Ids \cup {Browser, Link}, ActivateFromDialog(id)
  PROVE  IInv'
<1> USE TypeParts, NextTypeParts
<1>1. /\ UNCHANGED <<issued, saved, remember, session, stored, link, booted,
                     requests, valid, history>>
      /\ Known(id)
  BY DEF ActivateFromDialog
<1>2. CASE id = Browser
  <2>1. MountBrowser /\ dialog' = NoDialog /\ UNCHANGED <<checks, activating, calls>>
    BY <1>2 DEF ActivateFromDialog
  <2>2. /\ lastActive' = Browser /\ frozen' \in BOOLEAN /\ failure' \in Failure
        /\ active' \in [id : S3Ids \cup {Browser}, keys : MaybeKey]
        /\ active'.id = Browser
    BY <2>1, MountBrowserType
  <2>3. StoreTypes' /\ HistoryTypes'
    BY <1>1, <2>2 DEF IInv, StoreTypes, HistoryTypes, history
  <2>4. MountTypes' /\ DialogTypes' /\ CallTypes'
    BY <1>1, <2>1, <2>2, NothingOpen, ListTypes DEF IInv
  <2>5. IdsAreIssued' /\ ChecksRemember'
    BY <1>1, <2>1, <2>2, NothingOpen, ConnectionsAssumption
    DEF IInv, IdsAreIssued, ChecksRemember, history, S3Ids
  <2>6. RememberedConnectionIsMounted' /\ StoredKeysFollowTheRecord' /\ DroppedKeysAreGone'
    BY <1>1, <2>2, ConnectionsAssumption
    DEF IInv, RememberedConnectionIsMounted, StoredKeysFollowTheRecord,
        DroppedKeysAreGone, history
  <2> QED  BY <2>3, <2>4, <2>5, <2>6 DEF IInv
<1>3. CASE id # Browser
  <2>1. /\ ActivateStored(id, "dialog", FALSE)
        /\ UNCHANGED <<store, link, active, frozen, failure, booted, requests, valid,
                       history>>
    BY <1>1, <1>3 DEF ActivateFromDialog, store
  <2>2. id \in S3Ids /\ (id \in Ids => id \in issued)
    BY <1>1, <1>3, ConnectionsAssumption DEF Known, IInv, StoreTypes, S3Ids
  <2>3. /\ checks' \in SUBSET Check /\ calls' \in Nat /\ activating' \in BOOLEAN
        /\ Asked(id, "dialog", id \in remember)
        /\ dialog' \in Dialog
        /\ dialog' = dialog \/ dialog'.view = "credentials"
    BY <2>1, <2>2, ActivateStoredType DEF IInv, Origins
  <2>4. TypeOK'
    BY <2>1, <2>3, QuietTypes DEF IInv, DialogTypes, CallTypes
  <2>5. \A c \in checks' \ checks : Founded(c)
    BY <2>2, <2>3, AskedFounded DEF Origins
  <2> QED  BY <2>1, <2>3, <2>4, <2>5, QuietStep DEF IInv, IdsAreIssued
<1> QED  BY <1>2, <1>3

LEMMA DropKeeps ==
  ASSUME TypeOK, NEW id \in Ids, dropCredentials(id)
  PROVE  /\ session' \in Keyring /\ stored' \in Keyring
         /\ \A i \in Ids : stored'[i] # NoKeys => i # id /\ stored[i] # NoKeys
         /\ \A p \in Ids \X Keys :
              \/ p[1] = id
              \/ session[p[1]] # p[2] /\ stored[p[1]] # p[2]
              => session'[p[1]] # p[2] /\ stored'[p[1]] # p[2]
<1> USE TypeParts
<1>1. session' \in Keyring /\ stored' \in Keyring
  BY DropType
<1>2. /\ session' = [session EXCEPT ![id] = NoKeys]
      /\ stored'  = [stored EXCEPT ![id] = NoKeys]
  BY DEF dropCredentials
<1>3. \A i \in Ids : stored'[i] # NoKeys => i # id /\ stored[i] # NoKeys
  BY <1>2 DEF StoreTypes, Keyring
<1>4. ASSUME NEW p \in Ids \X Keys,
             p[1] = id \/ (session[p[1]] # p[2] /\ stored[p[1]] # p[2])
      PROVE  session'[p[1]] # p[2] /\ stored'[p[1]] # p[2]
  <2>1. p[1] \in Ids /\ p[2] \in Keys /\ p[2] # NoKeys
    BY ConnectionsAssumption
  <2> QED  BY <1>2, <1>4, <2>1 DEF StoreTypes, Keyring
<1> QED  BY <1>1, <1>3, <1>4

LEMMA ForgetKeysStep ==
  ASSUME IInv, NEW id \in Ids, ForgetKeys(id)
  PROVE  IInv'
<1> USE TypeParts, NextTypeParts
<1>1. /\ dropCredentials(id) /\ remember' = remember \ {id}
      /\ Consent(id, FALSE) /\ Overtake(id)
      /\ UNCHANGED <<issued, saved, lastActive, active, frozen, dialog, failure, dropped>>
      /\ UNCHANGED <<link, activating, booted, checks, requests, valid, calls>>
  BY DEF ForgetKeys, ListUnchanged
<1>2. /\ session' \in Keyring /\ stored' \in Keyring
      /\ \A i \in Ids : stored'[i] # NoKeys => i # id /\ stored[i] # NoKeys
      /\ \A p \in Ids \X Keys :
              \/ p[1] = id
              \/ session[p[1]] # p[2] /\ stored[p[1]] # p[2]
              => session'[p[1]] # p[2] /\ stored'[p[1]] # p[2]
  BY <1>1, DropKeeps DEF IInv
<1>3. /\ overtaken' \in SUBSET Ids /\ overtaken \subseteq overtaken'
      /\ \A c \in checks : c.id = id => id \in overtaken'
      /\ consent' \in SUBSET Ids
  BY <1>1, OvertakeType, ConsentType DEF IInv
<1>4. StoreTypes' /\ HistoryTypes'
  BY <1>1, <1>2, <1>3 DEF IInv, StoreTypes, HistoryTypes
<1>5. MountTypes' /\ DialogTypes' /\ CallTypes'
  <2>1. dialog' \in Dialog
    BY <1>1 DEF IInv, DialogTypes
  <2> QED  BY <1>1, <2>1, SameMount, ListTypes DEF IInv
<1>6. IdsAreIssued' /\ ChecksRemember'
  BY <1>1, <1>3 DEF IInv, IdsAreIssued, ChecksRemember
<1>7. RememberedConnectionIsMounted' /\ StoredKeysFollowTheRecord'
  BY <1>1, <1>2, <1>3 DEF IInv, RememberedConnectionIsMounted, StoredKeysFollowTheRecord
<1>8. DroppedKeysAreGone'
  BY <1>1, <1>2 DEF IInv, DroppedKeysAreGone, HistoryTypes
<1> QED  BY <1>4, <1>5, <1>6, <1>7, <1>8 DEF IInv

LEMMA RemoveStep ==
  ASSUME IInv, NEW id \in Ids, Remove(id)
  PROVE  IInv'
<1> USE TypeParts, NextTypeParts
<1>1. /\ dialog.view = "list" /\ saved' = saved \ {id} /\ remember' = remember \ {id}
      /\ dropCredentials(id) /\ Consent(id, FALSE) /\ Overtake(id)
      /\ UNCHANGED <<issued, dialog, dropped>>
      /\ UNCHANGED <<link, activating, booted, checks, requests, valid, calls>>
  BY DEF Remove, ListUnchanged
<1>2. /\ session' \in Keyring /\ stored' \in Keyring
      /\ \A i \in Ids : stored'[i] # NoKeys => i # id /\ stored[i] # NoKeys
      /\ \A p \in Ids \X Keys :
              \/ p[1] = id
              \/ session[p[1]] # p[2] /\ stored[p[1]] # p[2]
              => session'[p[1]] # p[2] /\ stored'[p[1]] # p[2]
  BY <1>1, DropKeeps DEF IInv
<1>3. /\ overtaken' \in SUBSET Ids /\ overtaken \subseteq overtaken'
      /\ \A c \in checks : c.id = id => id \in overtaken'
      /\ consent' \in SUBSET Ids
  BY <1>1, OvertakeType, ConsentType DEF IInv
<1>4. /\ lastActive' \in Ids \cup {Browser}
      /\ active' \in [id : S3Ids \cup {Browser}, keys : MaybeKey]
      /\ active' = active \/ active'.id = Browser
      /\ frozen' \in BOOLEAN /\ failure' \in Failure
      /\ RememberedConnectionIsMounted'
  <2>1. CASE active.id = id
    <3>1. MountBrowser
      BY <2>1 DEF Remove
    <3> QED  BY <3>1, MountBrowserType, ConnectionsAssumption
             DEF RememberedConnectionIsMounted
  <2>2. CASE active.id # id
    <3>1. /\ lastActive' = IF lastActive = id THEN Browser ELSE lastActive
          /\ UNCHANGED <<active, frozen, failure>>
      BY <2>2 DEF Remove
    <3>2. /\ active' \in [id : S3Ids \cup {Browser}, keys : MaybeKey]
          /\ frozen' \in BOOLEAN /\ failure' \in Failure
      BY <3>1, SameMount DEF IInv
    <3>3. RememberedConnectionIsMounted'
      BY <2>2, <3>1 DEF IInv, RememberedConnectionIsMounted
    <3> QED  BY <3>1, <3>2, <3>3 DEF IInv, StoreTypes
  <2> QED  BY <2>1, <2>2
<1>5. StoreTypes' /\ HistoryTypes'
  BY <1>1, <1>2, <1>3, <1>4 DEF IInv, StoreTypes, HistoryTypes
<1>6. MountTypes' /\ DialogTypes' /\ CallTypes'
  <2>1. dialog' \in Dialog
    BY <1>1 DEF IInv, DialogTypes
  <2> QED  BY <1>1, <1>4, <2>1, ListTypes DEF IInv
<1>7. IdsAreIssued' /\ ChecksRemember'
  BY <1>1, <1>3, <1>4, ConnectionsAssumption
  DEF IInv, IdsAreIssued, ChecksRemember, S3Ids
<1>8. StoredKeysFollowTheRecord'
  BY <1>1, <1>2, <1>3 DEF IInv, StoredKeysFollowTheRecord
<1>9. DroppedKeysAreGone'
  BY <1>1, <1>2 DEF IInv, DroppedKeysAreGone, HistoryTypes
<1> QED  BY <1>4, <1>5, <1>6, <1>7, <1>8, <1>9 DEF IInv

LEMMA SubmitEditStep ==
  ASSUME IInv, SubmitEdit
  PROVE  IInv'
<1> USE TypeParts, NextTypeParts
<1> DEFINE id == dialog.id
<1>1. id \in saved /\ id \in Ids
  BY DEF SubmitEdit, IInv, IdsAreIssued, StoreTypes
<1> HIDE DEF id
<1>2. PICK typed \in MaybeKey, keep \in BOOLEAN :
        LET k == IF typed # NoKeys THEN typed ELSE credentials(id)
        IN /\ remember' = IF keep THEN remember \cup {id} ELSE remember \ {id}
           /\ IF k # NoKeys THEN saveCredentials(id, k, keep)
              ELSE UNCHANGED <<session, stored>>
           /\ Consent(id, keep)
           /\ Overtake(id)
           /\ dropped' = dropped \ {<<id, typed>>}
  BY DEF SubmitEdit, id
<1> DEFINE k == IF typed # NoKeys THEN typed ELSE credentials(id)
<1>3. /\ dialog' = NoDialog
      /\ UNCHANGED <<issued, saved, lastActive, active, frozen, failure>>
      /\ UNCHANGED <<link, activating, booted, checks, requests, valid, calls>>
  BY DEF SubmitEdit, ListUnchanged
<1>4. /\ overtaken' \in SUBSET Ids /\ overtaken \subseteq overtaken'
      /\ \A c \in checks : c.id = id => id \in overtaken'
      /\ consent' \in SUBSET Ids
  BY <1>1, <1>2, OvertakeType, ConsentType DEF IInv
<1>5. /\ credentials(id) \in MaybeKey
      /\ credentials(id) \in {session[id], stored[id]}
      /\ credentials(id) = NoKeys => session[id] = NoKeys /\ stored[id] = NoKeys
  BY <1>1, CredentialsType DEF IInv
<1>6. /\ session' \in Keyring /\ stored' \in Keyring
      /\ \A i \in Ids : stored'[i] # NoKeys => (i # id /\ stored[i] # NoKeys) \/ i \in remember'
      /\ DroppedKeysAreGone'
  <2>1. k \in MaybeKey /\ remember' = IF keep THEN remember \cup {id} ELSE remember \ {id}
    BY <1>2, <1>5
  <2>2. dropped' \subseteq dropped /\ <<id, k>> \notin dropped'
    <3>1. CASE typed # NoKeys
      BY <1>2, <3>1
    <3>2. CASE typed = NoKeys
      <4>1. <<id, credentials(id)>> \notin dropped
        BY <1>5 DEF IInv, DroppedKeysAreGone
      <4> QED  BY <1>2, <3>2, <4>1
    <3> QED  BY <3>1, <3>2
  <2>3. CASE k # NoKeys
    <3>1. saveCredentials(id, k, keep)
      BY <1>2, <2>3
    <3>2. /\ session' \in Keyring /\ stored' \in Keyring
          /\ keep => stored' = [stored EXCEPT ![id] = k]
          /\ ~keep => stored' = [stored EXCEPT ![id] = NoKeys]
      BY <1>1, <2>1, <3>1, SaveType DEF IInv
    <3>3. DroppedKeysAreGone'
      BY <1>1, <2>1, <2>2, <3>1, SavedNotDropped DEF IInv
    <3>4. ASSUME NEW i \in Ids, stored'[i] # NoKeys
          PROVE  (i # id /\ stored[i] # NoKeys) \/ i \in remember'
      BY <1>1, <2>1, <3>2, <3>4 DEF IInv, StoreTypes, Keyring
    <3> QED  BY <3>2, <3>3, <3>4
  <2>4. CASE k = NoKeys
    <3>1. UNCHANGED <<session, stored>> /\ stored[id] = NoKeys
      BY <1>2, <1>5, <2>4
    <3>2. DroppedKeysAreGone'
      BY <2>2, <3>1 DEF IInv, DroppedKeysAreGone
    <3> QED  BY <3>1, <3>2 DEF IInv, StoreTypes
  <2> QED  BY <2>3, <2>4
<1>7. StoreTypes' /\ HistoryTypes'
  <2>1. remember' \in SUBSET saved /\ dropped' \subseteq dropped
    BY <1>1, <1>2 DEF IInv, StoreTypes
  <2> QED  BY <1>3, <1>4, <1>6, <2>1 DEF IInv, StoreTypes, HistoryTypes
<1>8. MountTypes' /\ DialogTypes' /\ CallTypes'
  BY <1>3, NothingOpen, SameMount, ListTypes DEF IInv
<1>9. IdsAreIssued' /\ ChecksRemember'
  <2>1. dropped' \subseteq dropped /\ remember \subseteq remember' \cup {id}
    BY <1>2
  <2> QED  BY <1>3, <1>4, <2>1, NothingOpen DEF IInv, IdsAreIssued, ChecksRemember
<1>10. RememberedConnectionIsMounted'
  BY <1>3 DEF IInv, RememberedConnectionIsMounted
<1>11. StoredKeysFollowTheRecord'
  <2>1. remember \subseteq remember' \cup {id}
    BY <1>2
  <2> QED  BY <1>4, <1>6, <2>1 DEF IInv, StoredKeysFollowTheRecord
<1> QED  BY <1>6, <1>7, <1>8, <1>9, <1>10, <1>11 DEF IInv

(* The dialog that asks for keys again: what it writes before it validates. *)
LEMMA TickedBox ==
  ASSUME IInv, NEW id \in S3Ids, Known(id), NEW keep \in BOOLEAN, NEW tick \in BOOLEAN,
         tick => id # Link,
         remember' = IF tick THEN remember \cup {id} ELSE remember,
         IF tick /\ credentials(id) # NoKeys
         THEN saveCredentials(id, credentials(id), TRUE)
         ELSE UNCHANGED <<session, stored>>,
         IF id = Link THEN UNCHANGED consent ELSE Consent(id, keep),
         IF tick THEN Overtake(id) ELSE UNCHANGED overtaken,
         UNCHANGED <<issued, saved, lastActive, active, dropped>>
  PROVE  /\ id \in Ids => id \in saved
         /\ StoreTypes' /\ HistoryTypes' /\ overtaken \subseteq overtaken'
         /\ StoredKeysFollowTheRecord' /\ DroppedKeysAreGone'
<1> USE TypeParts
<1>1. /\ id \in Ids => id \in saved
      /\ id # Link => id \in Ids
      /\ tick => id \in Ids
  BY ConnectionsAssumption DEF Known, S3Ids
<1>2. CASE tick /\ credentials(id) # NoKeys
  <2>1. id \in Ids
    BY <1>1, <1>2
  <2>2. saveCredentials(id, credentials(id), TRUE)
    BY <1>2
  <2>3. /\ credentials(id) \in MaybeKey
        /\ credentials(id) \in {session[id], stored[id]}
    BY <2>1, CredentialsType DEF IInv
  <2>4. /\ session' \in Keyring /\ stored' \in Keyring
        /\ stored' = [stored EXCEPT ![id] = credentials(id)]
    BY <2>1, <2>2, <2>3, SaveType DEF IInv
  <2>5. <<id, credentials(id)>> \notin dropped'
    BY <2>3 DEF IInv, DroppedKeysAreGone
  <2>6. DroppedKeysAreGone'
    BY <2>1, <2>2, <2>3, <2>5, SavedNotDropped DEF IInv
  <2>7. StoreTypes'
    BY <1>1, <1>2, <2>1, <2>4 DEF IInv, StoreTypes
  <2>8. HistoryTypes' /\ overtaken \subseteq overtaken'
    BY <1>2, <2>1, ConnectionsAssumption, OvertakeType, ConsentType DEF IInv, HistoryTypes, S3Ids
  <2>9. ASSUME NEW i \in Ids, stored'[i] # NoKeys
        PROVE  i \in remember' \/ i \in overtaken'
    <3>1. i = id \/ stored[i] # NoKeys
      BY <2>4, <2>9 DEF IInv, StoreTypes, Keyring
    <3> QED  BY <1>2, <2>8, <3>1 DEF IInv, StoredKeysFollowTheRecord
  <2> QED  BY <1>1, <2>6, <2>7, <2>8, <2>9 DEF StoredKeysFollowTheRecord
<1>3. CASE ~(tick /\ credentials(id) # NoKeys)
  <2>1. UNCHANGED <<session, stored>>
    BY <1>3
  <2>2. StoreTypes' /\ remember \subseteq remember'
    BY <1>1, <2>1 DEF IInv, StoreTypes
  <2>3. overtaken' \in SUBSET Ids /\ overtaken \subseteq overtaken'
    BY <1>1, OvertakeType DEF IInv, HistoryTypes
  <2>4. consent' \in SUBSET Ids
    BY <1>1, ConsentType DEF IInv, HistoryTypes
  <2>5. HistoryTypes'
    BY <2>3, <2>4 DEF IInv, HistoryTypes
  <2>6. StoredKeysFollowTheRecord' /\ DroppedKeysAreGone'
    BY <2>1, <2>2, <2>3 DEF IInv, StoredKeysFollowTheRecord, DroppedKeysAreGone
  <2> QED  BY <1>1, <2>2, <2>3, <2>5, <2>6
<1> QED  BY <1>2, <1>3

LEMMA SubmitCredentialsStep ==
  ASSUME IInv, SubmitCredentials
  PROVE  IInv'
<1> USE TypeParts, NextTypeParts
<1> DEFINE id == dialog.id
<1>1. /\ Known(id) /\ id \in S3Ids
      /\ dialog' = [dialog EXCEPT !.busy = TRUE]
      /\ UNCHANGED <<issued, saved, lastActive, link, active, frozen, failure, booted,
                     requests, valid, dropped>>
  BY ConnectionsAssumption
  DEF SubmitCredentials, Known, IInv, DialogTypes, Dialog, StoreTypes, S3Ids
<1>2. dialog' \in Dialog /\ dialog'.view = dialog.view /\ dialog'.id = dialog.id
  BY <1>1 DEF IInv, DialogTypes, Dialog
<1>3. PICK k \in Keys, keep \in BOOLEAN :
        LET tick == keep /\ id # Link
        IN /\ remember' = IF tick THEN remember \cup {id} ELSE remember
           /\ IF tick /\ credentials(id) # NoKeys
              THEN saveCredentials(id, credentials(id), TRUE)
              ELSE UNCHANGED <<session, stored>>
           /\ IF id = Link THEN UNCHANGED consent ELSE Consent(id, keep)
           /\ IF tick THEN Overtake(id) ELSE UNCHANGED overtaken
           /\ Validate(id, k, tick \/ id \in remember, "submit", FALSE)
  BY DEF SubmitCredentials
<1> HIDE DEF id
<1> DEFINE tick == keep /\ id # Link
<1>4. tick \in BOOLEAN /\ (tick => id # Link)
  OBVIOUS
<1>5. /\ remember' = IF tick THEN remember \cup {id} ELSE remember
      /\ IF tick /\ credentials(id) # NoKeys
         THEN saveCredentials(id, credentials(id), TRUE)
         ELSE UNCHANGED <<session, stored>>
      /\ IF id = Link THEN UNCHANGED consent ELSE Consent(id, keep)
      /\ IF tick THEN Overtake(id) ELSE UNCHANGED overtaken
      /\ Validate(id, k, tick \/ id \in remember, "submit", FALSE)
  BY <1>3
<1> HIDE DEF tick
<1>6. /\ id \in Ids => id \in saved
      /\ StoreTypes' /\ HistoryTypes' /\ overtaken \subseteq overtaken'
      /\ StoredKeysFollowTheRecord' /\ DroppedKeysAreGone'
  BY <1>1, <1>4, <1>5, TickedBox
<1>7. (tick \/ id \in remember) \in BOOLEAN
  OBVIOUS
<1>8. /\ checks' \in SUBSET Check /\ calls' \in Nat /\ activating' \in BOOLEAN
      /\ Asked(id, "submit", tick \/ id \in remember)
  BY <1>1, <1>5, <1>7, ValidateType DEF IInv, Origins
<1>9. MountTypes'
  BY <1>1 DEF IInv, MountTypes
<1>10. DialogTypes' /\ CallTypes'
  BY <1>1, <1>2, <1>8 DEF IInv, DialogTypes, CallTypes
<1>11. IdsAreIssued'
  BY <1>1, <1>2, <1>6, <1>8, ConnectionsAssumption
  DEF IInv, IdsAreIssued, Asked, StoreTypes, S3Ids
<1>12. ChecksRemember'
  BY <1>5, <1>6, <1>8 DEF IInv, ChecksRemember, Asked
<1>13. RememberedConnectionIsMounted'
  BY <1>1 DEF IInv, RememberedConnectionIsMounted
<1> QED  BY <1>6, <1>9, <1>10, <1>11, <1>12, <1>13 DEF IInv

LEMMA RequestRejectedStep ==
  ASSUME IInv, NEW r \in requests, RequestRejected(r)
  PROVE  IInv'
<1> USE TypeParts, NextTypeParts
<1>1. /\ requests' = requests \ {r}
      /\ UNCHANGED <<issued, saved, remember, lastActive, link, active, activating,
                     dialog, booted, checks, valid, calls, overtaken, consent>>
  BY DEF RequestRejected
<1>2. frozen' \in BOOLEAN /\ failure' \in Failure
  <2>1. CASE active.id \notin S3Ids
    BY <2>1, SameMount DEF RequestRejected, IInv, MountTypes, DialogTypes
  <2>2. CASE active.id \in S3Ids
    <3>1. frozen' = TRUE
      BY <2>2 DEF RequestRejected
    <3>2. failure' = IF failure = NoFailure
                     THEN [id |-> active.id, cancel |-> TRUE] ELSE failure
      BY <2>2 DEF RequestRejected
    <3>3. [id |-> active.id, cancel |-> TRUE] \in Failure
      BY <2>2 DEF Failure
    <3> QED  BY <3>1, <3>2, <3>3 DEF IInv, DialogTypes
  <2> QED  BY <2>1, <2>2
<1>3. MountTypes'
  BY <1>1, <1>2 DEF IInv, MountTypes
<1>4. DialogTypes'
  BY <1>1, <1>2 DEF IInv, DialogTypes
<1>5. CallTypes'
  BY <1>1 DEF IInv, CallTypes
<1>6. CASE active.id \notin Ids
  <2>1. UNCHANGED <<session, stored, dropped>>
    BY <1>6 DEF RequestRejected, S3Ids
  <2>2. StoreTypes' /\ HistoryTypes'
    BY <1>1, <2>1 DEF IInv, StoreTypes, HistoryTypes
  <2>3. IdsAreIssued' /\ ChecksRemember'
    BY <1>1, <2>1 DEF IInv, IdsAreIssued, ChecksRemember
  <2>4. RememberedConnectionIsMounted' /\ StoredKeysFollowTheRecord' /\ DroppedKeysAreGone'
    BY <1>1, <2>1
    DEF IInv, RememberedConnectionIsMounted, StoredKeysFollowTheRecord, DroppedKeysAreGone
  <2> QED  BY <1>3, <1>4, <1>5, <2>2, <2>3, <2>4 DEF IInv
<1>7. CASE active.id \in Ids
  <2> DEFINE id == active.id
  <2>1. id \in Ids /\ id \in issued
    BY <1>7 DEF IInv, IdsAreIssued
  <2>2. /\ dropCredentials(id)
        /\ dropped' = dropped \cup ({id} \X ({session[id], stored[id]} \ {NoKeys}))
    BY <1>7, ConnectionsAssumption DEF RequestRejected, S3Ids
  <2> HIDE DEF id
  <2>3. /\ session' \in Keyring /\ stored' \in Keyring
        /\ \A i \in Ids : stored'[i] # NoKeys => i # id /\ stored[i] # NoKeys
        /\ \A p \in Ids \X Keys :
                \/ p[1] = id
                \/ session[p[1]] # p[2] /\ stored[p[1]] # p[2]
                => session'[p[1]] # p[2] /\ stored'[p[1]] # p[2]
    BY <2>1, <2>2, DropKeeps DEF IInv
  <2>4. session[id] \in MaybeKey /\ stored[id] \in MaybeKey
    BY <2>1 DEF IInv, StoreTypes, Keyring
  <2>5. /\ dropped' \in SUBSET (Ids \X Keys)
        /\ \A p \in dropped' : p \in dropped \/ p[1] = id
    BY <2>1, <2>2, <2>4 DEF IInv, HistoryTypes, MaybeKey
  <2>6. StoreTypes' /\ HistoryTypes'
    BY <1>1, <2>3, <2>5 DEF IInv, StoreTypes, HistoryTypes
  <2>7. IdsAreIssued' /\ ChecksRemember'
    BY <1>1, <2>1, <2>5 DEF IInv, IdsAreIssued, ChecksRemember
  <2>8. RememberedConnectionIsMounted' /\ StoredKeysFollowTheRecord'
    BY <1>1, <2>3 DEF IInv, RememberedConnectionIsMounted, StoredKeysFollowTheRecord
  <2>9. DroppedKeysAreGone'
    BY <2>3, <2>5 DEF IInv, DroppedKeysAreGone
  <2> QED  BY <1>3, <1>4, <1>5, <2>6, <2>7, <2>8, <2>9 DEF IInv
<1> QED  BY <1>6, <1>7

-----------------------------------------------------------------------------
(* The invariant. *)

LEMMA StepInv == IInv /\ [Next]_vars => IInv'
<1> SUFFICES ASSUME IInv, [Next]_vars
             PROVE  IInv'
  OBVIOUS
<1>1. CASE Load
  BY <1>1, ReloadStep, BootStep, BootBrowserStep DEF Load
<1>2. ASSUME NEW id \in S3Ids \cup {None}, Answer(id)
      PROVE  IInv'
  BY <1>2, CheckPassesStep, CreateCheckPassesStep, CheckFailsStep DEF Answer
<1>3. CASE OpenDialog \/ CloseDialog \/ OpenEditor \/ LeaveFailure
  BY <1>3, DialogStep
<1>4. ASSUME NEW id \in Ids \cup {Browser, Link}, ActivateFromDialog(id)
      PROVE  IInv'
  BY <1>4, ActivateFromDialogStep
<1>5. ASSUME NEW id \in Ids, Duplicate(id) \/ ForgetKeys(id) \/ Remove(id)
      PROVE  IInv'
  BY <1>5, DuplicateStep, ForgetKeysStep, RemoveStep
<1>6. CASE SaveEphemeral \/ SubmitCreate \/ SubmitEdit \/ SubmitCredentials
  BY <1>6, SaveEphemeralStep, SubmitCreateStep, SubmitEditStep, SubmitCredentialsStep
<1>7. CASE Retry
  BY <1>7, RetryStep
<1>8. CASE \/ RequestSent
           \/ \E r \in requests : RequestAnswered(r)
           \/ \E k \in Keys : Expire(k)
  BY <1>8, NetworkStep
<1>9. ASSUME NEW r \in requests, RequestRejected(r)
      PROVE  IInv'
  BY <1>9, RequestRejectedStep
<1>10. CASE UNCHANGED vars
  <2>1. UNCHANGED <<store, screen, checks, requests, valid, calls, history>>
    BY <1>10 DEF vars
  <2>2. TypeOK'
    BY <2>1, TypeParts, QuietTypes DEF IInv, DialogTypes, CallTypes, screen
  <2> QED  BY <2>1, <2>2, QuietStep DEF IInv, IdsAreIssued, screen
<1> QED
  BY <1>1, <1>2, <1>3, <1>4, <1>5, <1>6, <1>7, <1>8, <1>9, <1>10 DEF Next

LEMMA Invariant == Spec => []IInv
BY InitInv, StepInv, PTL DEF Spec

\* The variables keep their types whatever the user, the bucket and reloads do.
THEOREM Types == Spec => []TypeOK
BY Invariant, PTL DEF IInv

\* Keys a rejection dropped stay out of memory and local storage, for any
\* number of connections, keys and validations under way.
THEOREM DroppedKeysStayGone == Spec => []DroppedKeysAreGone
BY Invariant, PTL DEF IInv

\* Keys are on disk only for a record that asks for it, unless the record
\* changed while it was being validated.
THEOREM StorageFollowsTheRecord == Spec => []StoredKeysFollowTheRecord
BY Invariant, PTL DEF IInv

\* A reload comes back to the connection that is mounted, whichever of several
\* activations ended last.
THEOREM ReloadComesBack == Spec => []RememberedConnectionIsMounted
BY Invariant, PTL DEF IInv
=============================================================================
