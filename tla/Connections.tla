---------------------------- MODULE Connections ----------------------------
(***************************************************************************)
(* The volumes of cloud mode: the registry of saved S3 connections and     *)
(* their access keys (web/src/connections/registry.ts) and the provider    *)
(* that mounts one of them (web/src/connections/ConnectionContext.tsx).    *)
(*                                                                         *)
(* Three memories outlive each other: `stored' and `lastActive' are local  *)
(* storage and survive a reload; `session', `link' and the mounted backend *)
(* are the tab's.  Validating keys (HeadBucket) and every request of a     *)
(* backend are asynchronous: they sit in `checks' and `requests' and are   *)
(* answered in any order, also after the connection they belong to was     *)
(* edited, forgotten, removed or replaced.                                 *)
(*                                                                         *)
(* A connection is its id.  Its name and bucket settings do not decide any *)
(* step below and are left out; keys are model values.                     *)
(***************************************************************************)
EXTENDS Naturals

CONSTANTS
    Ids,         \* ids of saved connections (random UUIDs: never used twice)
    Keys,        \* access keys
    Browser,     \* BROWSER_CONNECTION_ID
    Link,        \* EPHEMERAL_CONNECTION_ID, a connection opened by a link
    NoKeys,      \* no credentials
    None,        \* no connection
    MaxCalls     \* bound: validations, requests and reloads of a behaviour

ASSUME ConnectionsAssumption ==
    /\ Browser \notin Ids /\ Link \notin Ids /\ None \notin Ids
    /\ Browser # Link /\ None # Browser /\ None # Link
    /\ NoKeys \notin Keys
    /\ MaxCalls \in Nat

VARIABLES
    issued,      \* ids createId ever returned
    saved,       \* the saved records
    remember,    \* the records with rememberKeys
    session,     \* sessionKeys: keys held in memory
    stored,      \* keys in local storage
    lastActive,  \* the active connection's id in local storage
    link,        \* keys of the ephemeral connection, NoKeys when there is none
    active,      \* the mounted volume and the keys its backend was made with
    frozen,      \* frozen and authExpired, which are set together
    activating,  \* the `activating' flag
    dialog,      \* the open dialog and the connection it is about
    failure,     \* the failed connection and whether Cancel is offered
    booted,      \* the boot request has been resolved
    checks,      \* HeadBucket validations under way
    requests,    \* requests of mounted (or once mounted) S3 backends
    valid,       \* keys the bucket still accepts
    calls,       \* bound: calls made so far
    dropped,     \* history: keys a rejection dropped and nobody gave again
    overtaken,   \* history: records changed while a check of them was under way
    consent      \* history: connections the user last asked to remember

store   == <<issued, saved, remember, session, stored, lastActive>>
screen  == <<link, active, frozen, activating, dialog, failure, booted>>
history == <<dropped, overtaken, consent>>
vars    == <<store, screen, checks, requests, valid, calls, history>>

S3Ids    == Ids \cup {Link}
MaybeKey == Keys \cup {NoKeys}
Origins  == {"boot", "dialog", "retry", "submit", "create", "save"}
Views    == {"none", "list", "create", "edit", "credentials"}

Check   == [id : S3Ids \cup {None}, keys : Keys, remember : BOOLEAN,
            from : Origins, cancel : BOOLEAN]
Dialog  == [view : Views, id : S3Ids \cup {None}, busy : BOOLEAN]
Failure == [id : S3Ids \cup {None}, cancel : BOOLEAN]

NoDialog    == [view |-> "none", id |-> None, busy |-> FALSE]
Open(v, id) == [view |-> v, id |-> id, busy |-> FALSE]
NoFailure   == [id |-> None, cancel |-> FALSE]

-----------------------------------------------------------------------------
(* The registry *)

credentials(id) == IF session[id] # NoKeys THEN session[id] ELSE stored[id]
credentialsFor(id) == IF id = Link THEN link ELSE credentials(id)

\* recordFor(id) finds a record.
Known(id) == id = Browser \/ id \in saved \/ (id = Link /\ link # NoKeys)

\* The id local storage names, Browser storage when it names no record.
activeId == IF lastActive \in saved THEN lastActive ELSE Browser

\* Mutated: unticking the box leaves the keys on disk.
saveCredentialsOver(id, k, keep) ==
    /\ session' = [session EXCEPT ![id] = k]
    /\ stored'  = IF keep THEN [stored EXCEPT ![id] = k] ELSE stored

saveCredentials(id, k, keep) ==
    /\ session' = [session EXCEPT ![id] = k]
    /\ stored'  = [stored EXCEPT ![id] = IF keep THEN k ELSE NoKeys]

\* Mutated: only the copy in memory is dropped.
dropFromMemory(id) ==
    /\ session' = [session EXCEPT ![id] = NoKeys]
    /\ UNCHANGED stored

dropCredentials(id) ==
    /\ session' = [session EXCEPT ![id] = NoKeys]
    /\ stored'  = [stored EXCEPT ![id] = NoKeys]

\* A change to a record that a validation of the same connection, which read
\* the record before, does not see.
Overtake(id) ==
    overtaken' = IF \E c \in checks : c.id = id THEN overtaken \cup {id} ELSE overtaken

Consent(id, keep) == consent' = IF keep THEN consent \cup {id} ELSE consent \ {id}

-----------------------------------------------------------------------------
(* Activation *)

Call == calls < MaxCalls /\ calls' = calls + 1

\* The part of activate after the keys are known, up to its await.
Validate(id, k, keep, from, cancel) ==
    /\ Call
    /\ checks' = checks \cup {[id |-> id, keys |-> k, remember |-> keep,
                               from |-> from, cancel |-> cancel]}
    /\ activating' = (activating \/ from # "create")

\* activate of an S3 connection without typed keys, from the list or a Retry.
ActivateStored(id, from, cancel) ==
    IF credentialsFor(id) = NoKeys
    THEN /\ dialog' = Open("credentials", id)
         /\ UNCHANGED <<checks, activating, calls>>
    ELSE /\ Validate(id, credentialsFor(id), id \in remember, from, cancel)
         /\ UNCHANGED dialog

\* activate of Browser storage: it awaits nothing.
MountBrowser ==
    /\ lastActive' = Browser
    /\ active'  = [id |-> Browser, keys |-> NoKeys]
    /\ frozen'  = FALSE
    /\ failure' = NoFailure

UiFree == booted /\ dialog = NoDialog /\ failure = NoFailure

-----------------------------------------------------------------------------
(* Loading the page *)

FreshTab ==
    /\ session = [id \in Ids |-> NoKeys]
    /\ link = NoKeys
    /\ active = [id |-> Browser, keys |-> NoKeys]
    /\ frozen = FALSE /\ activating = FALSE
    /\ dialog = NoDialog /\ failure = NoFailure
    /\ booted = FALSE
    /\ checks = {} /\ requests = {}

\* A profile that used the application before: some records, keys on disk only
\* for those that ask for it, one of them (or Browser storage) active last.
Init ==
    /\ issued \in SUBSET Ids
    /\ saved = issued
    /\ remember \in SUBSET saved
    /\ stored \in [Ids -> MaybeKey]
    /\ \A id \in Ids : stored[id] # NoKeys => id \in remember
    /\ lastActive \in saved \cup {Browser}
    /\ FreshTab
    /\ valid = Keys /\ calls = 0
    /\ dropped = {} /\ overtaken = {} /\ consent = remember

Reload ==
    /\ booted
    /\ booted' = FALSE
    /\ Call
    /\ session' = [id \in Ids |-> NoKeys]
    /\ link' = NoKeys
    /\ active' = [id |-> Browser, keys |-> NoKeys]
    /\ frozen' = FALSE /\ activating' = FALSE
    /\ dialog' = NoDialog /\ failure' = NoFailure
    /\ checks' = {} /\ requests' = {}
    /\ UNCHANGED <<issued, saved, remember, stored, lastActive, valid, history>>

BootUnchanged == UNCHANGED <<store, link, active, frozen, failure, requests, valid, history>>

\* resolveBootRequest with ?connect=ask, and with ?connect=new when the link
\* lacks keys or settings.
BootDialog ==
    /\ ~booted /\ booted' = TRUE
    /\ \E v \in {"list", "create"} : dialog' = Open(v, None)
    /\ UNCHANGED <<activating, checks, calls>>
    /\ BootUnchanged

\* ?connect=new with keys.  connectFromUrl puts the record in ephemeralRef,
\* which the next render (setActivating causes one) resets to the state, still
\* null: until the check passes only the call under way knows the keys.
BootLink ==
    /\ ~booted /\ booted' = TRUE
    /\ \E k \in Keys : Validate(Link, k, FALSE, "boot", FALSE)
    /\ UNCHANGED dialog
    /\ BootUnchanged

\* ?connect=saved:name.
BootSaved ==
    /\ ~booted /\ booted' = TRUE
    /\ \E id \in saved : ActivateStored(id, "boot", FALSE)
    /\ BootUnchanged

\* ?connect=saved: with the name of Browser storage.
BootBrowser ==
    /\ ~booted /\ booted' = TRUE
    /\ MountBrowser
    /\ UNCHANGED <<issued, saved, remember, session, stored, link, activating, dialog,
                   checks, requests, valid, calls, history>>

\* No intent: reconnect to the volume that was active last, if its keys are here.
BootRemembered ==
    /\ ~booted /\ booted' = TRUE
    /\ IF activeId # Browser /\ credentials(activeId) # NoKeys
       THEN ActivateStored(activeId, "boot", FALSE)
       ELSE UNCHANGED <<checks, activating, dialog, calls>>
    /\ BootUnchanged

-----------------------------------------------------------------------------
(* The answer to a validation *)

\* Mutated: the registry is not told which connection is active.
KeepKeys(c) ==
    /\ IF c.id = Link
       THEN link' = c.keys /\ UNCHANGED <<session, stored>>
       ELSE saveCredentials(c.id, c.keys, c.remember) /\ UNCHANGED link
    /\ UNCHANGED lastActive

\* What activate writes down of a connection whose keys were accepted.
Keep(c) ==
    IF c.id = Link
    THEN /\ link' = c.keys
         /\ UNCHANGED <<session, stored, lastActive>>
    ELSE /\ saveCredentials(c.id, c.keys, c.remember)
         /\ lastActive' = c.id
         /\ UNCHANGED link

\* The check is done and activate finishes in the same turn.
FinishActivate(c) ==
    /\ Keep(c)
    /\ active'  = [id |-> c.id, keys |-> c.keys]
    /\ frozen'  = FALSE
    /\ failure' = NoFailure
    /\ activating' = FALSE
    /\ dialog'  = IF c.from = "submit" \/ (c.from = "dialog" /\ dialog.view = "list")
                  THEN NoDialog ELSE dialog
    /\ checks'  = checks \ {c}
    /\ dropped' = dropped \ {<<c.id, c.keys>>}

CheckPasses(c) ==
    /\ c.from # "create" /\ c.keys \in valid
    /\ FinishActivate(c)
    /\ UNCHANGED <<issued, saved, remember, booted, requests, valid, calls, overtaken,
                   consent>>

\* submitEditor("create"): the new keys were accepted; the record is created
\* with them and activated, which validates them a second time.
CreateCheckPasses(c) ==
    /\ c.from = "create" /\ c.keys \in valid
    /\ \E id \in Ids \ issued :
        /\ issued' = issued \cup {id}
        /\ saved'  = saved \cup {id}
        /\ remember' = IF c.remember THEN remember \cup {id} ELSE remember
        /\ saveCredentials(id, c.keys, c.remember)
        /\ Consent(id, c.remember)
        /\ checks' = (checks \ {c}) \cup {[c EXCEPT !.id = id, !.from = "submit"]}
    /\ Call
    /\ activating' = TRUE
    /\ UNCHANGED <<lastActive, link, active, frozen, dialog, failure, booted,
                   requests, valid, dropped, overtaken>>

\* Mutated: an error leaves the activating flag set.
CheckFailsBusy(c) ==
    /\ checks' = checks \ {c}
    /\ failure' = IF c.from \in {"boot", "retry"}
                  THEN [id |-> c.id, cancel |-> c.cancel] ELSE failure
    /\ UNCHANGED <<store, link, active, frozen, activating, dialog, booted, requests,
                   valid, calls, history>>

\* Refused, or no answer at all: each caller reports it its own way.
CheckFails(c) ==
    /\ checks' = checks \ {c}
    /\ activating' = (activating /\ c.from = "create")
    /\ failure' = IF c.from \in {"boot", "retry"}
                  THEN [id |-> c.id, cancel |-> c.cancel] ELSE failure
    /\ dialog' = IF c.from \in {"submit", "create"}
                 THEN [dialog EXCEPT !.busy = FALSE] ELSE dialog
    /\ UNCHANGED <<store, link, active, frozen, booted, requests, valid, calls, history>>

-----------------------------------------------------------------------------
(* The dialogs *)

OpenDialog ==
    /\ UiFree
    /\ \/ dialog' = Open("list", None)
       \/ dialog' = Open("create", None)
       \/ /\ frozen                              \* the banner's Reconnect
          /\ dialog' = IF active.id = Browser THEN Open("list", None)
                       ELSE Open("credentials", active.id)
    /\ UNCHANGED <<store, link, active, frozen, activating, failure, booted,
                   checks, requests, valid, calls, history>>

ListUnchanged == UNCHANGED <<link, activating, booted, checks, requests, valid, calls>>

\* Cancel of an editor is off while it submits, closing the window is not.
CloseDialog ==
    /\ dialog # NoDialog
    /\ dialog' = NoDialog
    /\ UNCHANGED <<store, active, frozen, failure, history>>
    /\ ListUnchanged

OpenEditor ==
    /\ dialog.view = "list"
    /\ \/ ~activating /\ dialog' = Open("create", None)
       \/ \E id \in saved : dialog' = Open("edit", id)
    /\ UNCHANGED <<store, active, frozen, failure, history>>
    /\ ListUnchanged

ActivateFromDialog(id) ==
    /\ dialog.view = "list" /\ ~activating /\ Known(id)
    /\ IF id = Browser
       THEN /\ MountBrowser
            /\ dialog' = NoDialog
            /\ UNCHANGED <<checks, activating, calls>>
       ELSE /\ ActivateStored(id, "dialog", FALSE)
            /\ UNCHANGED <<lastActive, active, frozen, failure>>
    /\ UNCHANGED <<issued, saved, remember, session, stored, link, booted,
                   requests, valid, history>>

Duplicate(id) ==
    /\ dialog.view = "list" /\ id \in saved
    /\ \E new \in Ids \ issued :
        /\ issued' = issued \cup {new}
        /\ saved'  = saved \cup {new}
        /\ remember' = IF id \in remember THEN remember \cup {new} ELSE remember
        /\ Consent(new, id \in consent)
        /\ IF credentials(id) # NoKeys
           THEN saveCredentials(new, credentials(id), id \in remember)
           ELSE UNCHANGED <<session, stored>>
    /\ UNCHANGED <<lastActive, active, frozen, dialog, failure, dropped, overtaken>>
    /\ ListUnchanged

ForgetKeys(id) ==
    /\ dialog.view = "list" /\ id \in saved /\ stored[id] # NoKeys
    /\ dropCredentials(id)
    /\ remember' = remember \ {id}
    /\ Consent(id, FALSE)
    /\ Overtake(id)
    /\ UNCHANGED <<issued, saved, lastActive, active, frozen, dialog, failure, dropped>>
    /\ ListUnchanged

\* Removing the mounted connection activates Browser storage.
Remove(id) ==
    /\ dialog.view = "list" /\ id \in saved
    /\ saved' = saved \ {id}
    /\ remember' = remember \ {id}
    /\ dropCredentials(id)
    /\ Consent(id, FALSE)
    /\ Overtake(id)
    /\ IF active.id = id
       THEN MountBrowser
       ELSE /\ lastActive' = IF lastActive = id THEN Browser ELSE lastActive
            /\ UNCHANGED <<active, frozen, failure>>
    /\ UNCHANGED <<issued, dialog, dropped>>
    /\ ListUnchanged

\* Mutated: the link's keys are cleared before the activation reads them.
SaveEphemeralCleared ==
    /\ booted /\ link # NoKeys
    /\ link' = NoKeys
    /\ \E id \in Ids \ issued :
        /\ issued' = issued \cup {id}
        /\ saved'  = saved \cup {id}
        /\ saveCredentials(id, link', FALSE)
        /\ Consent(id, FALSE)
        /\ Validate(id, link', FALSE, "save", FALSE)
    /\ UNCHANGED <<remember, lastActive, active, frozen, dialog, failure, booted,
                   requests, valid, dropped, overtaken>>

\* saveEphemeral, from the list or from the toast of a link: the record is
\* created without rememberKeys, then activated with the link's keys.
SaveEphemeral ==
    /\ booted /\ link # NoKeys
    /\ \E id \in Ids \ issued :
        /\ issued' = issued \cup {id}
        /\ saved'  = saved \cup {id}
        /\ saveCredentials(id, link, FALSE)
        /\ Consent(id, FALSE)
        /\ Validate(id, link, FALSE, "save", FALSE)
    /\ link' = NoKeys
    /\ UNCHANGED <<remember, lastActive, active, frozen, dialog, failure, booted,
                   requests, valid, dropped, overtaken>>

\* submitEditor("create"): validate before there is a record.
SubmitCreate ==
    /\ dialog.view = "create" /\ ~dialog.busy
    /\ \E k \in Keys, keep \in BOOLEAN : Validate(None, k, keep, "create", FALSE)
    /\ dialog' = [dialog EXCEPT !.busy = TRUE]
    /\ UNCHANGED <<store, link, active, frozen, failure, booted, requests, valid, history>>

\* submitEditor("edit"): registry.update with the box and, if typed, keys; the
\* mounted backend keeps those it has.
SubmitEdit ==
    /\ dialog.view = "edit"
    /\ \E typed \in MaybeKey, keep \in BOOLEAN :
        LET id == dialog.id
            k  == IF typed # NoKeys THEN typed ELSE credentials(id)
        IN /\ remember' = IF keep THEN remember \cup {id} ELSE remember \ {id}
           /\ IF k # NoKeys THEN saveCredentials(id, k, keep)
              ELSE UNCHANGED <<session, stored>>
           /\ Consent(id, keep)
           /\ Overtake(id)
           /\ dropped' = dropped \ {<<id, typed>>}
    /\ dialog' = NoDialog
    /\ UNCHANGED <<issued, saved, lastActive, active, frozen, failure>>
    /\ ListUnchanged

\* submitEditor("credentials"): ticking the box updates the record (and stores
\* the keys it still has), leaving it blank does not.  Then activate.
SubmitCredentials ==
    /\ dialog.view = "credentials" /\ ~dialog.busy /\ Known(dialog.id)
    /\ \E k \in Keys, keep \in BOOLEAN :
        LET id   == dialog.id
            tick == keep /\ id # Link
        IN /\ remember' = IF tick THEN remember \cup {id} ELSE remember
           /\ IF tick /\ credentials(id) # NoKeys
              THEN saveCredentials(id, credentials(id), TRUE)
              ELSE UNCHANGED <<session, stored>>
           /\ IF id = Link THEN UNCHANGED consent ELSE Consent(id, keep)
           /\ IF tick THEN Overtake(id) ELSE UNCHANGED overtaken
           /\ Validate(id, k, tick \/ id \in remember, "submit", FALSE)
    /\ dialog' = [dialog EXCEPT !.busy = TRUE]
    /\ UNCHANGED <<issued, saved, lastActive, link, active, frozen, failure, booted,
                   requests, valid, dropped>>

\* The failure dialog is drawn when no other dialog is.
Retry ==
    /\ failure # NoFailure /\ dialog = NoDialog /\ ~activating
    /\ IF Known(failure.id)
       THEN /\ failure' = NoFailure
            /\ ActivateStored(failure.id, "retry", failure.cancel)
       ELSE UNCHANGED <<failure, dialog, checks, activating, calls>>  \* unknown connection
    /\ UNCHANGED <<store, link, active, frozen, booted, requests, valid, history>>

LeaveFailure ==
    /\ failure # NoFailure /\ dialog = NoDialog
    /\ failure' = NoFailure
    /\ \/ ~activating /\ dialog' = Open("list", None)   \* Use a different connection
       \/ failure.cancel /\ UNCHANGED dialog            \* Cancel
    /\ UNCHANGED <<store, active, frozen, history>>
    /\ ListUnchanged

-----------------------------------------------------------------------------
(* Requests of the mounted backend *)

RequestSent ==
    /\ active.id \in S3Ids /\ ~frozen
    /\ Call
    /\ requests' = requests \cup {[id |-> active.id, keys |-> active.keys]}
    /\ UNCHANGED <<store, screen, checks, valid, history>>

RequestAnswered(r) ==
    /\ r.keys \in valid
    /\ requests' = requests \ {r}
    /\ UNCHANGED <<store, screen, checks, valid, calls, history>>

\* handleAuthError looks at the connection that is active now, not at the one
\* whose request was rejected.  A request the network lost counts as rejected
\* too (isS3BrowserTransportError).
RequestRejected(r) ==
    /\ requests' = requests \ {r}
    /\ IF active.id \notin S3Ids
       THEN UNCHANGED <<session, stored, frozen, failure, dropped>>
       ELSE /\ frozen' = TRUE
            /\ failure' = IF failure = NoFailure
                          THEN [id |-> active.id, cancel |-> TRUE] ELSE failure
            /\ IF active.id = Link
               THEN UNCHANGED <<session, stored, dropped>>
               ELSE /\ dropCredentials(active.id)
                    /\ dropped' = dropped \cup
                         ({active.id} \X ({session[active.id], stored[active.id]} \ {NoKeys}))
    /\ UNCHANGED <<issued, saved, remember, lastActive, link, active, activating,
                   dialog, booted, checks, valid, calls, overtaken, consent>>

\* Temporary keys expire.
Expire(k) ==
    /\ valid' = valid \ {k}
    /\ UNCHANGED <<store, screen, checks, requests, calls, history>>

-----------------------------------------------------------------------------
Load == Reload \/ BootDialog \/ BootLink \/ BootSaved \/ BootBrowser \/ BootRemembered

Answer(id) ==
    \E c \in checks :
        c.id = id /\ (CheckPasses(c) \/ CreateCheckPasses(c) \/ CheckFails(c))

Next ==
    \/ Load
    \/ \E id \in S3Ids \cup {None} : Answer(id)
    \/ OpenDialog \/ CloseDialog \/ OpenEditor
    \/ \E id \in Ids \cup {Browser, Link} : ActivateFromDialog(id)
    \/ \E id \in Ids : Duplicate(id) \/ ForgetKeys(id) \/ Remove(id)
    \/ SaveEphemeral \/ SubmitCreate \/ SubmitEdit \/ SubmitCredentials
    \/ Retry \/ LeaveFailure
    \/ RequestSent
    \/ \E r \in requests : RequestAnswered(r) \/ RequestRejected(r)
    \/ \E k \in Keys : Expire(k)

\* A validation is one HTTP request, which the browser answers or gives up.
Fairness == \A id \in S3Ids \cup {None} : WF_vars(Answer(id))

Spec == Init /\ [][Next]_vars /\ Fairness

-----------------------------------------------------------------------------
(* Properties *)

\* The variables keep the shapes the declarations give them.
TypeOK ==
    /\ issued \in SUBSET Ids /\ saved \in SUBSET issued /\ remember \in SUBSET saved
    /\ session \in [Ids -> MaybeKey] /\ stored \in [Ids -> MaybeKey]
    /\ lastActive \in Ids \cup {Browser}
    /\ link \in MaybeKey
    /\ active \in [id : S3Ids \cup {Browser}, keys : MaybeKey]
    /\ frozen \in BOOLEAN /\ activating \in BOOLEAN /\ booted \in BOOLEAN
    /\ dialog \in Dialog /\ failure \in Failure
    /\ checks \in SUBSET Check
    /\ requests \in SUBSET [id : S3Ids, keys : Keys]
    /\ valid \in SUBSET Keys /\ calls \in Nat
    /\ dropped \in SUBSET (Ids \X Keys)
    /\ overtaken \in SUBSET Ids /\ consent \in SUBSET Ids

\* Keys dropped after a rejection stay dropped, in memory and on disk, across
\* reloads, edits, duplicates and activations that were under way, until the
\* user types them again or the bucket accepts them again.
DroppedKeysAreGone ==
    \A p \in dropped : session[p[1]] # p[2] /\ stored[p[1]] # p[2]

\* Keys are on disk only for a record that says so.  The one exception is a
\* record that was removed, forgotten or edited while it was being validated:
\* activate then stores the keys by the record it read before its await.
StoredKeysFollowTheRecord ==
    \A id \in Ids : stored[id] # NoKeys => id \in remember \/ id \in overtaken

\* The connection a reload will come back to is the mounted one, whichever of
\* several activations ended last and whatever was removed meanwhile.
RememberedConnectionIsMounted ==
    active.id \in Ids => lastActive = active.id

\* The dialogs are not left busy: an activation ends, however its check does.
EveryActivationEnds == activating ~> ~activating

\* design.md: with "Remember keys on this device" off, keys never reach any
\* storage.  The code ignores an unticked box when it asks for keys again.
StoredKeysWereAskedFor ==
    \A id \in Ids : stored[id] # NoKeys => id \in consent
=============================================================================
