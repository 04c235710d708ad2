---------------------------- MODULE UserLifecycle -----------------------------
(***************************************************************************)
(* What one user's removal deletes (remove_user in routes.py): devices,    *)
(* log entries with their images, and at last the user document, while     *)
(* unlock calls add entries and images and administrators enrol, register  *)
(* devices and repeat the removal.  Every Firestore or Storage access is a *)
(* step.  The PIN document, deleted first, is in PinGate.                  *)
(***************************************************************************)
EXTENDS FiniteSets

CONSTANTS
    Face,       \* face unlock calls that matched the user: entry with image
    PinCall,    \* PIN calls for the user: entry without image
    Device,     \* device documents
    Remover,    \* administrators calling remove_user
    Nobody      \* no entry in hand

ASSUME KindAssumption ==
    /\ Face \cap PinCall = {} /\ Face \cap Device = {} /\ PinCall \cap Device = {}
    /\ Nobody \notin Face \cup PinCall

Event == Face \cup PinCall

VARIABLES
    user,       \* the user document exists
    devices,    \* users/<id>/devices
    entry,      \* the log entry of each call
    images,     \* calls whose image is in the bucket
    call,       \* progress of each call
    at,         \* progress of each removal
    todo,       \* documents it has listed and not dealt with
    hand,       \* the entry it is dealing with
    failures,   \* whether an image could not be deleted
    found       \* history: devices, entries and images of finished calls that
                \* there were when it began and that were not made anew

documents == <<user, devices, entry, images>>
removal == <<at, todo, hand, failures, found>>
vars == <<documents, call, removal>>

Stored == {e \in Event : entry[e] \in {"present", "pending"}}

Init ==
    /\ user = TRUE
    /\ devices = {} /\ images = {}
    /\ entry = [e \in Event |-> "none"]
    /\ call = [e \in Event |-> "none"]
    /\ at = [r \in Remover |-> "idle"]
    /\ todo = [r \in Remover |-> {}]
    /\ hand = [r \in Remover |-> Nobody]
    /\ failures = [r \in Remover |-> FALSE]
    /\ found = [r \in Remover |-> {}]

-----------------------------------------------------------------------------
(* Unlock calls; they have found the user in a snapshot and go on with it. *)

\* Variant of Match: PIN calls store an image as well.
MatchAlwaysImage(e) ==
    /\ call[e] = "none"
    /\ user
    /\ call' = [call EXCEPT ![e] = "upload"]
    /\ UNCHANGED <<documents, removal>>

Match(e) ==
    /\ call[e] = "none"
    /\ user
    /\ call' = [call EXCEPT ![e] = IF e \in Face THEN "upload" ELSE "add"]
    /\ UNCHANGED <<documents, removal>>

\* An upload that raised may or may not have stored the image; the entry is
\* added in either case.
Upload(e) ==
    /\ call[e] = "upload"
    /\ call' = [call EXCEPT ![e] = "add"]
    /\ images' \in {images, images \cup {e}}
    /\ UNCHANGED <<user, devices, entry, removal>>

\* _log_event and _pin_log are best effort, and the call may be killed first.
Add(e) ==
    /\ call[e] = "add"
    /\ call' = [call EXCEPT ![e] = "done"]
    /\ \/ entry' = [entry EXCEPT ![e] = "present"]
       \/ UNCHANGED entry
    /\ UNCHANGED <<user, devices, images, removal>>

-----------------------------------------------------------------------------
(* Other administrators.                                                   *)

Register ==
    /\ user' = TRUE
    /\ UNCHANGED <<devices, entry, images, call, removal>>

\* store_device_token does not ask whether there is a user.
RegisterDevice(d) ==
    /\ devices' = devices \cup {d}
    /\ found' = [r \in Remover |-> found[r] \ {d}]
    /\ UNCHANGED <<user, entry, images, call, at, todo, hand, failures>>

-----------------------------------------------------------------------------
(* remove_user.                                                            *)

Goto(r, step) == at' = [at EXCEPT ![r] = step]

Begin(r) ==
    /\ at[r] \in {"idle", "ok", "error"}
    /\ Goto(r, "devices")
    /\ found' = [found EXCEPT ![r] = devices \cup Stored \cup {e \in images : call[e] = "done"}]
    /\ failures' = [failures EXCEPT ![r] = FALSE]
    /\ UNCHANGED <<documents, call, todo, hand>>

ListDevices(r) ==
    /\ at[r] = "devices"
    /\ Goto(r, "device")
    /\ todo' = [todo EXCEPT ![r] = devices]
    /\ UNCHANGED <<documents, call, hand, failures, found>>

DeleteDevice(r, d) ==
    /\ at[r] = "device"
    /\ d \in todo[r]
    /\ todo' = [todo EXCEPT ![r] = @ \ {d}]
    /\ devices' = devices \ {d}
    /\ UNCHANGED <<user, entry, images, call, at, hand, failures, found>>

\* Variant of ListLogs: entries marked by an earlier removal are passed over.
ListUnmarkedLogs(r) ==
    /\ at[r] = "device"
    /\ todo[r] = {}
    /\ Goto(r, "logs")
    /\ todo' = [todo EXCEPT ![r] = {e \in Event : entry[e] = "present"}]
    /\ UNCHANGED <<documents, call, hand, failures, found>>

\* _delete_user_logs' query.
ListLogs(r) ==
    /\ at[r] = "device"
    /\ todo[r] = {}
    /\ Goto(r, "logs")
    /\ todo' = [todo EXCEPT ![r] = Stored]
    /\ UNCHANGED <<documents, call, hand, failures, found>>

Take(r, e, step) ==
    /\ at[r] = "logs"
    /\ e \in todo[r]
    /\ todo' = [todo EXCEPT ![r] = @ \ {e}]
    /\ hand' = [hand EXCEPT ![r] = e]
    /\ Goto(r, step)

\* Variant of DeleteImage: a missing image counts as a failure.
DeleteExistingImage(r, e) ==
    /\ e \in Face /\ e \in images
    /\ Take(r, e, "drop")
    /\ images' = images \ {e}
    /\ UNCHANGED <<user, devices, entry, call, failures, found>>

\* The image is deleted, or was not there (404).
DeleteImage(r, e) ==
    /\ e \in Face
    /\ Take(r, e, "drop")
    /\ images' = images \ {e}
    /\ UNCHANGED <<user, devices, entry, call, failures, found>>

\* Variant of FailImage: the entry is deleted nevertheless.
FailImageAndGoOn(r, e) ==
    /\ e \in Face
    /\ Take(r, e, "drop")
    /\ failures' = [failures EXCEPT ![r] = TRUE]
    /\ images' \in {images, images \ {e}}
    /\ UNCHANGED <<user, devices, entry, call, found>>

\* The deletion raised, with or without effect (or there is no bucket).
FailImage(r, e) ==
    /\ e \in Face
    /\ Take(r, e, "mark")
    /\ failures' = [failures EXCEPT ![r] = TRUE]
    /\ images' \in {images, images \ {e}}
    /\ UNCHANGED <<user, devices, entry, call, found>>

\* An entry without image is only to be deleted.
NoImage(r, e) ==
    /\ e \in PinCall
    /\ Take(r, e, "drop")
    /\ UNCHANGED <<documents, call, failures, found>>

\* Variant of Mark: set in place of update, which creates a missing document.
MarkBySet(r) ==
    /\ at[r] = "mark"
    /\ \/ entry' = [entry EXCEPT ![hand[r]] = "pending"]
       \/ UNCHANGED entry
    /\ Goto(r, "logs")
    /\ hand' = [hand EXCEPT ![r] = Nobody]
    /\ UNCHANGED <<user, devices, images, call, todo, failures, found>>

\* _mark_log_deletion_pending: update raises if another removal has deleted
\* the entry; any failure is only logged.
Mark(r) ==
    /\ at[r] = "mark"
    /\ \/ hand[r] \in Stored /\ entry' = [entry EXCEPT ![hand[r]] = "pending"]
       \/ UNCHANGED entry
    /\ Goto(r, "logs")
    /\ hand' = [hand EXCEPT ![r] = Nobody]
    /\ UNCHANGED <<user, devices, images, call, todo, failures, found>>

Drop(r) ==
    /\ at[r] = "drop"
    /\ entry' = [entry EXCEPT ![hand[r]] = "gone"]
    /\ Goto(r, "logs")
    /\ hand' = [hand EXCEPT ![r] = Nobody]
    /\ UNCHANGED <<user, devices, images, call, todo, failures, found>>

\* DeletionIncompleteError if an image could not be deleted.
EndLogs(r) ==
    /\ at[r] = "logs"
    /\ todo[r] = {}
    /\ Goto(r, IF failures[r] THEN "error" ELSE "user")
    /\ UNCHANGED <<documents, call, todo, hand, failures, found>>

DeleteUser(r) ==
    /\ at[r] = "user"
    /\ Goto(r, "ok")
    /\ user' = FALSE
    /\ UNCHANGED <<devices, entry, images, call, todo, hand, failures, found>>

\* An access raises, after or without its effect, or the call is killed.
Fail(r) ==
    /\ at[r] \notin {"idle", "ok", "error"}
    /\ Goto(r, "error")
    /\ todo' = [todo EXCEPT ![r] = {}]
    /\ hand' = [hand EXCEPT ![r] = Nobody]
    /\ UNCHANGED <<documents, call, failures, found>>

Proceed(r) ==
    \/ Begin(r) \/ ListDevices(r) \/ ListLogs(r)
    \/ \E d \in Device : DeleteDevice(r, d)
    \/ \E e \in Event : DeleteImage(r, e) \/ NoImage(r, e)
    \/ Mark(r) \/ Drop(r) \/ EndLogs(r) \/ DeleteUser(r)

Faulty(r) == Fail(r) \/ \E e \in Event : FailImage(r, e)

Remove(r) == Proceed(r) \/ Faulty(r)

Next ==
    \/ \E e \in Event : Match(e) \/ Upload(e) \/ Add(e)
    \/ Register
    \/ \E d \in Device : RegisterDevice(d)
    \/ \E r \in Remover : Remove(r)

Spec == Init /\ [][Next]_vars

\* An administrator repeats a removal that has not succeeded, and accesses
\* fail only for a while.
Fairness ==
    /\ \A r \in Remover : WF_vars(at[r] # "ok" /\ Proceed(r))
    /\ <>[][\A r \in Remover : ~ Faulty(r)]_vars

FairSpec == Spec /\ Fairness

-----------------------------------------------------------------------------
\* Every variable keeps its type.
TypeOK ==
    /\ user \in BOOLEAN
    /\ devices \subseteq Device
    /\ images \subseteq Face
    /\ entry \in [Event -> {"none", "present", "pending", "gone"}]
    /\ call \in [Event -> {"none", "upload", "add", "done"}]
    /\ at \in [Remover -> {"idle", "devices", "device", "logs", "mark", "drop", "user",
                           "ok", "error"}]
    /\ todo \in [Remover -> SUBSET (Event \cup Device)]
    /\ hand \in [Remover -> Event \cup {Nobody}]
    /\ failures \in [Remover -> BOOLEAN]
    /\ found \in [Remover -> SUBSET (Event \cup Device)]

\* An image is never left without the log entry by which a later removal would
\* find it, whatever fails and however many removals run at once.
EntryOutlivesImage == \A e \in Face : entry[e] = "gone" => e \notin images

\* A removal comes to deleting the user only when every device and entry it
\* found at its beginning is deleted.
UserLast ==
    \A r \in Remover : at[r] = "user" =>
        \A x \in found[r] : x \notin devices /\ x \notin Stored

\* A deleted entry never reappears, also not as a bare deletion mark.
NeverRecreated ==
    [][\A e \in Event : entry[e] = "gone" => entry'[e] = "gone"]_vars

\* "Every step is idempotent so a retry can finish a partial cascade": a marked
\* entry is deleted in the end if the removal is repeated.
MarkedAreDeleted == \A e \in Event : entry[e] = "pending" ~> entry[e] = "gone"

\* "This removes [the user], the PIN, notification devices, logs, and private
\* biometric objects": a removal that reaches the user has deleted the images
\* that were there when it began.
ImagesErased == \A r \in Remover : at[r] = "user" => found[r] \cap images = {}
=============================================================================
