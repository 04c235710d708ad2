# Formal verification of Smart AI Home Lock

TLA+ specifications of the lock's cloud service and firmware, TLC
configurations that model-check them, and TLAPS proofs.  Paths are relative to
the repository; line numbers refer to the commit these files are kept beside.
`PROJECT.json` holds the machine-readable side of this document: runs, the
mapping from definitions to source lines, mutants, findings, hazards, theorems.

## 1. The system

An ESP32 camera sends an encrypted picture, or a PIN tool an encrypted PIN, to
a Python service (Cloud Functions gen2, several instances and threads at once)
that keeps all its state in Firestore and Cloud Storage.  The service answers
UNLOCK or something else, and the firmware pulses a relay.  A Flutter
application is used by administrators for enrolment, PINs, notifications and
logs.

| Component | State | Operations | Interacts through |
|---|---|---|---|
| v2 authentication and replay guard (`app/routes.py` `_verify_v2_request`, `app/protocol.py` `reserve_replay`) | `device_request_replays` documents | verify headers, reserve a nonce, TTL deletion | every unlock and PIN unlock passes it |
| PIN unlock and limiter (`routes.py` 1015-1390) | `pins`, `pin_attempt_limits` | `pin_unlock`, limiter check / failure / reset transactions | reads `users` and `pins` that administrators write |
| Face unlock (`routes.py` `unlock`, `similarity.py`) | none of its own | match, decide, then log, notify, learn (best effort) | reads `users`; writes `logs`, images, embeddings |
| User lifecycle (`register`, `set_pin`, `remove_user`) | `users`, `pins`, `users/*/devices`, `logs`, images | enrol, set PIN, cascade of deletions with `deletion_pending` marks | races with both unlock routes |
| Notifications (`fcm.py`, `register_device`) | `users/*/devices` | store / deactivate token, multicast, clean-up of dead tokens | called by both unlock routes |
| Adaptive learning (`learning.py`) | embeddings inside user documents | add (cap 5, no near-duplicates), prune | called by face unlock; off by default |
| Log listing (`get_logs`) | none | pages by cursor | reads `logs` |
| Device time (`device_time`) | none | challenge / signed answer | firmware clock |
| Lock firmware (`esp32-firmware/src`) | RAM and NVS configuration, clock, relay | boot, console commands, reconnect, unlock, health | HTTPS to the service, SNTP, Wi-Fi |
| Administrator app (`flutter-app/lib`) | token cache, list of log pages, form state | sign in, enrol, set PIN, list logs, notifications | administrator routes |
| Face engine (`face.py`) | installed model directory | verify and install model, embed | `register`, `unlock` |
| Deployment tools (`deploy.sh`, `tools/`) | none at run time | deploy, verify infrastructure | operator |

What makes it hard: every route is a sequence of separate Firestore accesses
with other calls in between; only the replay reservation, each limiter
operation and the learning updates are transactions, and they use clock
readings taken before they start; the network repeats and delays requests; calls
are killed at the platform's deadline; the firmware may be reset at any step,
its millisecond counter wraps and its clock has two writers.

What each component must guarantee:

* replay guard: a signed request passes once, and a second time only where the shipped
  times leave an edge; only while recent; only an acceptable request burns its nonce;
* limiter: a lock admits no new guess, bounds the guesses, ends, and is not
  prolonged by guessing; PIN unlock: only the PIN of a user the call could see;
* firmware: the relay is energised only by an answer UNLOCK to its own request,
  once, and switched off again; a request is signed only after a challenge (whether with
  its time, and how recent, is section 3's disagreement 4);
* lifecycle: a successful removal leaves nothing of what it found, a failed one
  can be repeated; notifications: one record per token, silent once switched off,
  dead ones cleaned up; learning: bounded and only for existing users; logs: no
  entry skipped or repeated, newest first; models: an installation leaves no part of a
  pack and loses none, and what a process loads is its own pack, unless another process
  changes the directory meanwhile.

## 2. Modules

| Module | Role |
|---|---|
| `OnceOnly` | abstract promise: each key is served at most once |
| `ReplayGuard` | v2 authentication and reservation on several instances |
| `PinGate` | `pin_unlock`, the limiter, and administrators' calls under it |
| `Door` | abstract promise of the lock: open for one approved request at a time, once |
| `LockDevice` | the firmware's task, clock, relay and configuration |
| `UserLifecycle` | a user's devices, log entries and images under removal |
| `FaceUnlock` | matching, decision and continuous learning |
| `DeviceTokens` | one user's notification devices: registration, multicast, clean-up |
| `LogPaging` | `get_logs` and the screen that strings its pages together |
| `ModelInstall` | verification, installation and loading of the face models |
| `MCReplayGuard`, `MCPinGate`, `MCLockDevice`, `MCFaceUnlock`, `MCLogPaging`, `MCModelInstall` | values and symmetry for TLC |
| `ReplayGuardProofs`, `PinGateProofs`, `LockDeviceProofs`, `UserLifecycleProofs`, `FaceUnlockProofs`, `DeviceTokensProofs`, `LogPagingProofs`, `ModelInstallProofs` | theorems and proofs |

Definitions named "Variant of X" are not part of a specification: each is a
plausible mistake in X that a property is there to exclude (section 4).

### ReplayGuard

`Receive(i, m)` is everything `_verify_v2_request` does up to the reservation:
it takes one clock reading (`routes.py` 425) and makes the freshness,
credential, HMAC and allow-list checks with it.  The call then carries that
reading (`at`) into the transaction of `reserve_replay`, which happens at any
later moment as `Reserve`, `Duplicate` or `StoreError`; the last covers a commit
whose answer was lost.  `Kill` is the platform's time limit (`deploy.sh` 318) or
a crash.  `signed` is what devices have signed; since any member may be received
any number of times at any moment by any instance, the network loses, repeats,
delays and reorders.  A request that was altered is not in `signed` and fails the
HMAC.  A device draws a fresh 128-bit nonce per request, so `Sign` never repeats
one; its timestamp is arbitrary, as its clock need not agree with the service's.
`Purge` is Firestore's TTL deletion of expired reservations, `PurgeLag` its least
delay in true time; `Offset` are the instances' clock errors.  `served` counts the
passes of each key, apart for the last reading at which its request is fresh and for the
others.

Abstracted: HMAC and the canonical string (only "was signed"), parsing of the
headers, the v1 compatibility protocol (off outside tests, `__init__.py` 56-57),
time in whole units.

### PinGate

One action per Firestore access of `pin_unlock`: `GetUser`, `CheckLimit`
(transaction), `Compare` (the PIN document is read and the hash compared),
`RecordFailure` or `Reset` (transactions).  `at` is the clock reading that each
limiter function takes before its transaction.  A limiter document is
`[count, start, until]`; a missing one and an absent `locked_until` are zeros,
which behave alike.  `SetPinCheck`/`SetPinWrite`, `RemovePin`/`RemoveDocument` and
`Register` are the administrator routes as far as they write `users` and `pins`;
between RemovePin and RemoveDocument the route deletes devices and logs, and may
fail (`AdminAbort`).  Audit log entries and notifications are best effort, after
the decision, and not read by anything here.

`past`, `tried` and `inflight` are history: what documents a call could have seen
since it began, wrong PINs answered since the last lock or window, and the calls
past the check at the moment the lock was recorded.

### LockDevice

`pc` is where the one Arduino task is, `job` the errand it runs (`setup`,
`unlock`, `health`, `reconnect`), which share `prepareNetwork` (`EnsureWifi`,
`RoughTime`, `AuthTime`).  `Reset` may strike anywhere: it stands for the
watchdog, a brownout, a power cut and PROVISION REBOOT.  `ms` is `millis()`,
modulo `Wrap` (2^32 in the code); `age` is the true time since the last
authenticated time, counted up to `Wrap`, which makes the state space finite
without stopping the clock.  `unfed` is the time since the watchdog was fed: a
single step of an errand takes at most `Watchdog`, or the chip is reset.
`clock` records who set the system clock: nobody (`unset`, also any time before
`kMinimumValidUnixTime`), SNTP, or the challenge.  `Module` is the input level
that energises the fitted relay module, so `Energised` speaks of the door, not
of the variable `energized_`.  `reply[n]` follows request n: unused, signed,
sent, and what the service answered, which may be after the device gave up.

Assumed of things outside `src/`: the SNTP client started by `configTime` keeps
running and sets the clock; the clock may survive a reset; the pin floats in
reset and the pull resistor the README asks for holds the module off; NVS
preference keys have at most 15 characters and a put with a longer key stores
nothing.  The operator provisions the level of the module that is fitted.
Abstracted: the identity fields of the configuration are one value, set or
missing; the prefilter and encryption succeed or fail; response parsing gives
"exactly UNLOCK" or something else.

`Door` is what all this is for.  `ImplementsDoor` maps its `approved` to the requests
the service answered UNLOCK, however late, its `used` to those the device acted on,
and its `open` to the request whose pulse energises the module: every step of the
firmware, of the network, of the clock and every reset opens for an approved, unused
request, closes, or leaves the door alone.

### UserLifecycle

One user: users share nothing here.  `Match`, `Upload` and `Add` are what an unlock
call does to this state after it has found the user, which it does not look at
again; an upload or an addition that raises may have had its effect, and a call that
is killed is one whose remaining accesses have none.  A removal's accesses are
actions of their own: `ListDevices`, `DeleteDevice`, `ListLogs` (the paged query, as
one reading), then for each entry `DeleteImage` or `FailImage`, and `Drop` or `Mark`,
in any order; `EndLogs` is the DeletionIncompleteError.  `Fail` stands for an
exception that leaves `remove_user` and for a killed call.  After "ok" or "error" an
administrator may begin again.  `found` is history: the devices and entries, and the
images of finished calls, that there were when the removal began; a device that is
registered again leaves it.

### FaceUnlock

The data are tables: `Sim` is the cosine similarity of two faces in percent, `Alike`
the pairs nearer than `DEDUP_THRESHOLD`, `Decay` the weight of a record at each age;
a score is similarity times weight, so thresholds are compared times 100.
`Candidates` are the users the device may open for, with their scores, `Scan` the
loop of `_best_user_match` over one order of them (the choice after each user),
`BestMatches` what any order may give.  `Match` is `unlock()` up to its answer; only a call that goes on to learn has
an effect here.  `Store` and `Prune` are the two transactions, each with a clock
reading (`time.time()`) taken at any moment since the one before; `StoreUnheard` is a
commit whose answer is lost, after which `unlock()` does not prune; `Fail` an error
without effect or the end of the instance.  A call that has ended may be followed by
another, so the number of calls is not bounded, only how many run at once.
`RemoveUser` is the deletion of the user document; the rest of the removal is in
UserLifecycle.

Abstracted: the vectors, the legacy forms in which records may be stored (they are read
like plain ones), the comparison of keys inside one document, which moves a score by
no more than one tolerance of `isclose` for each record, and the protocol v1 policy.
The transactions test `snapshot.exists` of what `transaction.get(ref)` returns; the models
take it for the document, as the code intends (with the real client `Transaction.get`
returns a generator, so production may differ at `protocol.py` 384, `routes.py` 1132, 1182,
1223 and `learning.py` 363, 405).

### DeviceTokens

The devices of one user.  A document is an identifier with the token it holds;
identifiers are numbers because Firestore lists documents, and cuts `limit(1)`, in
their order, and a new one may fall anywhere in it.  `FindExisting`, then `Update` or
`Create`, is `store_device_token`; `Find` and `Disable` are `deactivate_device_token`,
which `deregister_device` calls.  `ReadTokens` to `Finish` is
`send_unlock_notification`: the tokens are read and made unique, sent in chunks
(`Send`, or `SendRaises`, after which the next chunk is sent all the same), and those
FCM reports are switched off one by one (`Clean`, `Drop`) by their position in the
chunk.  `Break` is an access that raises, which the unlock routes log, or a killed call;
`Gone` the update of a document deleted since the query.  `DeleteDevice` is the
removal's deletion, `Expire` the end of a token at FCM, which is not undone.  `Faulty`
steps may keep part of the dead tokens from being reported.

`overlapped`, `alone` and `quiet` are history for the proviso of two properties: the
query and the creation are two accesses, so two registrations of a token at once may
leave two documents (section 3).

### LogPaging

An entry has its name and the server's timestamp; `Write` adds it with the clock of
that moment, `Delete` is a removal's.  `Serve` is `get_logs`: filter, order, cursor,
one entry more than asked for, and the cursor of the next page.  The screen's part is
`Type` (the filter field), `Refresh`, `LoadMore` with its guards, and the answers:
`Show` replaces the list, `Extend` appends to it, `Fail` is an error or the time limit.
Any answer clears both flags, so that two loads can be under way.  `due`, `tail`,
`filter`, `stale` and `intact` are history: what the list on screen was cut from and
whether all its pages were asked for from this list.  Entries with a timestamp that is
not the server's, which the code passes over in the cursor, and the fallback for test
doubles are left out.

### ModelInstall

A process is a `FaceEngine` being created.  `Check` verifies the directory; `Fetch` and
`Verify` fill and verify the temporary one; `Look`, `Backup`, `Swap` and `Tidy` are the
existence test, the two renames and the deletion of the backup; `Restore` is the
exception handler.  The rest is the constructor of InsightFace, a library outside
`src/`: `Open` looks for the directory, and if there is none `Download` fetches an
archive, which holds unlisted files too, and makes the directory; `Extract` writes one
file after another into whatever directory is there by then, `Refused` is an error in
between, after which what was extracted stays; `Read` and `Ready` load the files that are
found, one by one.  `Fault` is an access that raises or
a file that is not what the manifest says, `RestoreFault` a second failure in the
handler, `Crash` the end of the process at any step, with its temporary and backup
directories lost under unique names.  `Deploy` is the operator replacing the manifest.
Processes share the directory on a workstation or in one container; instances of the
service have one each, which is the case of one process.  `disturbed` and `safe` are
history; `calm` says that from now on nothing fails.

Assumed: a rename is atomic, and replaces an empty directory, but no other (POSIX
`rename`); the verification of a whole directory and the reading of one file are each one
step; what InsightFace leaves in a file, all of it or part when it is killed, matches no
digest of a manifest (`Foreign`); it insists on the listed files and loads the others if
they are there.  Abstracted: digests (equal contents), inference.

## 3. Runs

Deadlock checking is off for ReplayGuard, PinGate and LogPaging, whose clock stops at
the bound `MaxTime`, where all work may be done; for UserLifecycle, FaceUnlock and
DeviceTokens, where nobody has to call anything; and for ModelInstall, where in the end
every process is ready.  LockDevice never stops and is checked for deadlock.

| Run | Question | Bounds | Result |
|---|---|---|---|
| `replay` | a second pass at one instant only; recent; burned only by acceptable requests; implements `OnceOnly` | skew 1, life 2 (the shipped ratio), deadline 2, purge lag 2, time to 6; one enabled and one disabled device, two users, one nonce per device, two instances one second apart | holds |
| `pin_unlock` | lock and guessing budget; UNLOCK only for what the call could see | three calls, two PINs, threshold 2, window 2, time to 4; or one call under two administrators, time fixed | holds |
| `pin_after_removal` | "A deleted user must not be able to unlock through a stale PIN document" | one call, two administrators, threshold 1, time fixed | violated |
| `lock_relay` | implements `Door`: relay energised only by an approved pulse, once; requests signed only after a challenge of this boot; every errand and pulse ends | one request, wrap 5, refresh 1, watchdog 1, reset anywhere, fairness | holds |
| `lock_clock` | "The device-specific HMAC challenge below establishes the clock used by signed actuator requests" | same, no fairness | violated |
| `lock_active_low` | a saved active-low setting holds at the next boot | active-low module | violated |
| `user_cascade` | images keep their entry, the user goes last, nothing comes back; a marked entry is deleted in the end | a face and a PIN call, one device, two removals, fairness | holds |
| `face_unlock` | learning is bounded, without duplicates, loses only weak records; decisions do not depend on the stream; enrolled faces open | two users, two calls at a time, four faces, cap 2, two half-lives, tolerance 1 | holds |
| `device_tokens` | one document per token, silent once deregistered, each active token tried once, switched off only for cause; dead ones are cleaned up in the end | two tokens, two documents, two registration calls, one notification in chunks of one, fairness | holds |
| `log_paging` | newest first, nothing skipped or repeated | three entries of two users, pages of one, two requests at a time, two timestamps, lists to three pages | holds |
| `model_install` | no part or mixture of packs is installed, only disturbed processes download, the right pack is loaded, none is lost; every process gets ready in the end | two processes, two versions of two files, an unlisted file, two bad manifests, fairness | holds |
| `user_orphan` | removal erases the images it found | one face call, one removal | violated |

Why the bounds are enough to mean something.  `replay`: the life of a reservation is
exactly twice the skew, as `__init__.py` 64-65 has it (60 and 120 seconds), so that the
run reaches the one reading at which a copy passes again.  Time 6 covers a request
stamped one skew ahead, its reservation, the expiry and deletion of that
reservation and a copy handled by a slow call after it; the instances' clocks differ by
a whole skew.  One nonce per device suffices because reservations of different keys do
not interact, and the theorems below hold for any number.  `pin_unlock`: three calls
let one be past the check while two others bring about the lock, and time 4 is
two windows.  The pair is one device and one user since pairs share nothing but
`users` and `pins`.  TLC does not follow a state outside `Bound`, which is a union of two
parts: all interleavings of three calls while user and PIN stay (`CallsOnly`), and two
administrators' calls at every access of one PIN call while the clock stands still
(`OneCall`; the locks are the other part's question).  The theorems are about `Spec`,
which has no such bound.  `lock_*`: every counter
value is reached, at every step of an errand; in `lock_relay` the ages allowed
(below 4) are below `Wrap`, so that an age between the two would be seen.  One request is
enough for TLC because the task has one in hand at a time; the theorems hold for any
number.

`user_*`: entries of different calls meet only in one removal's list and failure
flag, for which an entry with and one without an image are enough; two removals are
what it takes to list, delete and mark the same entry in every order.

`face_unlock`: one face resembles both users' enrolled faces equally, so that scores
tie, and one resembles only it, so that it is learned through a learned record; three
faces can be learned for one user, one more than the cap; two readings of the clock
are enough for equal keys and for a record to weaken below every threshold.

`device_tokens`: two tokens make two chunks, so that a position is one token's in the
first and another's in the second; two documents are one for each, or two for one, or
one that is deleted and followed by another.  `log_paging`: with a limit of one, three
entries make three pages, the last exactly full; two timestamps let entries tie and
differ; two requests are what it takes to append a page of an earlier list.
`model_install`: two processes are what it takes to swap, download or extract under one
that loads, or for both to extract into one directory; the two bad manifests lack a file
and have one too many; the unlisted file is one that InsightFace's archive holds.

Fairness appears in four `FairSpec`s.  As it excludes no finite behaviour it does not
weaken the safety properties of their runs.
UserLifecycle: an administrator repeats a removal that has not succeeded (weak fairness
of its steps), and accesses fail only for a while (`<>[][no Faulty step]`): the code
does not retry by itself, and no retry can finish against a store that refuses for ever.
LockDevice: the loop task runs whenever it
can (each wait in the code has a timeout: Wi-Fi 12 s, SNTP, TLS and HTTP 15 s, the
pulse at most 5 s) and time passes.  Nothing is assumed about Wi-Fi, the service
or the operator, and `ErrandsEnd` counts a reset as an end.
DeviceTokens: the user keeps unlocking and a notification that has begun goes on, since
the code cleans up only while it notifies; accesses fail, and FCM withholds reports,
only for a while.  Nothing is assumed about administrators.
ModelInstall: the platform starts a process that has ended and runs one that is up;
`GetsReady` speaks of behaviours in which, from some time on, nothing fails, an
acceptable manifest stays and processes start one after another.  It does not assume that
downloads succeed: a process whose download is refused is started again.

### Disagreements between code and documents

1. **PIN left by an overtaken `set_pin`** (`pin_after_removal`): check user, removal
   of the PIN, removal of the user, write of the PIN; a `pin_unlock` that read the
   user before the removal accepts the new PIN.  The orphan PIN document also
   survives for a later enrolment under the same id.  Without a `set_pin` and a
   `remove_user` of one user at once it cannot happen (`EnrolledUnlessOverlap`).
2. **Images without entries** (`user_orphan`).  An image whose log entry could not be
   added is found by no removal, which nevertheless reports success.  No other image
   is left behind (`LoggedAreErased`).
3. **Active-low relays** (`lock_active_low`).  The preference key `relay_active_high`
   is too long to be stored.  Besides, `setup` begins the relay active-high before it
   reads the configuration, which energises an active-low module until `load`.
4. **A clock that nobody authenticated** (`lock_clock`).  `main.cpp` 102-103 says that
   the challenge establishes the clock of signed requests, and the firmware's README
   (116) that its time is refreshed hourly.  But the SNTP client that `configTime`
   started goes on setting the clock after the challenge, and `authenticatedTimeIsFresh`
   compares wrapped counters, so that after a whole turn of `millis()` (49.7 days without
   an errand or reconnection) an old challenge counts as fresh until the hour is over
   again.  The property is the weakest reading of the two sentences, and fails when both
   happen.  What remains true is `SignedAfterChallenge`: there was an answered challenge
   in this boot, it is recent or a whole turn old, and its time is the clock's unless this
   boot started the SNTP client.  "SNTP alone never enables an unlock" (README 117) holds
   in that sense.

Consequences of the code that no run of their own shows, because no document says
otherwise or because a property above states the exception:

* A reservation's life (120 s) is exactly twice the skew, its end is excluded and the
  window's end included, so at one instant of the clock a copy passes again, although
  `reserve_replay` promises True only to the invocation that created the reservation.
  `SecondOnlyAtEdge` says exactly when, at the shipped ratio: the first pass had the
  earliest fresh reading, the copy has the last.  A life longer by any amount would
  close the gap (`LongerLifeSuffices`).
* `_pin_reset_failures` does not look at `locked_until`: a call that was past the check
  when a lock was recorded clears it by succeeding; `GuessBudget` holds with that
  included.
* `_best_user_match` compares by `isclose`, which is not transitive and does not ask
  which score is greater: of two users whose scores differ by less than the tolerance
  (relative 1e-9) the one streamed last may win, so the comment at `routes.py` 681-682
  holds only as `StableChoice` states it, for equal or clearly different scores.
* A call that matched before a user was enrolled anew stores its face into the new
  enrolment.
* Two registrations of one token at once both find no document and create two, contrary
  to the docstring at `fcm.py` 30-31; later registrations and deregistrations reach only
  the first, so that "Notifications disabled." need not be true.  `OneDocument` and
  `DisabledIsQuiet` except tokens whose registrations overlapped.
* A token refresh whose registration is answered after the administrator has disabled
  notifications shows them as enabled (`manage_user_screen.dart` 64).
* A page that was asked for from an earlier list, or with a filter typed but not yet
  submitted, is appended to the list on screen, which then need not be "newest first"
  (`logs_screen.dart` 95) nor complete; `NewestFirst` and `NothingSkipped` except such
  lists (`intact`).
* **Production can download an unpinned pack.**  `face.py` 192-193 and 314-315 say it
  cannot.  With two processes on one host, one that has verified or installed its pack and
  comes to load it while the other is between its two renames finds no directory, and
  InsightFace downloads its own pack and extracts it, perhaps into the directory the other
  has meanwhile swapped in.  `DownloadsOnlyDisturbed` states that nothing else brings this
  about, and `NeverHalfInstalled` that whatever holds no file of InsightFace's is whole;
  a disturbed process may well load what was downloaded (`LoadsItsPack` excepts it), and
  the next start that does not verify the directory replaces it.  A directory whose listed
  files are right and in which InsightFace left an unlisted one verifies as cached, since
  `_verify_model_dir` looks at listed files only.

## 4. Mutants

Every property of a passing run is tested against a mistake: `PROJECT.json` names
the definition and the variant that replaces it.  Among them: no absolute value
in the freshness test, the allow-list consulted after the reservation, creation
time in place of expiry, blind reservation; the threshold exceeded instead of
reached, lockouts that grow, a check whose verdict is ignored, failures counted
during a lock; any status accepted, freshness without age, a
pulse timed by counter values instead of their difference; a removal that drops the
entry of an undeleted image, passes over marked entries, marks by `set`, or takes a
missing image for a failure; one learned record too many, keys without a suffix, no
tie-breaker, enrolled faces that decay; a registration that never looks for a document,
an update that creates one, inactive documents passed over by a deregistration, a
position looked up in the whole list instead of the chunk, tokens listed per document,
clean-up after the last chunk only; a cursor without the document's name or that starts
at its entry; manifests that lack files, files fetched into the model directory itself, a
missing pack left to InsightFace, sizes compared in place of digests, a handler
that does not put the backup back, an old pack that is refused instead of replaced.

## 5. Theorems

`ReplayGuardProofs` (any devices, users, nonces, instances, offsets and times):
`TypeCorrect`, `BurnedOnlyByAcceptable` and `RecentWhenServed` need nothing but
the constants' types.  `SecondAtEdge`, `AtMostTwice` and `Implements` assume

    Settled == Ttl >= 2 * Skew  and  Ttl + PurgeLag + Offset[i] >= 2 * Skew + Deadline for every i

That is, a reservation lives through every reading at which its request is fresh, but
possibly for the last, and Firestore does not delete it while a call with an older
reading may still be running.  The configured values (120 and 60 seconds) satisfy the
first inequality with equality, so the theorems speak of what is shipped: a second pass
needs a call whose reading is exactly the request's timestamp plus the skew, after a
first one at the timestamp minus the skew, and there is never a third.  `Implements`
refines `OnceOnly` for the keys split by instant: one pass before the last fresh reading
and one at it.  `LongerLifeSuffices` is a corollary about a configuration that is not
shipped: with `Ttl # 2 * Skew` there would be one pass at most.  With the 540 s
deadline the second inequality relies on TTL deletion lagging by minutes, as it does in
practice.

The inductive invariant says that the keys of signed requests are unique, that a running
call carries a reading its request was fresh for, and that a served key either has a
reservation standing until `Until` (counted from the request's earliest fresh reading
after one pass, from its latest after two), or is past every reading that could find its
request fresh, with no call on it running.  Purging is the reason it must relate true
time, readings and expiry: otherwise a purge would not be known to come after the last
call.

`PinGateProofs` (any calls, users, devices and policy, finitely many slots for calls at
once): `TypeCorrect`, `LockAdmitsNoNewGuess`, `LockIsBounded`, `FailuresDoNotExtend`,
from the invariant that clock readings are not in the future together with the two lock
properties; `UnlockIsJustified`, from one for what each call has seen.
`GuessesAreBudgeted` counts: before a lock, the wrong PINs answered are the failures
recorded, fewer than the threshold; under one, they and the calls past the check (`Owing`) stay within the
budget, and no other call joins those, so that an answer only moves a guess from one
summand to the other.  `EnrolledUnlessOverlap` is about behaviours in which no `set_pin` and
`remove_user` of one user overlap (the exception the run `pin_after_removal` exhibits):
then every stored PIN has its user, and what a call has read was true together.

`LockDeviceProofs` (any nonces and time constants): `TypeCorrect`; `ApprovedPulses`,
because a request in hand has opened nothing yet and its reply is never taken back;
`OffOutsidePulse` for an active-high module, because without a stored active-low
setting nothing moves the relay's level; `SignedWhenFresh`, from the invariants that
only a started SNTP client takes the clock from the challenge, and that
the difference of the wrapped counters is the true age until the counter has made a
whole turn, and that each step of the unlock adds at most `Watchdog`.  The lemmas
about `%` (`Difference`, `DifferenceTicks`) are what makes it independent of `Wrap`.
`DoorImplemented` is the refinement of `Door`, for an active-high module: from the
invariants above a pulse begins only for an approved request in hand that was not used,
every other step leaves the three abstract variables alone (`DoorUntouched`), and the end of a pulse or
a reset closes (`DoorClosed`).

`UserLifecycleProofs` (any calls, devices and removals): `TypeCorrect`;
`ImagesKeepTheirEntry` and `DeletedStayDeleted`, since a removal holds only entries
that existed, whose calls are past their upload; `UserGoesLast`, since what a removal
found is deleted or on its list, or a failure keeps it from the user; `LoggedAreErased`, from
those together: an image whose entry was added has it still, and the removal would have
come upon it.

`FaceUnlockProofs` (any users, calls, similarities and thresholds): `TypeCorrect`,
`LearnedAlwaysFits`, `StrongRecordsStay`.  The
invariant is that every user's learned records are `Fit`: finite, within the cap, with
distinct keys and faces unlike each other; both transactions decide on the document
they replace, so each keeps it.  `KeyIsFree` needs a counting argument (more suffixes
than records) and the least element of a set of numbers, taken from the library's
well-foundedness of `<`.  `ChoiceIsStable` (finitely many users): if scores are equal or
clearly apart, the choice after each user of a scan is the best so far, which a least
counterexample among the positions shows, and the best of a set does not depend on its
order.  `EnrolledOpens`: each comparison lets go of at most the tolerance, so what is
chosen at the end is at most as many tolerances below the enrolled face's score as there
are users.  Both speak of the scan's table of choices, not of a fold, so that they need no
induction over sequences.

`DeviceTokensProofs` (any tokens, calls, notifications and size of chunks, finitely
many documents): `TypeCorrect`.  `CauseOfSwitchingOff` needs `HandInv`: the document a
query found holds that token until it is deleted, and what a notification is still to
switch off was reported, as its position in the chunk that was sent.  `Deduplicated` needs
`OneInv`: of a token that is not overlapped at most one registration is under way, and one
about to create a document has no other to find.  `DeregisteredIsQuiet` needs, besides,
that the only document of a token being deregistered alone is in the call's hand
(`QuietInv`).  `TriedExactlyOnce` rests on `TriedInv` (the list has each token once, and
the tokens tried are those at the positions sent so far) and on `ChunkCounts`, which
counts a token in one chunk.  That an ascending enumeration lists
every member once (`InOrderLists`) is counting: an injection between sets of one size.

`LogPagingProofs` (any users, timestamps, page sizes and requests at once, finitely many
entries): `TypeCorrect`.  `PagesInOrder` and `PagesComplete` rest on one invariant, of the
list and of every answer on its way to it.  No entry of the list is behind its last cursor
(`Bounded`), and what was due when it began is in it, deleted, or behind that cursor
(`Covered`).  An answer's page lies behind the cursor it was asked with, and of what was
due there it leaves out only what is behind the cursor it comes with (`AnswerOf`), unless it was asked
from an earlier list or with another filter.  So an appended page goes on where the list
ends.  A list of which a page was asked for otherwise is not `intact`, and excepted.

`ModelInstallProofs` (any processes, manifests and packs): `TypeCorrect`;
`WholeOrNothing`, since the directory and every backup are each a whole pack, empty or
written into by InsightFace, and a temporary directory holds nothing but pinned files, and
its manifest's pack from its verification on (`DirInv`); `OwnPackLoaded` and
`DownloadNeedsAnother`, since the directory under an undisturbed process that loads is
there and verified, and so is what it has read of it (`LoadInv`); `FormerPackKept`, since
while a pack that was safely there is missing, a process that will put one there, or back,
holds the former one (`KeepInv`).

Only model-checked: the liveness properties (`ErrandsEnd`, `MarkedAreDeleted`,
`DeadAreCleaned`, `GetsReady`), since fairness is stated with ENABLED, which is out of the
prover's reach; and the four properties the code violates.  Every other property of a run
is stated by a theorem.

## 6. Not modelled, and the plan

Not modelled, and why:

* encryption and byte formats: cryptographic primitives and canonical encodings are
  functions of their input, without state or interleaving; what the rest relies on (only
  what was signed passes) is in ReplayGuard;
* inference, image validation, the choice of a face in a picture, and the vector
  arithmetic of `similarity.py`: floating point, tabulated in FaceUnlock;
* deployment scripts and `verify_infrastructure.py`: single-threaded calls of the cloud's
  command line by an operator; the one setting the models use is the call timeout;
* sign-in, forms and local notifications of the application: each screen awaits one
  request at a time and its effects on the service are in PinGate, UserLifecycle and
  DeviceTokens; the one screen that lets requests overlap on its own state is in
  LogPaging;
* the v1 protocol, off outside tests;
* provisioning part by part (`config.cpp` 196): LockDevice has one value for the identity
  fields, since nothing says which mixtures of two provisionings must be refused.

Left to do, in this order:

1. `UnlockSystem`: LockDevice and ReplayGuard composed over a lossy network, with at
   most one pulse per approved request end to end.  `Door` and `OnceOnly` are the two
   promises it would be assembled from: the service answers UNLOCK at most once for a
   signed request, and the lock opens at most once for an answered one.
2. `LockEnds` under per-instance clock errors.
