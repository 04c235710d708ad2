------------------------------- MODULE PinGate -------------------------------
(***************************************************************************)
(* PIN unlock (pin_unlock in app/routes.py) and the durable failure        *)
(* limiter it shares between concurrent calls, with the administrator      *)
(* calls that change users and PINs under it (set_pin, register and        *)
(* remove_user, as far as they touch the user and PIN documents).          *)
(*                                                                         *)
(* A call reads the user document, runs the limiter-check transaction,     *)
(* reads the PIN document, compares, and then runs either the failure      *)
(* transaction or the reset transaction: five separate accesses to         *)
(* Firestore with other calls in between.  Each limiter transaction uses a *)
(* clock reading taken before it starts.  Authentication and the nonce     *)
(* reservation that precede all this are ReplayGuard's.                    *)
(***************************************************************************)
EXTENDS Integers, FiniteSets

CONSTANTS
    Device,       \* device ids
    User,         \* user ids
    Pin,          \* 6-digit PINs
    NoPin,        \* no document in "pins"
    Slot,         \* concurrent pin_unlock calls
    Admin,        \* concurrent administrator calls
    MaxFailures,  \* PIN_MAX_FAILURES
    Window,       \* PIN_FAILURE_WINDOW_SECONDS
    MaxTime       \* bound: the clock stops here

\* _pin_policy clamps both policy values at 1.
ASSUME PolicyAssumption ==
    /\ MaxFailures \in Nat \ {0}
    /\ Window \in Nat \ {0}
    /\ MaxTime \in Nat

ASSUME NoPinAssumption == NoPin \notin Pin

\* Finitely many calls run at a time.
ASSUME SlotAssumption == IsFiniteSet(Slot)

Time == 0 .. MaxTime

\* _pin_limit_document_id: one limiter document per device and user.
Pair == Device \X User

\* failure_count, window_started_at and locked_until.  A missing document is
\* count 0 (a stored count is at least 1); locked_until None is 0, which no
\* clock reading precedes.
Limit == [count : Nat, start : Nat, until : Nat]

NoLimit == [count |-> 0, start |-> 0, until |-> 0]

Working == {"user", "check", "pin", "failed", "matched"}

Answers == {"UNLOCK", "DENIED", "LOCKED", "ERROR"}

\* A pin_unlock call; "at" is the clock reading its next transaction uses.
Attempt == [pc : Working \cup Answers, pair : Pair, guess : Pin, at : Time]

AdminCall == [pc : {"set"}, user : User, pin : Pin] \cup [pc : {"remove"}, user : User]

Idle == [pc |-> "idle"]

VARIABLES
    now,       \* the clock
    users,     \* user documents
    pins,      \* PIN documents (the hash stands for the PIN)
    limits,    \* pin_attempt_limits
    attempt,   \* the pin_unlock call in each slot
    admin,     \* the administrator call in each slot
    past,      \* history: what each call could have seen since it began
    tried,     \* history: wrong PINs answered since a lock or a new window
    inflight   \* history: calls past the check when the lock was recorded

store == <<users, pins>>
history == <<past, tried, inflight>>
vars == <<now, users, pins, limits, attempt, admin, past, tried, inflight>>

UserOf(s) == attempt[s].pair[2]

\* What a call may rely on: PINs that were set, whether the user existed, and
\* PINs that were set while the user existed.
Sight == [set : SUBSET Pin, users : SUBSET User, enrolled : SUBSET Pin]

Look(u, us, ps) ==
    LET current == {ps[u]} \ {NoPin} IN
    [set |-> current, users |-> {u} \cap us, enrolled |-> IF u \in us THEN current ELSE {}]

Join(a, b) ==
    [set |-> a.set \cup b.set, users |-> a.users \cup b.users,
     enrolled |-> a.enrolled \cup b.enrolled]

Nothing == [set |-> {}, users |-> {}, enrolled |-> {}]

\* Every call keeps watching the documents as administrators change them.
Watch == past' = [s \in Slot |->
    IF attempt[s] = Idle THEN Nothing ELSE Join(past[s], Look(UserOf(s), users', pins'))]

Init ==
    /\ now = 0
    /\ users = User
    /\ pins \in [User -> Pin]
    /\ limits = [p \in Pair |-> NoLimit]
    /\ attempt = [s \in Slot |-> Idle]
    /\ admin = [a \in Admin |-> Idle]
    /\ past = [s \in Slot |-> Nothing]
    /\ tried = [p \in Pair |-> 0]
    /\ inflight = [p \in Pair |-> {}]

-----------------------------------------------------------------------------
(* The limiter's transactions, as functions of the stored document and the *)
(* clock reading they were given.                                          *)

LockedAt(l, at) == l.until > at

\* A missing or expired window starts again at this reading.
Restarts(l, at) == l.count = 0 \/ at - l.start >= Window

\* Variant of Counted: the threshold is exceeded rather than reached.
CountedPastThreshold(l, at) ==
    LET count == IF Restarts(l, at) THEN 1 ELSE l.count + 1 IN
    [count |-> count,
     start |-> IF Restarts(l, at) THEN at ELSE l.start,
     until |-> IF count > MaxFailures THEN at + Window ELSE 0]

\* Variant of Counted: the lockout grows with the count.
CountedProgressively(l, at) ==
    LET count == IF Restarts(l, at) THEN 1 ELSE l.count + 1 IN
    [count |-> count,
     start |-> IF Restarts(l, at) THEN at ELSE l.start,
     until |-> IF count >= MaxFailures THEN at + count * Window ELSE 0]

\* The document after one more failure, and its lock if it is due.
Counted(l, at) ==
    LET count == IF Restarts(l, at) THEN 1 ELSE l.count + 1 IN
    [count |-> count,
     start |-> IF Restarts(l, at) THEN at ELSE l.start,
     until |-> IF count >= MaxFailures THEN at + Window ELSE 0]

-----------------------------------------------------------------------------
Goto(s, to) == attempt' = [attempt EXCEPT ![s].pc = to, ![s].at = 0]

\* The same, with the clock reading for the transaction that follows.
GotoReading(s, to) == attempt' = [attempt EXCEPT ![s].pc = to, ![s].at = now]

\* An authenticated request with a well-formed PIN reaches the handler.
Begin(s, p, g) ==
    /\ attempt[s] = Idle
    /\ attempt' = [attempt EXCEPT ![s] = [pc |-> "user", pair |-> p, guess |-> g, at |-> 0]]
    /\ past' = [past EXCEPT ![s] = Look(p[2], users, pins)]
    /\ UNCHANGED <<now, users, pins, limits, admin, tried, inflight>>

\* Variant of GetUser: the user document is not consulted.
GetUserTrusting(s) ==
    /\ attempt[s].pc = "user"
    /\ GotoReading(s, "check")
    /\ UNCHANGED <<now, store, limits, admin, history>>

\* A missing user is denied without a limiter record.
GetUser(s) ==
    /\ attempt[s].pc = "user"
    /\ \/ UserOf(s) \in users /\ GotoReading(s, "check")
       \/ UserOf(s) \notin users /\ Goto(s, "DENIED")
    /\ UNCHANGED <<now, store, limits, admin, history>>

\* Variant of CheckLimit: its verdict is ignored.
CheckLimitIgnored(s) ==
    /\ attempt[s].pc = "check"
    /\ Goto(s, "pin")
    /\ UNCHANGED <<now, store, limits, admin, history>>

\* _pin_limit_check
CheckLimit(s) ==
    /\ attempt[s].pc = "check"
    /\ LET l == limits[attempt[s].pair] IN
         \/ LockedAt(l, attempt[s].at) /\ Goto(s, "LOCKED")
         \/ ~ LockedAt(l, attempt[s].at) /\ Goto(s, "pin")
    /\ UNCHANGED <<now, store, limits, admin, history>>

\* The PIN document is read and the hash compared; a missing document is a
\* failed attempt like any other.
Compare(s) ==
    /\ attempt[s].pc = "pin"
    /\ \/ pins[UserOf(s)] = attempt[s].guess /\ Goto(s, "matched")
       \/ pins[UserOf(s)] # attempt[s].guess /\ GotoReading(s, "failed")
    /\ inflight' = [inflight EXCEPT ![attempt[s].pair] = @ \ {s}]
    /\ UNCHANGED <<now, store, limits, admin, past, tried>>

\* Calls of the pair that are past the check and have yet to compare.
PastCheck(p) == {s \in Slot : attempt[s].pc = "pin" /\ attempt[s].pair = p}

\* Variant of RecordFailure: a lock in force is not looked at.
RecordFailureAlways(s) ==
    LET p == attempt[s].pair
        at == attempt[s].at
    IN
    /\ attempt[s].pc = "failed"
    /\ limits' = [limits EXCEPT ![p] = Counted(limits[p], at)]
    /\ Goto(s, "LOCKED")
    /\ tried' = [tried EXCEPT ![p] = 0]
    /\ inflight' = [inflight EXCEPT ![p] = PastCheck(p)]
    /\ UNCHANGED <<now, store, admin, past>>

\* _pin_record_failure
RecordFailure(s) ==
    LET p == attempt[s].pair
        l == limits[p]
        at == attempt[s].at
    IN
    /\ attempt[s].pc = "failed"
    /\ \/ /\ LockedAt(l, at)
          /\ Goto(s, "LOCKED")
          /\ tried' = [tried EXCEPT ![p] = @ + 1]
          /\ UNCHANGED <<limits, inflight>>
       \/ /\ ~ LockedAt(l, at)
          /\ limits' = [limits EXCEPT ![p] = Counted(l, at)]
          /\ Goto(s, IF limits'[p].until > 0 THEN "LOCKED" ELSE "DENIED")
          /\ tried' = [tried EXCEPT ![p] =
                IF limits'[p].until > 0 THEN 0 ELSE IF Restarts(l, at) THEN 1 ELSE @ + 1]
          /\ inflight' = [inflight EXCEPT ![p] = PastCheck(p)]
    /\ UNCHANGED <<now, store, admin, past>>

\* _pin_reset_failures, then the success response.
Reset(s) ==
    /\ attempt[s].pc = "matched"
    /\ Goto(s, "UNLOCK")
    /\ limits' = [limits EXCEPT ![attempt[s].pair] = NoLimit]
    /\ tried' = [tried EXCEPT ![attempt[s].pair] = 0]
    /\ inflight' = [inflight EXCEPT ![attempt[s].pair] = {}]
    /\ UNCHANGED <<now, store, admin, past>>

\* A Firestore access raises (answered 503 or 500) or the call is killed.  A
\* transaction may have committed all the same: that is RecordFailure or Reset
\* with the answer lost, which leaves the same documents behind.
Abort(s) ==
    /\ attempt[s].pc \in Working
    /\ attempt' = [attempt EXCEPT ![s].pc = "ERROR", ![s].at = 0]
    /\ inflight' = [inflight EXCEPT ![attempt[s].pair] = @ \ {s}]
    /\ UNCHANGED <<now, store, limits, admin, past, tried>>

\* Variant of Leave: the slot keeps the finished call's data.
LeaveHalfway(s) ==
    /\ attempt[s].pc \in Answers
    /\ attempt' = [attempt EXCEPT ![s].pc = "idle"]
    /\ past' = [past EXCEPT ![s] = Nothing]
    /\ UNCHANGED <<now, store, limits, admin, tried, inflight>>

\* The answer leaves; the slot is free for another call.
Leave(s) ==
    /\ attempt[s].pc \in Answers
    /\ attempt' = [attempt EXCEPT ![s] = Idle]
    /\ past' = [past EXCEPT ![s] = Nothing]
    /\ UNCHANGED <<now, store, limits, admin, tried, inflight>>
-----------------------------------------------------------------------------
(* Administrator calls.                                                    *)

\* set_pin finds the user document; hashing the PIN takes a while.
SetPinCheck(a, u, g) ==
    /\ admin[a] = Idle
    /\ u \in users
    /\ admin' = [admin EXCEPT ![a] = [pc |-> "set", user |-> u, pin |-> g]]
    /\ UNCHANGED <<now, store, limits, attempt, history>>

SetPinWrite(a) ==
    /\ admin[a].pc = "set"
    /\ pins' = [pins EXCEPT ![admin[a].user] = admin[a].pin]
    /\ admin' = [admin EXCEPT ![a] = Idle]
    /\ UNCHANGED users
    /\ Watch
    /\ UNCHANGED <<now, limits, attempt, tried, inflight>>

\* remove_user deletes the PIN document first, and the user document last,
\* after devices and logs (which PIN unlock does not read).
RemovePin(a, u) ==
    /\ admin[a] = Idle
    /\ pins' = [pins EXCEPT ![u] = NoPin]
    /\ admin' = [admin EXCEPT ![a] = [pc |-> "remove", user |-> u]]
    /\ UNCHANGED users
    /\ Watch
    /\ UNCHANGED <<now, limits, attempt, tried, inflight>>

RemoveDocument(a) ==
    /\ admin[a].pc = "remove"
    /\ users' = users \ {admin[a].user}
    /\ admin' = [admin EXCEPT ![a] = Idle]
    /\ UNCHANGED pins
    /\ Watch
    /\ UNCHANGED <<now, limits, attempt, tried, inflight>>

\* The call fails between its two steps (503 or 500, or it is killed).
AdminAbort(a) ==
    /\ admin[a] # Idle
    /\ admin' = [admin EXCEPT ![a] = Idle]
    /\ UNCHANGED <<now, store, limits, attempt, history>>

\* register writes the user document and leaves "pins" alone.
Register(u) ==
    /\ u \notin users
    /\ users' = users \cup {u}
    /\ UNCHANGED pins
    /\ Watch
    /\ UNCHANGED <<now, limits, attempt, admin, tried, inflight>>

Tick ==
    /\ now < MaxTime
    /\ now' = now + 1
    /\ UNCHANGED <<store, limits, attempt, admin, history>>

Unlocking(s) ==
    \/ \E p \in Pair, g \in Pin : Begin(s, p, g)
    \/ GetUser(s)
    \/ CheckLimit(s)
    \/ Compare(s)
    \/ RecordFailure(s)
    \/ Reset(s)
    \/ Abort(s)
    \/ Leave(s)

Administering(a) ==
    \/ \E u \in User, g \in Pin : SetPinCheck(a, u, g)
    \/ SetPinWrite(a)
    \/ \E u \in User : RemovePin(a, u)
    \/ RemoveDocument(a)
    \/ AdminAbort(a)

Next ==
    \/ \E s \in Slot : Unlocking(s)
    \/ \E a \in Admin : Administering(a)
    \/ \E u \in User : Register(u)
    \/ Tick

Spec == Init /\ [][Next]_vars

-----------------------------------------------------------------------------
\* Every variable keeps its type.
TypeOK ==
    /\ now \in Time
    /\ users \subseteq User
    /\ pins \in [User -> Pin \cup {NoPin}]
    /\ limits \in [Pair -> Limit]
    /\ attempt \in [Slot -> Attempt \cup {Idle}]
    /\ admin \in [Admin -> AdminCall \cup {Idle}]
    /\ past \in [Slot -> Sight]
    /\ tried \in [Pair -> Nat]
    /\ inflight \in [Pair -> SUBSET Slot]

LockLive(p) == limits[p].until > now

\* Once a lock is recorded, the only PINs compared before it ends are those of
\* calls that were already past the check when it was recorded: one guess per
\* call in flight, and none by a call that arrives later.
NoNewGuessUnderLock ==
    \A p \in Pair : LockLive(p) => PastCheck(p) \subseteq inflight[p]

\* The guessing budget: since the last lock, window restart or success, at
\* most MaxFailures - 1 wrong PINs were answered while no lock was recorded,
\* and after one was, at most one by each other call in flight.
GuessBudget ==
    \A p \in Pair : tried[p] <= IF limits[p].until = 0 THEN MaxFailures - 1
                                                   ELSE Cardinality(Slot) - 1

\* A lockout lasts at most one window from now, so that it always ends.
LockEnds == \A p \in Pair : limits[p].until <= now + Window

\* Wrong guesses made during a lockout never prolong it.
LockNotExtended ==
    [][\A p \in Pair : LockLive(p) => limits'[p].until <= limits[p].until]_vars

\* UNLOCK is answered only if, while the call ran, the user's document existed
\* and the guess was the stored PIN: a call that starts after a removal or a
\* PIN change has completed can never use what it replaced.
UnlockJustified ==
    \A s \in Slot : attempt[s].pc = "UNLOCK" =>
        UserOf(s) \in past[s].users /\ attempt[s].guess \in past[s].set

\* "A deleted user must not be able to unlock through a stale PIN document":
\* at some instant of the call, the guess was the PIN of an existing user.
UnlockOfEnrolledUser ==
    \A s \in Slot : attempt[s].pc = "UNLOCK" => attempt[s].guess \in past[s].enrolled
=============================================================================
