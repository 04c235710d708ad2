---------------------------- MODULE PinGateProofs ----------------------------
(***************************************************************************)
(* Proofs about PinGate, for any number of devices, users, calls and       *)
(* administrators and any limiter policy.                                  *)
(***************************************************************************)
EXTENDS PinGate, FiniteSetTheorems, TLAPS

\* What a slot past "idle" holds.
LEMMA BusyAttempt ==
    ASSUME TypeOK, NEW s \in Slot, attempt[s].pc \in Working \cup Answers
    PROVE  /\ attempt[s] \in Attempt
           /\ attempt[s].pair \in Pair /\ UserOf(s) \in User
           /\ attempt[s].guess \in Pin /\ attempt[s].at \in Time
  <1>1. attempt[s] \in Attempt \cup {Idle}
    BY DEF TypeOK
  <1>2. attempt[s] # Idle
    BY DEF Idle, Working, Answers
  <1>3. attempt[s] \in Attempt
    BY <1>1, <1>2
  <1>4. attempt[s].pair \in Pair /\ attempt[s].guess \in Pin /\ attempt[s].at \in Time
    BY <1>3 DEF Attempt
  <1>5. UserOf(s) \in User
    BY <1>4 DEF UserOf, Pair
  <1>6. QED
    BY <1>3, <1>4, <1>5

LEMMA BusyAdmin ==
    ASSUME TypeOK, NEW a \in Admin, admin[a].pc \in {"set", "remove"}
    PROVE  /\ admin[a].user \in User
           /\ admin[a].pc = "set" => admin[a].pin \in Pin
  <1>1. admin[a] \in AdminCall \cup {Idle}
    BY DEF TypeOK
  <1>2. admin[a] # Idle
    BY DEF Idle
  <1>3. QED
    BY <1>1, <1>2 DEF AdminCall

\* What is seen is a Sight, and watching keeps it one.
LEMMA LookType ==
    ASSUME NEW u \in User, NEW us \in SUBSET User, NEW ps \in [User -> Pin \cup {NoPin}]
    PROVE  Look(u, us, ps) \in Sight
  <1>1. {ps[u]} \ {NoPin} \in SUBSET Pin
    OBVIOUS
  <1>2. QED
    BY <1>1 DEF Look, Sight

LEMMA NothingType == Nothing \in Sight
  BY DEF Nothing, Sight

LEMMA JoinType ==
    ASSUME NEW a \in Sight, NEW b \in Sight
    PROVE  Join(a, b) \in Sight
  <1>1. a.set \cup b.set \in SUBSET Pin /\ a.enrolled \cup b.enrolled \in SUBSET Pin
    BY DEF Sight
  <1>2. a.users \cup b.users \in SUBSET User
    BY DEF Sight
  <1>3. QED
    BY <1>1, <1>2 DEF Join, Sight

LEMMA WatchType ==
    ASSUME TypeOK, Watch, users' \subseteq User, pins' \in [User -> Pin \cup {NoPin}]
    PROVE  past' \in [Slot -> Sight]
  <1> SUFFICES ASSUME NEW s \in Slot, attempt[s] # Idle
               PROVE  Join(past[s], Look(UserOf(s), users', pins')) \in Sight
    BY NothingType DEF Watch
  <1>1. UserOf(s) \in User
    BY DEF TypeOK, Attempt, UserOf, Pair
  <1>2. past[s] \in Sight
    BY DEF TypeOK
  <1>3. QED
    BY <1>1, <1>2, LookType, JoinType

\* A counted failure is again a limiter document.
LEMMA CountedType ==
    ASSUME NEW l \in Limit, NEW at \in Time
    PROVE  Counted(l, at) \in Limit
  <1>1. l.count \in Nat /\ l.start \in Nat /\ at \in Nat /\ at + Window \in Nat
    BY PolicyAssumption DEF Limit, Time
  <1>2. QED
    BY <1>1 DEF Counted, Limit

-----------------------------------------------------------------------------
\* Every variable of PinGate keeps its type.
THEOREM TypeCorrect == Spec => []TypeOK
  <1>1. Init => TypeOK
    BY PolicyAssumption, NothingType DEF Init, TypeOK, Time, NoLimit, Limit
  <1>2. TypeOK /\ [Next]_vars => TypeOK'
    <2> SUFFICES ASSUME TypeOK, [Next]_vars PROVE TypeOK'
      OBVIOUS
    <2>1. ASSUME NEW s \in Slot, NEW p \in Pair, NEW g \in Pin, Begin(s, p, g) PROVE TypeOK'
      <3>1. [pc |-> "user", pair |-> p, guess |-> g, at |-> 0] \in Attempt
        BY PolicyAssumption DEF Attempt, Working, Time
      <3>2. Look(p[2], users, pins) \in Sight
        BY LookType DEF Pair, TypeOK
      <3>3. QED
        BY <2>1, <3>1, <3>2 DEF TypeOK, Begin
    <2>2. ASSUME NEW s \in Slot, attempt[s].pc \in Working, NEW to \in Working \cup Answers,
                 Goto(s, to) \/ GotoReading(s, to)
          PROVE  attempt' \in [Slot -> Attempt \cup {Idle}]
      <3>1. attempt[s] \in Attempt
        BY <2>2, BusyAttempt
      <3>2. 0 \in Time /\ now \in Time
        BY PolicyAssumption DEF TypeOK, Time
      <3>3. [attempt[s] EXCEPT !.pc = to, !.at = 0] \in Attempt
        BY <3>1, <3>2 DEF Attempt
      <3>4. [attempt[s] EXCEPT !.pc = to, !.at = now] \in Attempt
        BY <3>1, <3>2 DEF Attempt
      <3>5. QED
        BY <2>2, <3>3, <3>4 DEF Goto, GotoReading, TypeOK
    <2>3. ASSUME NEW s \in Slot, GetUser(s) PROVE TypeOK'
      <3>1. attempt' \in [Slot -> Attempt \cup {Idle}]
        BY <2>2, <2>3 DEF GetUser, Working, Answers
      <3>2. QED
        BY <2>3, <3>1 DEF TypeOK, GetUser, store, history
    <2>4. ASSUME NEW s \in Slot, CheckLimit(s) PROVE TypeOK'
      <3>1. attempt' \in [Slot -> Attempt \cup {Idle}]
        BY <2>2, <2>4 DEF CheckLimit, Working, Answers
      <3>2. QED
        BY <2>4, <3>1 DEF TypeOK, CheckLimit, store, history
    <2>5. ASSUME NEW s \in Slot, Compare(s) PROVE TypeOK'
      <3>1. attempt' \in [Slot -> Attempt \cup {Idle}]
        BY <2>2, <2>5 DEF Compare, Working, Answers
      <3>2. QED
        BY <2>5, <3>1 DEF TypeOK, Compare, store
    <2>6. ASSUME NEW s \in Slot, RecordFailure(s) PROVE TypeOK'
      <3>1. attempt' \in [Slot -> Attempt \cup {Idle}]
        BY <2>2, <2>6 DEF RecordFailure, Working, Answers
      <3>2. attempt[s].pair \in Pair /\ attempt[s].at \in Time
        BY <2>6, BusyAttempt DEF RecordFailure, Working
      <3>3. Counted(limits[attempt[s].pair], attempt[s].at) \in Limit
        BY <3>2, CountedType DEF TypeOK
      <3>4. limits' \in [Pair -> Limit]
        BY <2>6, <3>3 DEF RecordFailure, TypeOK
      <3>5. tried' \in [Pair -> Nat]
        BY <2>6, <3>2 DEF RecordFailure, TypeOK
      <3>6. PastCheck(attempt[s].pair) \in SUBSET Slot
        BY DEF PastCheck
      <3>7. inflight' \in [Pair -> SUBSET Slot]
        BY <2>6, <3>6 DEF RecordFailure, TypeOK
      <3>8. QED
        BY <2>6, <3>1, <3>4, <3>5, <3>7 DEF RecordFailure, TypeOK, store
    <2>7. ASSUME NEW s \in Slot, Reset(s) PROVE TypeOK'
      <3>1. attempt' \in [Slot -> Attempt \cup {Idle}]
        BY <2>2, <2>7 DEF Reset, Working, Answers
      <3>2. NoLimit \in Limit
        BY DEF NoLimit, Limit
      <3>3. QED
        BY <2>7, <3>1, <3>2 DEF TypeOK, Reset, store
    <2>8. ASSUME NEW s \in Slot, Abort(s) PROVE TypeOK'
      <3>1. attempt' \in [Slot -> Attempt \cup {Idle}]
        BY <2>2, <2>8 DEF Abort, Goto, Answers
      <3>2. QED
        BY <2>8, <3>1 DEF TypeOK, Abort, store
    <2>9. ASSUME NEW s \in Slot, Leave(s) PROVE TypeOK'
      BY <2>9, NothingType DEF TypeOK, Leave, store
    <2>10. ASSUME NEW a \in Admin, NEW u \in User, NEW g \in Pin, SetPinCheck(a, u, g)
           PROVE  TypeOK'
      BY <2>10 DEF TypeOK, SetPinCheck, AdminCall, store, history
    <2>11. ASSUME NEW a \in Admin, SetPinWrite(a) PROVE TypeOK'
      <3>1. admin[a].user \in User /\ admin[a].pin \in Pin
        BY <2>11, BusyAdmin DEF SetPinWrite
      <3>2. users' \subseteq User /\ pins' \in [User -> Pin \cup {NoPin}]
        BY <2>11, <3>1 DEF SetPinWrite, TypeOK
      <3>3. QED
        BY <2>11, <3>2, WatchType DEF TypeOK, SetPinWrite
    <2>12. ASSUME NEW a \in Admin, NEW u \in User, RemovePin(a, u) PROVE TypeOK'
      <3>1. users' \subseteq User /\ pins' \in [User -> Pin \cup {NoPin}]
        BY <2>12 DEF RemovePin, TypeOK
      <3>2. QED
        BY <2>12, <3>1, WatchType DEF TypeOK, RemovePin, AdminCall
    <2>13. ASSUME NEW a \in Admin, RemoveDocument(a) PROVE TypeOK'
      <3>1. users' \subseteq User /\ pins' \in [User -> Pin \cup {NoPin}]
        BY <2>13 DEF RemoveDocument, TypeOK
      <3>2. QED
        BY <2>13, <3>1, WatchType DEF TypeOK, RemoveDocument
    <2>14. ASSUME NEW a \in Admin, AdminAbort(a) PROVE TypeOK'
      BY <2>14 DEF TypeOK, AdminAbort, store, history
    <2>15. ASSUME NEW u \in User, Register(u) PROVE TypeOK'
      <3>1. users' \subseteq User /\ pins' \in [User -> Pin \cup {NoPin}]
        BY <2>15 DEF Register, TypeOK
      <3>2. QED
        BY <2>15, <3>1, WatchType DEF TypeOK, Register
    <2>16. CASE Tick
      BY <2>16, PolicyAssumption DEF TypeOK, Tick, Time, store, history
    <2>17. CASE UNCHANGED vars
      BY <2>17 DEF TypeOK, vars
    <2>18. QED
      BY <2>1, <2>3, <2>4, <2>5, <2>6, <2>7, <2>8, <2>9, <2>10, <2>11, <2>12, <2>13,
         <2>14, <2>15, <2>16, <2>17 DEF Next, Unlocking, Administering
  <1>3. QED
    BY <1>1, <1>2, PTL DEF Spec

-----------------------------------------------------------------------------
(* The lockout.  Every reading a call still holds was taken in the past,   *)
(* so a transaction never sees a lock as longer over than it is.           *)

ReadingsPast == \A s \in Slot : attempt[s].pc \in {"check", "failed"} => attempt[s].at <= now

LockInv == TypeOK /\ ReadingsPast /\ NoNewGuessUnderLock /\ LockEnds

\* A step of one call disturbs no other call.
LEMMA OtherAttempts ==
    ASSUME TypeOK, NEW s \in Slot, Unlocking(s)
    PROVE  \A r \in Slot \ {s} : attempt'[r] = attempt[r]
  BY DEF TypeOK, Unlocking, Begin, GetUser, CheckLimit, Compare, RecordFailure, Reset,
         Abort, Leave, Goto, GotoReading

LEMMA ClockStep ==
    ASSUME TypeOK, [Next]_vars
    PROVE  now \in Nat /\ now' \in {now, now + 1}
  <1>1. now \in Nat
    BY DEF TypeOK, Time
  <1>2. ASSUME NEW s \in Slot, Unlocking(s) PROVE now' = now
    BY <1>2 DEF Unlocking, Begin, GetUser, CheckLimit, Compare, RecordFailure, Reset,
                Abort, Leave
  <1>3. ASSUME NEW a \in Admin, Administering(a) PROVE now' = now
    BY <1>3 DEF Administering, SetPinCheck, SetPinWrite, RemovePin, RemoveDocument, AdminAbort
  <1>4. ASSUME NEW u \in User, Register(u) PROVE now' = now
    BY <1>4 DEF Register
  <1>5. QED
    BY <1>1, <1>2, <1>3, <1>4 DEF Next, Tick, vars

\* How each step of a call leaves its own slot.
LEMMA OwnAttempt ==
    ASSUME TypeOK, NEW s \in Slot, Unlocking(s), attempt'[s].pc \in {"check", "failed"}
    PROVE  attempt'[s].at = now
  <1>1. ASSUME NEW to, attempt[s].pc \in Working, Goto(s, to) PROVE attempt'[s].pc = to
    BY <1>1, BusyAttempt DEF Goto, TypeOK, Attempt
  <1>2. ASSUME NEW to, attempt[s].pc \in Working, GotoReading(s, to) PROVE attempt'[s].at = now
    BY <1>2, BusyAttempt DEF GotoReading, TypeOK, Attempt
  <1>3. ASSUME NEW p \in Pair, NEW g \in Pin, Begin(s, p, g) PROVE FALSE
    BY <1>3 DEF Begin, TypeOK
  <1>4. CASE GetUser(s)
    BY <1>1, <1>2, <1>4 DEF GetUser, Working
  <1>5. CASE CheckLimit(s)
    BY <1>1, <1>5 DEF CheckLimit, Working
  <1>6. CASE Compare(s)
    BY <1>1, <1>2, <1>6 DEF Compare, Working
  <1>7. CASE RecordFailure(s)
    BY <1>1, <1>7 DEF RecordFailure, Working
  <1>8. CASE Reset(s)
    BY <1>1, <1>8 DEF Reset, Working
  <1>9. CASE Abort(s)
    BY <1>9, BusyAttempt DEF Abort, TypeOK, Attempt
  <1>10. CASE Leave(s)
    BY <1>10 DEF Leave, Idle, TypeOK
  <1>11. QED
    BY <1>3, <1>4, <1>5, <1>6, <1>7, <1>8, <1>9, <1>10 DEF Unlocking

LEMMA ReadingsPastStep == TypeOK /\ ReadingsPast /\ [Next]_vars => ReadingsPast'
  <1> SUFFICES ASSUME TypeOK, ReadingsPast, [Next]_vars,
                      NEW r \in Slot, attempt'[r].pc \in {"check", "failed"}
               PROVE  attempt'[r].at <= now'
    BY DEF ReadingsPast
  <1>1. now \in Nat /\ now' \in {now, now + 1}
    BY ClockStep
  <1>2. CASE attempt'[r] = attempt[r]
    <2>1. attempt[r].at \in Nat /\ attempt[r].at <= now
      BY <1>2, BusyAttempt DEF ReadingsPast, Working, Time
    <2>2. QED
      BY <1>1, <1>2, <2>1
  <1>3. ASSUME NEW s \in Slot, Unlocking(s) PROVE attempt'[r].at <= now'
    <2>1. CASE r # s
      BY <1>2, <1>3, <2>1, OtherAttempts
    <2>2. CASE r = s
      <3>1. attempt'[r].at = now
        BY <1>3, <2>2, OwnAttempt
      <3>2. QED
        BY <1>1, <3>1
    <2>3. QED
      BY <2>1, <2>2
  <1>4. CASE UNCHANGED attempt
    BY <1>2, <1>4
  <1>5. ASSUME NEW a \in Admin, Administering(a) PROVE UNCHANGED attempt
    BY <1>5 DEF Administering, SetPinCheck, SetPinWrite, RemovePin, RemoveDocument, AdminAbort
  <1>6. QED
    BY <1>3, <1>4, <1>5 DEF Next, vars, Register, Tick

\* Counting a failure sets a lock of at most one window from its reading.
LEMMA CountedUntil ==
    ASSUME NEW l \in Limit, NEW at \in Nat
    PROVE  Counted(l, at).until \in {0, at + Window}
  BY DEF Counted

\* Only RecordFailure and Reset change limiter documents, and RecordFailure
\* leaves a lock in force alone.
LEMMA LimitChange ==
    ASSUME TypeOK, ReadingsPast, [Next]_vars, NEW p \in Pair, limits'[p] # limits[p]
    PROVE  /\ now' = now
           /\ limits'[p].until \in Nat /\ limits'[p].until <= now + Window
           /\ \/ limits'[p].until = 0
              \/ ~ LockLive(p) /\ \E s \in Slot : RecordFailure(s) /\ attempt[s].pair = p
                                                 /\ inflight'[p] = PastCheck(p)
  <1>1. limits' # limits
    OBVIOUS
  <1>2. PICK s \in Slot : RecordFailure(s) \/ Reset(s)
    BY <1>1 DEF Next, vars, Unlocking, Administering, Begin, GetUser, CheckLimit,
           Compare, Abort, Leave, SetPinCheck, SetPinWrite,
           RemovePin, RemoveDocument, AdminAbort, Register, Tick
  <1>3. attempt[s].pair \in Pair /\ attempt[s].at \in Nat /\ now \in Nat /\ now' = now
    BY <1>2, BusyAttempt DEF RecordFailure, Reset, Working, Time, TypeOK
  <1>4. CASE Reset(s)
    BY <1>3, <1>4, PolicyAssumption DEF Reset, TypeOK, NoLimit
  <1>5. CASE RecordFailure(s)
    <2> DEFINE at == attempt[s].at
               l == limits[p]
    <2>1. attempt[s].pair = p
      BY <1>3, <1>5 DEF RecordFailure, TypeOK
    <2>2. ~ LockedAt(l, at) /\ limits'[p] = Counted(l, at) /\ inflight'[p] = PastCheck(p)
      BY <1>3, <1>5, <2>1 DEF RecordFailure, TypeOK
    <2>3. at <= now
      BY <1>5 DEF RecordFailure, ReadingsPast
    <2>4. l \in Limit /\ l.until \in Nat
      BY DEF TypeOK, Limit
    <2>5. ~ LockLive(p)
      BY <1>3, <2>2, <2>3, <2>4 DEF LockedAt, LockLive
    <2>6. limits'[p].until \in {0, at + Window}
      BY <1>3, <2>2, <2>4, CountedUntil
    <2>7. QED
      BY <1>3, <1>5, <2>1, <2>2, <2>3, <2>5, <2>6, PolicyAssumption
  <1>6. QED
    BY <1>2, <1>4, <1>5

LEMMA LockEndsStep ==
    TypeOK /\ TypeOK' /\ ReadingsPast /\ LockEnds /\ [Next]_vars => LockEnds'
  <1> SUFFICES ASSUME TypeOK, TypeOK', ReadingsPast, LockEnds, [Next]_vars, NEW p \in Pair
               PROVE  limits'[p].until <= now' + Window
    BY DEF LockEnds
  <1>1. CASE limits'[p] = limits[p]
    <2>1. now \in Nat /\ now' \in {now, now + 1}
      BY ClockStep
    <2>2. limits[p].until \in Nat
      BY DEF TypeOK, Limit
    <2>3. QED
      BY <1>1, <2>1, <2>2, PolicyAssumption DEF LockEnds
  <1>2. CASE limits'[p] # limits[p]
    BY <1>2, LimitChange
  <1>3. QED
    BY <1>1, <1>2

\* The calls a lock spares change only as the lock does, or by comparing.
LEMMA InflightChange ==
    ASSUME TypeOK, NEW s \in Slot, Unlocking(s), NEW p \in Pair
    PROVE  \/ inflight'[p] \in {inflight[p], inflight[p] \ {s}, PastCheck(p)}
           \/ limits'[p].until = 0
  <1>1. ASSUME NEW q \in Pair, NEW g \in Pin, Begin(s, q, g) PROVE inflight' = inflight
    BY <1>1 DEF Begin
  <1>2. CASE GetUser(s) \/ CheckLimit(s) \/ Leave(s)
    BY <1>2 DEF GetUser, CheckLimit, Leave, history
  <1>3. CASE Compare(s) \/ Abort(s)
    BY <1>3 DEF Compare, Abort, TypeOK
  <1>4. CASE RecordFailure(s)
    BY <1>4 DEF RecordFailure, TypeOK
  <1>5. CASE Reset(s)
    BY <1>5, BusyAttempt DEF Reset, TypeOK, NoLimit, Working
  <1>6. QED
    BY <1>1, <1>2, <1>3, <1>4, <1>5 DEF Unlocking

\* A call gets past the check only while no lock is live.
LEMMA PassesUnlocked ==
    ASSUME TypeOK, ReadingsPast, NEW s \in Slot, Unlocking(s), attempt'[s].pc = "pin"
    PROVE  /\ UNCHANGED <<now, limits>> /\ attempt'[s].pair \in Pair
           /\ ~ LockLive(attempt'[s].pair)
  <1>1. ASSUME NEW to, attempt[s].pc \in Working, Goto(s, to) \/ GotoReading(s, to)
        PROVE  attempt'[s].pc = to /\ attempt'[s].pair = attempt[s].pair
    BY <1>1, BusyAttempt DEF Goto, GotoReading, TypeOK, Attempt
  <1>2. ASSUME NEW p \in Pair, NEW g \in Pin, Begin(s, p, g) PROVE FALSE
    BY <1>2 DEF Begin, TypeOK
  <1>3. CASE GetUser(s)
    BY <1>1, <1>3 DEF GetUser, Working
  <1>4. CASE CheckLimit(s)
    <2>1. attempt[s].pair \in Pair /\ attempt[s].at \in Nat /\ attempt[s].at <= now /\ now \in Nat
      BY <1>4, BusyAttempt DEF CheckLimit, ReadingsPast, Working, Time, TypeOK
    <2>2. limits[attempt[s].pair].until \in Nat
      BY <2>1 DEF TypeOK, Limit
    <2>3. attempt'[s].pair = attempt[s].pair
      BY <1>1, <1>4 DEF CheckLimit, Working
    <2>4. ~ LockedAt(limits[attempt[s].pair], attempt[s].at)
      BY <1>1, <1>4 DEF CheckLimit, Working
    <2>5. QED
      BY <1>4, <2>1, <2>2, <2>3, <2>4 DEF CheckLimit, LockedAt, LockLive
  <1>5. CASE Compare(s)
    BY <1>1, <1>5 DEF Compare, Working
  <1>6. CASE RecordFailure(s)
    BY <1>1, <1>6 DEF RecordFailure, Working
  <1>7. CASE Reset(s)
    BY <1>1, <1>7 DEF Reset, Working
  <1>8. CASE Abort(s)
    BY <1>8, BusyAttempt DEF Abort, TypeOK, Attempt
  <1>9. CASE Leave(s)
    BY <1>9 DEF Leave, Idle, TypeOK
  <1>10. QED
    BY <1>2, <1>3, <1>4, <1>5, <1>6, <1>7, <1>8, <1>9 DEF Unlocking

LEMMA NoNewGuessStep ==
    TypeOK /\ TypeOK' /\ ReadingsPast /\ NoNewGuessUnderLock /\ [Next]_vars
        => NoNewGuessUnderLock'
  <1> SUFFICES ASSUME TypeOK, TypeOK', ReadingsPast, NoNewGuessUnderLock, [Next]_vars,
                      NEW p \in Pair, LockLive(p)',
                      NEW r \in Slot, attempt'[r].pc = "pin", attempt'[r].pair = p
               PROVE  r \in inflight'[p]
    BY DEF NoNewGuessUnderLock, PastCheck
  <1>1. now \in Nat /\ now' \in {now, now + 1}
    BY ClockStep
  <1>2. limits[p].until \in Nat /\ limits'[p].until \in Nat /\ limits'[p].until > now'
    BY DEF TypeOK, Limit, LockLive
  \* If the lock was there and r already past the check, r is spared.
  <1>3. ASSUME attempt'[r] = attempt[r], limits'[p] = limits[p] PROVE r \in inflight[p]
    <2>1. LockLive(p)
      BY <1>1, <1>2, <1>3 DEF LockLive
    <2>2. QED
      BY <1>3, <2>1 DEF NoNewGuessUnderLock, PastCheck
  <1>4. ASSUME NEW s \in Slot, Unlocking(s) PROVE r \in inflight'[p]
    <2>1. CASE r = s
      <3>1. UNCHANGED <<now, limits>> /\ ~ LockLive(p)
        BY <1>4, <2>1, PassesUnlocked
      <3>2. QED
        BY <3>1 DEF LockLive
    <2>2. CASE r # s
      <3>1. attempt'[r] = attempt[r]
        BY <1>4, <2>2, OtherAttempts
      <3>2. r \in PastCheck(p)
        BY <3>1 DEF PastCheck
      <3>3. CASE limits'[p] = limits[p]
        BY <1>1, <1>2, <1>3, <1>4, <2>2, <3>1, <3>2, <3>3, InflightChange
      <3>4. CASE limits'[p] # limits[p]
        <4>1. inflight'[p] = PastCheck(p)
          BY <1>1, <1>2, <3>4, LimitChange
        <4>2. QED
          BY <3>2, <4>1
      <3>5. QED
        BY <3>3, <3>4
    <2>3. QED
      BY <2>1, <2>2
  <1>5. ASSUME UNCHANGED <<attempt, limits, inflight>> PROVE r \in inflight'[p]
    BY <1>3, <1>5
  <1>6. ASSUME NEW a \in Admin, Administering(a) PROVE UNCHANGED <<attempt, limits, inflight>>
    BY <1>6 DEF Administering, SetPinCheck, SetPinWrite, RemovePin, RemoveDocument, AdminAbort,
                history
  <1>7. QED
    BY <1>4, <1>5, <1>6 DEF Next, vars, Register, Tick, history

THEOREM LockInductive == Spec => []LockInv
  <1>1. Init => ReadingsPast /\ NoNewGuessUnderLock /\ LockEnds
    BY PolicyAssumption DEF Init, ReadingsPast, NoNewGuessUnderLock, LockEnds, LockLive,
                            NoLimit, Idle
  <1>2. QED
    BY <1>1, ReadingsPastStep, NoNewGuessStep, LockEndsStep, TypeCorrect, PTL
       DEF Spec, LockInv

\* A recorded lock admits only the guesses already in flight, for every number
\* of concurrent calls and every policy.
THEOREM LockAdmitsNoNewGuess == Spec => []NoNewGuessUnderLock
  BY LockInductive, PTL DEF LockInv

\* Every lockout is over within one window.
THEOREM LockIsBounded == Spec => []LockEnds
  BY LockInductive, PTL DEF LockInv

\* No failure during a lockout moves its end.
THEOREM FailuresDoNotExtend == Spec => LockNotExtended
  <1>1. LockInv /\ [Next]_vars =>
          [\A p \in Pair : LockLive(p) => limits'[p].until <= limits[p].until]_vars
    <2> SUFFICES ASSUME LockInv, [Next]_vars, NEW p \in Pair, LockLive(p)
                 PROVE  limits'[p].until <= limits[p].until
      OBVIOUS
    <2>1. limits[p].until \in Nat
      BY DEF LockInv, TypeOK, Limit
    <2>2. CASE limits'[p] = limits[p]
      BY <2>1, <2>2
    <2>3. CASE limits'[p] # limits[p]
      BY <2>1, <2>3, LimitChange DEF LockInv
    <2>4. QED
      BY <2>2, <2>3
  <1>2. QED
    BY <1>1, LockInductive, PTL DEF Spec, LockNotExtended

-----------------------------------------------------------------------------
(* The guessing budget.  What a recorded lock still allows is owed by calls *)
(* that are named: those it spared and that have yet to compare, and those *)
(* that have compared and will find it in force.  A slot leaves this set   *)
(* when its failure is answered, and no slot ever joins it.                *)

Owing(p) == {k \in Slot :
    \/ k \in inflight[p]
    \/ attempt[k].pc = "failed" /\ attempt[k].pair = p /\ LockedAt(limits[p], attempt[k].at)}

BudgetOf(p) ==
    /\ inflight[p] \subseteq PastCheck(p)
    /\ limits[p].until = 0 => tried[p] = limits[p].count /\ limits[p].count < MaxFailures
    /\ limits[p].until > 0 => /\ limits[p].count >= MaxFailures
                              /\ tried[p] + Cardinality(Owing(p)) <= Cardinality(Slot) - 1

BudgetInv == \A p \in Pair : BudgetOf(p)

LEMMA FewerSlots ==
    ASSUME NEW A \in SUBSET Slot, NEW B \in SUBSET A
    PROVE  /\ Cardinality(A) \in Nat /\ Cardinality(B) \in Nat /\ Cardinality(Slot) \in Nat
           /\ Cardinality(B) <= Cardinality(A) /\ Cardinality(A) <= Cardinality(Slot)
           /\ \A s \in A \ B : Cardinality(B) <= Cardinality(A) - 1
  <1>1. IsFiniteSet(A) /\ IsFiniteSet(B) /\ Cardinality(A) <= Cardinality(Slot)
    BY SlotAssumption, FS_Subset
  <1>2. Cardinality(A) \in Nat /\ Cardinality(B) \in Nat /\ Cardinality(Slot) \in Nat
    BY <1>1, SlotAssumption, FS_CardinalityType
  <1>3. Cardinality(B) <= Cardinality(A)
    BY <1>1, FS_Subset
  <1>4. ASSUME NEW s \in A \ B PROVE Cardinality(B) <= Cardinality(A) - 1
    <2>1. IsFiniteSet(A \ {s}) /\ Cardinality(A \ {s}) = Cardinality(A) - 1
      BY <1>1, FS_RemoveElement
    <2>2. B \in SUBSET (A \ {s})
      OBVIOUS
    <2>3. QED
      BY <2>1, <2>2, FS_Subset
  <1>5. QED
    BY <1>1, <1>2, <1>3, <1>4

\* A call that moves is no longer one the lock spared; the others stay.
LEMMA SparedStay ==
    ASSUME TypeOK, BudgetInv, NEW s \in Slot, Unlocking(s), NEW p \in Pair
    PROVE  /\ s \notin inflight'[p]
           /\ inflight'[p] \subseteq PastCheck(p)
  <1>1. inflight[p] \subseteq PastCheck(p) /\ inflight[p] \subseteq Slot
    BY DEF BudgetInv, BudgetOf, TypeOK
  <1>2. ASSUME attempt[s].pc # "pin", inflight'[p] \subseteq inflight[p]
        PROVE  s \notin inflight'[p] /\ inflight'[p] \subseteq PastCheck(p)
    BY <1>1, <1>2 DEF PastCheck
  <1>3. ASSUME NEW q \in Pair, NEW g \in Pin, Begin(s, q, g) PROVE inflight' = inflight /\ attempt[s].pc # "pin"
    BY <1>3 DEF Begin, Idle
  <1>4. CASE GetUser(s) \/ CheckLimit(s) \/ Leave(s)
    <2>1. inflight' = inflight /\ attempt[s].pc # "pin"
      BY <1>4 DEF GetUser, CheckLimit, Leave, history, Answers
    <2>2. QED
      BY <1>2, <2>1
  <1>5. CASE Compare(s) \/ Abort(s)
    <2>1. inflight' = [inflight EXCEPT ![attempt[s].pair] = @ \ {s}]
      BY <1>5 DEF Compare, Abort
    <2>2. CASE attempt[s].pair = p
      <3>1. inflight'[p] = inflight[p] \ {s}
        BY <2>1, <2>2 DEF TypeOK
      <3>2. QED
        BY <1>1, <3>1
    <2>3. CASE attempt[s].pair # p
      <3>1. inflight'[p] = inflight[p]
        BY <2>1, <2>3 DEF TypeOK
      <3>2. QED
        BY <1>1, <2>3, <3>1 DEF PastCheck
    <2>4. QED
      BY <2>2, <2>3
  <1>6. CASE RecordFailure(s)
    <2>1. attempt[s].pc = "failed" /\ inflight'[p] \in {inflight[p], PastCheck(p)}
      BY <1>6 DEF RecordFailure, TypeOK
    <2>2. QED
      BY <1>1, <2>1 DEF PastCheck
  <1>7. CASE Reset(s)
    <2>1. attempt[s].pc = "matched" /\ inflight'[p] \in {inflight[p], {}}
      BY <1>7 DEF Reset, TypeOK
    <2>2. QED
      BY <1>1, <2>1 DEF PastCheck
  <1>8. QED
    BY <1>2, <1>3, <1>4, <1>5, <1>6, <1>7 DEF Unlocking

LEMMA SparedPast ==
    ASSUME TypeOK, BudgetInv, NEW s \in Slot, Unlocking(s), NEW p \in Pair
    PROVE  inflight'[p] \subseteq PastCheck(p)'
  <1>1. s \notin inflight'[p] /\ inflight'[p] \subseteq PastCheck(p)
    BY SparedStay
  <1>2. PastCheck(p) \ {s} \subseteq PastCheck(p)'
    BY OtherAttempts DEF PastCheck
  <1>3. QED
    BY <1>1, <1>2

\* A call that has just failed came from its comparison.
LEMMA FailedCompared ==
    ASSUME TypeOK, NEW s \in Slot, Unlocking(s), attempt'[s].pc = "failed"
    PROVE  attempt[s].pc = "pin" /\ attempt'[s].pair = attempt[s].pair
  <1>1. ASSUME NEW to, attempt[s].pc \in Working, Goto(s, to) \/ GotoReading(s, to)
        PROVE  attempt'[s].pc = to /\ attempt'[s].pair = attempt[s].pair
    BY <1>1, BusyAttempt DEF Goto, GotoReading, TypeOK, Attempt
  <1>2. ASSUME NEW p \in Pair, NEW g \in Pin, Begin(s, p, g) PROVE FALSE
    BY <1>2 DEF Begin, TypeOK
  <1>3. CASE GetUser(s)
    BY <1>1, <1>3 DEF GetUser, Working
  <1>4. CASE CheckLimit(s)
    BY <1>1, <1>4 DEF CheckLimit, Working
  <1>5. CASE Compare(s)
    BY <1>1, <1>5 DEF Compare, Working
  <1>6. CASE RecordFailure(s)
    BY <1>1, <1>6 DEF RecordFailure, Working
  <1>7. CASE Reset(s)
    BY <1>1, <1>7 DEF Reset, Working
  <1>8. CASE Abort(s)
    BY <1>8, BusyAttempt DEF Abort, TypeOK, Attempt
  <1>9. CASE Leave(s)
    BY <1>9 DEF Leave, Idle, TypeOK
  <1>10. QED
    BY <1>2, <1>3, <1>4, <1>5, <1>6, <1>7, <1>8, <1>9 DEF Unlocking

\* No slot joins those a lock still owes an answer: a call that compares while
\* the lock is live is one it spared.
LEMMA NoneJoins ==
    ASSUME LockInv, BudgetInv, NEW s \in Slot, Unlocking(s), NEW p \in Pair,
           limits'[p] = limits[p], inflight'[p] \subseteq inflight[p]
    PROVE  Owing(p)' \subseteq Owing(p)
  <1> SUFFICES ASSUME NEW r \in Slot, r \in Owing(p)' PROVE r \in Owing(p)
    BY DEF Owing
  <1>1. TypeOK
    BY DEF LockInv
  <1>2. CASE r # s
    BY <1>1, <1>2, OtherAttempts DEF Owing
  <1>3. CASE r = s
    <2>1. attempt'[s].pc = "failed" /\ attempt'[s].pair = p /\ LockedAt(limits[p], attempt'[s].at)
      BY <1>1, <1>3, SparedStay DEF Owing
    <2>2. attempt[s].pc = "pin" /\ attempt[s].pair = p /\ attempt'[s].at = now
      BY <1>1, <2>1, FailedCompared, OwnAttempt
    <2>3. LockLive(p)
      BY <2>1, <2>2 DEF LockedAt, LockLive
    <2>4. s \in inflight[p]
      BY <2>2, <2>3 DEF LockInv, NoNewGuessUnderLock, PastCheck
    <2>5. QED
      BY <1>3, <2>4 DEF Owing
  <1>4. QED
    BY <1>2, <1>3

\* A step that leaves the limiter document of p alone keeps its budget.
LEMMA BudgetUndisturbed ==
    ASSUME LockInv, BudgetInv, NEW s \in Slot, Unlocking(s), NEW p \in Pair,
           limits'[p] = limits[p], tried'[p] = tried[p], inflight'[p] \subseteq inflight[p]
    PROVE  BudgetOf(p)'
  <1>1. TypeOK /\ BudgetOf(p)
    BY DEF LockInv, BudgetInv
  <1>2. inflight'[p] \subseteq PastCheck(p)'
    BY <1>1, SparedPast
  <1>3. Owing(p) \in SUBSET Slot /\ Owing(p)' \in SUBSET Owing(p)
    BY NoneJoins DEF Owing
  <1>4. /\ Cardinality(Owing(p)') <= Cardinality(Owing(p))
        /\ Cardinality(Owing(p)) \in Nat /\ Cardinality(Owing(p)') \in Nat
        /\ Cardinality(Slot) \in Nat
    BY <1>3, FewerSlots
  <1>5. tried[p] \in Nat
    BY <1>1 DEF TypeOK
  <1>6. QED
    BY <1>1, <1>2, <1>4, <1>5 DEF BudgetOf

\* What a counted failure leaves: a lock exactly from the threshold on.
LEMMA CountedParts ==
    ASSUME NEW l \in Limit, NEW at \in Nat
    PROVE  LET c == Counted(l, at) IN
           /\ c.count = IF Restarts(l, at) THEN 1 ELSE l.count + 1
           /\ c.until = IF c.count >= MaxFailures THEN at + Window ELSE 0
  BY DEF Counted

\* A failure that finds the lock in force pays for itself.
LEMMA FailureUnderLock ==
    ASSUME LockInv, BudgetInv, NEW s \in Slot, RecordFailure(s), Unlocking(s),
           NEW p \in Pair, p = attempt[s].pair, LockedAt(limits[p], attempt[s].at)
    PROVE  BudgetOf(p)'
  <1>1. TypeOK /\ BudgetOf(p)
    BY DEF LockInv, BudgetInv
  <1>2. /\ attempt[s].pc = "failed" /\ attempt'[s].pc = "LOCKED"
        /\ limits'[p] = limits[p] /\ inflight'[p] = inflight[p] /\ tried'[p] = tried[p] + 1
    <2>1. attempt[s] \in Attempt
      BY <1>1, BusyAttempt DEF RecordFailure, Working
    <2>2. QED
      BY <1>1, <2>1 DEF RecordFailure, Goto, TypeOK, Attempt
  <1>3. inflight'[p] \subseteq PastCheck(p)'
    BY <1>1, SparedPast
  <1>4. s \in Owing(p)
    BY <1>2 DEF Owing
  <1>5. s \notin Owing(p)'
    BY <1>1, <1>2, SparedStay DEF Owing
  <1>6. Owing(p) \in SUBSET Slot /\ Owing(p)' \in SUBSET Owing(p)
    BY <1>2, NoneJoins DEF Owing
  <1>7. /\ Cardinality(Owing(p)') <= Cardinality(Owing(p)) - 1
        /\ Cardinality(Owing(p)) \in Nat /\ Cardinality(Owing(p)') \in Nat
        /\ Cardinality(Slot) \in Nat
    BY <1>4, <1>5, <1>6, FewerSlots
  <1>8. tried[p] \in Nat /\ limits[p].until \in Nat /\ attempt[s].at \in Nat
    BY <1>1, <1>2, BusyAttempt DEF TypeOK, Limit, Working, Time
  <1>9. limits[p].until > 0
    BY <1>8 DEF LockedAt
  <1>10. QED
    BY <1>1, <1>2, <1>3, <1>7, <1>8, <1>9 DEF BudgetOf

\* A failure that is counted: the count is what was tried, or a lock is
\* recorded that owes an answer to the other slots at most.
LEMMA FailureCounted ==
    ASSUME LockInv, BudgetInv, NEW s \in Slot, RecordFailure(s), Unlocking(s),
           NEW p \in Pair, p = attempt[s].pair, ~ LockedAt(limits[p], attempt[s].at)
    PROVE  BudgetOf(p)'
  <1> DEFINE l == limits[p]
             at == attempt[s].at
             c == Counted(l, at)
  <1>1. TypeOK /\ BudgetOf(p)
    BY DEF LockInv, BudgetInv
  <1>2. /\ l \in Limit /\ l.count \in Nat /\ l.until \in Nat /\ at \in Nat /\ tried[p] \in Nat
        /\ attempt[s] \in Attempt
    BY <1>1, BusyAttempt DEF TypeOK, Limit, Working, Time, RecordFailure
  <1>3. attempt'[s].pc \in {"LOCKED", "DENIED"}
    BY <1>1, <1>2 DEF RecordFailure, Goto, TypeOK, Attempt
  <1>4. /\ limits'[p] = c
        /\ tried'[p] = IF c.until > 0 THEN 0 ELSE IF Restarts(l, at) THEN 1 ELSE tried[p] + 1
    BY <1>1 DEF RecordFailure, TypeOK
  <1>5. inflight'[p] \subseteq PastCheck(p)'
    BY <1>1, SparedPast
  <1>6. /\ c.count = IF Restarts(l, at) THEN 1 ELSE l.count + 1
        /\ c.until = IF c.count >= MaxFailures THEN at + Window ELSE 0
    BY <1>2, CountedParts
  <1>7. s \notin Owing(p)'
    BY <1>1, <1>3, SparedStay DEF Owing
  <1>8. Cardinality(Owing(p)') <= Cardinality(Slot) - 1
    <2>1. Slot \in SUBSET Slot /\ Owing(p)' \in SUBSET Slot
      BY DEF Owing
    <2>2. QED
      BY <1>7, <2>1, FewerSlots
  <1>9. Cardinality(Slot) \in Nat /\ Cardinality(Owing(p)') \in Nat
    <2>1. Slot \in SUBSET Slot /\ Owing(p)' \in SUBSET Slot
      BY DEF Owing
    <2>2. QED
      BY <2>1, FewerSlots
  <1> HIDE DEF l, at, c
  <1>10. CASE c.count >= MaxFailures
    <2>1. c.until > 0 /\ c.until # 0
      BY <1>2, <1>6, <1>10, PolicyAssumption
    <2>2. tried'[p] = 0
      BY <1>4, <2>1
    <2>3. QED
      BY <1>4, <1>5, <1>8, <1>9, <1>10, <2>1, <2>2 DEF BudgetOf
  <1>11. CASE ~ (c.count >= MaxFailures)
    <2>1. c.until = 0 /\ c.count \in Nat /\ c.count < MaxFailures
      BY <1>2, <1>6, <1>11, PolicyAssumption
    \* Were a lock stored and over, the next failure of its window would set
    \* another: only a restart ends up below the threshold.
    <2>2. l.until = 0 \/ Restarts(l, at)
      <3>1. CASE l.until > 0 /\ ~ Restarts(l, at)
        <4>1. l.count >= MaxFailures
          BY <1>1, <3>1 DEF BudgetOf, l
        <4>2. QED
          BY <1>2, <1>6, <2>1, <3>1, <4>1, PolicyAssumption
      <3>2. QED
        BY <1>2, <3>1
    <2>3. l.until = 0 => tried[p] = l.count
      BY <1>1 DEF BudgetOf, l
    <2>4. tried'[p] = c.count
      BY <1>4, <1>6, <2>1, <2>2, <2>3
    <2>5. QED
      BY <1>4, <1>5, <2>1, <2>4 DEF BudgetOf
  <1>12. QED
    BY <1>10, <1>11

LEMMA BudgetStep == LockInv /\ BudgetInv /\ [Next]_vars => BudgetInv'
  <1> SUFFICES ASSUME LockInv, BudgetInv, [Next]_vars, NEW p \in Pair
               PROVE  BudgetOf(p)'
    BY DEF BudgetInv
  <1>1. TypeOK /\ BudgetOf(p)
    BY DEF LockInv, BudgetInv
  <1>2. ASSUME UNCHANGED <<attempt, limits, tried, inflight>> PROVE BudgetOf(p)'
    BY <1>1, <1>2 DEF BudgetOf, PastCheck, Owing
  <1>3. ASSUME NEW s \in Slot, Unlocking(s) PROVE BudgetOf(p)'
    <2>1. ASSUME limits'[p] = limits[p], tried'[p] = tried[p], inflight'[p] \subseteq inflight[p]
          PROVE  BudgetOf(p)'
      BY <1>3, <2>1, BudgetUndisturbed
    <2>2. ASSUME NEW q \in Pair, NEW g \in Pin, Begin(s, q, g) PROVE BudgetOf(p)'
      BY <2>1, <2>2 DEF Begin
    <2>3. CASE GetUser(s) \/ CheckLimit(s) \/ Leave(s)
      BY <2>1, <2>3 DEF GetUser, CheckLimit, Leave, history
    <2>4. CASE Compare(s) \/ Abort(s)
      BY <1>1, <2>1, <2>4 DEF Compare, Abort, TypeOK
    <2>5. CASE RecordFailure(s)
      <3>1. CASE p # attempt[s].pair
        BY <1>1, <2>1, <2>5, <3>1 DEF RecordFailure, TypeOK
      <3>2. CASE p = attempt[s].pair
        BY <1>3, <2>5, <3>2, FailureUnderLock, FailureCounted
      <3>3. QED
        BY <3>1, <3>2
    <2>6. CASE Reset(s)
      <3>1. CASE p # attempt[s].pair
        BY <1>1, <2>1, <2>6, <3>1 DEF Reset, TypeOK
      <3>2. CASE p = attempt[s].pair
        <4>1. limits'[p] = NoLimit /\ tried'[p] = 0 /\ inflight'[p] = {}
          BY <1>1, <2>6, <3>2 DEF Reset, TypeOK
        <4>2. QED
          BY <4>1, PolicyAssumption DEF BudgetOf, NoLimit
      <3>3. QED
        BY <3>1, <3>2
    <2>7. QED
      BY <1>3, <2>2, <2>3, <2>4, <2>5, <2>6 DEF Unlocking
  <1>4. ASSUME NEW a \in Admin, Administering(a) PROVE BudgetOf(p)'
    BY <1>2, <1>4 DEF Administering, SetPinCheck, SetPinWrite, RemovePin, RemoveDocument,
                      AdminAbort, history
  <1>5. QED
    BY <1>2, <1>3, <1>4 DEF Next, vars, Register, Tick, history

\* Whatever the number of calls, the policy and the order of the transactions:
\* before a lock at most MaxFailures - 1 wrong PINs are answered, and under a
\* recorded lock at most one by each other call.
THEOREM GuessesAreBudgeted == Spec => []GuessBudget
  <1>1. Init => BudgetInv
    BY PolicyAssumption DEF Init, BudgetInv, BudgetOf, PastCheck, NoLimit, Idle
  <1>2. LockInv /\ BudgetInv => GuessBudget
    <2> SUFFICES ASSUME LockInv, BudgetInv, NEW p \in Pair
                 PROVE  tried[p] <= IF limits[p].until = 0 THEN MaxFailures - 1
                                                          ELSE Cardinality(Slot) - 1
      BY DEF GuessBudget
    <2>1. tried[p] \in Nat /\ limits[p].until \in Nat /\ limits[p].count \in Nat
      BY DEF LockInv, TypeOK, Limit
    <2>2. Cardinality(Owing(p)) \in Nat /\ Cardinality(Slot) \in Nat
      <3>1. Owing(p) \in SUBSET Slot
        BY DEF Owing
      <3>2. QED
        BY <3>1, FewerSlots
    <2>3. QED
      BY <2>1, <2>2, PolicyAssumption DEF BudgetInv, BudgetOf
  <1>3. QED
    BY <1>1, <1>2, BudgetStep, LockInductive, PTL DEF Spec

-----------------------------------------------------------------------------
(* What an UNLOCK answer rests on.  A call's history always covers the     *)
(* documents as they are now, so what it reads now is in its history.      *)

SeesNow ==
    \A s \in Slot : attempt[s].pc \in Working =>
        /\ UserOf(s) \in users => UserOf(s) \in past[s].users
        /\ pins[UserOf(s)] # NoPin => pins[UserOf(s)] \in past[s].set

FoundUser ==
    \A s \in Slot :
        attempt[s].pc \in {"check", "pin", "failed", "matched", "UNLOCK"} => UserOf(s) \in past[s].users

FoundPin ==
    \A s \in Slot :
        attempt[s].pc \in {"matched", "UNLOCK"} => attempt[s].guess \in past[s].set

Evidence == SeesNow /\ FoundUser /\ FoundPin

EvidenceOf(s) ==
    /\ attempt[s].pc \in Working =>
          /\ UserOf(s) \in users => UserOf(s) \in past[s].users
          /\ pins[UserOf(s)] # NoPin => pins[UserOf(s)] \in past[s].set
    /\ attempt[s].pc \in {"check", "pin", "failed", "matched", "UNLOCK"} => UserOf(s) \in past[s].users
    /\ attempt[s].pc \in {"matched", "UNLOCK"} => attempt[s].guess \in past[s].set

LEMMA EvidenceSplit == Evidence <=> \A s \in Slot : EvidenceOf(s)
  BY DEF Evidence, SeesNow, FoundUser, FoundPin, EvidenceOf

\* Watching a change keeps what was seen and adds what is now there.
LEMMA EvidenceWatch ==
    ASSUME TypeOK, Watch, UNCHANGED attempt, NEW s \in Slot, EvidenceOf(s)
    PROVE  EvidenceOf(s)'
  <1>1. CASE attempt[s] = Idle
    BY <1>1 DEF EvidenceOf, Idle, Working
  <1>2. CASE attempt[s] # Idle
    <2>1. past'[s] = Join(past[s], Look(UserOf(s), users', pins'))
      BY <1>2 DEF Watch
    <2>2. /\ past[s].users \subseteq past'[s].users
          /\ past[s].set \subseteq past'[s].set
          /\ UserOf(s) \in users' => UserOf(s) \in past'[s].users
          /\ pins'[UserOf(s)] # NoPin => pins'[UserOf(s)] \in past'[s].set
      <3>1. past'[s].set = past[s].set \cup ({pins'[UserOf(s)]} \ {NoPin})
        BY <2>1 DEF Join, Look
      <3>2. past'[s].users = past[s].users \cup ({UserOf(s)} \cap users')
        BY <2>1 DEF Join, Look
      <3>3. QED
        BY <3>1, <3>2
    <2>3. UserOf(s)' = UserOf(s)
      BY DEF UserOf
    <2>4. QED
      BY <2>2, <2>3 DEF EvidenceOf
  <1>3. QED
    BY <1>1, <1>2

LEMMA EvidenceOwn ==
    ASSUME TypeOK, NEW s \in Slot, Unlocking(s), EvidenceOf(s)
    PROVE  EvidenceOf(s)'
  <1> DEFINE Moved(to) == /\ attempt'[s].pc = to /\ attempt'[s].pair = attempt[s].pair
                          /\ attempt'[s].guess = attempt[s].guess
  <1>1. ASSUME NEW to, attempt[s].pc \in Working, Goto(s, to) \/ GotoReading(s, to)
        PROVE  Moved(to)
    BY <1>1, BusyAttempt DEF Goto, GotoReading, TypeOK, Attempt
  <1>2. ASSUME NEW to, Moved(to), UNCHANGED <<users, pins, past>>, attempt[s].pc \in Working,
               to \in {"check", "pin", "failed", "matched", "UNLOCK"} => UserOf(s) \in past[s].users,
               to \in {"matched", "UNLOCK"} => attempt[s].guess \in past[s].set
        PROVE  EvidenceOf(s)'
    BY <1>2 DEF EvidenceOf, UserOf
  <1>3. ASSUME NEW p \in Pair, NEW g \in Pin, Begin(s, p, g) PROVE EvidenceOf(s)'
    <2>1. attempt'[s] = [pc |-> "user", pair |-> p, guess |-> g, at |-> 0]
      BY <1>3 DEF Begin, TypeOK
    <2>2. past'[s] = Look(p[2], users, pins) /\ users' = users /\ pins' = pins
      BY <1>3 DEF Begin, TypeOK
    <2>3. past'[s].set = {pins[p[2]]} \ {NoPin}
      BY <2>2 DEF Look
    <2>4. past'[s].users = {p[2]} \cap users
      BY <2>2 DEF Look
    <2>5. attempt'[s].pc = "user" /\ attempt'[s].pair[2] = p[2]
      BY <2>1
    <2>6. QED
      BY <2>2, <2>3, <2>4, <2>5 DEF EvidenceOf, UserOf
  <1>4. CASE GetUser(s)
    <2>1. attempt[s].pc = "user" /\ UNCHANGED <<users, pins, past>>
      BY <1>4 DEF GetUser, store, history
    <2>2. \/ UserOf(s) \in users /\ GotoReading(s, "check")
          \/ Goto(s, "DENIED")
      BY <1>4 DEF GetUser
    <2>3. CASE UserOf(s) \in users /\ GotoReading(s, "check")
      BY <1>1, <1>2, <2>1, <2>3 DEF EvidenceOf, Working
    <2>4. CASE Goto(s, "DENIED")
      BY <1>1, <1>2, <2>1, <2>4 DEF Working
    <2>5. QED
      BY <2>2, <2>3, <2>4
  <1>5. CASE CheckLimit(s)
    <2>1. attempt[s].pc = "check" /\ UNCHANGED <<users, pins, past>>
      BY <1>5 DEF CheckLimit, store, history
    <2>2. Goto(s, "LOCKED") \/ Goto(s, "pin")
      BY <1>5 DEF CheckLimit
    <2>3. QED
      BY <1>1, <1>2, <2>1, <2>2 DEF EvidenceOf, Working
  <1>6. CASE Compare(s)
    <2>1. attempt[s].pc = "pin" /\ UNCHANGED <<users, pins, past>>
      BY <1>6 DEF Compare, store
    <2>2. attempt[s].guess \in Pin /\ UserOf(s) \in past[s].users
      BY <2>1, BusyAttempt DEF Working, EvidenceOf
    <2>3. CASE pins[UserOf(s)] = attempt[s].guess /\ Goto(s, "matched")
      <3>1. attempt[s].guess \in past[s].set
        BY <2>1, <2>2, <2>3, NoPinAssumption DEF EvidenceOf, Working
      <3>2. QED
        BY <1>1, <1>2, <2>1, <2>2, <2>3, <3>1 DEF Working
    <2>4. CASE GotoReading(s, "failed")
      BY <1>1, <1>2, <2>1, <2>2, <2>4 DEF Working
    <2>5. QED
      BY <1>6, <2>3, <2>4 DEF Compare
  <1>7. CASE RecordFailure(s)
    <2>1. attempt[s].pc = "failed" /\ UNCHANGED <<users, pins, past>>
      BY <1>7 DEF RecordFailure, store
    <2>2. Goto(s, "LOCKED") \/ Goto(s, "DENIED")
      BY <1>7 DEF RecordFailure
    <2>3. QED
      BY <1>1, <1>2, <2>1, <2>2 DEF Working
  <1>8. CASE Reset(s)
    <2>1. attempt[s].pc = "matched" /\ UNCHANGED <<users, pins, past>> /\ Goto(s, "UNLOCK")
      BY <1>8 DEF Reset, store
    <2>2. QED
      BY <1>1, <1>2, <2>1 DEF EvidenceOf, Working
  <1>9. CASE Abort(s)
    <2>1. attempt'[s].pc = "ERROR"
      BY <1>9, BusyAttempt DEF Abort, TypeOK, Attempt
    <2>2. QED
      BY <2>1 DEF EvidenceOf, Working
  <1>10. CASE Leave(s)
    <2>1. attempt'[s] = Idle
      BY <1>10 DEF Leave, TypeOK
    <2>2. QED
      BY <2>1 DEF EvidenceOf, Working, Idle
  <1>11. QED
    BY <1>3, <1>4, <1>5, <1>6, <1>7, <1>8, <1>9, <1>10 DEF Unlocking

LEMMA EvidenceStep == TypeOK /\ Evidence /\ [Next]_vars => Evidence'
  <1> SUFFICES ASSUME TypeOK, Evidence, [Next]_vars, NEW r \in Slot
               PROVE  EvidenceOf(r)'
    BY DEF Evidence, SeesNow, FoundUser, FoundPin, EvidenceOf, UserOf
  <1>1. EvidenceOf(r)
    BY EvidenceSplit
  <1>2. ASSUME attempt'[r] = attempt[r], past'[r] = past[r], UNCHANGED <<users, pins>>
        PROVE  EvidenceOf(r)'
    BY <1>1, <1>2 DEF EvidenceOf, UserOf
  <1>3. ASSUME NEW s \in Slot, Unlocking(s) PROVE EvidenceOf(r)'
    <2>1. CASE r = s
      BY <1>1, <1>3, <2>1, EvidenceOwn
    <2>2. CASE r # s
      <3>1. past'[r] = past[r] /\ UNCHANGED <<users, pins>>
        BY <1>3, <2>2 DEF Unlocking, TypeOK, Begin, GetUser, CheckLimit, Compare,
           RecordFailure, Reset, Abort, Leave, store, history
      <3>2. QED
        BY <1>2, <1>3, <2>2, <3>1, OtherAttempts
    <2>3. QED
      BY <2>1, <2>2
  <1>4. ASSUME NEW a \in Admin, Administering(a) PROVE EvidenceOf(r)'
    <2>1. UNCHANGED attempt /\ (Watch \/ UNCHANGED <<users, pins, past>>)
      BY <1>4 DEF Administering, SetPinCheck, SetPinWrite, RemovePin, RemoveDocument,
         AdminAbort, store, history
    <2>2. QED
      BY <1>1, <1>2, <2>1, EvidenceWatch
  <1>5. ASSUME NEW u \in User, Register(u) PROVE EvidenceOf(r)'
    BY <1>1, <1>5, EvidenceWatch DEF Register
  <1>6. CASE Tick \/ UNCHANGED vars
    BY <1>2, <1>6 DEF Tick, vars, store, history
  <1>7. QED
    BY <1>3, <1>4, <1>5, <1>6 DEF Next

\* UNLOCK is answered only for a user who existed, and a PIN that was stored,
\* at some time during the call itself.
THEOREM UnlockIsJustified == Spec => []UnlockJustified
  <1>1. Init => Evidence
    BY DEF Init, Evidence, SeesNow, FoundUser, FoundPin, Idle, Working
  <1>2. Evidence => UnlockJustified
    BY DEF Evidence, FoundUser, FoundPin, UnlockJustified
  <1>3. QED
    BY <1>1, <1>2, EvidenceStep, TypeCorrect, PTL DEF Spec

-----------------------------------------------------------------------------
(* Which interleaving lets a deleted user's PIN open.  UnlockOfEnrolledUser *)
(* does not hold of the code: a set_pin that found the user writes the PIN *)
(* during or after a removal.  Nothing else brings it about: it holds as   *)
(* long as no set_pin and remove_user of one user overlap, whatever else   *)
(* does, and whatever fails.                                               *)

NoOverlap ==
    \A a, b \in Admin :
        admin[a].pc = "set" /\ admin[b].pc = "remove" => admin[a].user # admin[b].user

\* A stored PIN has its user, and a removal under way has taken the PIN away.
StoreInv ==
    /\ \A u \in User : pins[u] # NoPin => u \in users
    /\ \A a \in Admin : admin[a].pc = "set" => admin[a].user \in users
    /\ \A a \in Admin : admin[a].pc = "remove" => pins[admin[a].user] = NoPin

LEMMA StoreStep == TypeOK /\ NoOverlap /\ StoreInv /\ [Next]_vars => StoreInv'
  <1> SUFFICES ASSUME TypeOK, NoOverlap, StoreInv, [Next]_vars PROVE StoreInv'
    OBVIOUS
  <1>0. /\ pins \in [User -> Pin \cup {NoPin}] /\ users \subseteq User
        /\ admin \in [Admin -> AdminCall \cup {Idle}]
        /\ Idle.pc = "idle"
    BY DEF TypeOK, Idle
  <1>1. ASSUME UNCHANGED <<users, pins, admin>> PROVE StoreInv'
    BY <1>1 DEF StoreInv
  <1>2. ASSUME NEW s \in Slot, Unlocking(s) PROVE UNCHANGED <<users, pins, admin>>
    BY <1>2 DEF Unlocking, Begin, GetUser, CheckLimit, Compare, RecordFailure, Reset, Abort,
                Leave, store
  <1>3. ASSUME NEW a \in Admin, NEW u \in User, NEW g \in Pin, SetPinCheck(a, u, g)
        PROVE  StoreInv'
    <2>1. /\ u \in users /\ UNCHANGED <<users, pins>>
          /\ admin'[a] = [pc |-> "set", user |-> u, pin |-> g]
          /\ \A b \in Admin \ {a} : admin'[b] = admin[b]
      BY <1>0, <1>3 DEF SetPinCheck, store
    <2>2. QED
      BY <2>1 DEF StoreInv
  <1>4. ASSUME NEW a \in Admin, SetPinWrite(a) PROVE StoreInv'
    <2>1. /\ admin[a].pc = "set" /\ UNCHANGED users
          /\ pins' = [pins EXCEPT ![admin[a].user] = admin[a].pin]
          /\ admin'[a] = Idle /\ \A b \in Admin \ {a} : admin'[b] = admin[b]
      BY <1>0, <1>4 DEF SetPinWrite
    <2>2. \A u \in User : u # admin[a].user => pins'[u] = pins[u]
      BY <1>0, <2>1
    <2>3. \A b \in Admin : admin[b].pc = "remove" => admin[b].user # admin[a].user /\ admin[b].user \in User
      BY <2>1, BusyAdmin DEF NoOverlap
    <2>4. QED
      BY <1>0, <2>1, <2>2, <2>3 DEF StoreInv
  <1>5. ASSUME NEW a \in Admin, NEW u \in User, RemovePin(a, u) PROVE StoreInv'
    <2>1. /\ UNCHANGED users /\ pins' = [pins EXCEPT ![u] = NoPin]
          /\ admin'[a] = [pc |-> "remove", user |-> u]
          /\ \A b \in Admin \ {a} : admin'[b] = admin[b]
      BY <1>0, <1>5 DEF RemovePin
    <2>2. pins'[u] = NoPin /\ \A v \in User : v # u => pins'[v] = pins[v]
      BY <1>0, <2>1
    <2>3. \A b \in Admin : admin[b].pc = "remove" => admin[b].user \in User
      BY BusyAdmin
    <2>4. QED
      BY <2>1, <2>2, <2>3 DEF StoreInv
  <1>6. ASSUME NEW a \in Admin, RemoveDocument(a) PROVE StoreInv'
    <2>1. /\ admin[a].pc = "remove" /\ UNCHANGED pins /\ users' = users \ {admin[a].user}
          /\ admin'[a] = Idle /\ \A b \in Admin \ {a} : admin'[b] = admin[b]
      BY <1>0, <1>6 DEF RemoveDocument
    <2>2. \A b \in Admin : admin[b].pc = "set" => admin[b].user # admin[a].user
      BY <2>1 DEF NoOverlap
    <2>3. QED
      BY <1>0, <2>1, <2>2 DEF StoreInv
  <1>7. ASSUME NEW a \in Admin, AdminAbort(a) PROVE StoreInv'
    <2>1. /\ UNCHANGED <<users, pins>> /\ admin'[a] = Idle
          /\ \A b \in Admin \ {a} : admin'[b] = admin[b]
      BY <1>0, <1>7 DEF AdminAbort, store
    <2>2. QED
      BY <1>0, <2>1 DEF StoreInv
  <1>8. ASSUME NEW u \in User, Register(u) PROVE StoreInv'
    BY <1>8 DEF Register, StoreInv
  <1>9. QED
    BY <1>1, <1>2, <1>3, <1>4, <1>5, <1>6, <1>7, <1>8
    DEF Next, Administering, Tick, vars, store

\* What a call may use is a PIN it saw together with its user.
EnrolledOf(s) ==
    /\ attempt[s].pc \in Working =>
          (pins[UserOf(s)] # NoPin => pins[UserOf(s)] \in past[s].enrolled)
    /\ attempt[s].pc \in {"matched", "UNLOCK"} => attempt[s].guess \in past[s].enrolled

EnrolledInv == \A s \in Slot : EnrolledOf(s)

LEMMA EnrolledWatch ==
    ASSUME TypeOK, StoreInv', Watch, UNCHANGED attempt, NEW s \in Slot, EnrolledOf(s)
    PROVE  EnrolledOf(s)'
  <1>1. CASE attempt[s] = Idle
    BY <1>1 DEF EnrolledOf, Idle, Working
  <1>2. CASE attempt[s] # Idle
    <2>1. past'[s] = Join(past[s], Look(UserOf(s), users', pins'))
      BY <1>2 DEF Watch
    <2>2. past'[s].enrolled = past[s].enrolled \cup
             (IF UserOf(s) \in users' THEN {pins'[UserOf(s)]} \ {NoPin} ELSE {})
      BY <2>1 DEF Join, Look
    <2>3. UserOf(s) \in User
      BY <1>2, BusyAttempt DEF TypeOK, Attempt
    <2>4. pins'[UserOf(s)] # NoPin => UserOf(s) \in users'
      BY <2>3 DEF StoreInv
    <2>5. UserOf(s)' = UserOf(s)
      BY DEF UserOf
    <2>6. QED
      BY <2>2, <2>4, <2>5 DEF EnrolledOf
  <1>3. QED
    BY <1>1, <1>2

LEMMA EnrolledOwn ==
    ASSUME TypeOK, StoreInv, NEW s \in Slot, Unlocking(s), EnrolledOf(s)
    PROVE  EnrolledOf(s)'
  <1> DEFINE Moved(to) == /\ attempt'[s].pc = to /\ attempt'[s].pair = attempt[s].pair
                          /\ attempt'[s].guess = attempt[s].guess
  <1>1. ASSUME NEW to, attempt[s].pc \in Working, Goto(s, to) \/ GotoReading(s, to)
        PROVE  Moved(to)
    BY <1>1, BusyAttempt DEF Goto, GotoReading, TypeOK, Attempt
  <1>2. ASSUME NEW to, Moved(to), UNCHANGED <<users, pins, past>>, attempt[s].pc \in Working,
               to \in {"matched", "UNLOCK"} => attempt[s].guess \in past[s].enrolled
        PROVE  EnrolledOf(s)'
    BY <1>2 DEF EnrolledOf, UserOf
  <1>3. ASSUME NEW p \in Pair, NEW g \in Pin, Begin(s, p, g) PROVE EnrolledOf(s)'
    <2>1. attempt'[s] = [pc |-> "user", pair |-> p, guess |-> g, at |-> 0]
      BY <1>3 DEF Begin, TypeOK
    <2>2. past'[s] = Look(p[2], users, pins) /\ pins' = pins
      BY <1>3 DEF Begin, TypeOK
    <2>3. past'[s].enrolled = IF p[2] \in users THEN {pins[p[2]]} \ {NoPin} ELSE {}
      BY <2>2 DEF Look
    <2>4. p[2] \in User /\ (pins[p[2]] # NoPin => p[2] \in users)
      BY DEF Pair, StoreInv
    <2>5. attempt'[s].pc = "user" /\ attempt'[s].pair[2] = p[2]
      BY <2>1
    <2>6. QED
      BY <2>2, <2>3, <2>4, <2>5 DEF EnrolledOf, UserOf
  <1>4. CASE GetUser(s) \/ CheckLimit(s)
    <2>1. attempt[s].pc \in Working /\ UNCHANGED <<users, pins, past>>
      BY <1>4 DEF GetUser, CheckLimit, Working, store, history
    <2>2. PICK to \in {"check", "DENIED", "LOCKED", "pin"} : Goto(s, to) \/ GotoReading(s, to)
      BY <1>4 DEF GetUser, CheckLimit
    <2>3. QED
      BY <1>1, <1>2, <2>1, <2>2
  <1>5. CASE Compare(s)
    <2>1. attempt[s].pc = "pin" /\ UNCHANGED <<users, pins, past>>
      BY <1>5 DEF Compare, store
    <2>2. CASE pins[UserOf(s)] = attempt[s].guess /\ Goto(s, "matched")
      <3>1. attempt[s].guess \in Pin
        BY <2>1, BusyAttempt DEF Working
      <3>2. attempt[s].guess \in past[s].enrolled
        BY <2>1, <2>2, <3>1, NoPinAssumption DEF EnrolledOf, Working
      <3>3. QED
        BY <1>1, <1>2, <2>1, <2>2, <3>2 DEF Working
    <2>3. CASE GotoReading(s, "failed")
      BY <1>1, <1>2, <2>1, <2>3 DEF Working
    <2>4. QED
      BY <1>5, <2>2, <2>3 DEF Compare
  <1>6. CASE RecordFailure(s)
    <2>1. attempt[s].pc = "failed" /\ UNCHANGED <<users, pins, past>>
      BY <1>6 DEF RecordFailure, store
    <2>2. Goto(s, "LOCKED") \/ Goto(s, "DENIED")
      BY <1>6 DEF RecordFailure
    <2>3. QED
      BY <1>1, <1>2, <2>1, <2>2 DEF Working
  <1>7. CASE Reset(s)
    <2>1. attempt[s].pc = "matched" /\ UNCHANGED <<users, pins, past>> /\ Goto(s, "UNLOCK")
      BY <1>7 DEF Reset, store
    <2>2. QED
      BY <1>1, <1>2, <2>1 DEF EnrolledOf, Working
  <1>8. CASE Abort(s)
    <2>1. attempt'[s].pc = "ERROR"
      BY <1>8, BusyAttempt DEF Abort, TypeOK, Attempt
    <2>2. QED
      BY <2>1 DEF EnrolledOf, Working
  <1>9. CASE Leave(s)
    <2>1. attempt'[s] = Idle
      BY <1>9 DEF Leave, TypeOK
    <2>2. QED
      BY <2>1 DEF EnrolledOf, Working, Idle
  <1>10. QED
    BY <1>3, <1>4, <1>5, <1>6, <1>7, <1>8, <1>9 DEF Unlocking

LEMMA EnrolledStep ==
    TypeOK /\ StoreInv /\ StoreInv' /\ EnrolledInv /\ [Next]_vars => EnrolledInv'
  <1> SUFFICES ASSUME TypeOK, StoreInv, StoreInv', EnrolledInv, [Next]_vars, NEW r \in Slot
               PROVE  EnrolledOf(r)'
    BY DEF EnrolledInv
  <1>1. EnrolledOf(r)
    BY DEF EnrolledInv
  <1>2. ASSUME attempt'[r] = attempt[r], past'[r] = past[r], UNCHANGED pins
        PROVE  EnrolledOf(r)'
    BY <1>1, <1>2 DEF EnrolledOf, UserOf
  <1>3. ASSUME NEW s \in Slot, Unlocking(s) PROVE EnrolledOf(r)'
    <2>1. CASE r = s
      BY <1>1, <1>3, <2>1, EnrolledOwn
    <2>2. CASE r # s
      <3>1. past'[r] = past[r] /\ UNCHANGED pins
        BY <1>3, <2>2 DEF Unlocking, TypeOK, Begin, GetUser, CheckLimit, Compare,
           RecordFailure, Reset, Abort, Leave, store, history
      <3>2. QED
        BY <1>2, <1>3, <2>2, <3>1, OtherAttempts
    <2>3. QED
      BY <2>1, <2>2
  <1>4. ASSUME NEW a \in Admin, Administering(a) PROVE EnrolledOf(r)'
    <2>1. UNCHANGED attempt /\ (Watch \/ UNCHANGED <<pins, past>>)
      BY <1>4 DEF Administering, SetPinCheck, SetPinWrite, RemovePin, RemoveDocument,
         AdminAbort, store, history
    <2>2. QED
      BY <1>1, <1>2, <2>1, EnrolledWatch
  <1>5. ASSUME NEW u \in User, Register(u) PROVE EnrolledOf(r)'
    BY <1>1, <1>5, EnrolledWatch DEF Register
  <1>6. CASE Tick \/ UNCHANGED vars
    BY <1>2, <1>6 DEF Tick, vars, store, history
  <1>7. QED
    BY <1>3, <1>4, <1>5, <1>6 DEF Next

\* Without an overlap of set_pin and remove_user for one user, a PIN opens only
\* if it was, at one instant of the call, the PIN of an existing user.
THEOREM EnrolledUnlessOverlap == Spec /\ []NoOverlap => []UnlockOfEnrolledUser
  <1>1. Init => StoreInv
    BY DEF Init, StoreInv, Idle
  <1>2. Init => EnrolledInv
    BY DEF Init, EnrolledInv, EnrolledOf, Idle, Working
  <1>3. EnrolledInv => UnlockOfEnrolledUser
    BY DEF EnrolledInv, EnrolledOf, UnlockOfEnrolledUser
  <1>4. QED
    BY <1>1, <1>2, <1>3, StoreStep, EnrolledStep, TypeCorrect, PTL DEF Spec
=============================================================================
