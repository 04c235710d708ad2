-------------------------- MODULE ReplayGuardProofs --------------------------
(***************************************************************************)
(* Proofs about ReplayGuard, for every set of devices, nonces and service  *)
(* instances and every clock offset.  The replay guarantees need a         *)
(* relation between the configured times that the code does not enforce;   *)
(* it is the hypothesis Settled, and the shipped times satisfy it: a       *)
(* reservation lives 120 s, exactly twice the skew of 60 s.                *)
(***************************************************************************)
EXTENDS ReplayGuard, TLAPS

\* A reservation lives through the readings at which its request is fresh, but
\* for the last, and is not deleted while a call that read its clock in time is
\* still running.
Settled ==
    /\ Ttl >= 2 * Skew
    /\ \A i \in Instance : Ttl + PurgeLag + Offset[i] >= 2 * Skew + Deadline

\* A signed request is named by its key.
KeysUnique == \A s, t \in signed : KeyOf(s) = KeyOf(t) => s = t

\* A running call holds a request that passed the checks at the reading it
\* still uses, and has not outlived its deadline.
CallsChecked ==
    \A i \in Instance : call[i].busy =>
        /\ Admissible(call[i].req, call[i].at)
        /\ call[i].at = call[i].since + Offset[i]
        /\ call[i].since <= now
        /\ now <= call[i].since + Deadline

\* After m was let through, either its reservation stands until e, or it was
\* purged when no call could hold or accept m any more.
Guarded(m, e) ==
    \/ /\ expires[KeyOf(m)] # None
       /\ expires[KeyOf(m)] >= e
    \/ \A i \in Instance :
          /\ now + Offset[i] > m.ts + Skew
          /\ call[i].busy => KeyOf(call[i].req) # KeyOf(m)

\* The passes of a key before the last fresh reading of its request, and at it.
Before(k) == served[<<k, "before">>]
Last(k) == served[<<k, "last">>]

\* How long: a request let through was read at its earliest fresh reading or
\* later; let through at the last fresh reading, it was read then.
Until(m, n) == IF n = 0 THEN m.ts - Skew + Ttl ELSE m.ts + Skew + Ttl

ServedGuarded ==
    \A k \in Key : Passes(k) # 0 =>
        /\ Before(k) \in {0, 1} /\ Last(k) \in {0, 1}
        /\ \E m \in signed : KeyOf(m) = k /\ Guarded(m, Until(m, Last(k)))

IInv == TypeOK /\ KeysUnique /\ CallsChecked /\ ServedGuarded

-----------------------------------------------------------------------------
\* What the slots hold: a busy slot holds a call.
LEMMA BusyHoldsCall ==
    ASSUME TypeOK, NEW i \in Instance, call[i].busy
    PROVE  /\ call[i] \in Call
           /\ call[i].req \in Request
           /\ call[i].at \in Int
           /\ call[i].since \in Time
           /\ KeyOf(call[i].req) \in Key
  <1>1. call[i] \in Call \cup {Idle}
    BY DEF TypeOK
  <1>2. call[i] # Idle
    BY DEF Idle
  <1>3. call[i] \in Call
    BY <1>1, <1>2
  <1>4. QED
    BY <1>3 DEF Call, Request, Key, KeyOf

\* What a running call would count: a pass of its key at one of the instants.
LEMMA PassOfType ==
    ASSUME TypeOK, NEW i \in Instance, call[i].busy
    PROVE  /\ PassOf(i) \in Key \X Instant
           /\ PassOf(i) = <<KeyOf(call[i].req), "last">>
              \/ PassOf(i) = <<KeyOf(call[i].req), "before">>
  <1>1. KeyOf(call[i].req) \in Key
    BY BusyHoldsCall
  <1>2. CASE call[i].at = call[i].req.ts + Skew
    <2>1. PassOf(i) = <<KeyOf(call[i].req), "last">>
      BY <1>2 DEF PassOf
    <2>2. QED
      BY <1>1, <2>1 DEF Instant
  <1>3. CASE call[i].at # call[i].req.ts + Skew
    <2>1. PassOf(i) = <<KeyOf(call[i].req), "before">>
      BY <1>3 DEF PassOf
    <2>2. QED
      BY <1>1, <2>1 DEF Instant
  <1>4. QED
    BY <1>2, <1>3

\* The name of a request is a key.
LEMMA KeyOfRequest == \A m \in Request : KeyOf(m) \in Key /\ m.ts \in Int
  BY DEF Request, Key, KeyOf, Time

\* Every variable of ReplayGuard keeps its type.
THEOREM TypeCorrect == Spec => []TypeOK
  <1>1. Init => TypeOK
    BY TimeAssumption DEF Init, TypeOK, Time
  <1>2. TypeOK /\ [Next]_vars => TypeOK'
    <2> SUFFICES ASSUME TypeOK, [Next]_vars
                 PROVE  TypeOK'
      OBVIOUS
    <2>1. ASSUME NEW m \in Request, Sign(m) PROVE TypeOK'
      BY <2>1 DEF TypeOK, Sign
    <2>2. ASSUME NEW i \in Instance, NEW m \in Request, Receive(i, m) PROVE TypeOK'
      <3>1. now + Offset[i] \in Int
        BY SetAssumption DEF TypeOK, Time
      <3>2. [busy |-> TRUE, req |-> m, at |-> now + Offset[i], since |-> now] \in Call
        BY <3>1 DEF Call, TypeOK
      <3>3. QED
        BY <2>2, <3>2 DEF TypeOK, Receive
    <2>3. ASSUME NEW i \in Instance, Reserve(i) PROVE TypeOK'
      <3>1. call[i].busy
        BY <2>3 DEF Reserve
      <3>2. call[i].at + Ttl \in Int
        BY <3>1, BusyHoldsCall, TimeAssumption
      <3> PICK p \in Key \X Instant : p = PassOf(i)
        BY <3>1, PassOfType
      <3>3. served' \in [Key \X Instant -> Nat]
        BY <2>3 DEF TypeOK, Reserve
      <3>4. QED
        BY <2>3, <3>1, <3>2, <3>3, BusyHoldsCall DEF TypeOK, Reserve, Finish
    <2>4. ASSUME NEW i \in Instance, Duplicate(i) PROVE TypeOK'
      BY <2>4 DEF TypeOK, Duplicate, Finish
    <2>5. ASSUME NEW i \in Instance, StoreError(i) PROVE TypeOK'
      <3>1. call[i].busy
        BY <2>5 DEF StoreError
      <3>2. call[i].at + Ttl \in Int
        BY <3>1, BusyHoldsCall, TimeAssumption
      <3>3. QED
        BY <2>5, <3>1, <3>2, BusyHoldsCall DEF TypeOK, StoreError, Finish
    <2>6. ASSUME NEW i \in Instance, Kill(i) PROVE TypeOK'
      BY <2>6 DEF TypeOK, Kill, Finish
    <2>7. ASSUME NEW k \in Key, Purge(k) PROVE TypeOK'
      BY <2>7 DEF TypeOK, Purge
    <2>8. CASE Tick
      BY <2>8, TimeAssumption DEF TypeOK, Tick, Time
    <2>9. CASE UNCHANGED vars
      BY <2>9 DEF TypeOK, vars
    <2>10. QED
      BY <2>1, <2>2, <2>3, <2>4, <2>5, <2>6, <2>7, <2>8, <2>9 DEF Next, Handle
  <1>3. QED
    BY <1>1, <1>2, PTL DEF Spec

-----------------------------------------------------------------------------
(* The inductive invariant, one step theorem per part.                     *)

\* A signature stays valid, so a checked request stays admissible.
LEMMA AdmissibleStable ==
    ASSUME signed \subseteq signed', NEW m \in Request, NEW at \in Int, Admissible(m, at)
    PROVE  Admissible(m, at)'
  BY DEF Admissible, Authentic, Fresh, InScope

LEMMA KeysUniqueStep == TypeOK /\ KeysUnique /\ [Next]_vars => KeysUnique'
  <1> SUFFICES ASSUME TypeOK, KeysUnique, [Next]_vars
               PROVE  KeysUnique'
    OBVIOUS
  <1>1. ASSUME NEW m \in Request, Sign(m) PROVE KeysUnique'
    BY <1>1 DEF Sign, KeysUnique, KeyOf
  <1>2. CASE UNCHANGED signed
    BY <1>2 DEF KeysUnique, KeyOf
  <1>3. QED
    BY <1>1, <1>2 DEF Next, Handle, vars, Receive, Reserve, Duplicate, StoreError,
                      Kill, Purge, Tick

LEMMA CallsCheckedStep ==
    TypeOK /\ CallsChecked /\ [Next]_vars => CallsChecked'
  <1> SUFFICES ASSUME TypeOK, CallsChecked, [Next]_vars,
                      NEW j \in Instance, call'[j].busy
               PROVE  /\ Admissible(call[j].req, call[j].at)'
                      /\ call'[j].at = call'[j].since + Offset[j]
                      /\ call'[j].since <= now'
                      /\ now' <= call'[j].since + Deadline
    BY DEF CallsChecked
  <1> DEFINE Kept == call'[j] = call[j] /\ now' = now /\ signed \subseteq signed'
  <1>1. CASE Kept
    <2>1. call[j].busy
      BY <1>1
    <2>2. Admissible(call[j].req, call[j].at)'
      BY <1>1, <2>1, BusyHoldsCall, AdmissibleStable DEF CallsChecked, Admissible, Authentic, Fresh, InScope
    <2>3. QED
      BY <1>1, <2>1, <2>2 DEF CallsChecked
  <1>2. ASSUME NEW i \in Instance, call' = [call EXCEPT ![i] = Idle], UNCHANGED <<now, signed>>
        PROVE  Kept
    BY <1>2 DEF TypeOK, Idle
  <1>3. ASSUME NEW m \in Request, Sign(m) PROVE Kept
    BY <1>3 DEF Sign
  <1>4. ASSUME NEW i \in Instance, NEW m \in Request, Receive(i, m), i # j PROVE Kept
    BY <1>4 DEF Receive, TypeOK
  <1>5. ASSUME NEW m \in Request, Receive(j, m)
        PROVE  /\ Admissible(call[j].req, call[j].at)'
               /\ call'[j].at = call'[j].since + Offset[j]
               /\ call'[j].since <= now'
               /\ now' <= call'[j].since + Deadline
    <2>1. call'[j] = [busy |-> TRUE, req |-> m, at |-> now + Offset[j], since |-> now]
      BY <1>5 DEF Receive, TypeOK
    <2>2. signed' = signed /\ now' = now
      BY <1>5 DEF Receive
    <2>3. Admissible(m, now + Offset[j])
      BY <1>5 DEF Receive
    <2>4. Admissible(call[j].req, call[j].at)'
      BY <2>1, <2>2, <2>3 DEF Admissible, Authentic, Fresh, InScope
    <2>5. QED
      BY <2>1, <2>2, <2>4, TimeAssumption DEF TypeOK, Time
  <1>6. ASSUME NEW k \in Key, Purge(k) PROVE Kept
    BY <1>6 DEF Purge
  <1>7. ASSUME Tick
        PROVE  /\ Admissible(call[j].req, call[j].at)'
               /\ call'[j].at = call'[j].since + Offset[j]
               /\ call'[j].since <= now'
               /\ now' <= call'[j].since + Deadline
    <2>1. call' = call /\ signed' = signed /\ now' = now + 1
      BY <1>7 DEF Tick
    <2>2. call[j].busy
      BY <2>1
    <2>3. now < call[j].since + Deadline
      BY <1>7, <2>2 DEF Tick
    <2>4. Admissible(call[j].req, call[j].at)'
      BY <2>1, <2>2 DEF CallsChecked, Admissible, Authentic, Fresh, InScope
    <2>5. QED
      BY <2>1, <2>2, <2>3, <2>4, BusyHoldsCall, TimeAssumption DEF CallsChecked, TypeOK, Time
  <1>8. CASE UNCHANGED vars
    BY <1>8, <1>1 DEF vars
  <1>9. QED
    BY <1>1, <1>2, <1>3, <1>4, <1>5, <1>6, <1>7, <1>8
       DEF Next, Handle, Reserve, Duplicate, StoreError, Kill, Finish

\* The counters of a key, and what a call about to reserve will count.
LEMMA PassTypes ==
    ASSUME TypeOK, NEW k \in Key
    PROVE  Before(k) \in Nat /\ Last(k) \in Nat /\ Passes(k) = Before(k) + Last(k)
  <1>1. <<k, "before">> \in Key \X Instant /\ <<k, "last">> \in Key \X Instant
    BY DEF Instant
  <1>2. QED
    BY <1>1 DEF TypeOK, Before, Last, Passes

LEMMA UntilType ==
    \A m \in Request : \A n \in {0, 1} :
        Until(m, n) \in Int /\ Until(m, n) >= m.ts - Skew + Ttl
  BY KeyOfRequest, TimeAssumption DEF Until

\* While m is guarded, a call that holds its key finds the reservation, with a
\* reading at which m is fresh.
LEMMA GuardedIsStored ==
    ASSUME TypeOK, KeysUnique, CallsChecked, NEW m \in signed, NEW e \in Int, Guarded(m, e),
           NEW i \in Instance, call[i].busy, KeyOf(call[i].req) = KeyOf(m)
    PROVE  /\ call[i].req = m /\ call[i].at \in Int
           /\ m.ts - Skew <= call[i].at /\ call[i].at <= m.ts + Skew
           /\ expires[KeyOf(m)] # None /\ expires[KeyOf(m)] \in Int /\ expires[KeyOf(m)] >= e
  <1>1. call[i].req \in signed /\ Fresh(call[i].req, call[i].at)
    BY DEF CallsChecked, Admissible, Authentic
  <1>2. call[i].req = m
    BY <1>1 DEF KeysUnique
  <1>3. expires[KeyOf(m)] # None /\ expires[KeyOf(m)] >= e
    BY DEF Guarded
  <1>4. m \in Request /\ KeyOf(m) \in Key /\ m.ts \in Int
    BY KeyOfRequest DEF TypeOK
  <1>5. expires[KeyOf(m)] \in Int
    BY <1>3, <1>4 DEF TypeOK
  <1>6. call[i].at \in Int
    BY BusyHoldsCall
  <1>7. m.ts - Skew <= call[i].at /\ call[i].at <= m.ts + Skew
    BY <1>1, <1>2, <1>4, <1>6, TimeAssumption DEF Fresh
  <1>8. QED
    BY <1>2, <1>3, <1>5, <1>6, <1>7

\* Where the configured times matter: a copy of a request let through finds its
\* reservation over only if both were read at the ends of the window, the
\* request at the earliest fresh reading and the copy at the last.
LEMMA OnlyAtEdge ==
    ASSUME Settled, TypeOK, KeysUnique, CallsChecked, ServedGuarded,
           NEW i \in Instance, call[i].busy, Passes(KeyOf(call[i].req)) # 0,
           ~ Live(KeyOf(call[i].req), call[i].at)
    PROVE  LET m == call[i].req IN
           /\ Before(KeyOf(m)) = 1 /\ Last(KeyOf(m)) = 0 /\ Ttl = 2 * Skew
           /\ m \in signed /\ m.ts \in Int
           /\ expires[KeyOf(m)] = m.ts + Skew /\ call[i].at = m.ts + Skew
  <1> DEFINE k == KeyOf(call[i].req)
  <1>1. k \in Key /\ Before(k) \in {0, 1} /\ Last(k) \in {0, 1}
    BY BusyHoldsCall DEF ServedGuarded
  <1>2. PICK m \in signed : KeyOf(m) = k /\ Guarded(m, Until(m, Last(k)))
    BY <1>1 DEF ServedGuarded
  <1>3. m \in Request /\ m.ts \in Int /\ Until(m, Last(k)) \in Int
    BY <1>1, <1>2, UntilType, KeyOfRequest DEF TypeOK
  <1>4. /\ call[i].req = m /\ call[i].at \in Int /\ call[i].at <= m.ts + Skew
        /\ expires[k] # None /\ expires[k] \in Int /\ expires[k] >= Until(m, Last(k))
    BY <1>2, <1>3, GuardedIsStored
  <1>5. expires[k] <= call[i].at
    BY <1>4 DEF Live
  <1>6. Last(k) = 0
    BY <1>1, <1>3, <1>4, <1>5, TimeAssumption DEF Until
  <1>7. Before(k) = 1
    BY <1>1, <1>6, PassTypes
  <1>8. expires[k] >= m.ts - Skew + Ttl
    BY <1>4, <1>6 DEF Until
  <1> HIDE DEF k
  <1>9. expires[k] = m.ts + Skew /\ call[i].at = m.ts + Skew /\ Ttl = 2 * Skew
    BY <1>3, <1>4, <1>5, <1>8, TimeAssumption DEF Settled
  <1>10. QED
    BY <1>3, <1>4, <1>6, <1>7, <1>9 DEF k

\* What Reserve counts: the pass of its own key, at the instant of its reading.
LEMMA ReserveCounts ==
    ASSUME TypeOK, NEW i \in Instance, Reserve(i), NEW k \in Key
    PROVE  /\ KeyOf(call[i].req) # k => Before(k)' = Before(k) /\ Last(k)' = Last(k)
           /\ KeyOf(call[i].req) = k /\ call[i].at = call[i].req.ts + Skew
                 => Before(k)' = Before(k) /\ Last(k)' = Last(k) + 1
           /\ KeyOf(call[i].req) = k /\ call[i].at # call[i].req.ts + Skew
                 => Before(k)' = Before(k) + 1 /\ Last(k)' = Last(k)
  <1>1. KeyOf(call[i].req) \in Key
    BY BusyHoldsCall DEF Reserve
  <1> PICK p \in Key \X Instant : p = PassOf(i)
    BY PassOfType DEF Reserve
  <1>2. ASSUME NEW q \in Key \X Instant
        PROVE  served'[q] = IF q = p THEN served[q] + 1 ELSE served[q]
    BY DEF Reserve, TypeOK
  <1>3. <<k, "before">> \in Key \X Instant /\ <<k, "last">> \in Key \X Instant
    BY DEF Instant
  <1>4. /\ Before(k)' = IF p = <<k, "before">> THEN Before(k) + 1 ELSE Before(k)
        /\ Last(k)' = IF p = <<k, "last">> THEN Last(k) + 1 ELSE Last(k)
    BY <1>2, <1>3 DEF Before, Last
  <1>5. CASE call[i].at = call[i].req.ts + Skew
    <2>1. p = <<KeyOf(call[i].req), "last">>
      BY <1>5 DEF PassOf
    <2>2. QED
      BY <1>4, <1>5, <2>1
  <1>6. CASE call[i].at # call[i].req.ts + Skew
    <2>1. p = <<KeyOf(call[i].req), "before">>
      BY <1>6 DEF PassOf
    <2>2. QED
      BY <1>4, <1>6, <2>1
  <1>7. QED
    BY <1>5, <1>6

\* Guarded survives a step that leaves m's reservation alone and starts no
\* call on its key.
LEMMA GuardedKept ==
    ASSUME TypeOK, TypeOK', NEW m \in Request, NEW e \in Int, Guarded(m, e),
           expires'[KeyOf(m)] = expires[KeyOf(m)], now <= now',
           \A i \in Instance : call'[i].busy => call'[i] = call[i]
    PROVE  Guarded(m, e)'
  <1>1. ASSUME NEW i \in Instance, now + Offset[i] > m.ts + Skew
        PROVE  now' + Offset[i] > m.ts + Skew
    BY <1>1, KeyOfRequest, SetAssumption, TimeAssumption DEF TypeOK, Time
  <1>2. QED
    BY <1>1 DEF Guarded, KeyOf

\* A purge leaves m guarded: by then every clock has passed m's freshness,
\* and every running call read its clock too late to have accepted m.
LEMMA PurgeGuarded ==
    ASSUME Settled, IInv, NEW m \in signed, NEW e \in Int, e >= m.ts - Skew + Ttl,
           Guarded(m, e), Purge(KeyOf(m))
    PROVE  Guarded(m, e)'
  <1>1. m \in Request /\ KeyOf(m) \in Key /\ m.ts \in Int
    BY KeyOfRequest DEF IInv, TypeOK
  <1>2. expires[KeyOf(m)] # None /\ expires[KeyOf(m)] + PurgeLag < now /\ now' = now /\ call' = call
    BY DEF Purge
  <1>3. expires[KeyOf(m)] \in Int
    BY <1>1, <1>2 DEF IInv, TypeOK
  <1>4. CASE expires[KeyOf(m)] >= e
    <2>0. expires[KeyOf(m)] >= m.ts - Skew + Ttl
      BY <1>1, <1>3, <1>4, TimeAssumption
    <2> SUFFICES ASSUME NEW i \in Instance
                 PROVE  /\ now + Offset[i] > m.ts + Skew
                        /\ call[i].busy => KeyOf(call[i].req) # KeyOf(m)
      BY <1>2 DEF Guarded, KeyOf
    <2>1. now + Offset[i] - Deadline > m.ts + Skew
      <3>1. now \in Int /\ Offset[i] \in Int
        BY SetAssumption DEF IInv, TypeOK, Time
      <3>2. QED
        BY <1>1, <1>2, <1>3, <2>0, <3>1, TimeAssumption DEF Settled
    <2>2. now + Offset[i] > m.ts + Skew
      <3>1. now \in Int /\ Offset[i] \in Int
        BY SetAssumption DEF IInv, TypeOK, Time
      <3>2. QED
        BY <1>1, <2>1, <3>1, TimeAssumption
    <2>3. ASSUME call[i].busy, KeyOf(call[i].req) = KeyOf(m) PROVE FALSE
      <3>1. call[i].req = m /\ Fresh(call[i].req, call[i].at)
        BY <2>3 DEF IInv, CallsChecked, KeysUnique, Admissible, Authentic
      <3>2. call[i].at = call[i].since + Offset[i] /\ now <= call[i].since + Deadline
        BY <2>3 DEF IInv, CallsChecked
      <3>3. call[i].at \in Int /\ call[i].since \in Int /\ now \in Int /\ Offset[i] \in Int
        BY <2>3, BusyHoldsCall, SetAssumption DEF IInv, TypeOK, Time
      <3>4. call[i].at <= m.ts + Skew
        BY <1>1, <3>1, <3>3, TimeAssumption DEF Fresh
      <3>5. QED
        BY <1>1, <2>1, <3>2, <3>3, <3>4, TimeAssumption
    <2>4. QED
      BY <2>2, <2>3
  <1>5. CASE \A i \in Instance :
               /\ now + Offset[i] > m.ts + Skew
               /\ call[i].busy => KeyOf(call[i].req) # KeyOf(m)
    BY <1>2, <1>5 DEF Guarded, KeyOf
  <1>6. QED
    BY <1>4, <1>5 DEF Guarded

LEMMA ServedGuardedStep ==
    ASSUME Settled, IInv, [Next]_vars, TypeOK'
    PROVE  ServedGuarded'
  <1> SUFFICES ASSUME NEW k \in Key, Passes(k)' # 0
               PROVE  /\ Before(k)' \in {0, 1} /\ Last(k)' \in {0, 1}
                      /\ \E m \in signed' : KeyOf(m) = k /\ Guarded(m, Until(m, Last(k)))'
    BY DEF ServedGuarded, KeyOf
  <1> USE DEF IInv
  <1> DEFINE Goal == /\ Before(k)' \in {0, 1} /\ Last(k)' \in {0, 1}
                     /\ \E m \in signed' : KeyOf(m) = k /\ Guarded(m, Until(m, Last(k)))'
  <1>0. ASSUME Passes(k) # 0
        PROVE  /\ Before(k) \in {0, 1} /\ Last(k) \in {0, 1}
               /\ \E m \in signed : /\ KeyOf(m) = k /\ Guarded(m, Until(m, Last(k)))
                                    /\ m \in Request /\ Until(m, Last(k)) \in Int
                                    /\ Until(m, Last(k)) >= m.ts - Skew + Ttl
    BY <1>0, UntilType DEF ServedGuarded, TypeOK
  <1>u. ASSUME served' = served
        PROVE  Before(k)' = Before(k) /\ Last(k)' = Last(k) /\ Passes(k)' = Passes(k)
    BY <1>u DEF Before, Last, Passes
  <1>v. ASSUME Before(k)' = Before(k), Last(k)' = Last(k) PROVE Passes(k) # 0
    BY <1>v DEF Before, Last, Passes
  \* The general case: k was served before and nothing that guards it moves.
  <1>1. ASSUME Before(k)' = Before(k), Last(k)' = Last(k), expires'[k] = expires[k],
               signed \subseteq signed', now <= now', \A i \in Instance : call'[i].busy => call'[i] = call[i]
        PROVE  Goal
    <2>1. PICK m \in signed : /\ KeyOf(m) = k /\ Guarded(m, Until(m, Last(k)))
                              /\ m \in Request /\ Until(m, Last(k)) \in Int
      BY <1>0, <1>1, <1>v
    <2> PICK e \in Int : e = Until(m, Last(k))
      BY <2>1
    <2>2. Guarded(m, e) /\ Until(m, Last(k))' = e
      BY <1>1, <2>1 DEF Until
    <2>3. Guarded(m, e)'
      BY <1>1, <2>1, <2>2, GuardedKept
    <2>4. Guarded(m, Until(m, Last(k)))'
      BY <2>2, <2>3 DEF Guarded
    <2>5. QED
      BY <1>0, <1>1, <1>v, <2>1, <2>4
  \* A step that only frees a slot.
  <1>2. ASSUME NEW i \in Instance, Finish(i), UNCHANGED <<now, signed>>,
               Before(k)' = Before(k), Last(k)' = Last(k), expires'[k] = expires[k]
        PROVE  Goal
    <2>1. \A j \in Instance : call'[j].busy => call'[j] = call[j]
      BY <1>2 DEF Finish, TypeOK, Idle
    <2>2. now <= now'
      BY <1>2 DEF TypeOK, Time
    <2>3. QED
      BY <1>1, <1>2, <2>1, <2>2
  <1>3. ASSUME NEW m \in Request, Sign(m) PROVE Goal
    <2>1. now <= now'
      BY <1>3 DEF Sign, TypeOK, Time
    <2>2. QED
      BY <1>1, <1>3, <1>u, <2>1 DEF Sign
  <1>4. ASSUME NEW i \in Instance, NEW r \in Request, Receive(i, r) PROVE Goal
    <2>1. PICK m \in signed : KeyOf(m) = k /\ Guarded(m, Until(m, Last(k)))
      BY <1>0, <1>4, <1>u DEF Receive
    <2>2. m \in Request /\ m.ts \in Int /\ r.ts \in Int
      BY KeyOfRequest DEF TypeOK
    <2>3. UNCHANGED <<now, signed, expires, served>>
      BY <1>4 DEF Receive
    <2>4. \A j \in Instance : j # i => call'[j] = call[j]
      BY <1>4 DEF Receive, TypeOK
    <2>5. call'[i].req = r
      BY <1>4 DEF Receive, TypeOK
    <2>6. ASSUME KeyOf(r) = KeyOf(m), now + Offset[i] > m.ts + Skew PROVE FALSE
      <3>1. r = m /\ Fresh(m, now + Offset[i])
        BY <1>4, <2>6 DEF Receive, Admissible, Authentic, KeysUnique
      <3>2. now + Offset[i] \in Int
        BY SetAssumption DEF TypeOK, Time
      <3>3. QED
        BY <2>2, <2>6, <3>1, <3>2, TimeAssumption DEF Fresh
    <2>7. Guarded(m, Until(m, Last(k)))'
      BY <1>u, <2>1, <2>3, <2>4, <2>5, <2>6 DEF Guarded, KeyOf, Until
    <2>8. QED
      BY <1>0, <1>u, <2>1, <2>3, <2>7
  <1>5. ASSUME NEW i \in Instance, Reserve(i) PROVE Goal
    <2>1. call[i].busy /\ UNCHANGED <<now, signed>> /\ Finish(i)
      BY <1>5 DEF Reserve
    <2> PICK r \in Request : r = call[i].req
      BY <2>1, BusyHoldsCall
    <2>2. r \in Request /\ KeyOf(r) \in Key /\ call[i].at \in Int /\ r.ts \in Int
      BY <2>1, BusyHoldsCall, KeyOfRequest
    <2>3. r \in signed /\ Fresh(r, call[i].at)
      BY <2>1 DEF CallsChecked, Admissible, Authentic
    <2>4. CASE KeyOf(r) # k
      <3>1. Before(k)' = Before(k) /\ Last(k)' = Last(k)
        BY <1>5, <2>4, ReserveCounts
      <3>2. expires'[k] = expires[k]
        BY <1>5, <2>2, <2>4 DEF Reserve, TypeOK
      <3>3. QED
        BY <1>2, <2>1, <3>1, <3>2
    <2>5. CASE KeyOf(r) = k
      <3>1. ~ Live(k, call[i].at) /\ expires'[k] = call[i].at + Ttl
        BY <1>5, <2>5 DEF Reserve, TypeOK
      <3>2. call[i].at + Ttl \in Int /\ call[i].at + Ttl # None
        BY <2>2, SetAssumption, TimeAssumption
      <3>3. /\ call[i].at = r.ts + Skew => Before(k)' = Before(k) /\ Last(k)' = Last(k) + 1
            /\ call[i].at # r.ts + Skew => Before(k)' = Before(k) + 1 /\ Last(k)' = Last(k)
        BY <1>5, <2>5, ReserveCounts
      <3>4. CASE Passes(k) = 0
        <4>1. Before(k) = 0 /\ Last(k) = 0
          BY <3>4, PassTypes
        <4>2. CASE call[i].at = r.ts + Skew
          <5>1. Before(k)' = 0 /\ Last(k)' = 1
            BY <3>3, <4>1, <4>2
          <5>2. Guarded(r, Until(r, Last(k)))'
            BY <2>5, <3>1, <3>2, <4>2, <5>1 DEF Guarded, KeyOf, Until
          <5>3. QED
            BY <2>1, <2>3, <2>5, <5>1, <5>2
        <4>3. CASE call[i].at # r.ts + Skew
          <5>1. Before(k)' = 1 /\ Last(k)' = 0
            BY <3>3, <4>1, <4>3
          <5>2. call[i].at + Ttl >= r.ts - Skew + Ttl
            BY <2>2, <2>3, TimeAssumption DEF Fresh
          <5>3. Guarded(r, Until(r, Last(k)))'
            BY <2>5, <3>1, <3>2, <5>1, <5>2 DEF Guarded, KeyOf, Until
          <5>4. QED
            BY <2>1, <2>3, <2>5, <5>1, <5>3
        <4>4. QED
          BY <4>2, <4>3
      <3>5. CASE Passes(k) # 0
        <4>1. Before(k) = 1 /\ Last(k) = 0 /\ call[i].at = r.ts + Skew
          BY <2>1, <2>5, <3>1, <3>5, OnlyAtEdge
        <4>2. Before(k)' = 1 /\ Last(k)' = 1 /\ expires'[k] = r.ts + Skew + Ttl
          BY <3>1, <3>3, <4>1
        <4>3. expires'[k] # None /\ expires'[k] \in Int
          BY <3>1, <3>2
        <4>4. Guarded(r, Until(r, Last(k)))'
          BY <2>5, <4>2, <4>3 DEF Guarded, KeyOf, Until
        <4>5. QED
          BY <2>1, <2>3, <2>5, <4>2, <4>4
      <3>6. QED
        BY <3>4, <3>5
    <2>6. QED
      BY <2>4, <2>5
  <1>6. ASSUME NEW i \in Instance, Duplicate(i) PROVE Goal
    BY <1>2, <1>6, <1>u DEF Duplicate
  <1>7. ASSUME NEW i \in Instance, StoreError(i) PROVE Goal
    <2>1. call[i].busy /\ UNCHANGED <<now, signed, served>> /\ Finish(i)
      BY <1>7 DEF StoreError
    <2>2. KeyOf(call[i].req) \in Key
      BY <2>1, BusyHoldsCall
    <2>3. CASE KeyOf(call[i].req) # k
      BY <1>2, <1>7, <1>u, <2>1, <2>2, <2>3 DEF StoreError, TypeOK
    <2>4. CASE KeyOf(call[i].req) = k
      <3>1. CASE expires' = expires
        BY <1>2, <1>u, <2>1, <3>1
      <3>2. CASE ~ Live(k, call[i].at) /\ expires' = [expires EXCEPT ![k] = call[i].at + Ttl]
        <4> PICK r \in Request : r = call[i].req
          BY <2>1, BusyHoldsCall
        <4>1. Before(k)' = Before(k) /\ Last(k)' = Last(k) /\ Passes(k) # 0
          BY <1>u, <2>1
        <4>2. /\ Before(k) = 1 /\ Last(k) = 0
              /\ r \in signed /\ r.ts \in Int /\ call[i].at = r.ts + Skew
          BY <2>1, <2>4, <3>2, <4>1, OnlyAtEdge
        <4>3. expires'[k] = call[i].at + Ttl
          BY <3>2 DEF TypeOK
        <4>4. call[i].at + Ttl # None /\ call[i].at + Ttl >= r.ts - Skew + Ttl
          BY <4>2, SetAssumption, TimeAssumption
        <4>5. Guarded(r, Until(r, Last(k)))'
          BY <2>4, <4>1, <4>2, <4>3, <4>4 DEF Guarded, KeyOf, Until
        <4>6. QED
          BY <2>1, <2>4, <4>1, <4>2, <4>5
      <3>3. QED
        BY <1>7, <2>4, <3>1, <3>2 DEF StoreError
    <2>5. QED
      BY <2>3, <2>4
  <1>8. ASSUME NEW i \in Instance, Kill(i) PROVE Goal
    BY <1>2, <1>8, <1>u DEF Kill
  <1>9. ASSUME NEW l \in Key, Purge(l) PROVE Goal
    <2>1. UNCHANGED <<now, signed, call, served>>
      BY <1>9 DEF Purge
    <2>2. PICK m \in signed : /\ KeyOf(m) = k /\ Guarded(m, Until(m, Last(k)))
                              /\ m \in Request /\ Until(m, Last(k)) \in Int
                              /\ Until(m, Last(k)) >= m.ts - Skew + Ttl
      BY <1>0, <1>u, <2>1
    <2>3. CASE l = k
      <3> PICK e \in Int : e = Until(m, Last(k))
        BY <2>2
      <3>1. e >= m.ts - Skew + Ttl /\ Guarded(m, e) /\ Until(m, Last(k))' = e
        BY <1>u, <2>1, <2>2 DEF Until
      <3>2. Guarded(m, e)'
        BY <1>9, <2>2, <2>3, <3>1, PurgeGuarded
      <3>3. Guarded(m, Until(m, Last(k)))'
        BY <3>1, <3>2 DEF Guarded
      <3>4. QED
        BY <1>0, <1>u, <2>1, <2>2, <3>3
    <2>4. CASE l # k
      <3>1. expires'[k] = expires[k] /\ now <= now'
        BY <1>9, <2>1, <2>4 DEF Purge, TypeOK, Time
      <3>2. QED
        BY <1>1, <1>u, <2>1, <3>1
    <2>5. QED
      BY <2>3, <2>4
  <1>10. CASE Tick
    <2>1. now <= now'
      BY <1>10 DEF Tick, TypeOK, Time
    <2>2. QED
      BY <1>1, <1>10, <1>u, <2>1 DEF Tick
  <1>11. CASE UNCHANGED vars
    <2>1. now <= now'
      BY <1>11 DEF vars, TypeOK, Time
    <2>2. QED
      BY <1>1, <1>11, <1>u, <2>1 DEF vars
  <1>12. QED
    BY <1>3, <1>4, <1>5, <1>6, <1>7, <1>8, <1>9, <1>10, <1>11 DEF Next, Handle

-----------------------------------------------------------------------------
(* The theorems.                                                           *)

THEOREM Inductive == ASSUME Settled PROVE Spec => []IInv
  <1>1. Init => IInv
    BY TimeAssumption DEF Init, IInv, TypeOK, KeysUnique, CallsChecked, ServedGuarded, Passes, Instant, Idle, Time
  <1>2. IInv /\ TypeOK' /\ [Next]_vars => IInv'
    BY KeysUniqueStep, CallsCheckedStep, ServedGuardedStep DEF IInv
  <1>3. QED
    BY <1>1, <1>2, TypeCorrect, PTL DEF Spec

\* Only Reserve lets a request through, and the copy whose pass is a second one
\* finds the reservation over at the edge.
LEMMA PassedByReserve ==
    ASSUME TypeOK, [Next]_vars, NEW k \in Key, Passes(k)' # Passes(k)
    PROVE  \E i \in Instance : Reserve(i) /\ call[i].busy /\ KeyOf(call[i].req) = k
  <1>1. served' # served
    BY DEF Passes
  <1>2. PICK i \in Instance : Reserve(i)
    BY <1>1 DEF Next, Handle, vars, Sign, Receive, Duplicate, StoreError, Kill, Purge, Tick
  <1>3. ASSUME KeyOf(call[i].req) # k PROVE FALSE
    BY <1>2, <1>3, ReserveCounts DEF Before, Last, Passes
  <1>4. QED
    BY <1>2, <1>3 DEF Reserve

\* If reservations outlast the window and the calls in flight, a request passes
\* again at one reading only, the last at which it is fresh.
THEOREM SecondAtEdge == ASSUME Settled PROVE Spec => SecondOnlyAtEdge
  <1>1. IInv /\ [Next]_vars =>
          [\A m \in signed :
             LET k == KeyOf(m) IN
             Passes(k) # 0 /\ Passes(k)' # Passes(k) =>
                 /\ Passes(k) = 1 /\ expires[k] = m.ts + Skew
                 /\ \E i \in Instance :
                       call[i].busy /\ call[i].req = m /\ call[i].at = m.ts + Skew]_vars
    <2> SUFFICES ASSUME IInv, [Next]_vars, NEW m \in signed,
                        Passes(KeyOf(m)) # 0, Passes(KeyOf(m))' # Passes(KeyOf(m))
                 PROVE  /\ Passes(KeyOf(m)) = 1 /\ expires[KeyOf(m)] = m.ts + Skew
                        /\ \E i \in Instance : /\ call[i].busy /\ call[i].req = m
                                               /\ call[i].at = m.ts + Skew
      OBVIOUS
    <2>1. KeyOf(m) \in Key
      BY KeyOfRequest DEF IInv, TypeOK
    <2>2. PICK i \in Instance : Reserve(i) /\ call[i].busy /\ KeyOf(call[i].req) = KeyOf(m)
      BY <2>1, PassedByReserve DEF IInv
    <2>3. /\ Before(KeyOf(m)) = 1 /\ Last(KeyOf(m)) = 0 /\ call[i].req \in signed
          /\ expires[KeyOf(m)] = call[i].req.ts + Skew /\ call[i].at = call[i].req.ts + Skew
      BY <2>2, OnlyAtEdge DEF IInv, Reserve
    <2>4. call[i].req = m
      BY <2>2, <2>3 DEF IInv, KeysUnique
    <2>5. Passes(KeyOf(m)) = 1
      BY <2>1, <2>3, PassTypes DEF IInv
    <2>6. QED
      BY <2>2, <2>3, <2>4, <2>5
  <1>2. QED
    BY <1>1, Inductive, PTL DEF Spec, SecondOnlyAtEdge

\* And never a third time.
THEOREM AtMostTwice == ASSUME Settled PROVE Spec => [](\A k \in Key : Passes(k) <= 2)
  <1>1. IInv => \A k \in Key : Passes(k) <= 2
    BY PassTypes DEF IInv, ServedGuarded
  <1>2. QED
    BY <1>1, Inductive, PTL

\* A signed request gets past the replay check at most once.
AtMostOnce == \A k \in Key : Passes(k) <= 1

\* What the shipped life of a reservation lacks: were it longer than twice the
\* skew by any amount, there would be no edge and no second pass at all.
THEOREM LongerLifeSuffices == ASSUME Settled, Ttl # 2 * Skew PROVE Spec => []AtMostOnce
  <1>1. Init => AtMostOnce
    BY DEF Init, AtMostOnce, Passes, Instant
  <1>2. IInv /\ AtMostOnce /\ [Next]_vars => AtMostOnce'
    <2> SUFFICES ASSUME IInv, AtMostOnce, [Next]_vars, NEW k \in Key
                 PROVE  Passes(k)' <= 1
      BY DEF AtMostOnce
    <2>1. CASE Passes(k)' = Passes(k)
      BY <2>1 DEF AtMostOnce
    <2>2. CASE Passes(k)' # Passes(k)
      <3>1. PICK i \in Instance : Reserve(i) /\ call[i].busy /\ KeyOf(call[i].req) = k
        BY <2>2, PassedByReserve DEF IInv
      <3>2. Passes(k) = 0
        BY <3>1, OnlyAtEdge DEF IInv, Reserve
      <3>3. Passes(k)' = Before(k)' + Last(k)'
        BY DEF Passes, Before, Last
      <3>4. QED
        BY <3>1, <3>2, <3>3, PassTypes, ReserveCounts DEF IInv
    <2>3. QED
      BY <2>1, <2>2
  <1>3. QED
    BY <1>1, <1>2, Inductive, PTL DEF Spec

\* reserve_replay implements the abstract once-only service: its initial
\* state is the abstract one, a reservation is an abstract Serve of its request
\* at the instant of its reading, and every other step is a stutter.
THEOREM Implements == ASSUME Settled PROVE Spec => ImplementsOnceOnly
  <1>1. Init => Promise!Init
    BY DEF Init, Promise!Init
  <1>2. IInv /\ [Next]_vars => [Promise!Next]_served
    <2> SUFFICES ASSUME IInv, [Next]_vars
                 PROVE  [Promise!Next]_served
      OBVIOUS
    <2>1. ASSUME NEW i \in Instance, Reserve(i) PROVE Promise!Next
      <3>1. KeyOf(call[i].req) \in Key /\ call[i].busy
        BY <2>1, BusyHoldsCall DEF Reserve, IInv
      <3> PICK p \in Key \X Instant : p = PassOf(i)
        BY <3>1, PassOfType DEF IInv
      <3>2. served' = [served EXCEPT ![p] = @ + 1] /\ ~ Live(KeyOf(call[i].req), call[i].at)
        BY <2>1 DEF Reserve
      <3>3. served[p] = 0
        <4>1. CASE Passes(KeyOf(call[i].req)) = 0
          <5>1. /\ served[<<KeyOf(call[i].req), "before">>] = 0
                /\ served[<<KeyOf(call[i].req), "last">>] = 0
            BY <3>1, <4>1, PassTypes DEF IInv, Before, Last
          <5>2. QED
            BY <3>1, <5>1, PassOfType DEF IInv
        <4>2. CASE Passes(KeyOf(call[i].req)) # 0
          BY <3>1, <3>2, <4>2, OnlyAtEdge DEF IInv, PassOf, Last
        <4>3. QED
          BY <4>1, <4>2
      <3>4. Promise!Serve(p)
        BY <3>2, <3>3 DEF Promise!Serve, IInv, TypeOK
      <3>5. QED
        BY <3>4 DEF Promise!Next
    <2>2. CASE UNCHANGED served
      BY <2>2
    <2>3. QED
      BY <2>1, <2>2 DEF Next, Handle, vars, Sign, Receive, Duplicate, StoreError, Kill, Purge, Tick
  <1>3. QED
    BY <1>1, <1>2, Inductive, PTL DEF Spec, ImplementsOnceOnly, Promise!Spec

\* Nonces are burned only by acceptable requests, whatever the configured
\* times: the reservation is made last, with the reading the checks used.
THEOREM BurnedOnlyByAcceptable == Spec => []BurnedByAcceptable
  <1> DEFINE BInv == TypeOK /\ CallsChecked /\ BurnedByAcceptable
             Backs(m, e) == /\ m.dev \in Enabled /\ InScope(m)
                            /\ e - Ttl - m.ts <= Skew /\ m.ts - (e - Ttl) <= Skew
  <1>1. Init => BInv
    BY TimeAssumption DEF Init, TypeOK, CallsChecked, BurnedByAcceptable, Idle, Time
  <1>2. BInv /\ TypeOK' /\ [Next]_vars => BInv'
    <2> SUFFICES ASSUME BInv, TypeOK', [Next]_vars,
                        NEW k \in Key, expires'[k] # None
                 PROVE  \E m \in signed' : KeyOf(m) = k /\ Backs(m, expires'[k])
      BY CallsCheckedStep DEF BurnedByAcceptable, KeyOf, InScope
    <2>1. signed \subseteq signed'
      BY DEF Next, Handle, vars, Sign, Receive, Reserve, Duplicate, StoreError, Kill, Purge, Tick
    <2>2. CASE expires'[k] = expires[k]
      BY <2>1, <2>2 DEF BurnedByAcceptable
    <2>3. ASSUME NEW i \in Instance, call[i].busy,
                 expires' = [expires EXCEPT ![KeyOf(call[i].req)] = call[i].at + Ttl]
          PROVE  \E m \in signed' : KeyOf(m) = k /\ Backs(m, expires'[k])
      <3>1. call[i].req \in Request /\ call[i].at \in Int /\ call[i].req.ts \in Int
        BY <2>3, BusyHoldsCall, KeyOfRequest
      <3>2. call[i].req \in signed /\ Admissible(call[i].req, call[i].at)
        BY <2>3 DEF CallsChecked, Admissible, Authentic
      <3>3. CASE KeyOf(call[i].req) = k
        <4>1. expires'[k] = call[i].at + Ttl
          BY <2>3, <3>3 DEF TypeOK
        <4>2. Backs(call[i].req, call[i].at + Ttl)
          BY <3>1, <3>2, TimeAssumption DEF Admissible, Fresh
        <4>3. QED
          BY <2>1, <3>2, <3>3, <4>1, <4>2
      <3>4. CASE KeyOf(call[i].req) # k
        BY <2>2, <2>3, <3>4 DEF TypeOK
      <3>5. QED
        BY <3>3, <3>4
    <2>4. ASSUME NEW l \in Key, Purge(l) PROVE expires'[k] = expires[k]
      BY <2>4 DEF Purge, TypeOK
    <2>5. QED
      BY <2>2, <2>3, <2>4
         DEF Next, Handle, vars, Sign, Receive, Reserve, Duplicate, StoreError, Kill, Tick
  <1>3. QED
    BY <1>1, <1>2, TypeCorrect, PTL DEF Spec

\* A request is let through no earlier than the skew before its timestamp and
\* no later than the skew plus the platform's time limit after it, on the clock
\* of the instance that serves it.
THEOREM RecentWhenServed == Spec => ServedWhileRecent
  <1>1. Init => CallsChecked /\ KeysUnique
    BY DEF Init, CallsChecked, KeysUnique, Idle
  <1>2. TypeOK /\ KeysUnique /\ CallsChecked /\ [Next]_vars =>
          [\A m \in signed :
             Passes(KeyOf(m))' > Passes(KeyOf(m)) =>
                 \E i \in Instance :
                     /\ call[i].busy /\ KeyOf(call[i].req) = KeyOf(m)
                     /\ m.ts - Skew <= now + Offset[i]
                     /\ now + Offset[i] <= m.ts + Skew + Deadline]_vars
    <2> SUFFICES ASSUME TypeOK, KeysUnique, CallsChecked, [Next]_vars, NEW m \in signed,
                        Passes(KeyOf(m))' > Passes(KeyOf(m))
                 PROVE  \E i \in Instance :
                          /\ call[i].busy /\ KeyOf(call[i].req) = KeyOf(m)
                          /\ m.ts - Skew <= now + Offset[i]
                          /\ now + Offset[i] <= m.ts + Skew + Deadline
      OBVIOUS
    <2>1. m \in Request /\ KeyOf(m) \in Key /\ m.ts \in Int
      BY KeyOfRequest DEF TypeOK
    <2>2. Passes(KeyOf(m))' # Passes(KeyOf(m))
      BY <2>1, PassTypes
    <2>3. PICK i \in Instance : Reserve(i) /\ call[i].busy /\ KeyOf(call[i].req) = KeyOf(m)
      BY <2>1, <2>2, PassedByReserve
    <2>4. call[i].req = m /\ Fresh(m, call[i].at)
      BY <2>3 DEF CallsChecked, Admissible, Authentic, KeysUnique
    <2>5. /\ call[i].at = call[i].since + Offset[i]
          /\ call[i].since <= now /\ now <= call[i].since + Deadline
      BY <2>3 DEF CallsChecked
    <2>6. now \in Int /\ Offset[i] \in Int /\ call[i].at \in Int /\ call[i].since \in Int
      BY <2>3, BusyHoldsCall, SetAssumption DEF TypeOK, Time
    <2>7. m.ts - Skew <= now + Offset[i] /\ now + Offset[i] <= m.ts + Skew + Deadline
      BY <2>1, <2>4, <2>5, <2>6, TimeAssumption DEF Fresh
    <2>8. QED
      BY <2>3, <2>7
  <1>3. QED
    BY <1>1, <1>2, KeysUniqueStep, CallsCheckedStep, TypeCorrect, PTL
       DEF Spec, ServedWhileRecent
=============================================================================
