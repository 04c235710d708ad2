---------------------------- MODULE ReplayGuard -----------------------------
(***************************************************************************)
(* Authentication of protocol-v2 requests by the cloud service             *)
(* (_verify_v2_request in app/routes.py, reserve_replay in                 *)
(* app/protocol.py).  Several service instances share one Firestore        *)
(* collection of nonce reservations.  An instance reads its clock once,    *)
(* checks the headers against that reading and only then runs the          *)
(* reservation transaction, which reuses the reading; anything may happen  *)
(* between the two.  The network may lose, repeat, delay and reorder       *)
(* requests, and Firestore's TTL policy deletes expired reservations some  *)
(* time later.                                                             *)
(***************************************************************************)
EXTENDS Integers

CONSTANTS
    Device,     \* devices that hold a credential
    Enabled,    \* those whose credential has "enabled": true
    User,       \* user ids
    Allowed,    \* Allowed[d]: the credential's allowed_user_ids
    Nonce,      \* request nonces
    Instance,   \* service instances (one request each at a time)
    Offset,     \* Offset[i]: how far the clock of instance i is ahead
    Skew,       \* CLOCK_SKEW_SECONDS
    Ttl,        \* REPLAY_TTL_SECONDS
    Deadline,   \* the platform's request time limit
    PurgeLag,   \* least delay of Firestore's TTL deletion
    MaxTime,    \* bound: the true clock stops here
    None        \* no reservation

NoUser == "face route"   \* /api/unlock passes no user id to the check

ASSUME SetAssumption ==
    /\ Enabled \subseteq Device
    /\ Allowed \in [Device -> SUBSET User]
    /\ NoUser \notin User
    /\ Offset \in [Instance -> Int]
    /\ None \notin Int

\* _config_int clamps the skew at 0 and the reservation's life at 1.
ASSUME TimeAssumption ==
    /\ Skew \in Nat
    /\ Ttl \in Nat \ {0}
    /\ Deadline \in Nat
    /\ PurgeLag \in Nat
    /\ MaxTime \in Nat

Time == 0 .. MaxTime

Request == [dev : Device, nonce : Nonce, ts : Time, user : User \cup {NoUser}]

\* replay_document_id: the reservation is named by the device and the nonce.
Key == Device \X Nonce

KeyOf(m) == <<m.dev, m.nonce>>

\* A request is fresh up to and including one last reading, its timestamp plus
\* the skew; the history tells the passes at that reading from earlier ones.
Instant == {"before", "last"}

Idle == [busy |-> FALSE]

\* A call past the header checks: its request, the clock reading the checks
\* and the transaction use, and the true time of that reading.
Call == [busy : {TRUE}, req : Request, at : Int, since : Time]

VARIABLES
    now,        \* true time
    signed,     \* requests a device has signed; copies may arrive at any time
    expires,    \* device_request_replays: expires_at of each key, or None
    call,       \* what each instance is doing
    served      \* history: how often each key passed _verify_v2_request, before
                \* the last reading at which its request is fresh and at it

vars == <<now, signed, expires, call, served>>

Init ==
    /\ now = 0
    /\ signed = {}
    /\ expires = [k \in Key |-> None]
    /\ call = [i \in Instance |-> Idle]
    /\ served = [p \in Key \X Instant |-> 0]

-----------------------------------------------------------------------------
\* A device signs a request under a nonce it has not used, stamped with its
\* own clock, which need not agree with the service's.
Sign(m) ==
    /\ \A s \in signed : KeyOf(s) # KeyOf(m)
    /\ signed' = signed \cup {m}
    /\ UNCHANGED <<now, expires, call, served>>

\* Variant of Fresh: abs() forgotten, late requests stay fresh.
FreshOneSided(m, at) == m.ts - at <= Skew

\* The freshness test: reject when abs(now - timestamp) > skew.
Fresh(m, at) == m.ts - at <= Skew /\ at - m.ts <= Skew

\* The HMAC covers every field, so only what a device signed passes.
Authentic(m) == m \in signed

InScope(m) == m.user = NoUser \/ m.user \in Allowed[m.dev]

\* Variant of Admissible: the allow-list is consulted after the reservation.
AdmissibleUnscoped(m, at) == Fresh(m, at) /\ m.dev \in Enabled /\ Authentic(m)

\* The checks made before the reservation, in one clock reading.
Admissible(m, at) ==
    /\ Fresh(m, at)
    /\ m.dev \in Enabled
    /\ Authentic(m)
    /\ InScope(m)

\* A request arrives, intact or not, and passes the checks.  One that fails
\* them is answered 401 or 403 and changes nothing.
Receive(i, m) ==
    /\ call[i] = Idle
    /\ Admissible(m, now + Offset[i])
    /\ call' = [call EXCEPT ![i] =
                  [busy |-> TRUE, req |-> m, at |-> now + Offset[i], since |-> now]]
    /\ UNCHANGED <<now, signed, expires, served>>

\* Variant of Live: compares the creation time, as if the life were 0.
LiveSinceCreation(k, at) == expires[k] # None /\ expires[k] - Ttl > at

\* _expiry_is_future: the reservation is live for a reader with this reading.
Live(k, at) == expires[k] # None /\ expires[k] > at

\* Variant of Finish: the slot is marked free but its call is kept.
FinishHalfway(i) == call' = [call EXCEPT ![i].busy = FALSE]

Finish(i) == call' = [call EXCEPT ![i] = Idle]

\* What the transaction of instance i is about to count.
PassOf(i) ==
    <<KeyOf(call[i].req),
      IF call[i].at = call[i].req.ts + Skew THEN "last" ELSE "before">>

\* Variant of Reserve: the existing reservation is not looked at.
ReserveBlindly(i) ==
    /\ call[i].busy
    /\ LET k == KeyOf(call[i].req) IN
         /\ expires' = [expires EXCEPT ![k] = call[i].at + Ttl]
         /\ served' = [served EXCEPT ![PassOf(i)] = @ + 1]
    /\ Finish(i)
    /\ UNCHANGED <<now, signed>>

\* reserve_replay commits: it creates the reservation, or renews one that
\* has expired for this reading, and the request goes on to its handler.
Reserve(i) ==
    /\ call[i].busy
    /\ LET k == KeyOf(call[i].req) IN
         /\ ~ Live(k, call[i].at)
         /\ expires' = [expires EXCEPT ![k] = call[i].at + Ttl]
         /\ served' = [served EXCEPT ![PassOf(i)] = @ + 1]
    /\ Finish(i)
    /\ UNCHANGED <<now, signed>>

\* A live reservation: the request is a replay and is answered 409.
Duplicate(i) ==
    /\ call[i].busy
    /\ Live(KeyOf(call[i].req), call[i].at)
    /\ Finish(i)
    /\ UNCHANGED <<now, signed, expires, served>>

\* The transaction raises.  Its commit may have been applied all the same
\* (the answer was lost); either way the request is answered 503.
StoreError(i) ==
    /\ call[i].busy
    /\ LET k == KeyOf(call[i].req) IN
         \/ UNCHANGED expires
         \/ /\ ~ Live(k, call[i].at)
            /\ expires' = [expires EXCEPT ![k] = call[i].at + Ttl]
    /\ Finish(i)
    /\ UNCHANGED <<now, signed, served>>

\* The platform kills the call, at the latest at its deadline (see Tick).
Kill(i) ==
    /\ call[i].busy
    /\ Finish(i)
    /\ UNCHANGED <<now, signed, expires, served>>

\* Firestore's asynchronous TTL deletion of an expired reservation.
Purge(k) ==
    /\ expires[k] # None
    /\ expires[k] + PurgeLag < now
    /\ expires' = [expires EXCEPT ![k] = None]
    /\ UNCHANGED <<now, signed, call, served>>

\* Time passes, but never past the deadline of a running call.
Tick ==
    /\ now < MaxTime
    /\ \A i \in Instance : call[i].busy => now < call[i].since + Deadline
    /\ now' = now + 1
    /\ UNCHANGED <<signed, expires, call, served>>

Handle(i) ==
    \/ \E m \in Request : Receive(i, m)
    \/ Reserve(i)
    \/ Duplicate(i)
    \/ StoreError(i)
    \/ Kill(i)

Next ==
    \/ \E m \in Request : Sign(m)
    \/ \E i \in Instance : Handle(i)
    \/ \E k \in Key : Purge(k)
    \/ Tick

Spec == Init /\ [][Next]_vars

-----------------------------------------------------------------------------
\* Every variable keeps its type.
TypeOK ==
    /\ now \in Time
    /\ signed \subseteq Request
    /\ expires \in [Key -> Int \cup {None}]
    /\ call \in [Instance -> Call \cup {Idle}]
    /\ served \in [Key \X Instant -> Nat]

\* How often the request with this key has passed _verify_v2_request.
Passes(k) == served[<<k, "before">>] + served[<<k, "last">>]

\* However often the network repeats a signed request and whichever instances
\* receive the copies, it passes a second time at one reading only and never a
\* third time (reserve_replay: True means this invocation created the
\* reservation): the reservation was made with the earliest reading at which
\* the request is fresh and has expired for the copy, which is read at the last.
\* With a life of exactly twice the skew, as shipped, that instant exists.
SecondOnlyAtEdge ==
    [][\A m \in signed :
          LET k == KeyOf(m) IN
          Passes(k) # 0 /\ Passes(k)' # Passes(k) =>
              /\ Passes(k) = 1 /\ expires[k] = m.ts + Skew
              /\ \E i \in Instance :
                    call[i].busy /\ call[i].req = m /\ call[i].at = m.ts + Skew]_vars

\* Only a request that passed every check burns its nonce: a reservation
\* belongs to a signed, in-scope request of an enabled device and expires
\* within the window that request's own timestamp allows.  A damaged, late or
\* out-of-scope copy can therefore never make the genuine request a replay.
BurnedByAcceptable ==
    \A k \in Key : expires[k] # None =>
        \E m \in signed :
            /\ KeyOf(m) = k
            /\ m.dev \in Enabled /\ InScope(m)
            /\ expires[k] - Ttl - m.ts <= Skew
            /\ m.ts - (expires[k] - Ttl) <= Skew

\* A request is let through only around its timestamp: the freshness test is
\* made before the transaction, so the transaction's delay adds to the late side
\* of the skew, and nothing adds to the early side.
ServedWhileRecent ==
    [][\A m \in signed :
          Passes(KeyOf(m))' > Passes(KeyOf(m)) =>
              \E i \in Instance :
                  /\ call[i].busy /\ KeyOf(call[i].req) = KeyOf(m)
                  /\ m.ts - Skew <= now + Offset[i]
                  /\ now + Offset[i] <= m.ts + Skew + Deadline]_vars

\* The promise this component implements, at the shipped times too: a signed
\* request is let through at most once before the last reading at which it is
\* fresh, and at most once at that reading.
Promise == INSTANCE OnceOnly WITH Key <- Key \X Instant, served <- served

ImplementsOnceOnly == Promise!Spec
=============================================================================
