-------------------------- MODULE DeviceTokensProofs --------------------------
(***************************************************************************)
(* Proofs about DeviceTokens, for any number of tokens, documents, calls   *)
(* and notifications, and any size of chunks.                              *)
(***************************************************************************)
EXTENDS DeviceTokens, TLAPS, FiniteSetTheorems, WellFoundedInduction

-----------------------------------------------------------------------------
(* Documents in order.                                                     *)

\* First finds a member of a set of numbers.
LEMMA FirstIn ==
    ASSUME NEW S \in SUBSET Nat, S # {}
    PROVE  First(S) \in S
  <1>1. PICK m \in S : \A k \in S : <<k, m>> \notin OpToRel(<, Nat)
    BY NatLessThanWellFounded, WFMin, Zenon
  <1>2. \A k \in S : ~ k < m
    BY <1>1, Zenon DEF OpToRel
  <1>3. \A k \in S : m <= k
    BY <1>2
  <1>4. QED
    BY <1>3 DEF First

LEMMA WithIn == \A t : With(t) \in SUBSET Doc /\ With(t) \in SUBSET Nat
  BY DocAssumption DEF With

\* An enumeration in order lists every member once.
LEMMA InOrderLists ==
    ASSUME NEW S \in SUBSET Doc, NEW f \in InOrder(S)
    PROVE  /\ Cardinality(S) \in Nat
           /\ f \in [1..Cardinality(S) -> S]
           /\ \A i, j \in 1..Cardinality(S) : f[i] = f[j] => i = j
           /\ \A d \in S : \E i \in 1..Cardinality(S) : f[i] = d
  <1>1. IsFiniteSet(S) /\ Cardinality(S) \in Nat
    BY DocAssumption, FS_Subset, FS_CardinalityType
  <1> DEFINE I == 1..Cardinality(S)
  <1>2. IsFiniteSet(I) /\ Cardinality(I) = Cardinality(S)
    BY <1>1, FS_Interval
  <1>3. f \in [I -> S] /\ \A i, j \in I : i < j => f[i] < f[j]
    BY DEF InOrder
  <1>4. \A i \in I : f[i] \in Nat
    BY <1>3, DocAssumption
  <1>5. \A i, j \in I : f[i] = f[j] => i = j
    BY <1>1, <1>3, <1>4
  <1>6. f \in Injection(I, S)
    BY <1>3, <1>5 DEF Injection, IsInjective
  <1>7. f \in Surjection(I, S)
    BY <1>1, <1>2, <1>6, FS_Injection
  <1>8. QED
    BY <1>1, <1>3, <1>5, <1>7 DEF Surjection

\* What get_active_tokens_for_user lists: each active token at one position.
LEMMA ListsActive ==
    ASSUME TypeOK, NEW l \in Listings
    PROVE  /\ l \in Seq(Token)
           /\ \A i, j \in 1..Len(l) : l[i] = l[j] => i = j
           /\ {l[i] : i \in 1..Len(l)} = ActiveTokens
  <1> DEFINE Of(t) == {e \in active : held[e] = t}
             firsts == {First(Of(t)) : t \in ActiveTokens}
  <1>1. \A t \in ActiveTokens : First(Of(t)) \in active /\ held[First(Of(t))] = t
    <2> SUFFICES ASSUME NEW t \in ActiveTokens PROVE First(Of(t)) \in Of(t)
      OBVIOUS
    <2>1. Of(t) \in SUBSET Nat /\ Of(t) # {}
      BY DocAssumption DEF TypeOK, ActiveTokens
    <2>2. QED
      BY <2>1, FirstIn
  <1>2. firsts \in SUBSET Doc /\ firsts \subseteq active
    <2>1. ASSUME NEW t \in ActiveTokens PROVE First(Of(t)) \in active \cap Doc
      BY <1>1 DEF TypeOK
    <2>2. QED
      BY <2>1
  <1>3. \A d, e \in firsts : held[d] = held[e] => d = e
    BY <1>1
  <1>4. PICK f \in InOrder(firsts) : l = [i \in DOMAIN f |-> held[f[i]]]
    BY DEF Listings
  <1> DEFINE n == Cardinality(firsts)
  <1>5. /\ n \in Nat /\ f \in [1..n -> firsts]
        /\ \A i, j \in 1..n : f[i] = f[j] => i = j
        /\ \A d \in firsts : \E i \in 1..n : f[i] = d
    BY <1>2, InOrderLists
  <1>6. \A t \in ActiveTokens : \E d \in firsts : held[d] = t
    BY <1>1
  <1> HIDE DEF firsts, n
  <1>7. l = [i \in 1..n |-> held[f[i]]]
    BY <1>4, <1>5
  <1>8. \A i \in 1..n : f[i] \in active /\ l[i] = held[f[i]] /\ l[i] \in Token
    BY <1>2, <1>5, <1>7 DEF TypeOK, Stored
  <1>9. l \in Seq(Token) /\ Len(l) = n
    BY <1>5, <1>7, <1>8
  <1>10. \A i, j \in 1..n : l[i] = l[j] => i = j
    BY <1>3, <1>5, <1>8
  <1>11. \A t \in ActiveTokens : \E i \in 1..n : l[i] = t
    BY <1>6, <1>5, <1>8
  <1>12. \A i \in 1..n : l[i] \in ActiveTokens
    BY <1>8 DEF ActiveTokens
  <1>13. QED
    BY <1>9, <1>10, <1>11, <1>12

-----------------------------------------------------------------------------
(* Types.                                                                  *)

\* Every variable keeps its type, and a call under way has a token.
TypeInv == TypeOK /\ \A c \in Call : call[c].at # "idle" => call[c].token \in Token

CallType == [at : {"idle", "store", "update", "create", "find", "disable"},
             token : Token \cup {NoToken}, doc : Doc \cup {NoDoc}]

LEMMA AttemptType ==
    ASSUME TypeOK, NEW u \in Unlock, Attempt(u)
    PROVE  tried' \in [Unlock -> [Token -> Nat]]
  <1> DEFINE Hits(t) == {i \in Chunk(u) : list[u][start[u] + i] = t}
  <1>1. ASSUME NEW t \in Token PROVE Cardinality(Hits(t)) \in Nat
    <2>1. IsFiniteSet(1..ChunkSize) /\ Hits(t) \in SUBSET (1..ChunkSize)
      BY ChunkAssumption, FS_Interval DEF Chunk
    <2>2. QED
      BY <2>1, FS_Subset, FS_CardinalityType
  <1>2. tried \in [Unlock -> [Token -> Nat]]
    BY DEF TypeOK
  <1> HIDE DEF Hits
  <1>3. [t \in Token |-> tried[u][t] + Cardinality(Hits(t))] \in [Token -> Nat]
    BY <1>1, <1>2
  <1>4. tried' = [tried EXCEPT ![u] = [t \in Token |-> tried[u][t] + Cardinality(Hits(t))]]
    BY DEF Attempt, Hits
  <1>5. QED
    BY <1>2, <1>3, <1>4

CallsTyped ==
    /\ call \in [Call -> CallType]
    /\ \A c \in Call : call[c].at # "idle" => call[c].token \in Token

LEMMA GotoTyped ==
    ASSUME CallsTyped, NEW c \in Call, NEW t \in Token, NEW d \in Doc \cup {NoDoc},
           NEW step \in {"store", "update", "create", "find", "disable"}, Goto(c, step, t, d)
    PROVE  CallsTyped'
  <1> DEFINE r == [at |-> step, token |-> t, doc |-> d]
  <1>1. r \in CallType /\ r.token \in Token
    BY DEF CallType
  <1> HIDE DEF r
  <1>2. call' = [call EXCEPT ![c] = r]
    BY DEF Goto, r
  <1>3. QED
    BY <1>1, <1>2 DEF CallsTyped

LEMMA EndTyped ==
    ASSUME CallsTyped, NEW c \in Call, call' = [call EXCEPT ![c] = Idle]
    PROVE  CallsTyped'
  <1>1. Idle \in CallType /\ Idle.at = "idle"
    BY DEF Idle, CallType
  <1>2. QED
    BY <1>1 DEF CallsTyped

\* The steps of a registration or deregistration.
LEMMA ServeTypes == ASSUME TypeInv, NEW c \in Call, Serve(c) PROVE TypeInv'
  <1> USE DEF TypeInv, TypeOK, documents, notification, history, Stored
  <1>1. CallsTyped /\ (CallsTyped' => call' \in [Call -> CallType] /\
                         \A k \in Call : call'[k].at # "idle" => call'[k].token \in Token)
    BY DEF CallsTyped, CallType
  <1>2. \A t : With(t) # {} => First(With(t)) \in Doc
    BY WithIn, FirstIn
  <1>3. ASSUME NEW t \in Token, Register(c, t) \/ Deregister(c, t) PROVE TypeInv'
    <2>1. CallsTyped'
      BY <1>1, <1>3, GotoTyped DEF Register, Deregister
    <2>2. overlapped' \subseteq Token /\ alone' \subseteq Call /\ quiet' \subseteq Token
      BY <1>3 DEF Register, Deregister
    <2>3. QED
      BY <1>1, <1>3, <2>1, <2>2 DEF Register, Deregister, CallType
  <1>4. CASE FindExisting(c)
    <2>1. CallsTyped'
      BY <1>1, <1>4, <1>2, GotoTyped DEF FindExisting, CallsTyped
    <2>2. QED
      BY <1>1, <1>4, <2>1 DEF FindExisting, CallType
  <1>5. CASE Update(c)
    <2>1. CallsTyped'
      BY <1>1, <1>5, EndTyped DEF Update
    <2>2. QED
      BY <1>1, <1>5, <2>1 DEF Update, CallType
  <1>6. CASE Create(c)
    <2>1. CallsTyped'
      BY <1>1, <1>6, EndTyped DEF Create
    <2>2. QED
      BY <1>1, <1>6, <2>1 DEF Create, CallType
  <1>7. CASE Find(c) \/ Disable(c)
    <2>1. CallsTyped'
      BY <1>1, <1>7, <1>2, GotoTyped, EndTyped DEF Find, Disable, Answer, CallsTyped
    <2>2. overlapped' = overlapped /\ alone' \subseteq Call /\ quiet' \subseteq Token
      BY <1>7 DEF Find, Disable, Answer
    <2>3. QED
      BY <1>1, <1>7, <2>1, <2>2 DEF Find, Disable, CallType
  <1>8. CASE Abort(c)
    <2>1. CallsTyped'
      BY <1>1, <1>8, EndTyped DEF Abort
    <2>2. QED
      BY <1>1, <1>8, <2>1 DEF Abort, CallType
  <1>9. QED
    BY <1>3, <1>4, <1>5, <1>6, <1>7, <1>8 DEF Serve

\* The steps of a notification.
LEMMA NotifyTypes ==
    ASSUME TypeInv, NEW u \in Unlock, Proceed(u) \/ Faulty(u)
    PROVE  TypeInv'
  <1> USE ChunkAssumption DEF TypeInv, TypeOK, documents, notification, history, Stored
  <1>1. CASE ReadTokens(u)
    <2>1. \A l \in Listings : l \in Seq(Token)
      BY ListsActive
    <2>2. ActiveTokens \subseteq Token
      BY DEF ActiveTokens
    <2>3. list' \in [Unlock -> Seq(Token)] /\ found' \in [Unlock -> SUBSET Token]
      BY <1>1, <2>1, <2>2 DEF ReadTokens
    <2>4. QED
      BY <1>1, <2>3 DEF ReadTokens
  <1>2. ASSUME NEW reported \in SUBSET Dead(u), Send(u, reported) PROVE TypeInv'
    <2>1. tried' \in [Unlock -> [Token -> Nat]]
      BY <1>2, AttemptType DEF Send
    <2>2. bad' \in [Unlock -> SUBSET (1..ChunkSize)]
      BY <1>2 DEF Send, Dead, Chunk
    <2>3. QED
      BY <1>2, <2>1, <2>2 DEF Send
  <1>3. CASE SendRaises(u)
    <2>1. tried' \in [Unlock -> [Token -> Nat]]
      BY <1>3, AttemptType DEF SendRaises
    <2>2. start' \in [Unlock -> Nat]
      BY <1>3 DEF SendRaises
    <2>3. QED
      BY <1>3, <2>1, <2>2 DEF SendRaises
  <1>4. CASE Clean(u)
    <2>1. \A t : With(t) # {} => First(With(t)) \in Doc
      BY WithIn, FirstIn
    <2>2. hand' \in [Unlock -> Doc \cup {NoDoc}] /\ at' \in [Unlock -> {"idle", "send", "clean", "drop"}]
      BY <1>4, <2>1 DEF Clean
    <2>3. bad' \in [Unlock -> SUBSET (1..ChunkSize)]
      BY <1>4 DEF Clean
    <2>4. QED
      BY <1>4, <2>2, <2>3 DEF Clean
  <1>5. CASE Drop(u)
    BY <1>5 DEF Drop
  <1>6. CASE NextChunk(u)
    <2>1. start' \in [Unlock -> Nat]
      BY <1>6 DEF NextChunk
    <2>2. QED
      BY <1>6, <2>1 DEF NextChunk
  <1>7. CASE Stop(u)
    <2>1. <<>> \in Seq(Token) /\ [t \in Token |-> 0] \in [Token -> Nat]
      OBVIOUS
    <2>2. QED
      BY <1>7, <2>1 DEF Stop
  <1>8. QED
    BY <1>1, <1>2, <1>3, <1>4, <1>5, <1>6, <1>7
    DEF Proceed, Faulty, Gone, Finish, Break, Dead

LEMMA TypeInvariant == Spec => []TypeInv
  <1>1. Init => TypeInv
    <2>1. <<>> \in Seq(Token) /\ Idle.at = "idle" /\ Idle \in CallType
      BY DEF Idle, CallType
    <2>2. QED
      BY <2>1 DEF Init, TypeInv, TypeOK, CallType
  <1>2. TypeInv /\ [Next]_vars => TypeInv'
    <2> SUFFICES ASSUME TypeInv, [Next]_vars PROVE TypeInv'
      OBVIOUS
    <2> USE DEF TypeInv, TypeOK, documents, notification, history, Stored
    <2>1. ASSUME NEW d \in Doc, DeleteDevice(d) PROVE TypeInv'
      BY <2>1, DocAssumption DEF DeleteDevice
    <2>2. ASSUME NEW t \in Token, Expire(t) PROVE TypeInv'
      BY <2>2 DEF Expire
    <2>3. CASE UNCHANGED vars
      BY <2>3 DEF vars
    <2>4. QED
      BY <2>1, <2>2, <2>3, ServeTypes, NotifyTypes DEF Next
  <1>3. QED
    BY <1>1, <1>2, PTL DEF Spec

\* TypeOK holds always.
THEOREM TypeCorrect == Spec => []TypeOK
  BY TypeInvariant, PTL DEF TypeInv

-----------------------------------------------------------------------------
(* What the calls and notifications hold in their hands.                   *)

\* A document a query found holds that token until it is deleted; what a
\* notification is to switch off was reported.
HandInv ==
    /\ \A c \in Call : call[c].at \in {"update", "disable"} =>
          call[c].doc \in Doc /\ held[call[c].doc] \in {call[c].token, Deleted}
    /\ \A u \in Unlock : at[u] \in {"clean", "drop"} => bad[u] \subseteq Dead(u)
    /\ \A u \in Unlock : at[u] = "drop" =>
          hand[u] \in Doc /\ held[hand[u]] \in dead \cup {Deleted}

LEMMA HandStep == TypeInv /\ HandInv /\ [Next]_vars => HandInv'
  <1> SUFFICES ASSUME TypeInv, HandInv, [Next]_vars PROVE HandInv'
    OBVIOUS
  <1>1. /\ held \in [Doc -> Token \cup {Unused, Deleted}] /\ dead \subseteq Token
        /\ call \in [Call -> CallType] /\ at \in [Unlock -> {"idle", "send", "clean", "drop"}]
        /\ bad \in [Unlock -> SUBSET (1..ChunkSize)] /\ hand \in [Unlock -> Doc \cup {NoDoc}]
        /\ \A c \in Call : call[c].at # "idle" => call[c].token \in Token
        /\ Unused \notin Token /\ Deleted \notin Token /\ Unused # Deleted
    BY DocAssumption DEF TypeInv, TypeOK, CallType
  <1>2. \A t : With(t) # {} => First(With(t)) \in Doc /\ held[First(With(t))] = t
    <2>1. \A t : With(t) # {} => First(With(t)) \in With(t)
      BY WithIn, FirstIn
    <2>2. QED
      BY <2>1 DEF With
  <1> USE DEF HandInv, documents, notification, Dead, Chunk
  <1>3. ASSUME NEW c \in Call, Serve(c) PROVE HandInv'
    <2>1. ASSUME NEW t \in Token, Register(c, t) \/ Deregister(c, t) PROVE HandInv'
      BY <1>1, <2>1 DEF Register, Deregister, Goto
    <2>2. CASE FindExisting(c)
      BY <1>1, <1>2, <2>2 DEF FindExisting, Goto
    <2>3. CASE Update(c)
      BY <1>1, <2>3 DEF Update, Idle
    <2>4. CASE Create(c)
      <3>1. PICK d \in Doc : held[d] = Unused /\ held' = [held EXCEPT ![d] = call[c].token]
        BY <2>4 DEF Create
      <3>2. \A e \in Doc : held[e] # Unused => held'[e] = held[e]
        BY <1>1, <3>1
      <3>3. \A k \in Call : call'[k].at # "idle" => call'[k] = call[k]
        BY <1>1, <2>4 DEF Create, Idle
      <3>4. UNCHANGED <<dead, notification>>
        BY <2>4 DEF Create
      <3>5. \A k \in Call : call[k].at \in {"update", "disable"} => held[call[k].doc] # Unused
        BY <1>1
      <3>6. \A u \in Unlock : at[u] = "drop" => held[hand[u]] # Unused
        BY <1>1
      <3>7. QED
        BY <3>2, <3>3, <3>4, <3>5, <3>6
    <2>5. CASE Find(c)
      BY <1>1, <1>2, <2>5 DEF Find, Answer, Goto, Idle
    <2>6. CASE Disable(c) \/ Abort(c)
      BY <1>1, <2>6 DEF Disable, Abort, Answer, Idle
    <2>7. QED
      BY <1>3, <2>1, <2>2, <2>3, <2>4, <2>5, <2>6 DEF Serve
  <1>4. ASSUME NEW u \in Unlock, Proceed(u) \/ Faulty(u) PROVE HandInv'
    <2>1. CASE ReadTokens(u)
      BY <1>1, <2>1 DEF ReadTokens
    <2>2. ASSUME NEW reported \in SUBSET Dead(u), Send(u, reported) PROVE HandInv'
      BY <1>1, <2>2 DEF Send
    <2>3. CASE SendRaises(u)
      BY <1>1, <2>3 DEF SendRaises
    <2>4. CASE Clean(u)
      <3>1. First(bad[u]) \in bad[u]
        <4>1. bad[u] \in SUBSET Nat /\ bad[u] # {}
          BY <1>1, <2>4, ChunkAssumption DEF Clean
        <4>2. QED
          BY <4>1, FirstIn
      <3>2. Culprit(u, First(bad[u])) \in dead
        BY <2>4, <3>1 DEF Clean, Culprit
      <3>3. bad' = [bad EXCEPT ![u] = bad[u] \ {First(bad[u])}]
        BY <2>4 DEF Clean
      <3>4. QED
        BY <1>1, <1>2, <2>4, <3>2, <3>3 DEF Clean
    <2>5. CASE Drop(u)
      BY <1>1, <2>5 DEF Drop
    <2>6. CASE NextChunk(u)
      BY <1>1, <2>6 DEF NextChunk
    <2>7. CASE Stop(u)
      BY <1>1, <2>7 DEF Stop
    <2>8. QED
      BY <1>4, <2>1, <2>2, <2>3, <2>4, <2>5, <2>6, <2>7
      DEF Proceed, Faulty, Gone, Finish, Break
  <1>5. ASSUME NEW d \in Doc, DeleteDevice(d) PROVE HandInv'
    BY <1>1, <1>5 DEF DeleteDevice
  <1>6. ASSUME NEW t \in Token, Expire(t) PROVE HandInv'
    BY <1>1, <1>6 DEF Expire
  <1>7. CASE UNCHANGED vars
    BY <1>7 DEF vars
  <1>8. QED
    BY <1>3, <1>4, <1>5, <1>6, <1>7 DEF Next

LEMMA HandInvariant == Spec => []HandInv
  <1>1. Init => HandInv
    BY DEF Init, HandInv, Idle
  <1>2. QED
    BY <1>1, HandStep, TypeInvariant, PTL DEF Spec

\* A registration is switched off only by a deregistration of its token, or
\* because FCM reported that token.
THEOREM CauseOfSwitchingOff == Spec => SwitchedOffForCause
  <1> DEFINE Cause == \A d \in active \ active' :
         \/ held'[d] = Deleted
         \/ held[d] \in dead
         \/ \E c \in Call : call[c].at = "disable" /\ call[c].token = held[d]
  <1>1. TypeInv /\ HandInv /\ [Next]_vars => [Cause]_vars
    <2> SUFFICES ASSUME TypeInv, HandInv, [Next]_vars PROVE Cause
      OBVIOUS
    <2>1. held \in [Doc -> Token \cup {Unused, Deleted}] /\ Deleted \notin Token /\ active \subseteq Doc
      BY DocAssumption DEF TypeInv, TypeOK
    <2>2. ASSUME NEW c \in Call, Disable(c) PROVE Cause
      BY <2>1, <2>2 DEF Disable, HandInv, Stored
    <2>3. ASSUME NEW c \in Call, Serve(c), ~ Disable(c) PROVE active \subseteq active'
      BY <2>3 DEF Serve, Register, Deregister, FindExisting, Update, Create, Find, Abort, documents
    <2>4. ASSUME NEW u \in Unlock, Drop(u) PROVE Cause
      BY <2>1, <2>4 DEF Drop, HandInv, Stored
    <2>5. ASSUME NEW u \in Unlock, Proceed(u) \/ Faulty(u), ~ Drop(u) PROVE active' = active
      BY <2>5 DEF Proceed, Faulty, ReadTokens, Send, SendRaises, Clean, NextChunk, Gone, Finish,
                  Break, Stop, documents
    <2>6. ASSUME NEW d \in Doc, DeleteDevice(d) PROVE Cause
      BY <2>1, <2>6 DEF DeleteDevice
    <2>7. ASSUME NEW t \in Token, Expire(t) PROVE active' = active
      BY <2>7 DEF Expire, documents
    <2>8. CASE UNCHANGED vars
      BY <2>8 DEF vars, documents
    <2>9. QED
      BY <2>2, <2>3, <2>4, <2>5, <2>6, <2>7, <2>8 DEF Next
  <1>2. QED
    BY <1>1, TypeInvariant, HandInvariant, PTL DEF Spec, SwitchedOffForCause

-----------------------------------------------------------------------------
(* One document for each token.                                            *)

Registering(c, t) == call[c].at \in Storing /\ call[c].token = t

\* Of a token that is not overlapped at most one registration is under way, and
\* one that is about to create a document has no other to find.
OneInv ==
    /\ OneDocument
    /\ \A c, k \in Call, t \in Token \ overlapped :
          Registering(c, t) /\ Registering(k, t) => c = k
    /\ \A c \in Call : call[c].at = "create" =>
          call[c].token \in overlapped \/ With(call[c].token) = {}

LEMMA OneStep == TypeInv /\ OneInv /\ [Next]_vars => OneInv'
  <1> SUFFICES ASSUME TypeInv, OneInv, [Next]_vars PROVE OneInv'
    OBVIOUS
  <1>1. /\ held \in [Doc -> Token \cup {Unused, Deleted}]
        /\ call \in [Call -> CallType]
        /\ \A c \in Call : call[c].at # "idle" => call[c].token \in Token
        /\ Unused \notin Token /\ Deleted \notin Token
    BY DocAssumption DEF TypeInv, TypeOK, CallType
  <1> USE DEF OneInv, OneDocument, Registering, Storing, With, documents, history
  <1>2. ASSUME NEW c \in Call, Serve(c) PROVE OneInv'
    <2>1. ASSUME NEW t \in Token, Register(c, t) PROVE OneInv'
      <3>1. overlapped \subseteq overlapped'
        BY <2>1 DEF Register
      <3>2. \A k \in Call : Registering(k, t) => t \in overlapped'
        BY <2>1 DEF Register
      <3>3. \A k \in Call \ {c} : call'[k] = call[k]
        BY <1>1, <2>1 DEF Register, Goto
      <3>4. call'[c].at = "store" /\ call'[c].token = t
        BY <1>1, <2>1 DEF Register, Goto
      <3>5. held' = held
        BY <2>1 DEF Register
      <3>6. QED
        BY <3>1, <3>2, <3>3, <3>4, <3>5
    <2>2. ASSUME NEW t \in Token, Deregister(c, t) PROVE OneInv'
      BY <1>1, <2>2 DEF Deregister, Goto
    <2>3. CASE FindExisting(c)
      BY <1>1, <2>3 DEF FindExisting, Goto
    <2>4. CASE Update(c) \/ Find(c) \/ Disable(c) \/ Abort(c)
      BY <1>1, <2>4 DEF Update, Find, Disable, Abort, Answer, Goto, Idle
    <2>5. CASE Create(c)
      <3> DEFINE t == call[c].token
      <3>1. PICK d \in Doc : held[d] = Unused /\ held' = [held EXCEPT ![d] = t]
        BY <2>5 DEF Create
      <3>2. t \in Token /\ overlapped' = overlapped /\ (t \in overlapped \/ With(t) = {})
        BY <1>1, <2>5 DEF Create
      <3>3. /\ call'[c].at = "idle"
            /\ \A k \in Call \ {c} : call'[k] = call[k]
        BY <1>1, <2>5 DEF Create, Idle
      <3>4. OneDocument'
        BY <1>1, <3>1, <3>2
      <3>5. ASSUME NEW k \in Call, call'[k].at = "create", call'[k].token \notin overlapped
            PROVE  \A e \in Doc : held'[e] # call'[k].token
        <4>1. k # c /\ call[k].at = "create" /\ call[k].token \in Token
          BY <1>1, <3>3, <3>5
        <4>2. call[k].token # t
          BY <2>5, <3>2, <3>3, <3>5, <4>1 DEF Create
        <4>3. QED
          BY <1>1, <3>1, <3>3, <3>5, <4>1, <4>2
      <3>6. QED
        BY <3>2, <3>3, <3>4, <3>5
    <2>6. QED
      BY <1>2, <2>1, <2>2, <2>3, <2>4, <2>5 DEF Serve
  <1>3. ASSUME NEW u \in Unlock, Proceed(u) \/ Faulty(u) PROVE OneInv'
    <2>1. UNCHANGED <<held, call, overlapped>>
      BY <1>3 DEF Proceed, Faulty, ReadTokens, Send, SendRaises, Clean, Drop, NextChunk, Gone,
                  Finish, Break, Stop
    <2>2. QED
      BY <2>1
  <1>4. ASSUME NEW d \in Doc, DeleteDevice(d) PROVE OneInv'
    BY <1>1, <1>4 DEF DeleteDevice
  <1>5. ASSUME NEW t \in Token, Expire(t) PROVE OneInv'
    BY <1>5 DEF Expire
  <1>6. CASE UNCHANGED vars
    BY <1>6 DEF vars
  <1>7. QED
    BY <1>2, <1>3, <1>4, <1>5, <1>6 DEF Next

LEMMA OneInvariant == Spec => []OneInv
  <1>1. Init => OneInv
    BY DocAssumption DEF Init, OneInv, OneDocument, Registering, Storing, Idle
  <1>2. QED
    BY <1>1, OneStep, TypeInvariant, PTL DEF Spec

\* A token has one document, unless two of its registrations ran at once.
THEOREM Deduplicated == Spec => []OneDocument
  BY OneInvariant, PTL DEF OneInv

-----------------------------------------------------------------------------
(* Tokens that are switched off stay silent.                               *)

\* No registration of a quiet token is under way; nor of one that is being
\* deregistered alone, whose only document is in the call's hand.
QuietInv ==
    /\ DisabledIsQuiet
    /\ \A c \in Call : call[c].at \in Storing => call[c].token \notin quiet
    /\ \A c \in alone :
          /\ call[c].at \in {"find", "disable"} /\ call[c].token \notin overlapped
          /\ \A k \in Call : ~ Registering(k, call[c].token)
          /\ call[c].at = "disable" => With(call[c].token) \subseteq {call[c].doc}

LEMMA QuietStep == TypeInv /\ HandInv /\ OneInv /\ QuietInv /\ [Next]_vars => QuietInv'
  <1> SUFFICES ASSUME TypeInv, HandInv, OneInv, QuietInv, [Next]_vars PROVE QuietInv'
    OBVIOUS
  <1>1. /\ held \in [Doc -> Token \cup {Unused, Deleted}]
        /\ call \in [Call -> CallType] /\ alone \subseteq Call /\ active \subseteq Doc
        /\ \A c \in Call : call[c].at # "idle" => call[c].token \in Token
        /\ \A d \in active : held[d] \in Token
        /\ Unused \notin Token /\ Deleted \notin Token
    BY DocAssumption DEF TypeInv, TypeOK, CallType, Stored
  <1> USE DEF QuietInv, DisabledIsQuiet, Registering, Storing, With, documents, history
  <1>2. ASSUME NEW c \in Call, Serve(c) PROVE QuietInv'
    <2>1. ASSUME NEW t \in Token, Register(c, t) PROVE QuietInv'
      <3>1. /\ call'[c].at = "store" /\ call'[c].token = t
            /\ \A k \in Call \ {c} : call'[k] = call[k]
            /\ held' = held /\ active' = active
        BY <1>1, <2>1 DEF Register, Goto
      <3>2. quiet' = quiet \ {t} /\ alone' = {k \in alone : call[k].token # t}
        BY <2>1 DEF Register
      <3>3. overlapped' \subseteq overlapped \cup {t}
        BY <2>1 DEF Register
      <3>4. call[c].at = "idle"
        BY <2>1 DEF Register
      <3>5. QED
        BY <1>1, <3>1, <3>2, <3>3, <3>4
    <2>2. ASSUME NEW t \in Token, Deregister(c, t) PROVE QuietInv'
      <3>1. /\ call'[c].at = "find" /\ call'[c].token = t
            /\ \A k \in Call \ {c} : call'[k] = call[k]
            /\ held' = held /\ active' = active /\ quiet' = quiet /\ overlapped' = overlapped
        BY <1>1, <2>2 DEF Deregister, Goto
      <3>2. /\ call[c].at = "idle" /\ alone' \subseteq alone \cup {c}
            /\ c \in alone' \ alone =>
                 t \notin overlapped /\ \A k \in Call : ~ Registering(k, t)
        BY <2>2 DEF Deregister
      <3>3. QED
        BY <1>1, <3>1, <3>2
    <2>3. CASE FindExisting(c)
      BY <1>1, <2>3 DEF FindExisting, Goto
    <2>4. CASE Update(c)
      <3>1. /\ call'[c].at = "idle"
            /\ \A k \in Call \ {c} : call'[k] = call[k]
            /\ held' = held /\ UNCHANGED history /\ call[c].at = "update"
        BY <1>1, <2>4 DEF Update, Idle
      <3>2. \A d \in active' \ active : held[d] = call[c].token
        BY <1>1, <2>4 DEF Update, HandInv, Stored
      <3>3. QED
        BY <1>1, <3>1, <3>2
    <2>5. CASE Create(c)
      <3> DEFINE t == call[c].token
      <3>1. PICK d \in Doc : /\ held[d] = Unused /\ held' = [held EXCEPT ![d] = t]
                             /\ active' = active \cup {d}
        BY <2>5 DEF Create
      <3>2. /\ call'[c].at = "idle" /\ call[c].at = "create" /\ t \in Token
            /\ \A k \in Call \ {c} : call'[k] = call[k]
            /\ UNCHANGED history
        BY <1>1, <2>5 DEF Create, Idle
      <3>3. DisabledIsQuiet'
        BY <1>1, <3>1, <3>2
      <3>4. \A k \in alone : k # c /\ call[k].token # t
        BY <3>2
      <3>5. \A k \in alone : With(call[k].token)' = With(call[k].token)
        BY <1>1, <3>1, <3>2, <3>4
      <3>6. QED
        BY <1>1, <3>2, <3>3, <3>4, <3>5
    <2>6. CASE Find(c)
      <3> DEFINE t == call[c].token
      <3>1. t \in Token /\ call[c].at = "find" /\ held' = held /\ active' = active
        BY <1>1, <2>6 DEF Find
      <3>2. CASE With(t) = {} /\ Answer(c)
        BY <1>1, <3>1, <3>2 DEF Answer, Idle
      <3>3. CASE With(t) # {} /\ Goto(c, "disable", t, First(With(t))) /\ UNCHANGED history
        <4>1. First(With(t)) \in With(t)
          BY <3>3, WithIn, FirstIn
        <4>2. c \in alone => With(t) \subseteq {First(With(t))}
          BY <3>1, <4>1 DEF OneInv, OneDocument
        <4>3. /\ call'[c].at = "disable" /\ call'[c].token = t /\ call'[c].doc = First(With(t))
              /\ \A k \in Call \ {c} : call'[k] = call[k]
          BY <1>1, <3>3 DEF Goto
        <4>4. QED
          BY <1>1, <3>1, <3>3, <4>2, <4>3
      <3>4. QED
        BY <2>6, <3>2, <3>3 DEF Find
    <2>7. CASE Disable(c)
      <3>1. /\ call'[c].at = "idle" /\ call[c].at = "disable"
            /\ \A k \in Call \ {c} : call'[k] = call[k]
            /\ held' = held /\ overlapped' = overlapped /\ alone' = alone \ {c}
            /\ active' = active \ {call[c].doc}
            /\ quiet' = IF c \in alone THEN quiet \cup {call[c].token} ELSE quiet
        BY <1>1, <2>7 DEF Disable, Answer, Idle
      <3>2. c \in alone => \A d \in active' : held[d] # call[c].token
        BY <1>1, <3>1
      <3>3. c \in alone => \A k \in Call : ~ Registering(k, call[c].token)
        OBVIOUS
      <3>4. QED
        BY <1>1, <3>1, <3>2, <3>3
    <2>8. CASE Abort(c)
      BY <1>1, <2>8 DEF Abort, Idle
    <2>9. QED
      BY <1>2, <2>1, <2>2, <2>3, <2>4, <2>5, <2>6, <2>7, <2>8 DEF Serve
  <1>3. ASSUME NEW u \in Unlock, Proceed(u) \/ Faulty(u) PROVE QuietInv'
    <2>1. UNCHANGED <<held, call, history>> /\ active' \subseteq active
      BY <1>3 DEF Proceed, Faulty, ReadTokens, Send, SendRaises, Clean, Drop, NextChunk, Gone,
                  Finish, Break, Stop
    <2>2. QED
      BY <2>1
  <1>4. ASSUME NEW d \in Doc, DeleteDevice(d) PROVE QuietInv'
    BY <1>1, <1>4 DEF DeleteDevice
  <1>5. ASSUME NEW t \in Token, Expire(t) PROVE QuietInv'
    BY <1>5 DEF Expire
  <1>6. CASE UNCHANGED vars
    BY <1>6 DEF vars
  <1>7. QED
    BY <1>2, <1>3, <1>4, <1>5, <1>6 DEF Next

\* A token that was deregistered while no registration of it ran has no active
\* document until it is registered again.
THEOREM DeregisteredIsQuiet == Spec => []DisabledIsQuiet
  <1>1. Init => QuietInv
    BY DEF Init, QuietInv, DisabledIsQuiet, Storing, Idle
  <1>2. QuietInv => DisabledIsQuiet
    BY DEF QuietInv
  <1>3. QED
    BY <1>1, <1>2, QuietStep, TypeInvariant, HandInvariant, OneInvariant, PTL DEF Spec

-----------------------------------------------------------------------------
(* Each token is tried once.                                               *)

\* How many tokens of the list have been sent.
Sent(u) == IF at[u] \in {"clean", "drop"} THEN start[u] + ChunkSize ELSE start[u]

Among(l, n, t) == \E i \in 1..Len(l) : i <= n /\ l[i] = t

Times(l, n) == [t \in Token |-> IF Among(l, n, t) THEN 1 ELSE 0]

\* The list has every token once, and those sent have been tried.
TriedOf(u) ==
    /\ \A i, j \in 1..Len(list[u]) : list[u][i] = list[u][j] => i = j
    /\ found[u] = {list[u][i] : i \in 1..Len(list[u])}
    /\ at[u] = "idle" => start[u] = 0
    /\ tried[u] = Times(list[u], Sent(u))

TriedInv == \A u \in Unlock : TriedOf(u)

\* A chunk adds its tokens to those tried.
LEMMA ChunkCounts ==
    ASSUME NEW l \in Seq(Token), NEW s \in Nat, NEW t \in Token,
           \A i, j \in 1..Len(l) : l[i] = l[j] => i = j
    PROVE  Times(l, s)[t] + Cardinality({i \in {k \in 1..ChunkSize : s + k <= Len(l)} : l[s + i] = t})
             = Times(l, s + ChunkSize)[t]
  <1> DEFINE Hits == {i \in {k \in 1..ChunkSize : s + k <= Len(l)} : l[s + i] = t}
  <1>1. Len(l) \in Nat /\ ChunkSize \in Nat
    BY ChunkAssumption
  <1>2. \A n : Times(l, n)[t] = IF Among(l, n, t) THEN 1 ELSE 0
    BY DEF Times
  <1>3. CASE Hits = {}
    <2>1. Cardinality(Hits) = 0
      BY <1>3, FS_EmptySet
    <2>2. ASSUME NEW i \in 1..Len(l), i <= s + ChunkSize, l[i] = t PROVE i <= s
      <3>1. SUFFICES ASSUME i > s PROVE FALSE
        BY <1>1
      <3>2. i - s \in 1..ChunkSize /\ s + (i - s) = i /\ i <= Len(l)
        BY <1>1, <2>2, <3>1
      <3>3. i - s \in Hits
        BY <2>2, <3>2
      <3>4. QED
        BY <1>3, <3>3
    <2>3. Among(l, s + ChunkSize, t) <=> Among(l, s, t)
      BY <1>1, <2>2 DEF Among
    <2>4. QED
      BY <1>2, <2>1, <2>3
  <1>4. CASE Hits # {}
    <2>1. \A j \in Hits : j \in 1..ChunkSize /\ s + j \in 1..Len(l) /\ l[s + j] = t
      BY <1>1
    <2>2. PICK i \in Hits : TRUE
      BY <1>4
    <2>3. \A j \in Hits : j = i
      <3>1. ASSUME NEW j \in Hits PROVE j = i
        <4>1. j \in Nat /\ i \in Nat /\ s + j = s + i
          BY <1>1, <2>1, <2>2
        <4>2. QED
          BY <4>1
      <3>2. QED
        BY <3>1
    <2>4. Hits = {i}
      BY <2>2, <2>3
    <2>5. Cardinality(Hits) = 1
      BY <2>4, FS_Singleton
    <2> DEFINE p == s + i
    <2>6. p \in 1..Len(l) /\ l[p] = t /\ i \in 1..ChunkSize
      BY <2>1, <2>2
    <2>7. p > s /\ p <= s + ChunkSize
      BY <1>1, <2>6
    <2> HIDE DEF p
    <2>8. ~ Among(l, s, t)
      BY <1>1, <2>6, <2>7 DEF Among
    <2>9. Among(l, s + ChunkSize, t)
      BY <1>1, <2>6, <2>7 DEF Among
    <2>10. QED
      BY <1>2, <2>5, <2>8, <2>9
  <1>5. QED
    BY <1>3, <1>4

LEMMA AttemptCounts ==
    ASSUME TypeInv, TriedInv, NEW u \in Unlock, at[u] = "send", Attempt(u)
    PROVE  tried'[u] = Times(list[u], start[u] + ChunkSize)
  <1>1. /\ start[u] \in Nat /\ list[u] \in Seq(Token) /\ tried \in [Unlock -> [Token -> Nat]]
        /\ tried[u] \in [Token -> Nat]
    BY DEF TypeInv, TypeOK
  <1>2. /\ \A i, j \in 1..Len(list[u]) : list[u][i] = list[u][j] => i = j
        /\ tried[u] = Times(list[u], start[u])
    BY DEF TriedInv, TriedOf, Sent
  <1>3. tried'[u] = [t \in Token |-> tried[u][t] + Cardinality({i \in Chunk(u) : list[u][start[u] + i] = t})]
    BY <1>1 DEF Attempt
  <1>4. ASSUME NEW t \in Token
        PROVE  tried[u][t] + Cardinality({i \in Chunk(u) : list[u][start[u] + i] = t})
                 = Times(list[u], start[u] + ChunkSize)[t]
    <2> DEFINE l == list[u]
               s == start[u]
    <2>1. /\ Chunk(u) = {k \in 1..ChunkSize : s + k <= Len(l)} /\ tried[u] = Times(l, s)
          /\ s \in Nat /\ l \in Seq(Token) /\ \A i, j \in 1..Len(l) : l[i] = l[j] => i = j
      BY <1>1, <1>2 DEF Chunk
    <2> HIDE DEF l, s
    <2>2. Times(l, s)[t] + Cardinality({i \in {k \in 1..ChunkSize : s + k <= Len(l)} : l[s + i] = t})
            = Times(l, s + ChunkSize)[t]
      BY <2>1, ChunkCounts
    <2>3. QED
      BY <2>1, <2>2 DEF l, s
  <1>5. QED
    BY <1>3, <1>4 DEF Times

\* A notification that does not move keeps its part.
LEMMA OthersKeep ==
    ASSUME TriedInv, NEW v \in Unlock,
           UNCHANGED <<at[v], list[v], start[v], found[v], tried[v]>>
    PROVE  TriedOf(v)'
  BY DEF TriedInv, TriedOf, Sent, Times, Among

LEMMA TriedStep == TypeInv /\ TriedInv /\ [Next]_vars => TriedInv'
  <1> SUFFICES ASSUME TypeInv, TriedInv, [Next]_vars PROVE TriedInv'
    OBVIOUS
  <1>1. /\ at \in [Unlock -> {"idle", "send", "clean", "drop"}]
        /\ list \in [Unlock -> Seq(Token)] /\ start \in [Unlock -> Nat]
        /\ found \in [Unlock -> SUBSET Token] /\ tried \in [Unlock -> [Token -> Nat]]
        /\ ChunkSize \in Nat
    BY ChunkAssumption DEF TypeInv, TypeOK
  <1>2. ASSUME UNCHANGED notification PROVE TriedInv'
    BY <1>2, OthersKeep DEF notification, TriedInv
  <1>3. ASSUME NEW c \in Call, Serve(c) PROVE TriedInv'
    BY <1>2, <1>3 DEF Serve, Register, Deregister, FindExisting, Update, Create, Find, Disable, Abort
  <1>4. ASSUME NEW u \in Unlock, Proceed(u) \/ Faulty(u) PROVE TriedInv'
    <2>1. ASSUME NEW v \in Unlock \ {u} PROVE TriedOf(v)'
      <3>1. UNCHANGED <<at[v], list[v], start[v], found[v], tried[v]>>
        BY <1>1, <1>4 DEF Proceed, Faulty, ReadTokens, Send, Attempt, SendRaises, Clean, Drop,
                          NextChunk, Gone, Finish, Break, Stop
      <3>2. QED
        BY <3>1, OthersKeep
    <2>2. TriedOf(u)
      BY DEF TriedInv
    <2> SUFFICES TriedOf(u)'
      BY <2>1 DEF TriedInv
    <2>3. CASE ReadTokens(u)
      <3>1. PICK l \in Listings : list' = [list EXCEPT ![u] = l]
        BY <2>3 DEF ReadTokens
      <3>2. /\ l \in Seq(Token) /\ \A i, j \in 1..Len(l) : l[i] = l[j] => i = j
            /\ {l[i] : i \in 1..Len(l)} = ActiveTokens
        BY ListsActive DEF TypeInv
      <3>3. /\ list'[u] = l /\ found'[u] = ActiveTokens /\ at'[u] = "send" /\ start'[u] = 0
            /\ at[u] = "idle" /\ start[u] = 0 /\ tried'[u] = tried[u]
        BY <1>1, <2>2, <2>3, <3>1 DEF ReadTokens, TriedOf
      <3>4. Times(list[u], 0) = Times(l, 0)
        <4>1. \A k \in Seq(Token) : \A t : ~ Among(k, 0, t)
          <5>1. ASSUME NEW k \in Seq(Token), NEW i \in 1..Len(k) PROVE ~ (i <= 0)
            OBVIOUS
          <5>2. QED
            BY <5>1 DEF Among
        <4>2. QED
          BY <1>1, <3>2, <4>1 DEF Times
      <3>5. tried[u] = Times(list[u], 0)
        BY <2>2, <3>3 DEF TriedOf, Sent
      <3>6. QED
        BY <3>2, <3>3, <3>4, <3>5 DEF TriedOf, Sent, Times, Among
    <2>4. ASSUME NEW reported, Send(u, reported) PROVE TriedOf(u)'
      <3>1. at'[u] = "clean" /\ UNCHANGED <<list, start, found>> /\ at[u] = "send" /\ Attempt(u)
        BY <1>1, <2>4 DEF Send
      <3>2. tried'[u] = Times(list[u], start[u] + ChunkSize)
        BY <3>1, AttemptCounts
      <3>3. QED
        BY <2>2, <3>1, <3>2 DEF TriedOf, Sent, Times, Among
    <2>5. CASE SendRaises(u)
      <3>1. /\ UNCHANGED <<at, list, found>> /\ at[u] = "send" /\ Attempt(u)
            /\ start'[u] = start[u] + ChunkSize
        BY <1>1, <2>5 DEF SendRaises
      <3>2. tried'[u] = Times(list[u], start[u] + ChunkSize)
        BY <3>1, AttemptCounts
      <3>3. QED
        BY <2>2, <3>1, <3>2 DEF TriedOf, Sent, Times, Among
    <2>6. CASE Clean(u) \/ Drop(u)
      <3>1. UNCHANGED <<list, start, found, tried>> /\ {at[u], at'[u]} \subseteq {"clean", "drop"}
        BY <1>1, <2>6 DEF Clean, Drop
      <3>2. QED
        BY <2>2, <3>1 DEF TriedOf, Sent, Times, Among
    <2>7. CASE NextChunk(u)
      <3>1. /\ UNCHANGED <<list, found, tried>> /\ start'[u] = start[u] + ChunkSize
            /\ at[u] = "clean" /\ at'[u] = "send"
        BY <1>1, <2>7 DEF NextChunk
      <3>2. QED
        BY <2>2, <3>1 DEF TriedOf, Sent, Times, Among
    <2>8. CASE Stop(u)
      <3>1. /\ at'[u] = "idle" /\ list'[u] = <<>> /\ start'[u] = 0 /\ found'[u] = {}
            /\ tried'[u] = [t \in Token |-> 0]
        BY <1>1, <2>8 DEF Stop
      <3>2. 1..Len(<<>>) = {}
        OBVIOUS
      <3>3. \A t : ~ Among(<<>>, 0, t)
        BY <3>2 DEF Among
      <3>4. Sent(u)' = 0
        BY <3>1 DEF Sent
      <3>5. Times(list[u], Sent(u))' = [t \in Token |-> 0]
        BY <3>1, <3>2, <3>4 DEF Times, Among
      <3>6. QED
        BY <3>1, <3>2, <3>5 DEF TriedOf
    <2>9. QED
      BY <1>4, <2>3, <2>4, <2>5, <2>6, <2>7, <2>8 DEF Proceed, Faulty, Gone, Finish, Break
  <1>5. ASSUME NEW d \in Doc, DeleteDevice(d) PROVE TriedInv'
    BY <1>2, <1>5 DEF DeleteDevice
  <1>6. ASSUME NEW t \in Token, Expire(t) PROVE TriedInv'
    BY <1>2, <1>6 DEF Expire
  <1>7. CASE UNCHANGED vars
    BY <1>2, <1>7 DEF vars
  <1>8. QED
    BY <1>3, <1>4, <1>5, <1>6, <1>7 DEF Next

\* A notification that runs to its end has tried each token it read once.
THEOREM TriedExactlyOnce == Spec => []EachTriedOnce
  <1>1. Init => TriedInv
    <2> SUFFICES ASSUME Init, NEW u \in Unlock PROVE TriedOf(u)
      BY DEF TriedInv
    <2>1. /\ list[u] = <<>> /\ start[u] = 0 /\ found[u] = {} /\ at[u] = "idle"
          /\ tried[u] = [t \in Token |-> 0]
      BY DEF Init
    <2>2. 1..Len(<<>>) = {}
      OBVIOUS
    <2>3. Times(list[u], Sent(u)) = [t \in Token |-> 0]
      BY <2>1, <2>2 DEF Times, Among
    <2>4. QED
      BY <2>1, <2>2, <2>3 DEF TriedOf
  <1>2. TypeInv /\ TriedInv => EachTriedOnce
    <2> SUFFICES ASSUME TypeInv, TriedInv, NEW u \in Unlock, Ended(u), NEW t \in Token
                 PROVE  tried[u][t] = IF t \in found[u] THEN 1 ELSE 0
      BY DEF EachTriedOnce
    <2>1. /\ start[u] \in Nat /\ list[u] \in Seq(Token) /\ Sent(u) = start[u]
          /\ start[u] >= Len(list[u])
      BY DEF TypeInv, TypeOK, Ended, Sent
    <2>2. Len(list[u]) \in Nat
      BY <2>1
    <2>3. Among(list[u], Sent(u), t) <=> t \in found[u]
      BY <2>1, <2>2 DEF TriedInv, TriedOf, Among
    <2>4. tried[u][t] = IF Among(list[u], Sent(u), t) THEN 1 ELSE 0
      BY DEF TriedInv, TriedOf, Times
    <2>5. QED
      BY <2>3, <2>4
  <1>3. QED
    BY <1>1, <1>2, TriedStep, TypeInvariant, PTL DEF Spec
=============================================================================
