--------------------------- MODULE FaceUnlockProofs ---------------------------
(***************************************************************************)
(* What learning keeps true of every user document, for any thresholds,    *)
(* similarities, users and calls.                                          *)
(***************************************************************************)
EXTENDS FaceUnlock, TLAPS, FiniteSetTheorems, WellFoundedInduction

\* A nonempty set of natural numbers has a least element, which Min returns.
LEMMA MinOfNats ==
    ASSUME NEW S \in SUBSET Nat, S # {}
    PROVE  Min(S) \in S /\ \A k \in S : Min(S) <= k
<1>1. PICK m \in S : \A k \in S : <<k, m>> \notin OpToRel(<, Nat)
  BY NatLessThanWellFounded, WFMin, Zenon
<1>2. \A k \in S : ~ k < m
  BY <1>1, Zenon DEF OpToRel
<1>3. \A k \in S : m =< k
  BY <1>2
<1>4. QED
  BY <1>3 DEF Min

\* Among one more number than there are records, one is not the suffix of any.
LEMMA SuffixLeft ==
    ASSUME NEW S, IsFiniteSet(S), NEW t
    PROVE  \E n \in 0..Cardinality(S) : ~ \E r \in S : r.at = t /\ r.n = n
<1> DEFINE N == 0..Cardinality(S)
<1> DEFINE Suffix == [r \in S |-> r.n]
<1>1. Cardinality(S) \in Nat
  BY FS_CardinalityType
<1>2. IsFiniteSet(N) /\ Cardinality(N) = Cardinality(S) + 1
  BY <1>1, FS_Interval
<1>3. SUFFICES ASSUME \A n \in N : \E r \in S : r.at = t /\ r.n = n
               PROVE  FALSE
  OBVIOUS
<1> DEFINE T == {Suffix[r] : r \in S}
<1>4. Suffix \in Surjection(S, T)
  BY DEF Surjection
<1>5. IsFiniteSet(T) /\ Cardinality(T) <= Cardinality(S)
  BY <1>4, FS_Surjection
<1>6. N \subseteq T
  BY <1>3
<1>7. Cardinality(N) <= Cardinality(T)
  BY <1>5, <1>6, FS_Subset
<1>8. QED
  BY <1>1, <1>2, <1>5, <1>7, FS_CardinalityType

-----------------------------------------------------------------------------
(* Learned records.                                                        *)

\* Few enough records, with keys of their own and faces unlike each other.
Fit(S) ==
    /\ S \subseteq Record
    /\ IsFiniteSet(S) /\ Cardinality(S) <= MaxAdaptive
    /\ \A r, s \in S : r.at = s.at /\ r.n = s.n => r = s
    /\ \A r, s \in S : r # s => <<r.face, s.face>> \notin Alike

\* The key that _safe_adaptive_key finds is well-formed and new.
LEMMA KeyIsFree ==
    ASSUME NEW S, IsFiniteSet(S), NEW t
    PROVE  /\ FreeKey(t, S) = [at |-> t, n |-> FreeKey(t, S).n]
           /\ FreeKey(t, S).n \in Nat
           /\ ~ \E r \in S : r.at = t /\ r.n = FreeKey(t, S).n
<1> DEFINE Free == {n \in 0..Cardinality(S) : ~ \E r \in S : r.at = t /\ r.n = n}
<1>1. Free # {} /\ Free \in SUBSET Nat
  BY SuffixLeft, FS_CardinalityType
<1>2. Min(Free) \in Free
  BY <1>1, MinOfNats
<1>3. FreeKey(t, S) = [at |-> t, n |-> Min(Free)]
  BY DEF FreeKey
<1> HIDE DEF Free
<1>4. Min(Free) \in Nat /\ ~ \E r \in S : r.at = t /\ r.n = Min(Free)
  BY <1>2 DEF Free
<1>5. QED
  BY <1>3, <1>4

\* Storing a face keeps the records fit, and all of them.
LEMMA StoredFit ==
    ASSUME NEW doc, Fit(doc.learned), NEW f \in Face, NEW t \in 0..MaxTime, MayStore(doc, f)
    PROVE  LET S == Put(doc.learned, FreeKey(t, doc.learned), f)
           IN  Fit(S) /\ doc.learned \subseteq S
<1> DEFINE L == doc.learned
<1> DEFINE k == FreeKey(t, L)
<1> DEFINE new == [at |-> t, n |-> k.n, face |-> f]
<1>1. /\ k = [at |-> t, n |-> k.n] /\ k.n \in Nat
      /\ ~ \E r \in L : r.at = t /\ r.n = k.n
  BY KeyIsFree DEF Fit
<1> HIDE DEF k
<1>2. Put(L, k, f) = L \cup {new}
  BY <1>1 DEF Put
<1>3. new \in Record
  BY <1>1 DEF Record
<1>4. \A r \in L : <<new.face, r.face>> \notin Alike /\ <<r.face, new.face>> \notin Alike
  BY FaceAssumption DEF MayStore, Fit, Record
<1>5. IsFiniteSet(L \cup {new}) /\ Cardinality(L \cup {new}) <= MaxAdaptive
  <2>1. IsFiniteSet(L) /\ Cardinality(L) \in Nat /\ Cardinality(L) < MaxAdaptive
    BY FS_CardinalityType DEF Fit, MayStore
  <2>2. /\ IsFiniteSet(L \cup {new})
        /\ Cardinality(L \cup {new}) = IF new \in L THEN Cardinality(L) ELSE Cardinality(L) + 1
    BY <2>1, FS_AddElement
  <2>3. QED
    BY <2>1, <2>2, ThresholdAssumption
<1>6. Fit(L \cup {new})
  <2>1. new.at = t /\ new.n = k.n
    OBVIOUS
  <2> HIDE DEF new
  <2>2. \A r, s \in L \cup {new} : r.at = s.at /\ r.n = s.n => r = s
    BY <1>1, <2>1 DEF Fit
  <2>3. \A r, s \in L \cup {new} : r # s => <<r.face, s.face>> \notin Alike
    BY <1>4 DEF Fit
  <2>4. L \cup {new} \subseteq Record
    BY <1>3 DEF Fit
  <2>5. QED
    BY <1>5, <2>2, <2>3, <2>4 DEF Fit
<1>7. QED
  BY <1>2, <1>6 DEF k

\* Taking records away keeps the rest fit.
LEMMA PrunedFit ==
    ASSUME NEW S, Fit(S), NEW T \in SUBSET S
    PROVE  Fit(T)
<1>1. /\ IsFiniteSet(T) /\ Cardinality(T) <= Cardinality(S)
      /\ Cardinality(T) \in Nat /\ Cardinality(S) \in Nat
  BY FS_Subset, FS_CardinalityType DEF Fit
<1>2. Cardinality(T) <= MaxAdaptive
  BY <1>1, ThresholdAssumption DEF Fit
<1>3. QED
  BY <1>1, <1>2 DEF Fit

LEMMA NothingFit == Fit({})
  BY FS_EmptySet, ThresholdAssumption DEF Fit

-----------------------------------------------------------------------------
(* The inductive invariant.                                                *)

DocsInv ==
    /\ docs \in [User -> Document \cup {NoUser}]
    /\ \A u \in User : docs[u] # NoUser => Fit(docs[u].learned)

CallsInv ==
    /\ now \in 0..MaxTime
    /\ pc \in [Call -> {"idle", "store", "prune"}]
    /\ user \in [Call -> User \cup {NoUser}]
    /\ probe \in [Call -> Face \cup {NoUser}]
    /\ at \in [Call -> 0..MaxTime]
    /\ \A c \in Call :
        /\ at[c] <= now
        /\ pc[c] \in {"store", "prune"} => user[c] \in User /\ probe[c] \in Face

IInv == DocsInv /\ CallsInv

\* What a call that may store writes.
Stored(c, t) == [docs EXCEPT ![user[c]].learned = Put(@, FreeKey(t, @), probe[c])]

\* Storing replaces one user's learned records by a fit set that holds them.
LEMMA StoreKeepsDocs ==
    ASSUME IInv, NEW c \in Call, pc[c] = "store", NEW t \in Reading(c),
           docs[user[c]] # NoUser, MayStore(docs[user[c]], probe[c]), docs' = Stored(c, t)
    PROVE  /\ DocsInv'
           /\ \A u \in User : docs[u] # NoUser =>
                /\ docs'[u] # NoUser /\ docs'[u].core = docs[u].core
                /\ docs[u].learned \subseteq docs'[u].learned
           /\ \A u \in User : docs[u] = NoUser => docs'[u] = NoUser
<1> DEFINE u0 == user[c]
<1> DEFINE doc == docs[u0]
<1> DEFINE S == Put(doc.learned, FreeKey(t, doc.learned), probe[c])
<1>1. u0 \in User /\ probe[c] \in Face /\ t \in 0..MaxTime
  BY ThresholdAssumption DEF IInv, CallsInv, Reading
<1>2. doc \in Document /\ Fit(doc.learned)
  BY <1>1 DEF IInv, DocsInv
<1>3. Fit(S) /\ doc.learned \subseteq S
  BY <1>1, <1>2, StoredFit
<1> HIDE DEF S
<1>4. docs' = [docs EXCEPT ![u0] = [doc EXCEPT !.learned = S]]
  BY <1>1 DEF Stored, S, IInv, DocsInv
<1>5. /\ [doc EXCEPT !.learned = S] \in Document
      /\ [doc EXCEPT !.learned = S].learned = S
      /\ [doc EXCEPT !.learned = S].core = doc.core
      /\ [doc EXCEPT !.learned = S] # NoUser
  BY <1>2, <1>3, NoUserAssumption DEF Document, Fit
<1>6. /\ docs' \in [User -> Document \cup {NoUser}]
      /\ docs'[u0] = [doc EXCEPT !.learned = S]
      /\ \A u \in User \ {u0} : docs'[u] = docs[u]
  BY <1>1, <1>4, <1>5 DEF IInv, DocsInv
<1>7. \A u \in User : docs'[u] # NoUser => Fit(docs'[u].learned)
  BY <1>3, <1>5, <1>6 DEF IInv, DocsInv
<1>8. \A u \in User : docs[u] = NoUser => docs'[u] = NoUser
  BY <1>6
<1>9. \A u \in User : docs[u] # NoUser =>
        /\ docs'[u] # NoUser /\ docs'[u].core = docs[u].core
        /\ docs[u].learned \subseteq docs'[u].learned
  BY <1>3, <1>5, <1>6
<1>10. QED
  BY <1>6, <1>7, <1>8, <1>9 DEF DocsInv

\* Pruning takes weak records from one user.
LEMMA PruneKeepsDocs ==
    ASSUME IInv, NEW c \in Call, Prune(c)
    PROVE  /\ DocsInv'
           /\ \A u \in User : docs[u] # NoUser =>
                /\ docs'[u] # NoUser /\ docs'[u].core = docs[u].core
                /\ \A r \in docs[u].learned \ docs'[u].learned :
                    /\ user[c] = u
                    /\ \E t \in Reading(c) : Weighted(probe[c], r, t) < 100 * PruneBelow
           /\ \A u \in User : docs[u] = NoUser => docs'[u] = NoUser
<1> DEFINE u0 == user[c]
<1> DEFINE doc == docs[u0]
<1> DEFINE weak(t) == {r \in doc.learned : Weighted(probe[c], r, t) < 100 * PruneBelow}
<1>1. PICK t \in Reading(c) :
        docs' = IF doc # NoUser THEN [docs EXCEPT ![u0].learned = @ \ weak(t)] ELSE docs
  BY DEF Prune
<1>2. u0 \in User
  BY DEF IInv, CallsInv, Prune
<1>3. CASE doc = NoUser
  BY <1>1, <1>3 DEF IInv, DocsInv
<1>4. CASE doc # NoUser
  <2> DEFINE S == doc.learned \ weak(t)
  <2>1. doc \in Document /\ Fit(doc.learned)
    BY <1>2, <1>4 DEF IInv, DocsInv
  <2>2. Fit(S)
    BY <2>1, PrunedFit
  <2>3. doc.learned \ S = weak(t)
    OBVIOUS
  <2> HIDE DEF S
  <2>4. docs' = [docs EXCEPT ![u0] = [doc EXCEPT !.learned = S]]
    BY <1>1, <1>2, <1>4 DEF S, IInv, DocsInv
  <2>5. /\ [doc EXCEPT !.learned = S] \in Document
        /\ [doc EXCEPT !.learned = S].learned = S
        /\ [doc EXCEPT !.learned = S].core = doc.core
        /\ [doc EXCEPT !.learned = S] # NoUser
    BY <2>1, <2>2, NoUserAssumption DEF Document, Fit
  <2>6. /\ docs' \in [User -> Document \cup {NoUser}]
        /\ docs'[u0] = [doc EXCEPT !.learned = S]
        /\ \A u \in User \ {u0} : docs'[u] = docs[u]
    BY <1>2, <2>4, <2>5 DEF IInv, DocsInv
  <2>7. \A u \in User : docs'[u] # NoUser => Fit(docs'[u].learned)
    BY <2>2, <2>5, <2>6 DEF IInv, DocsInv
  <2>8. QED
    BY <1>4, <2>3, <2>5, <2>6, <2>7 DEF DocsInv
<1>5. QED
  BY <1>3, <1>4

LEMMA InitInv == Init => IInv
  BY ThresholdAssumption DEF Init, IInv, DocsInv, CallsInv

\* The calls' own variables, whatever happens to the documents.
LEMMA CallsStay ==
    ASSUME IInv, [Next]_vars
    PROVE  CallsInv'
<1> USE ThresholdAssumption, FaceAssumption
<1>1. ASSUME NEW c \in Call, NEW f \in Face, Match(c, f) PROVE CallsInv'
  <2>1. PICK t \in 0..now : \E b \in BestMatches(f, t) :
            user' = [user EXCEPT ![c] = b.user] /\ at' = [at EXCEPT ![c] = t]
    BY <1>1 DEF Match
  <2>2. PICK b \in BestMatches(f, t) :
            user' = [user EXCEPT ![c] = b.user] /\ at' = [at EXCEPT ![c] = t]
    BY <2>1
  <2>3. b \in Candidates(f, t)
    BY DEF BestMatches
  <2>4. b.user \in User
    <3>1. \E u \in Allowed : b = [user |-> u, score |-> Score(f, docs[u], t)]
      BY <2>3, Zenon DEF Candidates
    <3>2. QED
      BY <3>1
  <2>5. t \in 0..MaxTime /\ t <= now
    BY DEF IInv, CallsInv
  <2>6. QED
    BY <1>1, <2>2, <2>4, <2>5 DEF Match, IInv, CallsInv
<1>2. ASSUME NEW c \in Call, Store(c) PROVE CallsInv'
  <2>1. PICK t \in Reading(c) : at' = [at EXCEPT ![c] = t]
    BY <1>2 DEF Store
  <2>2. t \in 0..MaxTime /\ t <= now
    BY DEF Reading, IInv, CallsInv
  <2>3. QED
    BY <1>2, <2>1, <2>2 DEF Store, IInv, CallsInv
<1>3. ASSUME NEW c \in Call, StoreUnheard(c) \/ Prune(c) \/ Fail(c) PROVE CallsInv'
  <2>1. End(c) /\ now' = now
    BY <1>3 DEF StoreUnheard, Prune, Fail
  <2>2. QED
    BY <2>1 DEF End, IInv, CallsInv
<1>4. ASSUME NEW u \in User, RemoveUser(u) \/ \E faces \in Enrolments : Register(u, faces)
      PROVE  CallsInv'
  BY <1>4 DEF RemoveUser, Register, calls, IInv, CallsInv
<1>5. CASE Tick
  BY <1>5 DEF Tick, calls, IInv, CallsInv
<1>6. CASE UNCHANGED vars
  BY <1>6 DEF vars, calls, IInv, CallsInv
<1>7. QED
  BY <1>1, <1>2, <1>3, <1>4, <1>5, <1>6 DEF Next

\* A call leaves who is enrolled, with what, alone, and takes only weak records.
LEMMA LearningStep ==
    ASSUME IInv, NEW c \in Call,
           Store(c) \/ StoreUnheard(c) \/ Prune(c) \/ Fail(c) \/ \E f \in Face : Match(c, f)
    PROVE  /\ DocsInv'
           /\ \A u \in User : docs[u] # NoUser =>
                /\ docs'[u] # NoUser /\ docs'[u].core = docs[u].core
                /\ \A r \in docs[u].learned \ docs'[u].learned :
                    /\ pc[c] = "prune" /\ user[c] = u
                    /\ \E t \in Reading(c) : Weighted(probe[c], r, t) < 100 * PruneBelow
           /\ \A u \in User : docs[u] = NoUser => docs'[u] = NoUser
<1>1. CASE Prune(c)
  BY <1>1, PruneKeepsDocs DEF Prune
<1>2. CASE docs' = docs
  BY <1>2 DEF IInv, DocsInv
<1>3. ASSUME NEW t \in Reading(c), pc[c] = "store",
             docs[user[c]] # NoUser, MayStore(docs[user[c]], probe[c]), docs' = Stored(c, t)
      PROVE  /\ DocsInv'
             /\ \A u \in User : docs[u] # NoUser =>
                  /\ docs'[u] # NoUser /\ docs'[u].core = docs[u].core
                  /\ docs[u].learned \ docs'[u].learned = {}
             /\ \A u \in User : docs[u] = NoUser => docs'[u] = NoUser
  BY <1>3, StoreKeepsDocs
<1>4. CASE Store(c)
  <2>1. PICK t \in Reading(c) :
          docs' = IF docs[user[c]] # NoUser /\ MayStore(docs[user[c]], probe[c])
                  THEN Stored(c, t) ELSE docs
    BY <1>4 DEF Store, Stored
  <2>2. QED
    BY <1>2, <1>3, <1>4, <2>1 DEF Store
<1>5. CASE StoreUnheard(c)
  BY <1>3, <1>5 DEF StoreUnheard, Stored
<1>6. CASE Fail(c) \/ \E f \in Face : Match(c, f)
  BY <1>2, <1>6 DEF Fail, Match
<1>7. QED
  BY <1>1, <1>4, <1>5, <1>6

LEMMA DocsStay ==
    ASSUME IInv, [Next]_vars
    PROVE  DocsInv'
<1>1. ASSUME NEW c \in Call,
             Store(c) \/ StoreUnheard(c) \/ Prune(c) \/ Fail(c) \/ \E f \in Face : Match(c, f)
      PROVE  DocsInv'
  BY <1>1, LearningStep
<1>2. ASSUME NEW u \in User, NEW faces \in Enrolments, Register(u, faces) PROVE DocsInv'
  <2>1. [core |-> faces, learned |-> {}] \in Document
    BY DEF Document
  <2>2. QED
    BY <1>2, <2>1, NothingFit DEF Register, IInv, DocsInv
<1>3. ASSUME NEW u \in User, RemoveUser(u) PROVE DocsInv'
  BY <1>3 DEF RemoveUser, IInv, DocsInv
<1>4. CASE Tick \/ UNCHANGED vars
  BY <1>4 DEF Tick, vars, IInv, DocsInv
<1>5. QED
  BY <1>1, <1>2, <1>3, <1>4 DEF Next

LEMMA Invariant == Spec => []IInv
<1>1. IInv /\ [Next]_vars => IInv'
  BY CallsStay, DocsStay DEF IInv
<1>2. QED
  BY InitInv, <1>1, PTL DEF Spec

-----------------------------------------------------------------------------
\* TypeOK holds always.
THEOREM TypeCorrect == Spec => []TypeOK
<1>1. IInv => TypeOK
  BY DEF IInv, DocsInv, CallsInv, TypeOK
<1>2. QED
  BY Invariant, <1>1, PTL

\* Calls learning at the same time never exceed the cap nor share a key, nor do
\* they learn nearly the same face twice for a user.
THEOREM LearnedAlwaysFits == Spec => []LearnedFits
<1>1. IInv => LearnedFits
  BY DEF IInv, DocsInv, LearnedFits, Fit
<1>2. QED
  BY Invariant, <1>1, PTL

\* A call takes away only weak records of the user it matched.
THEOREM StrongRecordsStay == Spec => OnlyWeakLost
<1> DEFINE Lost == \A c \in Call : pc'[c] # pc[c] =>
        \A u \in User : docs[u] # NoUser =>
            /\ docs'[u] # NoUser /\ docs'[u].core = docs[u].core
            /\ \A r \in docs[u].learned \ docs'[u].learned :
                /\ pc[c] = "prune" /\ user[c] = u
                /\ \E t \in Reading(c) : Weighted(probe[c], r, t) < 100 * PruneBelow
<1>1. IInv /\ [Next]_vars => [Lost]_vars
  <2> SUFFICES ASSUME IInv, [Next]_vars PROVE Lost
    OBVIOUS
  <2>1. ASSUME NEW c \in Call,
               Store(c) \/ StoreUnheard(c) \/ Prune(c) \/ Fail(c) \/ \E f \in Face : Match(c, f)
        PROVE  Lost
    <3>1. \A d \in Call \ {c} : pc'[d] = pc[d]
      BY <2>1 DEF Store, StoreUnheard, Prune, Fail, Match, End, IInv, CallsInv
    <3>2. QED
      BY <2>1, <3>1, LearningStep
  <2>2. ASSUME NEW u \in User, RemoveUser(u) \/ \E faces \in Enrolments : Register(u, faces)
        PROVE  pc' = pc
    BY <2>2 DEF RemoveUser, Register, calls
  <2>3. CASE Tick \/ UNCHANGED vars
    BY <2>3 DEF Tick, vars, calls
  <2>4. QED
    BY <2>1, <2>2, <2>3 DEF Next
<1>2. QED
  BY Invariant, <1>1, PTL DEF Spec, OnlyWeakLost

-----------------------------------------------------------------------------
(* Scores.                                                                 *)

\* Max returns the greatest element of a nonempty set of bounded numbers.
LEMMA MaxOfBounded ==
    ASSUME NEW n \in Nat, NEW S \in SUBSET (0..n), S # {}
    PROVE  Max(S) \in S /\ \A x \in S : x <= Max(S)
<1> DEFINE T == {n - x : x \in S}
<1>1. T \subseteq Nat
  OBVIOUS
<1>2. PICK m \in T : \A k \in T : m <= k
  <2>1. T # {}
    OBVIOUS
  <2> HIDE DEF T
  <2>2. QED
    BY <1>1, <2>1, MinOfNats
<1>3. PICK x \in S : m = n - x
  BY <1>2
<1>4. \A y \in S : x >= y
  <2>1. ASSUME NEW y \in S PROVE x >= y
    <3>1. m <= n - y
      BY <1>2
    <3>2. QED
      BY <1>3, <3>1
  <2>2. QED
    BY <2>1
<1>5. QED
  BY <1>4 DEF Max

LEMMA MaxOfTwo ==
    ASSUME NEW a \in Int, NEW b \in Int
    PROVE  Max({a, b}) = IF a >= b THEN a ELSE b
<1>1. CASE a >= b
  BY <1>1 DEF Max
<1>2. CASE ~ a >= b
  BY <1>2 DEF Max
<1>3. QED
  BY <1>1, <1>2

MaxScore == 100 * 100

LEMMA ProductBounded ==
    ASSUME NEW a \in 0..100, NEW b \in 0..100
    PROVE  a * b \in 0..MaxScore
  BY DEF MaxScore

LEMMA WeightedBounded ==
    ASSUME NEW f \in Face, NEW r \in Record, NEW t \in 0..MaxTime
    PROVE  Weighted(f, r, t) \in 0..MaxScore
<1>1. r.at \in 0..MaxTime /\ r.face \in Face /\ MaxTime \in Nat
  BY ThresholdAssumption DEF Record
<1>2. Max({0, t - r.at}) \in 0..MaxTime
  BY <1>1, MaxOfTwo
<1> DEFINE w == Decay[Max({0, t - r.at})]
<1>3. w \in 0..100 /\ MinWeight \in 0..100
  BY <1>2, FaceAssumption, ThresholdAssumption
<1>4. Weight(r, t) = Max({w, MinWeight})
  BY DEF Weight
<1> HIDE DEF w
<1>5. Max({w, MinWeight}) \in {w, MinWeight}
  BY <1>3, MaxOfTwo
<1>6. Weight(r, t) \in 0..100
  BY <1>3, <1>4, <1>5
<1>7. Sim[<<f, r.face>>] \in 0..100
  BY <1>1, FaceAssumption
<1>8. QED
  BY <1>6, <1>7, ProductBounded DEF Weighted

\* A score is a number, and at least the full similarity to an enrolled face.
LEMMA ScoreBounds ==
    ASSUME NEW f \in Face, NEW doc \in Document, NEW t \in 0..MaxTime
    PROVE  /\ Score(f, doc, t) \in Nat
           /\ \A g \in doc.core : 100 * Sim[<<f, g>>] <= Score(f, doc, t)
<1> DEFINE Full(g) == 100 * Sim[<<f, g>>]
           S == {0} \cup {Full(g) : g \in doc.core}
                    \cup {Weighted(f, r, t) : r \in doc.learned}
<1>1. doc.core \subseteq Face /\ doc.learned \subseteq Record
  BY FaceAssumption DEF Document
<1>2. \A g \in doc.core : Full(g) \in 0..MaxScore
  <2>1. ASSUME NEW g \in doc.core PROVE Full(g) \in 0..MaxScore
    <3> DEFINE a == Sim[<<f, g>>]
    <3>1. a \in 0..100
      BY <1>1, FaceAssumption
    <3> HIDE DEF a
    <3>2. 100 * a \in 0..MaxScore
      BY <3>1 DEF MaxScore
    <3>3. QED
      BY <3>2 DEF a
  <2>2. QED
    BY <2>1
<1>3. \A r \in doc.learned : Weighted(f, r, t) \in 0..MaxScore
  BY <1>1, WeightedBounded
<1>4. MaxScore \in Nat /\ 0 \in 0..MaxScore
  BY DEF MaxScore
<1>5. Score(f, doc, t) = Max(S)
  BY DEF Score
<1> HIDE DEF Full
<1>6. S \subseteq 0..MaxScore /\ S # {} /\ \A g \in doc.core : Full(g) \in S
  BY <1>2, <1>3, <1>4
<1> HIDE DEF S
<1>7. Max(S) \in S /\ \A x \in S : x <= Max(S)
  BY <1>4, <1>6, MaxOfBounded
<1>8. Max(S) \in Nat /\ \A g \in doc.core : Full(g) <= Max(S)
  BY <1>4, <1>6, <1>7
<1>9. QED
  BY <1>5, <1>8 DEF Full

\* Each allowed user is one candidate.
LEMMA CandidateFacts ==
    ASSUME IInv, NEW f \in Face, NEW t \in 0..MaxTime
    PROVE  LET C == Candidates(f, t) IN
           /\ C \subseteq [user : Nat, score : Nat]
           /\ \A c, d \in C : c.user = d.user => c = d
           /\ IsFiniteSet(C) /\ Cardinality(C) <= Cardinality(Allowed)
           /\ \A u \in Allowed : docs[u] # NoUser =>
                \E c \in C : c.score = Score(f, docs[u], t)
<1> DEFINE C == Candidates(f, t)
           Users == {v \in Allowed : docs[v] # NoUser}
           Cand(u) == [user |-> u, score |-> Score(f, docs[u], t)]
<1>1. \A u \in Users : u \in Nat /\ Score(f, docs[u], t) \in Nat
  BY ScoreBounds, FaceAssumption DEF IInv, DocsInv
<1>2. C = {Cand(u) : u \in Users}
  BY DEF Candidates
<1> HIDE DEF C
<1>3. C \subseteq [user : Nat, score : Nat]
  BY <1>1, <1>2
<1>4. \A c \in C : c.user \in Users /\ c = Cand(c.user)
  BY <1>2
<1>5. \A c, d \in C : c.user = d.user => c = d
  BY <1>4
<1>6. IsFiniteSet(C) /\ Cardinality(C) <= Cardinality(Allowed)
  <2> DEFINE id == [c \in C |-> c.user]
  <2>1. id \in Injection(C, Allowed)
    <3>1. id \in [C -> Allowed]
      BY <1>4
    <3>2. \A a, b \in C : id[a] = id[b] => a = b
      BY <1>5
    <3>3. QED
      BY <3>1, <3>2 DEF Injection, IsInjective
  <2>2. QED
    BY <2>1, FaceAssumption, FS_Injection
<1>7. \A u \in Users : Cand(u) \in C
  BY <1>2
<1>8. \A u \in Allowed : docs[u] # NoUser => \E c \in C : c.score = Score(f, docs[u], t)
  <2>1. ASSUME NEW u \in Allowed, docs[u] # NoUser
        PROVE  \E c \in C : c.score = Score(f, docs[u], t)
    <3>1. Cand(u) \in C /\ Cand(u).score = Score(f, docs[u], t)
      BY <1>7, <2>1
    <3>2. QED
      BY <3>1, Zenon
  <2>2. QED
    BY <2>1
<1>9. QED
  BY <1>3, <1>5, <1>6, <1>8 DEF C

-----------------------------------------------------------------------------
(* The scan.                                                               *)

\* What takes the place of the best is worse by the tolerance at most.
LEMMA BetterBounds ==
    ASSUME NEW C \in SUBSET [user : Nat, score : Nat], NEW c \in C, NEW d \in C
    PROVE  /\ Better(c, d) => c.score >= d.score - Tol
           /\ ~ Better(c, d) => c.score <= d.score
  BY ThresholdAssumption DEF Better, Close

Ahead(c, d) == c.score > d.score \/ (c.score = d.score /\ c.user < d.user)

LEMMA AheadOrders ==
    ASSUME NEW C \in SUBSET [user : Nat, score : Nat], NEW a \in C, NEW b \in C, NEW c \in C
    PROVE  /\ ~ Ahead(a, a)
           /\ Ahead(a, b) /\ Ahead(b, c) => Ahead(a, c)
           /\ (Close(a.score, b.score) => a.score = b.score) => (Better(a, b) <=> Ahead(a, b))
  BY ThresholdAssumption DEF Ahead, Better, Close

\* If close scores are equal, no candidate passed is better than the best.
LEMMA ScanFindsBest ==
    ASSUME NEW C \in SUBSET [user : Nat, score : Nat],
           \A c, d \in C : Close(c.score, d.score) => c.score = d.score,
           NEW n \in Nat, NEW s \in [1..n -> C], NEW best \in [1..n -> C], Scan(s, best)
    PROVE  \A i \in 1..n : \A j \in 1..i : ~ Better(s[j], best[i])
<1> DEFINE Bad == {i \in 1..n : \E j \in 1..i : Better(s[j], best[i])}
<1>1. /\ \A c, d \in C : Better(c, d) <=> Ahead(c, d)
      /\ \A c \in C : ~ Ahead(c, c)
      /\ \A c, d, e \in C : Ahead(c, d) /\ Ahead(d, e) => Ahead(c, e)
  BY AheadOrders
<1>2. SUFFICES ASSUME Bad # {} PROVE FALSE
  OBVIOUS
<1>3. PICK m \in Bad : \A k \in Bad : m <= k
  <2>1. Bad \in SUBSET Nat
    OBVIOUS
  <2> HIDE DEF Bad
  <2>2. QED
    BY <1>2, <2>1, MinOfNats
<1>4. PICK j \in 1..m : Better(s[j], best[m])
  BY <1>3
<1>5. m \in 1..n /\ j \in 1..n /\ s[j] \in C /\ s[m] \in C /\ best[m] \in C
  BY <1>3, <1>4
<1>6. best[m] = IF m = 1 \/ Better(s[m], best[m - 1]) THEN s[m] ELSE best[m - 1]
  BY <1>5 DEF Scan
<1>7. Ahead(s[j], best[m])
  BY <1>1, <1>4, <1>5
<1>8. CASE m = 1
  <2>1. best[m] = s[m] /\ j = m
    BY <1>4, <1>6, <1>8
  <2>2. QED
    BY <1>1, <1>5, <1>7, <2>1
<1>9. CASE m # 1
  <2>1. m - 1 \in 1..n /\ best[m - 1] \in C /\ ~ m <= m - 1
    BY <1>5, <1>9
  <2>2. m - 1 \notin Bad
    BY <1>3, <2>1
  <2>3. j # m => ~ Ahead(s[j], best[m - 1])
    <3>1. j # m => j \in 1..(m - 1)
      BY <1>4, <1>5
    <3>2. j # m => ~ Better(s[j], best[m - 1])
      BY <2>1, <2>2, <3>1
    <3>3. QED
      BY <1>1, <1>5, <2>1, <3>2
  <2> HIDE DEF Bad
  <2>4. CASE Better(s[m], best[m - 1])
    <3>1. best[m] = s[m] /\ Ahead(s[m], best[m - 1])
      BY <1>1, <1>5, <1>6, <2>1, <2>4
    <3>2. QED
      BY <1>1, <1>5, <1>7, <2>1, <2>3, <3>1
  <2>5. CASE ~ Better(s[m], best[m - 1])
    <3>1. best[m] = best[m - 1] /\ ~ Ahead(s[m], best[m - 1])
      BY <1>1, <1>5, <1>6, <1>9, <2>1, <2>5
    <3>2. QED
      BY <1>7, <2>3, <3>1
  <2>6. QED
    BY <2>4, <2>5
<1>10. QED
  BY <1>8, <1>9

\* From one candidate on, each comparison loses at most the tolerance.
LEMMA ScanLosesLittle ==
    ASSUME NEW C \in SUBSET [user : Nat, score : Nat],
           NEW n \in Nat, NEW s \in [1..n -> C], NEW best \in [1..n -> C], Scan(s, best),
           NEW k \in 1..n
    PROVE  \A i \in k..n : s[k].score <= best[i].score + Tol * (i - k)
<1> DEFINE Bad == {i \in k..n : ~ s[k].score <= best[i].score + Tol * (i - k)}
<1>1. \A c \in C : c.score \in Nat
  OBVIOUS
<1>2. Tol \in Nat
  BY ThresholdAssumption
<1>3. SUFFICES ASSUME Bad # {} PROVE FALSE
  OBVIOUS
<1>4. PICK m \in Bad : \A j \in Bad : m <= j
  <2>1. Bad \in SUBSET Nat
    OBVIOUS
  <2> HIDE DEF Bad
  <2>2. QED
    BY <1>3, <2>1, MinOfNats
<1>5. m \in 1..n /\ m >= k /\ s[k] \in C /\ s[m] \in C /\ best[m] \in C
  BY <1>4
<1>6. best[m] = IF m = 1 \/ Better(s[m], best[m - 1]) THEN s[m] ELSE best[m - 1]
  BY <1>5 DEF Scan
<1>7. ~ s[k].score <= best[m].score + Tol * (m - k)
  BY <1>4
<1> HIDE DEF Bad
<1>8. ASSUME m # 1, best[m - 1] \in C
      PROVE  best[m].score >= best[m - 1].score - Tol /\ s[m].score <= best[m].score
  <2>1. s[m].score \in Nat /\ best[m - 1].score \in Nat
    BY <1>1, <1>5, <1>8
  <2>2. /\ Better(s[m], best[m - 1]) => s[m].score >= best[m - 1].score - Tol
        /\ ~ Better(s[m], best[m - 1]) => s[m].score <= best[m - 1].score
    BY <1>5, <1>8, BetterBounds
  <2>3. best[m] = IF Better(s[m], best[m - 1]) THEN s[m] ELSE best[m - 1]
    BY <1>6, <1>8
  <2>4. QED
    BY <1>2, <2>1, <2>2, <2>3
<1>9. CASE m = k
  <2>1. Tol * (m - k) = 0
    BY <1>2, <1>5, <1>9
  <2>2. s[m].score <= best[m].score
    <3>1. m # 1 => best[m - 1] \in C
      BY <1>5
    <3>2. QED
      BY <1>1, <1>5, <1>6, <1>8, <3>1
  <2>3. QED
    BY <1>1, <1>5, <1>7, <1>9, <2>1, <2>2
<1>10. CASE m # k
  <2>1. m - 1 \in k..n /\ m - 1 \notin Bad /\ m # 1 /\ best[m - 1] \in C
    <3>1. m - 1 \in k..n /\ m # 1 /\ ~ m <= m - 1
      BY <1>5, <1>10
    <3>2. m - 1 \notin Bad
      BY <1>4, <3>1
    <3>3. best[m - 1] \in C
      BY <3>1
    <3>4. QED
      BY <3>1, <3>2, <3>3
  <2>2. s[k].score <= best[m - 1].score + Tol * (m - 1 - k)
    BY <2>1 DEF Bad
  <2>3. Tol * (m - k) = Tol * (m - 1 - k) + Tol /\ Tol * (m - 1 - k) \in Int
    BY <1>2, <1>5
  <2>4. best[m].score >= best[m - 1].score - Tol
    BY <1>8, <2>1
  <2> DEFINE loss == Tol * (m - 1 - k)
  <2>5. ~ s[k].score <= best[m].score + (loss + Tol)
    BY <1>7, <2>3
  <2> HIDE DEF loss
  <2>6. loss \in Int /\ s[k].score <= best[m - 1].score + loss
    BY <2>2, <2>3 DEF loss
  <2>7. s[k].score \in Nat /\ best[m].score \in Nat /\ best[m - 1].score \in Nat
    BY <1>1, <1>5, <2>1
  <2> DEFINE x == s[k].score
             y == best[m].score
             z == best[m - 1].score
  <2>8. /\ x \in Nat /\ y \in Nat /\ z \in Nat
        /\ x <= z + loss /\ ~ x <= y + (loss + Tol) /\ y >= z - Tol
    BY <2>4, <2>5, <2>6, <2>7
  <2> HIDE DEF x, y, z
  <2>9. QED
    BY <1>2, <2>6, <2>8
<1>11. QED
  BY <1>9, <1>10

\* The order of a match: every candidate is scanned, and the last best returned.
LEMMA MatchScans ==
    ASSUME IInv, NEW f \in Face, NEW t \in 0..MaxTime, NEW b \in BestMatches(f, t)
    PROVE  LET C == Candidates(f, t)
               n == Cardinality(C)
           IN  /\ b \in C /\ n \in Nat /\ n # 0
               /\ \E s, best \in [1..n -> C] :
                    /\ Scan(s, best) /\ b = best[n]
                    /\ \A c \in C : \E j \in 1..n : s[j] = c
<1> DEFINE C == Candidates(f, t)
           n == Cardinality(C)
<1>1. b \in C
  BY DEF BestMatches
<1>2. IsFiniteSet(C)
  BY CandidateFacts
<1>3. n \in Nat /\ n # 0
  BY <1>1, <1>2, FS_CardinalityType, FS_EmptySet
<1>4. PICK s \in SetToSeqs(C) : \E best \in [DOMAIN s -> C] : Scan(s, best) /\ b = best[n]
  BY DEF BestMatches
<1>5. s \in [1..n -> C] /\ \A i, j \in 1..n : i # j => s[i] # s[j]
  BY <1>4 DEF SetToSeqs
<1> HIDE DEF n, C
<1>6. s \in Injection(1..n, C)
  BY <1>5 DEF Injection, IsInjective
<1>7. s \in Surjection(1..n, C)
  <2>1. Cardinality(1..n) = n
    BY <1>3, FS_Interval
  <2>2. QED
    BY <1>2, <1>6, <2>1, FS_Injection DEF n
<1>8. \A c \in C : \E j \in 1..n : s[j] = c
  BY <1>7 DEF Surjection
<1>9. QED
  BY <1>1, <1>3, <1>4, <1>5, <1>8 DEF n, C

\* In whatever order Firestore streams the users, the choice is the same, if
\* scores are equal or clearly apart.
THEOREM ChoiceIsStable == Spec => []StableChoice
<1>1. IInv => StableChoice
  <2> SUFFICES ASSUME IInv, NEW f \in Face,
                      \A c, d \in Candidates(f, now) : Close(c.score, d.score) => c.score = d.score
               PROVE  Cardinality(BestMatches(f, now)) <= 1
    BY DEF StableChoice
  <2> DEFINE C == Candidates(f, now)
  <2>1. now \in 0..MaxTime
    BY DEF IInv, CallsInv
  <2>2. C \in SUBSET [user : Nat, score : Nat] /\ \A c, d \in C : c.user = d.user => c = d
    BY <2>1, CandidateFacts
  <2>3. \A b \in BestMatches(f, now) : b \in C /\ \A c \in C : ~ Better(c, b)
    <3> SUFFICES ASSUME NEW b \in BestMatches(f, now) PROVE b \in C /\ \A c \in C : ~ Better(c, b)
      OBVIOUS
    <3> DEFINE n == Cardinality(C)
    <3>1. /\ b \in C /\ n \in Nat /\ n # 0
          /\ \E s, best \in [1..n -> C] :
               /\ Scan(s, best) /\ b = best[n]
               /\ \A c \in C : \E j \in 1..n : s[j] = c
      BY <2>1, MatchScans
    <3> HIDE DEF C, n
    <3>2. PICK s \in [1..n -> C], best \in [1..n -> C] :
               /\ Scan(s, best) /\ b = best[n]
               /\ \A c \in C : \E j \in 1..n : s[j] = c
      BY <3>1
    <3>3. \A c, d \in C : Close(c.score, d.score) => c.score = d.score
      BY DEF C
    <3>4. \A i \in 1..n : \A j \in 1..i : ~ Better(s[j], best[i])
      BY <2>2, <3>1, <3>2, <3>3, ScanFindsBest
    <3>5. n \in 1..n
      BY <3>1
    <3>6. QED
      BY <3>1, <3>2, <3>4, <3>5
  <2>4. \A a, b \in BestMatches(f, now) : a = b
    <3> SUFFICES ASSUME NEW a \in BestMatches(f, now), NEW b \in BestMatches(f, now) PROVE a = b
      OBVIOUS
    <3>1. a \in C /\ b \in C /\ ~ Better(a, b) /\ ~ Better(b, a)
      BY <2>3
    <3>2. a.score \in Nat /\ b.score \in Nat /\ a.user \in Nat /\ b.user \in Nat
      BY <2>2, <3>1
    <3>3. a.score = b.score /\ Close(a.score, b.score) /\ Close(b.score, a.score)
      BY <3>1, <3>2, ThresholdAssumption DEF Better, Close
    <3>4. a.user = b.user
      BY <3>1, <3>2, <3>3 DEF Better
    <3>5. QED
      BY <2>2, <3>1, <3>4
  <2>5. CASE BestMatches(f, now) = {}
    BY <2>5, FS_EmptySet
  <2>6. CASE BestMatches(f, now) # {}
    <3>1. PICK b : b \in BestMatches(f, now)
      BY <2>6
    <3>2. BestMatches(f, now) = {b}
      BY <2>4, <3>1
    <3>3. Cardinality(BestMatches(f, now)) = 1
      BY <3>2, FS_Singleton
    <3>4. QED
      BY <3>3
  <2>7. QED
    BY <2>5, <2>6
<1>2. QED
  BY Invariant, <1>1, PTL

\* A face like an enrolled one opens, whatever was learned and however old the
\* enrolment is.
THEOREM EnrolledOpens == Spec => []EnrolledFaceOpens
<1>1. IInv => EnrolledFaceOpens
  <2> SUFFICES ASSUME IInv, NEW f \in Face, NEW u \in Allowed, docs[u] # NoUser,
                      NEW g \in docs[u].core,
                      100 * Sim[<<f, g>>] >= 100 * High + Tol * Cardinality(Allowed),
                      NEW b \in BestMatches(f, now)
               PROVE  Answer(b.score) = "UNLOCK"
    BY DEF EnrolledFaceOpens
  <2> DEFINE C == Candidates(f, now)
             n == Cardinality(C)
             A == Cardinality(Allowed)
  <2>1. now \in 0..MaxTime
    BY DEF IInv, CallsInv
  <2>2. /\ C \in SUBSET [user : Nat, score : Nat] /\ n <= A
        /\ \E c \in C : c.score = Score(f, docs[u], now)
    BY <2>1, CandidateFacts
  <2>3. PICK c \in C : c.score = Score(f, docs[u], now)
    BY <2>2
  <2>4. docs[u] \in Document
    BY FaceAssumption DEF IInv, DocsInv
  <2>5. 100 * Sim[<<f, g>>] <= c.score
    BY <2>1, <2>3, <2>4, ScoreBounds
  <2>6. /\ b \in C /\ n \in Nat /\ n # 0
        /\ \E s, best \in [1..n -> C] :
             /\ Scan(s, best) /\ b = best[n]
             /\ \A d \in C : \E j \in 1..n : s[j] = d
    BY <2>1, MatchScans
  <2> HIDE DEF C, n
  <2>7. PICK s \in [1..n -> C], best \in [1..n -> C] :
             /\ Scan(s, best) /\ b = best[n]
             /\ \A d \in C : \E j \in 1..n : s[j] = d
    BY <2>6
  <2>8. PICK k \in 1..n : s[k] = c
    BY <2>7
  <2>9. c.score <= b.score + Tol * (n - k)
    <3>1. n \in k..n
      BY <2>6
    <3>2. QED
      BY <2>2, <2>6, <2>7, <2>8, <3>1, ScanLosesLittle
  <2>10. Sim[<<f, g>>] \in Nat /\ b.score \in Nat /\ c.score \in Nat
    <3>1. g \in Face
      BY <2>4, FaceAssumption DEF Document
    <3> DEFINE a == Sim[<<f, g>>]
    <3>2. a \in 0..100
      BY <3>1, FaceAssumption
    <3> HIDE DEF a
    <3>3. a \in Nat
      BY <3>2
    <3>4. b.score \in Nat /\ c.score \in Nat
      BY <2>2, <2>6
    <3>5. QED
      BY <3>3, <3>4 DEF a
  <2>11. A \in Nat /\ Tol \in Nat /\ High \in Nat /\ Medium \in Nat
    BY FS_CardinalityType, FaceAssumption, ThresholdAssumption
  <2> HIDE DEF A
  <2>12. Tol * (n - k) <= Tol * A
    BY <2>2, <2>6, <2>11
  <2>13. b.score >= 100 * High
    <3> DEFINE x == Tol * (n - k)
               y == Tol * A
    <3>1. x \in Int /\ y \in Int /\ x <= y /\ c.score <= b.score + x
      BY <2>6, <2>9, <2>11, <2>12
    <3>2. 100 * Sim[<<f, g>>] >= 100 * High + y
      BY DEF A
    <3> HIDE DEF x, y
    <3>3. QED
      BY <2>5, <2>10, <2>11, <3>1, <3>2
  <2>14. QED
    BY <2>10, <2>11, <2>13, ThresholdAssumption DEF Answer
<1>2. QED
  BY Invariant, <1>1, PTL
=============================================================================
