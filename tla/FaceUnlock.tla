------------------------------ MODULE FaceUnlock ------------------------------
(***************************************************************************)
(* The face lane of unlock() in routes.py with the continuous learning of  *)
(* learning.py: matching a face against every user document the device may *)
(* open for, the decision, and the two transactions that store the face    *)
(* and prune weak records, while administrators enrol and remove users.    *)
(* Similarities and weights are percentages, scores their product.         *)
(***************************************************************************)
EXTENDS Integers, FiniteSetsExt, SequencesExt

CONSTANTS
    User,           \* user ids, ordered like numbers
    Face,           \* embeddings
    Call,           \* face unlock calls at one time
    Enrolments,     \* sets of faces an administrator may enrol (image1..image5)
    Sim,            \* cosine_similarity of two faces (negative ones as 0)
    Alike,          \* pairs of faces nearer than DEDUP_THRESHOLD
    Decay,          \* 2^(-age/HALF_LIFE_SECONDS) at each age
    MinWeight,      \* MIN_WEIGHT
    High,           \* THRESHOLD_HIGH
    Medium,         \* THRESHOLD_MEDIUM
    PruneBelow,     \* PRUNE_THRESHOLD
    Tol,            \* math.isclose: scores at most this far apart
    MaxAdaptive,    \* MAX_ADAPTIVE_EMBEDDINGS
    Allowed,        \* allow-list of the calling device
    MediumUnlock,   \* V2_ALLOW_MEDIUM_UNLOCK
    Learning,       \* V2_ADAPTIVE_LEARNING
    MaxTime,        \* bound on the clock
    NoUser          \* no user document

ASSUME ThresholdAssumption ==
    /\ MinWeight \in 0..100 /\ Tol \in Nat /\ MaxAdaptive \in Nat /\ MaxTime \in Nat
    /\ High \in 0..100 /\ Medium \in 1..High /\ PruneBelow \in 0..100

ASSUME FaceAssumption ==
    /\ User \subseteq Nat
    /\ Allowed \subseteq User /\ IsFiniteSet(Allowed)
    /\ Enrolments \subseteq SUBSET Face
    /\ Sim \in [Face \X Face -> 0..100]
    /\ Decay \in [0..MaxTime -> 0..100]
    /\ Alike \subseteq Face \X Face
    /\ \A f, g \in Face : <<f, f>> \in Alike /\ (<<f, g>> \in Alike => <<g, f>> \in Alike)
    /\ MediumUnlock \in BOOLEAN /\ Learning \in BOOLEAN

VARIABLES
    now,        \* the clock
    docs,       \* user documents: enrolled faces and learned records
    pc,         \* progress of each call
    user,       \* the user it matched
    probe,      \* the face it was sent
    at          \* its last clock reading

calls == <<pc, user, probe, at>>
vars == <<now, docs, calls>>

\* A field adaptive_<at>, or adaptive_<at>_<n> if that one was taken.
Record == [at : 0..MaxTime, n : Nat, face : Face]
Document == [core : Enrolments, learned : SUBSET Record]

ASSUME NoUserAssumption == NoUser \notin Document

Init ==
    /\ now = 0
    /\ docs = [u \in User |-> NoUser]
    /\ pc = [c \in Call |-> "idle"]
    /\ user = [c \in Call |-> NoUser]
    /\ probe = [c \in Call |-> NoUser]
    /\ at = [c \in Call |-> 0]

-----------------------------------------------------------------------------
(* Similarity of a face to a document at a time.                           *)

\* temporal_decay_weight; a record may be newer than the caller's reading.
Weight(r, t) == Max({Decay[Max({0, t - r.at})], MinWeight})

Weighted(f, r, t) == Sim[<<f, r.face>>] * Weight(r, t)

\* Variant of Score: enrolled faces, whose timestamp is 0, decay as well.
ScoreDecaying(f, doc, t) ==
    Max({0} \cup {Weighted(f, [at |-> 0, face |-> g], t) : g \in doc.core}
            \cup {Weighted(f, r, t) : r \in doc.learned})

\* compute_best_match's weighted_similarity, up to its own use of isclose.
Score(f, doc, t) ==
    Max({0} \cup {100 * Sim[<<f, g>>] : g \in doc.core}
            \cup {Weighted(f, r, t) : r \in doc.learned})

Close(a, b) == a - b \in -Tol..Tol

\* Variant of Better: no tie-breaker.
BetterByScore(c, best) == c.score > best.score

\* Whether a candidate takes the place of the best one before it.
Better(c, best) ==
    \/ c.score > best.score
    \/ Close(c.score, best.score) /\ c.user < best.user

Candidates(f, t) ==
    {[user |-> u, score |-> Score(f, docs[u], t)] : u \in {v \in Allowed : docs[v] # NoUser}}

\* _best_user_match over one order of the users: the best after each of them.
Scan(s, best) ==
    \A i \in DOMAIN s :
        best[i] = IF i = 1 \/ Better(s[i], best[i - 1]) THEN s[i] ELSE best[i - 1]

\* What it may return, Firestore streaming the users in any order.
BestMatches(f, t) ==
    LET cands == Candidates(f, t) IN
    {b \in cands : \E s \in SetToSeqs(cands) : \E best \in [DOMAIN s -> cands] :
        Scan(s, best) /\ b = best[Cardinality(cands)]}

\* _is_unlock_allowed and what unlock() makes of it.
Answer(score) ==
    IF score < 100 * Medium THEN "NO_MATCH"
    ELSE IF score >= 100 * High \/ MediumUnlock THEN "UNLOCK" ELSE "DENIED"

Learns(score) == Answer(score) = "UNLOCK" /\ Learning /\ score < 100 * High

-----------------------------------------------------------------------------
(* A call.  The answer is chosen in Match; what follows cannot change it.  *)

\* Variant of Match: a call that found no user goes on to learn.
MatchNobody(c, f) ==
    /\ pc[c] = "idle"
    /\ \E t \in 0..now :
        \E b \in BestMatches(f, t) \cup {[user |-> NoUser, score |-> 100 * Medium]} :
            /\ Learns(b.score)
            /\ user' = [user EXCEPT ![c] = b.user]
            /\ at' = [at EXCEPT ![c] = t]
    /\ probe' = [probe EXCEPT ![c] = f]
    /\ pc' = [pc EXCEPT ![c] = "store"]
    /\ UNCHANGED <<now, docs>>

\* The clock is read once, then the users in one snapshot.  A call that does
\* not learn is answered without any effect here.
Match(c, f) ==
    /\ pc[c] = "idle"
    /\ \E t \in 0..now : \E b \in BestMatches(f, t) :
        /\ Learns(b.score)
        /\ user' = [user EXCEPT ![c] = b.user]
        /\ at' = [at EXCEPT ![c] = t]
    /\ probe' = [probe EXCEPT ![c] = f]
    /\ pc' = [pc EXCEPT ![c] = "store"]
    /\ UNCHANGED <<now, docs>>

\* The call is answered; the next one may take its place.
End(c) ==
    /\ pc' = [pc EXCEPT ![c] = "idle"]
    /\ user' = [user EXCEPT ![c] = NoUser]
    /\ probe' = [probe EXCEPT ![c] = NoUser]
    /\ at' = [at EXCEPT ![c] = 0]

\* time.time() before a transaction; the transaction runs at any later moment.
Reading(c) == at[c]..now

\* Variant of FreeKey: no collision suffix.
FreeKeyByTime(t, records) == [at |-> t, n |-> 0]

\* _safe_adaptive_key.
FreeKey(t, records) ==
    [at |-> t,
     n |-> Min({n \in 0..Cardinality(records) :
                    ~ \E r \in records : r.at = t /\ r.n = n})]

\* transaction.update of one field.
Put(records, key, f) ==
    {r \in records : r.at # key.at \/ r.n # key.n} \cup {[at |-> key.at, n |-> key.n, face |-> f]}

\* Variant of MayStore: one record too many.
MayStoreOneMore(doc, f) ==
    /\ Cardinality(doc.learned) <= MaxAdaptive
    /\ ~ \E r \in doc.learned : <<f, r.face>> \in Alike

\* Room for the face, and no learned record like it.
MayStore(doc, f) ==
    /\ Cardinality(doc.learned) < MaxAdaptive
    /\ ~ \E r \in doc.learned : <<f, r.face>> \in Alike

\* store_adaptive_embedding's transaction.
Store(c) ==
    /\ pc[c] = "store"
    /\ \E t \in Reading(c) :
        LET u == user[c]  doc == docs[u] IN
        /\ at' = [at EXCEPT ![c] = t]
        /\ docs' = IF doc # NoUser /\ MayStore(doc, probe[c])
                   THEN [docs EXCEPT ![u].learned =
                            Put(@, FreeKey(t, @), probe[c])]
                   ELSE docs
    /\ pc' = [pc EXCEPT ![c] = "prune"]
    /\ UNCHANGED <<now, user, probe>>

\* The commit's answer is lost: unlock() catches the error and does not prune.
StoreUnheard(c) ==
    /\ pc[c] = "store"
    /\ \E t \in Reading(c) :
        LET u == user[c]  doc == docs[u] IN
        /\ doc # NoUser /\ MayStore(doc, probe[c])
        /\ docs' = [docs EXCEPT ![u].learned = Put(@, FreeKey(t, @), probe[c])]
    /\ End(c)
    /\ UNCHANGED now

\* prune_adaptive_embeddings' transaction, heard of or not.
Prune(c) ==
    /\ pc[c] = "prune"
    /\ \E t \in Reading(c) :
        LET u == user[c]
            weak == {r \in docs[u].learned : Weighted(probe[c], r, t) < 100 * PruneBelow} IN
        docs' = IF docs[u] # NoUser THEN [docs EXCEPT ![u].learned = @ \ weak] ELSE docs
    /\ End(c)
    /\ UNCHANGED now

\* An error before a commit, or the end of the instance.
Fail(c) ==
    /\ pc[c] \in {"store", "prune"}
    /\ End(c)
    /\ UNCHANGED <<now, docs>>

-----------------------------------------------------------------------------
(* Administrators and the clock.                                           *)

\* register() sets the whole document, learned records included.
Register(u, faces) ==
    /\ docs' = [docs EXCEPT ![u] = [core |-> faces, learned |-> {}]]
    /\ UNCHANGED <<now, calls>>

RemoveUser(u) ==
    /\ docs' = [docs EXCEPT ![u] = NoUser]
    /\ UNCHANGED <<now, calls>>

Tick ==
    /\ now < MaxTime
    /\ now' = now + 1
    /\ UNCHANGED <<docs, calls>>

Next ==
    \/ \E c \in Call :
        \/ \E f \in Face : Match(c, f)
        \/ Store(c) \/ StoreUnheard(c) \/ Prune(c) \/ Fail(c)
    \/ \E u \in User :
        \/ \E faces \in Enrolments : Register(u, faces)
        \/ RemoveUser(u)
    \/ Tick

Spec == Init /\ [][Next]_vars

-----------------------------------------------------------------------------
\* Every variable keeps its type; a call that goes on to learn has a user.
TypeOK ==
    /\ now \in 0..MaxTime
    /\ docs \in [User -> Document \cup {NoUser}]
    /\ pc \in [Call -> {"idle", "store", "prune"}]
    /\ user \in [Call -> User \cup {NoUser}]
    /\ probe \in [Call -> Face \cup {NoUser}]
    /\ at \in [Call -> 0..MaxTime]
    /\ \A c \in Call :
        /\ at[c] <= now
        /\ pc[c] \in {"store", "prune"} => user[c] \in User /\ probe[c] \in Face

\* "concurrent unlock requests cannot exceed the adaptive cap or allocate the
\* same key", nor learn nearly the same face twice for a user.
LearnedFits ==
    \A u \in User : docs[u] # NoUser =>
        /\ Cardinality(docs[u].learned) <= MaxAdaptive
        /\ \A r, s \in docs[u].learned : r # s =>
             (r.at # s.at \/ r.n # s.n) /\ <<r.face, s.face>> \notin Alike

\* A call takes a learned record away from nobody but the user it matched, and
\* only one that is weak for the face it was sent.
OnlyWeakLost ==
    [][\A c \in Call : pc'[c] # pc[c] =>
        \A u \in User : docs[u] # NoUser =>
            /\ docs'[u] # NoUser /\ docs'[u].core = docs[u].core
            /\ \A r \in docs[u].learned \ docs'[u].learned :
                /\ pc[c] = "prune" /\ user[c] = u
                /\ \E t \in Reading(c) : Weighted(probe[c], r, t) < 100 * PruneBelow]_vars

\* "user id is a stable tie-breaker so Firestore stream order cannot change an
\* unlock decision": scores that are equal or clearly apart decide alike in
\* every order (scores that differ by less than the tolerance do not).
StableChoice ==
    \A f \in Face :
        (\A c, d \in Candidates(f, now) : Close(c.score, d.score) => c.score = d.score) =>
            Cardinality(BestMatches(f, now)) <= 1

\* However old the enrolment and whatever was learned, of whomever: a face like
\* an enrolled one is answered UNLOCK (each comparison may lose the tolerance).
EnrolledFaceOpens ==
    \A f \in Face, u \in Allowed :
        /\ docs[u] # NoUser
        /\ \E g \in docs[u].core : 100 * Sim[<<f, g>>] >= 100 * High + Tol * Cardinality(Allowed)
        => \A b \in BestMatches(f, now) : Answer(b.score) = "UNLOCK"
=============================================================================
