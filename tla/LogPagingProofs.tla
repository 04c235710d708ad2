--------------------------- MODULE LogPagingProofs ---------------------------
(***************************************************************************)
(* Proofs about LogPaging, for any number of entries, users and requests   *)
(* under way, any page size and any order of the screen's and the          *)
(* service's steps.                                                        *)
(***************************************************************************)
EXTENDS LogPaging, FiniteSetTheorems, TLAPS

Cursor == Position \cup {NoCursor}

Request == [at : {"idle", "sent", "answered"}, reset : BOOLEAN, filter : Filter,
            cursor : Cursor, page : SUBSET Entry, next : Cursor, due : SUBSET Entry]

-----------------------------------------------------------------------------
(* The order of the log.  Positions and the empty cursor are pairs of      *)
(* integers, compared lexicographically.                                   *)

Key == [time : Int, name : Int]

LEMMA CursorIsKey == Cursor \subseteq Key
  <1>1. Position \subseteq Key
    <2>1. 0..MaxTime \subseteq Int /\ Entry \subseteq Int
      BY EntryAssumption, LimitAssumption
    <2>2. QED
      BY <2>1 DEF Position, Key
  <1>2. NoCursor \in Key
    BY DEF NoCursor, Key
  <1>3. QED
    BY <1>1, <1>2 DEF Cursor

LEMMA OfIsPosition ==
    ASSUME TypeOK, NEW e \in Entry, time[e] # -1
    PROVE  Of(e) \in Position
  <1>1. time[e] \in 0..MaxTime
    BY LimitAssumption DEF TypeOK
  <1>2. QED
    BY <1>1 DEF Of, Position

LEMMA OfIsKey ==
    ASSUME TypeOK, NEW e \in Entry
    PROVE  Of(e) \in Key
  <1>1. time[e] \in Int /\ e \in Int
    BY LimitAssumption, EntryAssumption DEF TypeOK
  <1>2. QED
    BY <1>1 DEF Of, Key

LEMMA OlderAsymmetric ==
    ASSUME NEW p \in Key, NEW q \in Key, Older(p, q)
    PROVE  ~ Older(q, p)
  <1>1. p.time \in Int /\ q.time \in Int /\ p.name \in Int /\ q.name \in Int
    BY DEF Key
  <1>2. QED
    BY <1>1 DEF Older

LEMMA OlderThroughBound ==
    ASSUME NEW p \in Key, NEW q \in Key, NEW r \in Key, Older(p, r), ~ Older(q, r)
    PROVE  Older(p, q)
  <1>1. /\ p.time \in Int /\ q.time \in Int /\ r.time \in Int
        /\ p.name \in Int /\ q.name \in Int /\ r.name \in Int
    BY DEF Key
  <1>2. QED
    BY <1>1 DEF Older

-----------------------------------------------------------------------------
(* Cutting a page.                                                         *)

LEMMA NewestFacts ==
    ASSUME NEW S \in SUBSET Entry, NEW n \in Nat, NEW T \in Newest(S, n)
    PROVE  /\ T \subseteq S
           /\ \A e \in T, x \in S \ T : Older(Of(x), Of(e))
           /\ Cardinality(T) # n => T = S
           /\ Cardinality(S) <= n => T = S
  <1>1. T \subseteq S /\ (\A e \in T, x \in S \ T : Older(Of(x), Of(e)))
    BY DEF Newest
  <1>2. Cardinality(T) = n \/ (T = S /\ Cardinality(T) < n)
    BY DEF Newest
  <1>3. IsFiniteSet(S)
    BY EntryAssumption, FS_Subset
  <1>4. Cardinality(T) <= Cardinality(S) /\ (Cardinality(S) = Cardinality(T) => S = T)
    BY <1>1, <1>3, FS_Subset
  <1>5. Cardinality(S) \in Nat
    BY <1>3, FS_CardinalityType
  <1>6. QED
    BY <1>1, <1>2, <1>4, <1>5

\* What a request finds: entries of the log that match it, and come after its
\* cursor.
Found(l) == After(Listed(load[l].filter), load[l].cursor)

Reached(e, page, next) == e \in page \/ (next # NoCursor /\ Older(Of(e), next))

\* The cursor of a page is its oldest entry.
Ends(page, next) ==
    next # NoCursor => /\ \E y \in page : next = Of(y)
                       /\ \A e \in page : ~ Older(Of(e), next)

Reply(l, page, next) ==
    [load[l] EXCEPT !.at = "answered", !.page = page, !.next = next,
                    !.due = IF load[l].reset THEN Found(l) ELSE {}]

Cut(l, page, next) ==
    /\ page \subseteq Found(l) /\ next \in Cursor
    /\ load' = [load EXCEPT ![l] = Reply(l, page, next)]
    /\ Ends(page, next)
    /\ \A e \in Found(l) : Reached(e, page, next)

LEMMA FoundStored ==
    ASSUME TypeOK, NEW l \in Load
    PROVE  Found(l) \subseteq log /\ Found(l) \subseteq Entry
  BY DEF Found, After, Listed, TypeOK

\* Everything that is found is in the page or behind its cursor.
LEMMA Answer ==
    ASSUME TypeOK, NEW l \in Load, Serve(l)
    PROVE  \E page, next : Cut(l, page, next)
  <1> DEFINE S == Found(l)
             Oldest(p) == {Of(e) : e \in {x \in p : \A y \in p : ~ Older(Of(y), Of(x))}}
             Marks(f, p) == IF Cardinality(f) > Limit THEN Oldest(p) ELSE {NoCursor}
  <1>1. PICK fetched \in Newest(S, Limit + 1) :
          \E page \in Newest(fetched, Limit) : \E next \in Marks(fetched, page) :
             load' = [load EXCEPT ![l] = Reply(l, page, next)]
    BY DEF Serve, Found, Reply
  <1>2. PICK page \in Newest(fetched, Limit) : \E next \in Marks(fetched, page) :
             load' = [load EXCEPT ![l] = Reply(l, page, next)]
    BY <1>1
  <1>3. PICK next \in Marks(fetched, page) : load' = [load EXCEPT ![l] = Reply(l, page, next)]
    BY <1>2
  <1>4. S \subseteq log /\ S \in SUBSET Entry
    BY FoundStored
  <1> HIDE DEF S
  <1>5. Limit \in Nat /\ Limit + 1 \in Nat
    BY LimitAssumption
  <1>6. /\ fetched \subseteq S
        /\ \A e \in fetched, x \in S \ fetched : Older(Of(x), Of(e))
        /\ Cardinality(fetched) # Limit + 1 => fetched = S
    BY <1>4, <1>5, NewestFacts
  <1>7. fetched \in SUBSET Entry
    BY <1>4, <1>6
  <1>8. /\ page \subseteq fetched
        /\ \A e \in page, x \in fetched \ page : Older(Of(x), Of(e))
        /\ Cardinality(fetched) <= Limit => page = fetched
    BY <1>5, <1>7, NewestFacts
  <1>9. Cardinality(fetched) \in Nat
    BY <1>7, EntryAssumption, FS_Subset, FS_CardinalityType
  <1>10. CASE Cardinality(fetched) > Limit
    <2>1. PICK y \in page : next = Of(y) /\ \A e \in page : ~ Older(Of(e), Of(y))
      BY <1>3, <1>10
    <2>2. y \in Entry /\ time[y] # -1
      BY <1>4, <1>6, <1>8 DEF TypeOK
    <2>3. next \in Position
      BY <2>1, <2>2, OfIsPosition
    <2>4. next # NoCursor
      BY <2>1, <2>2 DEF Of, NoCursor
    <2>5. \A e \in S : Reached(e, page, next)
      BY <1>6, <1>8, <2>1, <2>4 DEF Reached
    <2>6. Ends(page, next)
      BY <2>1 DEF Ends
    <2>7. Cut(l, page, next)
      BY <1>3, <1>6, <1>8, <2>3, <2>5, <2>6 DEF Cut, S, Cursor
    <2>8. QED
      BY <2>7
  <1>11. CASE ~ (Cardinality(fetched) > Limit)
    <2>1. next = NoCursor
      BY <1>3, <1>11
    <2>2. page = fetched /\ fetched = S
      BY <1>5, <1>6, <1>8, <1>9, <1>11
    <2>3. Cut(l, page, next)
      BY <1>3, <2>1, <2>2 DEF Cut, S, Cursor, Reached, Ends
    <2>4. QED
      BY <2>3
  <1>12. QED
    BY <1>10, <1>11

-----------------------------------------------------------------------------
LEMMA RequestType ==
    ASSUME TypeOK
    PROVE  load \in [Load -> Request] /\ cursor \in Cursor /\ tail \in Cursor
  BY DEF TypeOK, Request, Cursor

LEMMA IdleType == Idle \in Request /\ Everybody \in Filter
  BY DEF Idle, Request, Filter, Cursor

\* Every variable of LogPaging keeps its type.
THEOREM TypeCorrect == Spec => []TypeOK
  <1>1. Init => TypeOK
    <2> SUFFICES ASSUME Init PROVE TypeOK
      OBVIOUS
    <2>1. load \in [Load -> Request]
      <3>1. [Idle EXCEPT !.at = "sent", !.reset = TRUE] \in Request
        BY IdleType DEF Idle, Request
      <3>2. QED
        BY <3>1, IdleType DEF Init
    <2>2. time \in [Entry -> -1..MaxTime] /\ now \in 0..MaxTime
      BY LimitAssumption DEF Init
    <2>3. pages \in Seq(SUBSET Entry)
      BY DEF Init
    <2>4. QED
      BY <2>1, <2>2, <2>3, IdleType DEF Init, TypeOK, Request, Cursor
  <1>2. TypeOK /\ [Next]_vars => TypeOK'
    <2> SUFFICES ASSUME TypeOK, [Next]_vars PROVE TypeOK'
      OBVIOUS
    <2>1. ASSUME NEW e \in Entry, Write(e) PROVE TypeOK'
      <3>1. now \in -1..MaxTime /\ now # -1
        BY LimitAssumption DEF TypeOK
      <3>2. time' \in [Entry -> -1..MaxTime] /\ time'[e] # -1
            /\ \A x \in Entry : time[x] # -1 => time'[x] # -1
        BY <2>1, <3>1 DEF Write, TypeOK
      <3>3. log' \subseteq {x \in Entry : time'[x] # -1}
        BY <2>1, <3>2 DEF Write, TypeOK
      <3>4. QED
        BY <2>1, <3>2, <3>3 DEF Write, TypeOK, screen, history
    <2>2. ASSUME NEW e \in Entry, Delete(e) PROVE TypeOK'
      BY <2>2 DEF Delete, TypeOK, screen, history
    <2>3. CASE Tick
      BY <2>3, LimitAssumption DEF Tick, TypeOK, screen, history
    <2>4. ASSUME NEW f \in Filter, Type(f) PROVE TypeOK'
      BY <2>4 DEF Type, TypeOK, service, history
    <2>5. ASSUME NEW l \in Load, NEW r \in Request, load' = [load EXCEPT ![l] = r]
          PROVE  load' \in [Load -> Request]
      BY <2>5, RequestType
    <2>6. ASSUME load' \in [Load -> Request]
          PROVE  load' \in [Load -> [at : {"idle", "sent", "answered"}, reset : BOOLEAN,
                    filter : Filter, cursor : Position \cup {NoCursor}, page : SUBSET Entry,
                    next : Position \cup {NoCursor}, due : SUBSET Entry]]
      BY <2>6 DEF Request, Cursor
    <2>7. ASSUME NEW b \in BOOLEAN, NEW c \in Cursor PROVE Question(b, c) \in Request
      BY IdleType, <2>7 DEF Question, Idle, Request, TypeOK
    <2>8. ASSUME NEW l \in Load, Refresh(l) PROVE TypeOK'
      <3>1. Question(TRUE, NoCursor) \in Request
        BY <2>7 DEF Cursor
      <3>2. load' \in [Load -> Request]
        BY <2>5, <2>8, <3>1 DEF Refresh
      <3>3. QED
        BY <2>6, <2>8, <3>2 DEF Refresh, TypeOK, service
    <2>9. ASSUME NEW l \in Load, LoadMore(l) PROVE TypeOK'
      <3>1. Question(FALSE, cursor) \in Request
        BY <2>7, RequestType
      <3>2. load' \in [Load -> Request]
        BY <2>5, <2>9, <3>1 DEF LoadMore
      <3>3. QED
        BY <2>6, <2>9, <3>2 DEF LoadMore, TypeOK, service
    <2>10. ASSUME NEW l \in Load, Serve(l) PROVE TypeOK'
      <3>1. PICK page, next : Cut(l, page, next)
        BY <2>10, Answer
      <3>2. load[l] \in Request /\ Found(l) \subseteq Entry
        BY RequestType, FoundStored
      <3>3. Reply(l, page, next) \in Request
        BY <3>1, <3>2 DEF Reply, Cut, Request
      <3>4. load' \in [Load -> Request]
        BY <2>5, <3>1, <3>3 DEF Cut
      <3>5. QED
        BY <2>6, <2>10, <3>4 DEF Serve, TypeOK, service, screen, history
    <2>11. ASSUME NEW l \in Load, Settle(l) PROVE load' \in [Load -> Request]
      BY <2>5, <2>11, IdleType DEF Settle
    <2>12. ASSUME NEW l \in Load, load[l] \in Request
           PROVE  /\ load[l].page \in SUBSET Entry /\ load[l].due \in SUBSET Entry
                  /\ load[l].next \in Cursor /\ load[l].filter \in Filter
      BY <2>12 DEF Request
    <2>13. ASSUME NEW l \in Load, Show(l) PROVE TypeOK'
      <3>1. load[l] \in Request
        BY RequestType
      <3>2. load' \in [Load -> Request]
        BY <2>11, <2>13 DEF Show
      <3>3. pages' \in Seq(SUBSET Entry)
        BY <2>12, <2>13, <3>1 DEF Show
      <3>4. QED
        BY <2>6, <2>12, <2>13, <3>1, <3>2, <3>3 DEF Show, Settle, TypeOK, service, Cursor
    <2>14. ASSUME NEW l \in Load, Extend(l) PROVE TypeOK'
      <3>1. load[l] \in Request
        BY RequestType
      <3>2. load' \in [Load -> Request]
        BY <2>11, <2>14 DEF Extend
      <3>3. pages' \in Seq(SUBSET Entry)
        BY <2>12, <2>14, <3>1 DEF Extend, TypeOK
      <3>4. QED
        BY <2>6, <2>12, <2>14, <3>1, <3>2, <3>3, IdleType DEF Extend, Settle, TypeOK, service, Cursor
    <2>15. ASSUME NEW l \in Load, Fail(l) PROVE TypeOK'
      <3>1. load' \in [Load -> Request]
        BY <2>11, <2>15 DEF Fail
      <3>2. QED
        BY <2>6, <2>15, <3>1 DEF Fail, Settle, TypeOK, service, history
    <2>16. CASE UNCHANGED vars
      BY <2>16 DEF vars, service, screen, history, TypeOK
    <2>17. QED
      BY <2>1, <2>2, <2>3, <2>4, <2>8, <2>9, <2>10, <2>13, <2>14, <2>15, <2>16 DEF Next
  <1>3. QED
    BY <1>1, <1>2, PTL DEF Spec

-----------------------------------------------------------------------------
(* What keeps the pages in order and without gaps.  A cursor bounds the    *)
(* list: nothing in it is older than its last cursor, and everything an    *)
(* answer to that cursor brings is.  An answer also covers what was due:   *)
(* what it leaves out is behind the cursor it comes with.                  *)

Stamped(S) == \A e \in S : time[e] # -1

Matching(S, f) == \A e \in S : f = Everybody \/ Owner[e] = f

\* Only entries that were written, whose timestamps are fixed, are spoken of.
StampedInv ==
    /\ \A i \in DOMAIN pages : Stamped(pages[i])
    /\ Stamped(due)
    /\ \A l \in Load : Stamped(load[l].page) /\ Stamped(load[l].due)

QuestionOf(l) == load[l].at # "idle" => (load[l].reset <=> load[l].cursor = NoCursor)

AnswerOf(l) ==
    load[l].at = "answered" =>
        /\ Ends(load[l].page, load[l].next)
        /\ load[l].reset =>
              /\ Matching(load[l].due, load[l].filter)
              /\ \A e \in load[l].due : Reached(e, load[l].page, load[l].next)
        /\ ~ load[l].reset => \A e \in load[l].page : Older(Of(e), load[l].cursor)
        /\ ~ load[l].reset /\ l \notin stale /\ load[l].filter = filter =>
              \A e \in due \cap log :
                  Older(Of(e), load[l].cursor) => Reached(e, load[l].page, load[l].next)

InList(e) == \E i \in DOMAIN pages : e \in pages[i]

\* The list is bounded by its last cursor, and covers what was due with it.
Bounded == tail # NoCursor => \A i \in DOMAIN pages : \A e \in pages[i] : ~ Older(Of(e), tail)

Covered == \A e \in due \cap log : InList(e) \/ (tail # NoCursor /\ Older(Of(e), tail))

ListInv ==
    /\ Matching(due, filter)
    /\ ~ intact => due = {}
    /\ intact => InOrder /\ Bounded /\ Covered

RequestInv == \A l \in Load : QuestionOf(l) /\ AnswerOf(l)

IInv == TypeOK /\ StampedInv /\ RequestInv /\ ListInv

\* Every set the invariant speaks of.
LEMMA Sets ==
    ASSUME TypeOK
    PROVE  /\ \A i \in DOMAIN pages : pages[i] \subseteq Entry
           /\ due \subseteq Entry
           /\ \A l \in Load : load[l] \in Request /\ load[l].page \subseteq Entry
                              /\ load[l].due \subseteq Entry
  <1>1. \A i \in DOMAIN pages : pages[i] \subseteq Entry
    BY DEF TypeOK
  <1>2. \A l \in Load : load[l] \in Request
    BY RequestType
  <1>3. \A l \in Load : load[l].page \subseteq Entry /\ load[l].due \subseteq Entry
    BY <1>2 DEF Request
  <1>4. QED
    BY <1>1, <1>2, <1>3 DEF TypeOK

\* Steps of the log: entries come and go, and what was written keeps its time.
LEMMA LogStep ==
    ASSUME IInv, UNCHANGED <<pages, load, history>>,
           \A e \in Entry : time[e] # -1 => time'[e] = time[e],
           due \cap log' \subseteq log
    PROVE  StampedInv' /\ RequestInv' /\ ListInv'
  <1>1. \A e \in Entry : time[e] # -1 => Of(e)' = Of(e) /\ time'[e] # -1
    BY DEF Of
  <1>2. TypeOK /\ StampedInv /\ RequestInv /\ ListInv
    BY DEF IInv
  <1>3. UNCHANGED <<filter, tail, due, stale, intact>>
    BY DEF history
  <1>4. ASSUME NEW S \in SUBSET Entry, Stamped(S)
        PROVE  Stamped(S)' /\ \A e \in S : Of(e)' = Of(e)
    BY <1>1, <1>4 DEF Stamped
  <1>5. StampedInv'
    BY <1>2, <1>3, <1>4, Sets DEF StampedInv
  <1>6. ASSUME NEW l \in Load PROVE QuestionOf(l)' /\ AnswerOf(l)'
    <2>1. QuestionOf(l) /\ AnswerOf(l)
      BY <1>2 DEF RequestInv
    <2>2. /\ \A e \in load[l].page : Of(e)' = Of(e)
          /\ \A e \in load[l].due : Of(e)' = Of(e)
          /\ \A e \in due : Of(e)' = Of(e)
      BY <1>2, <1>4, Sets DEF StampedInv
    <2>3. QuestionOf(l)'
      BY <2>1 DEF QuestionOf
    <2>4. Ends(load[l].page, load[l].next) => Ends(load[l].page, load[l].next)'
      BY <2>2 DEF Ends
    <2>5. /\ Matching(load[l].due, load[l].filter)' <=> Matching(load[l].due, load[l].filter)
          /\ \A e \in load[l].due \cup due :
                Reached(e, load[l].page, load[l].next) => Reached(e, load[l].page, load[l].next)'
      BY <2>2 DEF Reached, Matching
    <2>6. AnswerOf(l)'
      BY <1>3, <2>1, <2>2, <2>4, <2>5 DEF AnswerOf
    <2>7. QED
      BY <2>3, <2>6
  <1>7. ListInv'
    <2>1. /\ \A i \in DOMAIN pages : \A e \in pages[i] : Of(e)' = Of(e)
          /\ \A e \in due : Of(e)' = Of(e)
      BY <1>2, <1>4, Sets DEF StampedInv
    <2>2. InOrder => InOrder'
      BY <2>1 DEF InOrder
    <2>3. Bounded => Bounded'
      BY <1>3, <2>1 DEF Bounded
    <2>4. Covered => Covered'
      BY <1>3, <2>1 DEF Covered, InList
    <2>5. QED
      BY <1>2, <1>3, <2>2, <2>3, <2>4 DEF ListInv, Matching
  <1>8. QED
    BY <1>5, <1>6, <1>7 DEF RequestInv

\* Asking and failing: the list and the other requests stay as they are.
LEMMA AskStep ==
    ASSUME IInv, NEW l \in Load, NEW r, load' = [load EXCEPT ![l] = r],
           r.at # "answered", r.page = {}, r.due = {},
           r.at # "idle" => (r.reset <=> r.cursor = NoCursor),
           UNCHANGED <<service, pages, filter, tail, due, intact>>,
           stale \ {l} \subseteq stale'
    PROVE  StampedInv' /\ RequestInv' /\ ListInv'
  <1>1. TypeOK /\ StampedInv /\ RequestInv /\ ListInv
    BY DEF IInv
  <1>2. UNCHANGED <<time, log>> /\ (\A e \in Entry : Of(e)' = Of(e))
    BY DEF service, Of
  <1>3. load'[l] = r /\ \A k \in Load \ {l} : load'[k] = load[k] /\ (k \notin stale' => k \notin stale)
    BY <1>1, RequestType
  <1>4. StampedInv'
    BY <1>1, <1>2, <1>3 DEF StampedInv, Stamped
  <1>5. QuestionOf(l)' /\ AnswerOf(l)'
    BY <1>3 DEF QuestionOf, AnswerOf
  <1>6. ASSUME NEW k \in Load \ {l} PROVE QuestionOf(k)' /\ AnswerOf(k)'
    BY <1>1, <1>2, <1>3 DEF RequestInv, QuestionOf, AnswerOf, Ends, Matching, Reached, Of
  <1>7. ListInv'
    BY <1>1, <1>2 DEF ListInv, Matching, InOrder, Bounded, Covered, InList, Of
  <1>8. QED
    BY <1>4, <1>5, <1>6, <1>7 DEF RequestInv

\* The service's answer.
LEMMA ServeStep ==
    ASSUME IInv, NEW l \in Load, Serve(l)
    PROVE  StampedInv' /\ RequestInv' /\ ListInv'
  <1>1. TypeOK /\ StampedInv /\ RequestInv /\ ListInv
    BY DEF IInv
  <1>2. UNCHANGED <<time, log, pages, filter, tail, due, stale, intact>> /\ load[l].at = "sent"
    BY DEF Serve, service, screen, history
  <1>3. PICK page, next : Cut(l, page, next)
    BY <1>1, Answer
  <1>4. load[l] \in Request /\ Found(l) \subseteq log
    BY <1>1, RequestType, FoundStored
  <1>5. load'[l] = Reply(l, page, next) /\ \A k \in Load \ {l} : load'[k] = load[k]
    BY <1>1, <1>3, RequestType DEF Cut
  <1>6. /\ load'[l].at = "answered" /\ load'[l].page = page /\ load'[l].next = next
        /\ load'[l].due = IF load[l].reset THEN Found(l) ELSE {}
        /\ load'[l].reset = load[l].reset /\ load'[l].filter = load[l].filter
        /\ load'[l].cursor = load[l].cursor
    BY <1>4, <1>5 DEF Reply, Request
  <1>7. page \subseteq Found(l) /\ Ends(page, next) /\ \A e \in Found(l) : Reached(e, page, next)
    BY <1>3 DEF Cut
  <1>8. StampedInv'
    <2>1. \A e \in log : time[e] # -1
      BY <1>1 DEF TypeOK
    <2>2. QED
      BY <1>1, <1>2, <1>4, <1>5, <1>6, <1>7, <2>1 DEF StampedInv, Stamped
  <1>9. QuestionOf(l)' /\ AnswerOf(l)'
    <2>1. load[l].reset <=> load[l].cursor = NoCursor
      BY <1>1, <1>2 DEF RequestInv, QuestionOf
    <2>2. Matching(Found(l), load[l].filter)
      BY DEF Matching, Found, After, Listed
    <2>3. ~ load[l].reset => \A e \in Found(l) : Older(Of(e), load[l].cursor)
      BY <2>1 DEF Found, After
    <2>4. ASSUME ~ load[l].reset, load[l].filter = filter, NEW e \in due \cap log,
                 Older(Of(e), load[l].cursor)
          PROVE  e \in Found(l)
      <3>1. filter = Everybody \/ Owner[e] = filter
        BY <1>1, <2>4 DEF ListInv, Matching
      <3>2. QED
        BY <2>4, <3>1 DEF Found, After, Listed
    <2>5. Ends(page, next)' /\ (\A e \in Found(l) : Reached(e, page, next)')
          /\ \A e : Of(e)' = Of(e)
      BY <1>2, <1>7 DEF Ends, Reached, Of
    <2>6. QuestionOf(l)'
      BY <1>6, <2>1 DEF QuestionOf
    <2>7. Ends(load[l].page, load[l].next)'
      BY <1>2, <1>6, <1>7 DEF Ends, Of
    <2>8. load[l].reset => /\ Matching(load[l].due, load[l].filter)'
                           /\ \A e \in load'[l].due : Reached(e, load[l].page, load[l].next)'
      BY <1>2, <1>6, <1>7, <2>2 DEF Matching, Reached, Of
    <2>9. ~ load[l].reset => \A e \in load'[l].page : Older(Of(e)', load[l].cursor)
      BY <1>6, <1>7, <2>3, <2>5
    <2>10. ~ load[l].reset /\ load[l].filter = filter =>
              \A e \in due \cap log :
                  Older(Of(e), load[l].cursor) => Reached(e, load[l].page, load[l].next)'
      BY <1>2, <1>6, <1>7, <2>4 DEF Reached, Of
    <2>11. AnswerOf(l)'
      BY <1>2, <1>6, <2>5, <2>7, <2>8, <2>9, <2>10 DEF AnswerOf
    <2>12. QED
      BY <2>6, <2>11
  <1>10. ASSUME NEW k \in Load \ {l} PROVE QuestionOf(k)' /\ AnswerOf(k)'
    BY <1>1, <1>2, <1>5 DEF RequestInv, QuestionOf, AnswerOf, Ends, Matching, Reached, Of
  <1>11. ListInv'
    BY <1>1, <1>2 DEF ListInv, Matching, InOrder, Bounded, Covered, InList, Of
  <1>12. QED
    BY <1>8, <1>9, <1>10, <1>11 DEF RequestInv

\* A first page is the whole list.
LEMMA ShowStep ==
    ASSUME IInv, NEW l \in Load, Show(l)
    PROVE  StampedInv' /\ RequestInv' /\ ListInv'
  <1>1. TypeOK /\ StampedInv /\ RequestInv /\ ListInv
    BY DEF IInv
  <1>2. /\ UNCHANGED <<time, log>> /\ (\A e : Of(e)' = Of(e))
        /\ pages' = <<load[l].page>> /\ filter' = load[l].filter
        /\ tail' = load[l].next /\ due' = load[l].due /\ intact' = TRUE
        /\ stale' = {k \in Load : k # l /\ load[k].at # "idle"}
    BY DEF Show, service, Of
  <1>3. load'[l] = Idle /\ \A k \in Load \ {l} : load'[k] = load[k]
    BY <1>1, RequestType DEF Show, Settle
  <1>4. DOMAIN pages' = {1} /\ pages'[1] = load[l].page
    BY <1>2
  <1>5. /\ AnswerOf(l) /\ load[l].at = "answered" /\ load[l].reset
        /\ Stamped(load[l].page) /\ Stamped(load[l].due)
    BY <1>1 DEF RequestInv, StampedInv, Show
  <1>6. StampedInv'
    BY <1>1, <1>2, <1>3, <1>4, <1>5 DEF StampedInv, Stamped, Idle
  <1>7. QuestionOf(l)' /\ AnswerOf(l)'
    BY <1>3 DEF QuestionOf, AnswerOf, Idle
  <1>8. ASSUME NEW k \in Load \ {l} PROVE QuestionOf(k)' /\ AnswerOf(k)'
    BY <1>1, <1>2, <1>3 DEF RequestInv, QuestionOf, AnswerOf, Ends, Matching, Reached, Of
  <1>9. ListInv'
    <2>1. Matching(due, filter)'
      BY <1>2, <1>5 DEF AnswerOf, Matching
    <2>2. InOrder'
      BY <1>4 DEF InOrder
    <2>3. Bounded'
      BY <1>2, <1>4, <1>5 DEF Bounded, AnswerOf, Ends
    <2>4. Covered'
      BY <1>2, <1>4, <1>5 DEF Covered, InList, AnswerOf, Reached
    <2>5. QED
      BY <1>2, <2>1, <2>2, <2>3, <2>4 DEF ListInv
  <1>10. QED
    BY <1>6, <1>7, <1>8, <1>9 DEF RequestInv

\* A further page that follows the list lies behind its bound, and takes the
\* bound along.
LEMMA FollowingPage ==
    ASSUME IInv, NEW l \in Load, Extend(l), Follows(l)
    PROVE  InOrder' /\ Bounded' /\ Covered'
  <1>1. TypeOK /\ StampedInv /\ RequestInv /\ ListInv /\ intact
    BY DEF IInv, Follows
  <1>2. load[l] \in Request /\ tail \in Cursor /\ load[l].page \subseteq Entry
    BY <1>1, RequestType, Sets
  <1>3. /\ UNCHANGED <<time, log, due>> /\ (\A e : Of(e)' = Of(e))
        /\ pages' = Append(pages, load[l].page) /\ tail' = load[l].next
    BY <1>1 DEF Extend, service, Of, Follows
  <1>4. /\ load[l].at = "answered" /\ ~ load[l].reset /\ l \notin stale
        /\ load[l].cursor = tail /\ load[l].filter = filter
    BY DEF Extend, Follows
  <1>5. tail # NoCursor /\ InOrder /\ Bounded /\ Covered /\ AnswerOf(l)
    BY <1>1, <1>4 DEF RequestInv, QuestionOf, ListInv
  <1> DEFINE page == load[l].page
             next == load[l].next
             n == Len(pages)
  <1>6. /\ n \in Nat /\ DOMAIN pages = 1..n /\ DOMAIN pages' = 1..(n + 1)
        /\ pages'[n + 1] = page
        /\ \A i \in 1..n : pages'[i] = pages[i] /\ pages[i] \subseteq Entry
    BY <1>1, <1>2, <1>3 DEF TypeOK
  <1>7. \A e \in page : Older(Of(e), tail)
    BY <1>4, <1>5 DEF AnswerOf
  <1>8. Ends(page, next)
    BY <1>4, <1>5 DEF AnswerOf
  <1> HIDE DEF page, next, n
  <1>9. ASSUME NEW i \in 1..n, NEW e \in pages[i], NEW x \in page PROVE Older(Of(x), Of(e))
    <2>1. Of(x) \in Key /\ Of(e) \in Key /\ tail \in Key
      BY <1>1, <1>2, <1>6, <1>9, OfIsKey, CursorIsKey DEF page
    <2>2. Older(Of(x), tail) /\ ~ Older(Of(e), tail)
      BY <1>5, <1>6, <1>7, <1>9 DEF Bounded
    <2>3. QED
      BY <2>1, <2>2, OlderThroughBound
  <1>10. InOrder'
    <2> SUFFICES ASSUME NEW i \in 1..(n + 1), NEW j \in 1..(n + 1), i < j,
                        NEW e \in pages'[i], NEW x \in pages'[j]
                 PROVE  Older(Of(x), Of(e))
      BY <1>3, <1>6 DEF InOrder
    <2>1. i \in 1..n
      BY <1>6
    <2>2. CASE j \in 1..n
      BY <1>5, <1>6, <2>1, <2>2 DEF InOrder
    <2>3. CASE j = n + 1
      BY <1>6, <1>9, <2>1, <2>3
    <2>4. QED
      BY <1>6, <2>2, <2>3
  <1>11. Bounded'
    <2> SUFFICES ASSUME next # NoCursor, NEW i \in 1..(n + 1), NEW e \in pages'[i]
                 PROVE  ~ Older(Of(e), next)
      BY <1>3, <1>6 DEF Bounded, next
    <2>1. PICK y \in page : next = Of(y)
      BY <1>8 DEF Ends
    <2>2. CASE i \in 1..n
      <3>1. Older(next, Of(e))
        BY <1>6, <1>9, <2>1, <2>2
      <3>2. next \in Key /\ Of(e) \in Key
        BY <1>1, <1>2, <1>6, <2>1, <2>2, OfIsKey DEF page
      <3>3. QED
        BY <3>1, <3>2, OlderAsymmetric
    <2>3. CASE i = n + 1
      BY <1>6, <1>8, <2>3 DEF Ends
    <2>4. QED
      BY <1>6, <2>2, <2>3
  <1>12. Covered'
    <2> SUFFICES ASSUME NEW e \in due \cap log
                 PROVE  InList(e)' \/ (next # NoCursor /\ Older(Of(e), next))
      BY <1>3 DEF Covered, next
    <2>1. InList(e) => InList(e)'
      BY <1>6 DEF InList
    <2>2. ASSUME Older(Of(e), tail) PROVE e \in page \/ (next # NoCursor /\ Older(Of(e), next))
      BY <1>4, <1>5, <2>2 DEF AnswerOf, Reached, page, next
    <2>3. e \in page => InList(e)'
      BY <1>6 DEF InList
    <2>4. QED
      BY <1>5, <2>1, <2>2, <2>3 DEF Covered
  <1>13. QED
    BY <1>10, <1>11, <1>12

LEMMA ExtendStep ==
    ASSUME IInv, NEW l \in Load, Extend(l)
    PROVE  StampedInv' /\ RequestInv' /\ ListInv'
  <1>1. TypeOK /\ StampedInv /\ RequestInv /\ ListInv
    BY DEF IInv
  <1>2. /\ UNCHANGED <<time, log>> /\ (\A e : Of(e)' = Of(e))
        /\ pages' = Append(pages, load[l].page)
        /\ \/ Follows(l) /\ UNCHANGED <<filter, due, stale, intact>>
           \/ ~ Follows(l) /\ ~ intact' /\ filter' = Everybody /\ due' = {}
    BY DEF Extend, service, Of
  <1>3. load'[l] = Idle /\ \A k \in Load \ {l} : load'[k] = load[k]
    BY <1>1, RequestType DEF Extend, Settle
  <1>4. StampedInv'
    <2>1. \A i \in DOMAIN pages' : pages'[i] = load[l].page \/ (i \in DOMAIN pages /\ pages'[i] = pages[i])
      BY <1>1, <1>2, Sets DEF TypeOK
    <2>2. QED
      BY <1>1, <1>2, <1>3, <2>1 DEF StampedInv, Stamped, Idle
  <1>5. QuestionOf(l)' /\ AnswerOf(l)'
    BY <1>3 DEF QuestionOf, AnswerOf, Idle
  <1>6. ASSUME NEW k \in Load \ {l} PROVE QuestionOf(k)' /\ AnswerOf(k)'
    BY <1>1, <1>2, <1>3 DEF RequestInv, QuestionOf, AnswerOf, Ends, Matching, Reached, Of
  <1>7. ListInv'
    <2>1. CASE Follows(l) /\ UNCHANGED <<filter, due, stale, intact>>
      BY <1>1, <2>1, FollowingPage DEF ListInv, Matching, Follows
    <2>2. CASE ~ Follows(l) /\ ~ intact' /\ filter' = Everybody /\ due' = {}
      BY <2>2 DEF ListInv, Matching
    <2>3. QED
      BY <1>2, <2>1, <2>2
  <1>8. QED
    BY <1>4, <1>5, <1>6, <1>7 DEF RequestInv

THEOREM Invariant == Spec => []IInv
  <1>1. TypeOK /\ Init => IInv
    <2> SUFFICES ASSUME TypeOK, Init PROVE IInv
      OBVIOUS
    <2>1. DOMAIN pages = {} /\ due = {} /\ tail = NoCursor
      BY DEF Init
    <2>2. \A l \in Load : /\ load[l].page = {} /\ load[l].due = {} /\ load[l].at # "answered"
                          /\ load[l].at # "idle" => load[l].reset /\ load[l].cursor = NoCursor
      BY DEF Init, Idle
    <2>3. StampedInv
      BY <2>1, <2>2 DEF StampedInv, Stamped
    <2>4. RequestInv
      BY <2>2 DEF RequestInv, QuestionOf, AnswerOf
    <2>5. ListInv
      BY <2>1 DEF ListInv, Matching, InOrder, Bounded, Covered
    <2>6. QED
      BY <2>3, <2>4, <2>5 DEF IInv
  <1>2. IInv /\ TypeOK' /\ [Next]_vars => IInv'
    <2> SUFFICES ASSUME IInv, TypeOK', [Next]_vars PROVE StampedInv' /\ RequestInv' /\ ListInv'
      BY DEF IInv
    <2>1. ASSUME NEW e \in Entry, Write(e) PROVE StampedInv' /\ RequestInv' /\ ListInv'
      <3>1. /\ time[e] = -1 /\ time' = [time EXCEPT ![e] = now] /\ log' = log \cup {e}
            /\ UNCHANGED <<pages, load, history>>
        BY <2>1 DEF Write, screen
      <3>2. \A x \in Entry : time[x] # -1 => time'[x] = time[x]
        BY <3>1 DEF IInv, TypeOK
      <3>3. e \notin due
        BY <3>1 DEF IInv, StampedInv, Stamped
      <3>4. QED
        BY <3>1, <3>2, <3>3, LogStep
    <2>2. ASSUME NEW e \in Entry, Delete(e) PROVE StampedInv' /\ RequestInv' /\ ListInv'
      BY <2>2, LogStep DEF Delete, screen
    <2>3. CASE Tick \/ UNCHANGED vars
      BY <2>3, LogStep DEF Tick, vars, service, screen
    <2>4. ASSUME NEW f \in Filter, Type(f) PROVE StampedInv' /\ RequestInv' /\ ListInv'
      BY <2>4, LogStep DEF Type, service
    <2>5. ASSUME NEW l \in Load, Refresh(l) PROVE StampedInv' /\ RequestInv' /\ ListInv'
      <3> DEFINE r == Question(TRUE, NoCursor)
      <3>1. /\ r.at # "answered" /\ r.page = {} /\ r.due = {}
            /\ r.at # "idle" => (r.reset <=> r.cursor = NoCursor)
        BY DEF Question, Idle
      <3> HIDE DEF r
      <3>2. QED
        BY <2>5, <3>1, AskStep DEF Refresh, r
    <2>6. ASSUME NEW l \in Load, LoadMore(l) PROVE StampedInv' /\ RequestInv' /\ ListInv'
      <3> DEFINE r == Question(FALSE, cursor)
      <3>1. /\ r.at # "answered" /\ r.page = {} /\ r.due = {}
            /\ r.at # "idle" => (r.reset <=> r.cursor = NoCursor)
        BY <2>6 DEF Question, Idle, LoadMore
      <3> HIDE DEF r
      <3>2. QED
        BY <2>6, <3>1, AskStep DEF LoadMore, r
    <2>7. ASSUME NEW l \in Load, Fail(l) PROVE StampedInv' /\ RequestInv' /\ ListInv'
      <3>1. Idle.at = "idle" /\ Idle.page = {} /\ Idle.due = {}
        BY DEF Idle
      <3>2. QED
        BY <2>7, <3>1, AskStep DEF Fail, Settle, history
    <2>8. QED
      BY <2>1, <2>2, <2>3, <2>4, <2>5, <2>6, <2>7, ServeStep, ShowStep, ExtendStep DEF Next
  <1>3. QED
    BY <1>1, <1>2, TypeCorrect, PTL DEF Spec

\* Pages that follow one another hold every entry once and newest first,
\* whatever is written and deleted between them.
THEOREM PagesInOrder == Spec => []NewestFirst
  <1>1. IInv => NewestFirst
    BY DEF IInv, ListInv, NewestFirst
  <1>2. QED
    BY Invariant, <1>1, PTL

\* Every entry there was when the first page was cut, and is there still, is in
\* the list or behind its cursor.
THEOREM PagesComplete == Spec => []NothingSkipped
  <1>1. IInv => NothingSkipped
    BY DEF IInv, ListInv, NothingSkipped, Covered, InList
  <1>2. QED
    BY Invariant, <1>1, PTL
=============================================================================
