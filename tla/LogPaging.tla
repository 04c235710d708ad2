------------------------------- MODULE LogPaging -------------------------------
(***************************************************************************)
(* The access history: get_logs of routes.py cuts the log into pages,      *)
(* newest first, and logs_screen.dart strings them together while unlock   *)
(* calls add entries, removals delete them, and the administrator          *)
(* refreshes, filters and loads more.  Every entry has the server's        *)
(* timestamp.  A page is a set; inside it the order is the query's.        *)
(***************************************************************************)
EXTENDS Integers, Sequences, FiniteSets

CONSTANTS
    Entry,      \* document names, in their order
    Users, Owner,   \* whom each entry is about
    Everybody,  \* no filter
    Load,       \* requests of the screen that may be under way at a time
    Limit,      \* entries asked for
    MaxTime,    \* bound on the clock
    MaxPages    \* bound on the pages of a list

ASSUME EntryAssumption ==
    /\ Entry \subseteq Nat /\ IsFiniteSet(Entry)
    /\ Owner \in [Entry -> Users] /\ Everybody \notin Users
ASSUME LimitAssumption == Limit \in Nat \ {0} /\ MaxTime \in Nat /\ MaxPages \in Nat

Filter == Users \cup {Everybody}
Position == [time : 0..MaxTime, name : Entry]
NoCursor == [time |-> -1, name |-> -1]

VARIABLES
    now,        \* the server's clock
    time,       \* the timestamp of each entry, -1 before it is written
    log,        \* entries stored
    text,       \* what is typed in the filter field
    pages,      \* the pages the list consists of
    cursor, loading, loadingMore,   \* fields of the screen's state
    load,       \* each request: step, question and answer
    filter,     \* history: the filter of the first page of the list
    tail,       \* history: the cursor that came with its last page
    due,        \* history: entries that were to be listed when its first page was cut
    stale,      \* history: requests sent before that page was shown
    intact      \* history: every page of the list was asked for from this list,
                \* to follow its last page, with its filter; if not, the other
                \* histories say nothing

service == <<now, time, log>>
screen == <<text, pages, cursor, loading, loadingMore>>
history == <<filter, tail, due, stale, intact>>
vars == <<service, screen, load, history>>

Idle == [at |-> "idle", reset |-> FALSE, filter |-> Everybody, cursor |-> NoCursor,
         page |-> {}, next |-> NoCursor, due |-> {}]
Question(reset, from) ==
    [Idle EXCEPT !.at = "sent", !.reset = reset, !.filter = text, !.cursor = from]

\* initState starts the first load.
Init ==
    /\ now = 0 /\ time = [e \in Entry |-> -1] /\ log = {}
    /\ text = Everybody
    /\ pages = <<>> /\ cursor = NoCursor /\ loading = TRUE /\ loadingMore = FALSE
    /\ \E l \in Load : load = [k \in Load |->
            IF k = l THEN [Idle EXCEPT !.at = "sent", !.reset = TRUE] ELSE Idle]
    /\ filter = Everybody /\ tail = NoCursor /\ due = {} /\ stale = {} /\ intact = TRUE

-----------------------------------------------------------------------------
(* The log.                                                                *)

\* Variant of Write: the entry is added without a timestamp.
WriteUntimed(e) ==
    /\ time[e] = -1
    /\ log' = log \cup {e}
    /\ UNCHANGED <<now, time, screen, load, history>>

\* _log_event and _pin_log; commits may share a timestamp, names are random.
Write(e) ==
    /\ time[e] = -1
    /\ time' = [time EXCEPT ![e] = now]
    /\ log' = log \cup {e}
    /\ UNCHANGED <<now, screen, load, history>>

\* A removal deletes an entry.
Delete(e) ==
    /\ e \in log
    /\ log' = log \ {e}
    /\ UNCHANGED <<now, time, screen, load, history>>

Tick ==
    /\ now < MaxTime
    /\ now' = now + 1
    /\ UNCHANGED <<time, log, screen, load, history>>

-----------------------------------------------------------------------------
(* get_logs.                                                               *)

Of(e) == [time |-> time[e], name |-> e]

\* order_by timestamp and __name__, both descending.
Older(p, q) == p.time < q.time \/ (p.time = q.time /\ p.name < q.name)

Listed(f) == {e \in log : f = Everybody \/ Owner[e] = f}

\* Variant of After: start_at.
AfterOrAt(S, from) == {e \in S : from = NoCursor \/ ~ Older(from, Of(e))}

\* Variant of After: the cursor has no document name.
AfterTime(S, from) == {e \in S : from = NoCursor \/ time[e] < from.time}

\* start_after takes the values of the cursor: its document may be gone.
After(S, from) == {e \in S : from = NoCursor \/ Older(Of(e), from)}

\* query.limit(n): the n newest.
Newest(S, n) ==
    {T \in SUBSET S :
        /\ Cardinality(T) = n \/ (T = S /\ Cardinality(T) < n)
        /\ \A e \in T, x \in S \ T : Older(Of(x), Of(e))}

\* One entry more than asked for tells whether there is another page; its
\* cursor is the last entry of this one.
Serve(l) ==
    /\ load[l].at = "sent"
    /\ LET S == After(Listed(load[l].filter), load[l].cursor) IN
       \E fetched \in Newest(S, Limit + 1) : \E page \in Newest(fetched, Limit) :
        \E next \in IF Cardinality(fetched) > Limit
                    THEN {Of(e) : e \in {x \in page : \A y \in page : ~ Older(Of(y), Of(x))}}
                    ELSE {NoCursor} :
         load' = [load EXCEPT ![l] = [@ EXCEPT !.at = "answered",
                    !.page = page, !.next = next, !.due = IF load[l].reset THEN S ELSE {}]]
    /\ UNCHANGED <<service, screen, history>>

-----------------------------------------------------------------------------
(* logs_screen.dart.                                                       *)

Type(f) ==
    /\ text # f
    /\ text' = f
    /\ UNCHANGED <<service, pages, cursor, loading, loadingMore, load, history>>

\* A pull, a submitted filter or a retry: _load(reset: true).
Refresh(l) ==
    /\ load[l].at = "idle"
    /\ load' = [load EXCEPT ![l] = Question(TRUE, NoCursor)]
    /\ loading' = TRUE
    /\ cursor' = NoCursor
    /\ stale' = stale \ {l}
    /\ UNCHANGED <<service, text, pages, loadingMore, filter, tail, due, intact>>

\* The button is there below a list, unless a spinner stands in its place.
LoadMore(l) ==
    /\ load[l].at = "idle"
    /\ ~ loading /\ ~ loadingMore
    /\ Len(pages) < MaxPages
    /\ cursor # NoCursor /\ \E i \in DOMAIN pages : pages[i] # {}
    /\ load' = [load EXCEPT ![l] = Question(FALSE, cursor)]
    /\ loadingMore' = TRUE
    /\ stale' = stale \ {l}
    /\ UNCHANGED <<service, text, pages, cursor, loading, filter, tail, due, intact>>

\* The flags are cleared whichever load ends.
Settle(l) ==
    /\ load' = [load EXCEPT ![l] = Idle]
    /\ loading' = FALSE /\ loadingMore' = FALSE

Show(l) ==
    /\ load[l].at = "answered"
    /\ load[l].reset
    /\ Settle(l)
    /\ pages' = <<load[l].page>>
    /\ cursor' = load[l].next
    /\ filter' = load[l].filter /\ tail' = load[l].next /\ due' = load[l].due
    /\ stale' = {k \in Load : k # l /\ load[k].at # "idle"}
    /\ intact' = TRUE
    /\ UNCHANGED <<service, text>>

Follows(l) == intact /\ l \notin stale /\ load[l].cursor = tail /\ load[l].filter = filter

Extend(l) ==
    /\ load[l].at = "answered"
    /\ ~ load[l].reset
    /\ Settle(l)
    /\ pages' = Append(pages, load[l].page)
    /\ cursor' = load[l].next
    /\ \/ Follows(l) /\ tail' = load[l].next /\ UNCHANGED <<filter, due, stale, intact>>
       \/ ~ Follows(l) /\ intact' = FALSE
          /\ filter' = Everybody /\ tail' = NoCursor /\ due' = {} /\ stale' = {}
    /\ UNCHANGED <<service, text>>

\* An error or the time limit of 30 seconds.
Fail(l) ==
    /\ load[l].at # "idle"
    /\ Settle(l)
    /\ UNCHANGED <<service, text, pages, cursor, history>>

Next ==
    \/ \E e \in Entry : Write(e) \/ Delete(e)
    \/ Tick
    \/ \E f \in Filter : Type(f)
    \/ \E l \in Load : Refresh(l) \/ LoadMore(l) \/ Serve(l) \/ Show(l) \/ Extend(l) \/ Fail(l)

Spec == Init /\ [][Next]_vars

-----------------------------------------------------------------------------
\* Every variable keeps its type.
TypeOK ==
    /\ now \in 0..MaxTime
    /\ time \in [Entry -> -1..MaxTime]
    /\ log \subseteq {e \in Entry : time[e] # -1}
    /\ text \in Filter /\ filter \in Filter
    /\ pages \in Seq(SUBSET Entry)
    /\ cursor \in Position \cup {NoCursor} /\ tail \in Position \cup {NoCursor}
    /\ loading \in BOOLEAN /\ loadingMore \in BOOLEAN /\ intact \in BOOLEAN
    /\ load \in [Load -> [at : {"idle", "sent", "answered"}, reset : BOOLEAN, filter : Filter,
                          cursor : Position \cup {NoCursor}, page : SUBSET Entry,
                          next : Position \cup {NoCursor}, due : SUBSET Entry]]
    /\ due \subseteq Entry
    /\ stale \subseteq Load

InOrder ==
    \A i, j \in DOMAIN pages : i < j =>
        \A e \in pages[i], x \in pages[j] : Older(Of(x), Of(e))

\* "Review face and PIN decisions, newest first" (logs_screen.dart), and none
\* twice, unless a page was added that belongs to an earlier list or a filter
\* not yet applied.
NewestFirst == intact => InOrder

\* With the same proviso no entry is skipped: what was in the log when the first
\* page was cut and is still there is in the list, or comes after the cursor,
\* whatever is written and deleted in the meantime.
NothingSkipped ==
    intact => \A e \in due \cap log :
        \/ \E i \in DOMAIN pages : e \in pages[i]
        \/ tail # NoCursor /\ Older(Of(e), tail)
=============================================================================
