----------------------------- MODULE DeviceTokens ------------------------------
(***************************************************************************)
(* The notification devices of one user (fcm.py, with register_device and  *)
(* deregister_device of routes.py).  Administrators register and           *)
(* deregister tokens, unlock calls notify every active token and switch    *)
(* off those FCM reports as dead, and a removal of the user deletes        *)
(* documents, all at once; every Firestore access is a step.               *)
(***************************************************************************)
EXTENDS Integers, Sequences, FiniteSets

CONSTANTS
    Token,      \* registration tokens of the administrators' phones
    Unused,     \* an identifier that was never given out
    Deleted,    \* the identifier of a deleted document: never given out again
    NoToken,    \* a call that is not there has no token
    Doc,        \* document identifiers, in the order Firestore lists them
    Call,       \* register_device and deregister_device calls at a time
    Unlock,     \* unlock calls notifying at a time
    ChunkSize   \* FCM_MAX_MULTICAST_TOKENS

ASSUME DocAssumption ==
    /\ Doc \subseteq Nat /\ IsFiniteSet(Doc)
    /\ Token \cap {Unused, Deleted, NoToken} = {} /\ Unused # Deleted
ASSUME ChunkAssumption == ChunkSize \in Nat \ {0}

VARIABLES
    held,       \* the token of each document
    active,     \* documents with is_active
    dead,       \* tokens FCM no longer knows; it never revives one
    call,       \* per call: step, token, and the document its query found
    at,         \* step of each notification
    list,       \* the tokens it read
    start,      \* how many of them its finished chunks took
    bad,        \* positions in the chunk that are still to be switched off
    hand,       \* the document its clean-up found
    found,      \* history: the tokens that were active when it read them
    tried,      \* history: how often it tried each token
    overlapped, \* history: tokens of which two registrations ran at once
    alone,      \* history: deregistrations no registration of the token ran with,
                \* of tokens that are not overlapped
    quiet       \* history: tokens whose last answered call was such a one

documents == <<held, active>>
notification == <<at, list, start, bad, hand, found, tried>>
history == <<overlapped, alone, quiet>>
vars == <<documents, dead, call, notification, history>>

NoDoc == -1
Idle == [at |-> "idle", token |-> NoToken, doc |-> NoDoc]

Init ==
    /\ held = [d \in Doc |-> Unused] /\ active = {}
    /\ dead = {}
    /\ call = [c \in Call |-> Idle]
    /\ at = [u \in Unlock |-> "idle"]
    /\ list = [u \in Unlock |-> <<>>]
    /\ start = [u \in Unlock |-> 0]
    /\ bad = [u \in Unlock |-> {}]
    /\ hand = [u \in Unlock |-> NoDoc]
    /\ found = [u \in Unlock |-> {}]
    /\ tried = [u \in Unlock |-> [t \in Token |-> 0]]
    /\ overlapped = {} /\ alone = {} /\ quiet = {}

\* Variant of With: inactive documents are passed over.
WithActive(t) == {d \in active : held[d] = t}

\* The documents where("token", "==", t) matches.
With(t) == {d \in Doc : held[d] = t}

Stored(d) == d \in Doc /\ held[d] \in Token

\* limit(1) takes the first in the order of the identifiers.
First(S) == CHOOSE d \in S : \A e \in S : d <= e

-----------------------------------------------------------------------------
(* register_device: store_device_token.                                    *)

Storing == {"store", "update", "create"}
Goto(c, step, t, d) == call' = [call EXCEPT ![c] = [at |-> step, token |-> t, doc |-> d]]

Register(c, t) ==
    /\ call[c].at = "idle"
    /\ Goto(c, "store", t, NoDoc)
    /\ overlapped' = overlapped \cup
         {x \in {t} : \E k \in Call : call[k].token = x /\ call[k].at \in Storing}
    /\ alone' = {k \in alone : call[k].token # t}
    /\ quiet' = quiet \ {t}
    /\ UNCHANGED <<documents, dead, notification>>

\* Variant of FindExisting: every registration creates a document.
FindNone(c) ==
    /\ call[c].at = "store"
    /\ Goto(c, "create", call[c].token, NoDoc)
    /\ UNCHANGED <<documents, dead, notification, history>>

FindExisting(c) ==
    /\ call[c].at = "store"
    /\ LET t == call[c].token IN
       \/ With(t) # {} /\ Goto(c, "update", t, First(With(t)))
       \/ With(t) = {} /\ Goto(c, "create", t, NoDoc)
    /\ UNCHANGED <<documents, dead, notification, history>>

\* Variant of Update: set with merge in place of update.
UpdateBySet(c) ==
    /\ call[c].at = "update"
    /\ active' = active \cup {call[c].doc}
    /\ call' = [call EXCEPT ![c] = Idle]
    /\ UNCHANGED <<held, dead, notification, history>>

\* update raises if a removal has deleted the document.
Update(c) ==
    /\ call[c].at = "update"
    /\ active' = active \cup {d \in {call[c].doc} : Stored(d)}
    /\ call' = [call EXCEPT ![c] = Idle]
    /\ UNCHANGED <<held, dead, notification, history>>

\* The new identifier is random: any place in the order.
Create(c) ==
    /\ call[c].at = "create"
    /\ \E d \in Doc :
        /\ held[d] = Unused
        /\ held' = [held EXCEPT ![d] = call[c].token]
        /\ active' = active \cup {d}
    /\ call' = [call EXCEPT ![c] = Idle]
    /\ UNCHANGED <<dead, notification, history>>

-----------------------------------------------------------------------------
(* deregister_device: deactivate_device_token.                             *)

Deregister(c, t) ==
    /\ call[c].at = "idle"
    /\ Goto(c, "find", t, NoDoc)
    /\ alone' = IF \/ t \in overlapped
                   \/ \E k \in Call : call[k].token = t /\ call[k].at \in Storing
                THEN alone ELSE alone \cup {c}
    /\ UNCHANGED <<documents, dead, notification, overlapped, quiet>>

\* The call is answered "Device deregistered", also when nothing was found.
Answer(c) ==
    /\ call' = [call EXCEPT ![c] = Idle]
    /\ alone' = alone \ {c}
    /\ quiet' = IF c \in alone THEN quiet \cup {call[c].token} ELSE quiet
    /\ UNCHANGED overlapped

Find(c) ==
    /\ call[c].at = "find"
    /\ LET t == call[c].token IN
       \/ With(t) = {} /\ Answer(c)
       \/ With(t) # {} /\ Goto(c, "disable", t, First(With(t))) /\ UNCHANGED history
    /\ UNCHANGED <<documents, dead, notification>>

Disable(c) ==
    /\ call[c].at = "disable"
    /\ Stored(call[c].doc)
    /\ active' = active \ {call[c].doc}
    /\ Answer(c)
    /\ UNCHANGED <<held, dead, notification>>

\* An access raises, for one because the document is gone, or the call is
\* killed; one that raised after its effect is the step that had the effect.
Abort(c) ==
    /\ call[c].at # "idle"
    /\ call' = [call EXCEPT ![c] = Idle]
    /\ alone' = alone \ {c}
    /\ UNCHANGED <<documents, dead, notification, overlapped, quiet>>

-----------------------------------------------------------------------------
(* send_unlock_notification.                                               *)

ActiveTokens == {held[d] : d \in active}

InOrder(S) ==
    {f \in [1..Cardinality(S) -> S] : \A i, j \in DOMAIN f : i < j => f[i] < f[j]}

\* Variant of Listings: a token is listed once for each active document.
ListingsPerDocument == {[i \in DOMAIN f |-> held[f[i]]] : f \in InOrder(active)}

\* get_active_tokens_for_user: each active token where the stream first has it.
Listings ==
    LET firsts == {First({e \in active : held[e] = t}) : t \in ActiveTokens}
    IN  {[i \in DOMAIN f |-> held[f[i]]] : f \in InOrder(firsts)}

ReadTokens(u) ==
    /\ at[u] = "idle"
    /\ at' = [at EXCEPT ![u] = "send"]
    /\ \E l \in Listings : list' = [list EXCEPT ![u] = l]
    /\ found' = [found EXCEPT ![u] = ActiveTokens]
    /\ UNCHANGED <<documents, dead, call, start, bad, hand, tried, history>>

\* Variant of Culprit: the position is looked up in the complete list.
CulpritInList(u, i) == list[u][i]

\* Responses are matched to the chunk's tokens by position.
Culprit(u, i) == list[u][start[u] + i]

Chunk(u) == {i \in 1..ChunkSize : start[u] + i <= Len(list[u])}
Attempt(u) ==
    tried' = [tried EXCEPT ![u] =
        [t \in Token |-> @[t] + Cardinality({i \in Chunk(u) : list[u][start[u] + i] = t})]]

\* Variant of Send: only the last chunk is cleaned up after.
SendCleaningLast(u, reported) ==
    /\ at[u] = "send"
    /\ start[u] < Len(list[u])
    /\ Attempt(u)
    /\ bad' = [bad EXCEPT ![u] = IF start[u] + ChunkSize < Len(list[u]) THEN {} ELSE reported]
    /\ at' = [at EXCEPT ![u] = "clean"]
    /\ UNCHANGED <<documents, dead, call, list, start, hand, found, history>>

\* FCM answers for every token of the chunk; what it reports as dead is.
Send(u, reported) ==
    /\ at[u] = "send"
    /\ start[u] < Len(list[u])
    /\ Attempt(u)
    /\ bad' = [bad EXCEPT ![u] = reported]
    /\ at' = [at EXCEPT ![u] = "clean"]
    /\ UNCHANGED <<documents, dead, call, list, start, hand, found, history>>

Dead(u) == {i \in Chunk(u) : list[u][start[u] + i] \in dead}

\* The send of a chunk raises; the next chunk is sent all the same.
SendRaises(u) ==
    /\ at[u] = "send"
    /\ start[u] < Len(list[u])
    /\ Attempt(u)
    /\ start' = [start EXCEPT ![u] = @ + ChunkSize]
    /\ UNCHANGED <<documents, dead, call, at, list, bad, hand, found, history>>

\* deactivate_device_token's query for the first position to be cleaned.
Clean(u) ==
    /\ at[u] = "clean"
    /\ bad[u] # {}
    /\ LET i == First(bad[u])
           docs == With(Culprit(u, i)) IN
        /\ bad' = [bad EXCEPT ![u] = @ \ {i}]
        /\ \/ docs # {}
              /\ hand' = [hand EXCEPT ![u] = First(docs)]
              /\ at' = [at EXCEPT ![u] = "drop"]
           \/ docs = {} /\ UNCHANGED <<hand, at>>
    /\ UNCHANGED <<documents, dead, call, list, start, found, tried, history>>

Drop(u) ==
    /\ at[u] = "drop"
    /\ Stored(hand[u])
    /\ active' = active \ {hand[u]}
    /\ hand' = [hand EXCEPT ![u] = NoDoc]
    /\ at' = [at EXCEPT ![u] = "clean"]
    /\ UNCHANGED <<held, dead, call, list, start, bad, found, tried, history>>

NextChunk(u) ==
    /\ at[u] = "clean"
    /\ bad[u] = {}
    /\ start' = [start EXCEPT ![u] = @ + ChunkSize]
    /\ at' = [at EXCEPT ![u] = "send"]
    /\ UNCHANGED <<documents, dead, call, list, bad, hand, found, tried, history>>

Stop(u) ==
    /\ at' = [at EXCEPT ![u] = "idle"]
    /\ list' = [list EXCEPT ![u] = <<>>]
    /\ start' = [start EXCEPT ![u] = 0]
    /\ bad' = [bad EXCEPT ![u] = {}]
    /\ hand' = [hand EXCEPT ![u] = NoDoc]
    /\ found' = [found EXCEPT ![u] = {}]
    /\ tried' = [tried EXCEPT ![u] = [t \in Token |-> 0]]
    /\ UNCHANGED <<documents, dead, call, history>>

Ended(u) == at[u] = "send" /\ start[u] >= Len(list[u])

Finish(u) == Ended(u) /\ Stop(u)

\* An access raises or the call is killed: what is left is not notified.
Break(u) == at[u] # "idle" /\ Stop(u)

\* So it is if the document was deleted since the query (the unlock call logs it).
Gone(u) == at[u] = "drop" /\ ~ Stored(hand[u]) /\ Stop(u)

-----------------------------------------------------------------------------
\* _delete_device_subcollection deletes a document it has listed.
DeleteDevice(d) ==
    /\ Stored(d)
    /\ held' = [held EXCEPT ![d] = Deleted]
    /\ active' = active \ {d}
    /\ UNCHANGED <<dead, call, notification, history>>

\* The app is uninstalled, or its token replaced.
Expire(t) ==
    /\ t \notin dead
    /\ dead' = dead \cup {t}
    /\ UNCHANGED <<documents, call, notification, history>>

Serve(c) ==
    \/ \E t \in Token : Register(c, t) \/ Deregister(c, t)
    \/ FindExisting(c) \/ Update(c) \/ Create(c) \/ Find(c) \/ Disable(c) \/ Abort(c)

Proceed(u) ==
    \/ ReadTokens(u) \/ Send(u, Dead(u)) \/ Clean(u) \/ Drop(u) \/ Gone(u)
    \/ NextChunk(u) \/ Finish(u)

\* Dead tokens may be reported as failing for now.
Faulty(u) ==
    \/ \E reported \in SUBSET Dead(u) : Send(u, reported)
    \/ SendRaises(u) \/ Break(u)

Next ==
    \/ \E c \in Call : Serve(c)
    \/ \E u \in Unlock : Proceed(u) \/ Faulty(u)
    \/ \E d \in Doc : DeleteDevice(d)
    \/ \E t \in Token : Expire(t)

Spec == Init /\ [][Next]_vars

\* The user keeps unlocking, and accesses fail only for a while.
Fairness ==
    /\ \A u \in Unlock : WF_vars(Proceed(u))
    /\ <>[][\A u \in Unlock : Faulty(u) => Proceed(u)]_vars

FairSpec == Spec /\ Fairness

-----------------------------------------------------------------------------
\* Every variable keeps its type, and only documents that exist are active.
TypeOK ==
    /\ held \in [Doc -> Token \cup {Unused, Deleted}]
    /\ active \subseteq Doc /\ \A d \in active : Stored(d)
    /\ dead \subseteq Token
    /\ call \in [Call -> [at : {"idle", "store", "update", "create", "find", "disable"},
                          token : Token \cup {NoToken}, doc : Doc \cup {NoDoc}]]
    /\ at \in [Unlock -> {"idle", "send", "clean", "drop"}]
    /\ list \in [Unlock -> Seq(Token)]
    /\ start \in [Unlock -> Nat]
    /\ bad \in [Unlock -> SUBSET (1..ChunkSize)]
    /\ hand \in [Unlock -> Doc \cup {NoDoc}]
    /\ found \in [Unlock -> SUBSET Token]
    /\ tried \in [Unlock -> [Token -> Nat]]
    /\ overlapped \subseteq Token /\ alone \subseteq Call /\ quiet \subseteq Token

\* "Deduplicates by token so the same device re-registering updates its metadata
\* rather than creating a duplicate" (store_device_token), as long as no two
\* registrations of the token ran at once.
OneDocument ==
    \A d, e \in Doc : held[d] = held[e] /\ held[d] \in Token \ overlapped => d = e

\* "Notifications disabled." (the app, when deregister_device has answered): a
\* deregistration that ran with no registration of its token leaves no active
\* document of it, with the same proviso.
DisabledIsQuiet == \A d \in active : held[d] \notin quiet

\* A registration that is not deleted is switched off only by a deregistration
\* of its token or because FCM reported that token: a response is never charged
\* to the token of another chunk.
SwitchedOffForCause ==
    [][\A d \in active \ active' :
         \/ held'[d] = Deleted
         \/ held[d] \in dead
         \/ \E c \in Call : call[c].at = "disable" /\ call[c].token = held[d]]_vars

\* A notification that runs to its end has tried every token that was active
\* when it began, once, however many documents a token has and chunks failed.
EachTriedOnce ==
    \A u \in Unlock : Ended(u) =>
        \A t \in Token : tried[u][t] = IF t \in found[u] THEN 1 ELSE 0

\* Clean-up works in the end: a dead token is at some time not active, if the
\* user keeps unlocking and two registrations of it never ran at once.
DeadAreCleaned ==
    \A t \in Token : t \in dead ~> t \notin ActiveTokens \/ t \in overlapped
=============================================================================
