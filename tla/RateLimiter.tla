----------------------------- MODULE RateLimiter -----------------------------
(***************************************************************************)
(* check_rate_limit (app/auth.py:124-138): the sliding window of one       *)
(* session, shared by the handlers of POST /interactions (on the event     *)
(* loop), POST /qa and POST /briefs (in worker threads).  The window is a  *)
(* plain Python list without a lock; between two of its operations another *)
(* handler may run.  Windows of different sessions share nothing.  Nothing *)
(* reads the order of a list, so it is kept as the set of its entries, each *)
(* its time and the number of the check that appended it.                  *)
(***************************************************************************)
EXTENDS Naturals, FiniteSets

CONSTANTS
    Handlers,  \* the handlers that may be inside check_rate_limit at once
    Limit,     \* rate_limit_per_minute
    Minute,    \* the 60 seconds, in clock ticks
    LastTick,  \* bound: the clock stops here
    Burst      \* bound: no check starts in a tick in which so many passed

ASSUME LimiterAssumption ==
    /\ Limit \in Nat \ {0}
    /\ Minute \in Nat \ {0}
    /\ LastTick \in Nat
    /\ Burst \in Nat \ {0}

VARIABLES
    clock,     \* time.time()
    window,    \* _rate_windows[session_token]
    handler,   \* per handler: its place in the function, its now and its list
    admitted,  \* history: the entries of all checks that have passed
    refused,   \* history: the handlers whose last check raised 429
    met,       \* history: the handlers that met another one inside
    alone      \* history: the entries of the passed checks that met no other

vars == <<clock, window, handler, admitted, refused, met, alone>>

Ticks == 0..LastTick

Idle == [pc |-> "idle", now |-> 0, recent |-> {}]

\* The checks that have passed with this now, and the entry of the next one.
PassedAt(now) == {e \in admitted : e[1] = now}
Entry(now) == <<now, Cardinality(PassedAt(now))>>

\* The comprehension [t for t in window if now - t < 60].
Recent_Inclusive(w, now) == {e \in w : now <= e[1] + Minute}
Recent(w, now) == {e \in w : now < e[1] + Minute}

\* len(window) >= settings.rate_limit_per_minute
Full_OneMore(w) == Cardinality(w) > Limit
Full(w) == Cardinality(w) >= Limit

\* The other handlers of the session that are inside check_rate_limit.
OthersInside(h) == {g \in Handlers \ {h} : handler[g].pc # "idle"}

Init ==
    /\ clock = 0
    /\ window = {}
    /\ handler = [h \in Handlers |-> Idle]
    /\ admitted = {}
    /\ refused = {}
    /\ met = {}
    /\ alone = {}

Tick ==
    /\ clock < LastTick
    /\ clock' = clock + 1
    /\ UNCHANGED <<window, handler, admitted, refused, met, alone>>

\* now = time.time(), and the right-hand side of the slice assignment.
ReadWindow(h) ==
    /\ handler[h].pc = "idle"
    /\ Cardinality(PassedAt(clock)) < Burst
    /\ handler' = [handler EXCEPT ![h] =
          [pc |-> "write", now |-> clock, recent |-> Recent(window, clock)]]
    /\ refused' = refused \ {h}
    /\ met' = IF OthersInside(h) = {} THEN {} ELSE OthersInside(h) \cup {h}
    /\ UNCHANGED <<clock, window, admitted, alone>>

\* The check appends before it counts.
WriteWindow_AppendFirst(h) ==
    /\ handler[h].pc = "write"
    /\ window' = handler[h].recent \cup {Entry(handler[h].now)}
    /\ handler' = [handler EXCEPT ![h].pc = "count", ![h].recent = {}]
    /\ UNCHANGED <<clock, admitted, refused, met, alone>>

\* window[:] = ...
WriteWindow(h) ==
    /\ handler[h].pc = "write"
    /\ window' = handler[h].recent
    /\ handler' = [handler EXCEPT ![h].pc = "count", ![h].recent = {}]
    /\ UNCHANGED <<clock, admitted, refused, met, alone>>

\* if len(window) >= settings.rate_limit_per_minute: raise 429
Count(h) ==
    /\ handler[h].pc = "count"
    /\ IF Full(window)
       THEN /\ handler' = [handler EXCEPT ![h] = Idle]
            /\ refused' = refused \cup {h}
       ELSE /\ handler' = [handler EXCEPT ![h].pc = "append"]
            /\ UNCHANGED refused
    /\ UNCHANGED <<clock, window, admitted, met, alone>>

\* window.append(now), and the handler goes on to its service.
Admit(h) ==
    /\ handler[h].pc = "append"
    /\ window' = window \cup {Entry(handler[h].now)}
    /\ admitted' = admitted \cup {Entry(handler[h].now)}
    /\ alone' = IF h \in met THEN alone ELSE alone \cup {Entry(handler[h].now)}
    /\ handler' = [handler EXCEPT ![h] = Idle]
    /\ UNCHANGED <<clock, refused, met>>

Next ==
    \/ Tick
    \/ \E h \in Handlers :
          ReadWindow(h) \/ WriteWindow(h) \/ Count(h) \/ Admit(h)

Spec == Init /\ [][Next]_vars

-----------------------------------------------------------------------------
(* Properties                                                              *)

\* The checks that have passed with a now in the minute that ends at t.
PassedIn(t) == {e \in admitted : e[1] <= t /\ t < e[1] + Minute}

\* At most Limit requests of a session pass in any minute, wherever that
\* minute starts (auth.py:125, qa/test_rate_limit_lockout.py:22).
WithinLimit == \A t \in Ticks : Cardinality(PassedIn(t)) <= Limit

\* So it is for the requests that met no other of their session inside,
\* whatever overlapped before, after and in between: handlers that overlap lose
\* each other's entries, never the entry of such a request.
WithinLimitAlone == \A t \in Ticks : Cardinality(PassedIn(t) \cap alone) <= Limit

\* A request that meets no other inside is refused only if its session has
\* used up its minute, never because of requests that have left the window,
\* nor of refused ones, whatever overlapped before it.
RefusedOnlyWhenSpent ==
    [][\A h \in Handlers :
          (h \notin met /\ h \in refused' \ refused)
              => Cardinality(PassedIn(handler[h].now)) >= Limit]_vars

\* Every entry of the window stands for a passed check of its own: handlers
\* that write back each other's lists lose entries but never invent one, so
\* a session is never refused for requests that it did not make.
EntriesAreAdmissions == window \subseteq admitted
=============================================================================
