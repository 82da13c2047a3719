---------------------------- MODULE LoginLockout ----------------------------
(***************************************************************************)
(* The login lockout of one client key: is_locked_out, record_login_failure *)
(* and record_login_success (app/auth.py:58-73) as POST /auth/login calls   *)
(* them (app/routers/auth_router.py:31-57).  The handler is `def`, so       *)
(* attempts of one client run in worker threads and interleave; the dict,   *)
(* the state object and its list are shared and have no lock.               *)
(*                                                                          *)
(* A thread keeps the state object it was given even after another thread   *)
(* has popped it from the dict, and appends to the list it was given even   *)
(* after another thread has bound a filtered copy in its place.  Nothing    *)
(* reads the order of a list, so it is kept as the set of its entries, each *)
(* a time and a number that tells it from the others of that time.          *)
(***************************************************************************)
EXTENDS Naturals, FiniteSets

CONSTANTS
    Attempts,     \* the attempts that may be in the handler at once
    States,       \* identities of _LockoutState objects
    NoState,      \* the dict has no entry for the client
    MaxFailures,  \* login_lockout_attempts
    Window,       \* login_lockout_window_minutes, in clock ticks
    LastTick,     \* bound: the clock stops here
    Burst         \* bound: failures in one tick, after which none starts

ASSUME LockoutAssumption ==
    /\ NoState \notin States
    /\ MaxFailures \in Nat \ {0}
    /\ Window \in Nat \ {0}
    /\ LastTick \in Nat
    /\ Burst \in Nat \ {0}

VARIABLES
    clock,     \* time.time()
    lockout,   \* _lockouts.get(client_key)
    failures,  \* the list bound to each state object
    attempt,   \* per attempt: its place in login and what it holds
    failed,    \* history: the entries of the answers 401 since the last success
    locked,    \* history: the attempts whose last answer was 429
    met,       \* history: the attempts that met another one in the handler
    alone      \* history: the entries of failed whose attempt met no other

vars == <<clock, lockout, failures, attempt, failed, locked, met, alone>>

Ticks == 0..LastTick

\* "now" is the time the attempt's check read, "state" the object it holds,
\* "seen" its filtered copy of that object's list, and "bound" whether the list
\* it is about to append to is still the one bound to "state".
Holding(pc, state, bound) ==
    [pc |-> pc, now |-> 0, state |-> state, seen |-> {}, bound |-> bound]

Idle == Holding("idle", NoState, FALSE)

InUse == {lockout} \cup {attempt[a].state : a \in Attempts}

\* The entries that are in some list or in the history.
Known == failed \cup UNION {failures[s] : s \in States}
                \cup UNION {attempt[a].seen : a \in Attempts}

\* [t for t in state.failures if t >= window_start]
Recent_Exclusive(fs, now) == {e \in fs : e[1] + Window > now}
Recent(fs, now) == {e \in fs : e[1] + Window >= now}

\* The other attempts that are in the handler.
OthersInside(a) == {b \in Attempts \ {a} : attempt[b].pc # "idle"}

Init ==
    /\ clock = 0
    /\ lockout = NoState
    /\ failures = [s \in States |-> {}]
    /\ attempt = [a \in Attempts |-> Idle]
    /\ failed = {}
    /\ locked = {}
    /\ met = {}
    /\ alone = {}

Tick ==
    /\ clock < LastTick
    /\ clock' = clock + 1
    /\ UNCHANGED <<lockout, failures, attempt, failed, locked, met, alone>>

\* _lockouts.get(client_key); without a state the client is not locked out.
\* With one, the comprehension is evaluated.
LookUp(a) ==
    /\ attempt[a].pc = "idle"
    /\ Cardinality({e \in failed : e[1] = clock}) < Burst
    /\ attempt' = [attempt EXCEPT ![a] =
          IF lockout = NoState
          THEN Holding("compare", NoState, FALSE)
          ELSE [pc |-> "rebind", now |-> clock, state |-> lockout, bound |-> FALSE,
                seen |-> Recent(failures[lockout], clock)]]
    /\ locked' = locked \ {a}
    /\ met' = IF OthersInside(a) = {} THEN {} ELSE OthersInside(a) \cup {a}
    /\ UNCHANGED <<clock, lockout, failures, failed, alone>>

\* state.failures = ...: whoever held the old list now appends to a list that
\* nobody will read.
Rebind(a) ==
    LET s == attempt[a].state
    IN  /\ attempt[a].pc = "rebind"
        /\ failures' = [failures EXCEPT ![s] = attempt[a].seen]
        /\ attempt' = [b \in Attempts |->
               IF b = a THEN [attempt[a] EXCEPT !.pc = "count", !.seen = {}]
               ELSE IF attempt[b].state = s THEN [attempt[b] EXCEPT !.bound = FALSE]
               ELSE attempt[b]]
        /\ UNCHANGED <<clock, lockout, failed, locked, met, alone>>

\* len(state.failures) >= settings.login_lockout_attempts
Spent_OneEarly(fs) == Cardinality(fs) + 1 >= MaxFailures
Spent(fs) == Cardinality(fs) >= MaxFailures

\* 429, or on to the credentials.
Count(a) ==
    /\ attempt[a].pc = "count"
    /\ IF Spent(failures[attempt[a].state])
       THEN /\ attempt' = [attempt EXCEPT ![a] = Idle]
            /\ locked' = locked \cup {a}
       ELSE /\ attempt' = [attempt EXCEPT ![a] = Holding("compare", NoState, FALSE)]
            /\ UNCHANGED locked
    /\ UNCHANGED <<clock, lockout, failures, failed, met, alone>>

\* Wrong credentials: setdefault(...).failures, the list to append to.
CompareWrong(a) ==
    /\ attempt[a].pc = "compare"
    /\ \E s \in States :
          /\ IF lockout = NoState THEN s \notin InUse ELSE s = lockout
          /\ lockout' = s
          /\ failures' = IF lockout = NoState
                         THEN [failures EXCEPT ![s] = {}] ELSE failures
          /\ attempt' = [attempt EXCEPT ![a] = Holding("append", s, TRUE)]
    /\ UNCHANGED <<clock, failed, locked, met, alone>>

\* .append(time.time()), then 401.
RecordFailure(a) ==
    LET s == attempt[a].state
    IN  /\ attempt[a].pc = "append"
        /\ \E n \in 0..Cardinality(Known) :
              /\ <<clock, n>> \notin Known
              /\ \A m \in 0..(n - 1) : <<clock, m>> \in Known
              /\ failures' = IF attempt[a].bound
                             THEN [failures EXCEPT ![s] = @ \cup {<<clock, n>>}]
                             ELSE failures
              /\ failed' = failed \cup {<<clock, n>>}
              /\ alone' = IF a \in met THEN alone ELSE alone \cup {<<clock, n>>}
        /\ attempt' = [attempt EXCEPT ![a] = Idle]
        /\ UNCHANGED <<clock, lockout, locked, met>>

\* Right credentials: _lockouts.pop(client_key, None), then the session.
CompareRight_KeepsState(a) ==
    /\ attempt[a].pc = "compare"
    /\ failed' = {}
    /\ alone' = {}
    /\ attempt' = [attempt EXCEPT ![a] = Idle]
    /\ UNCHANGED <<clock, lockout, failures, locked, met>>

CompareRight(a) ==
    /\ attempt[a].pc = "compare"
    /\ lockout' = NoState
    /\ failed' = {}
    /\ alone' = {}
    /\ attempt' = [attempt EXCEPT ![a] = Idle]
    /\ UNCHANGED <<clock, failures, locked, met>>

Next ==
    \/ Tick
    \/ \E a \in Attempts :
          \/ LookUp(a) \/ Rebind(a) \/ Count(a)
          \/ CompareWrong(a) \/ RecordFailure(a) \/ CompareRight(a)

Spec == Init /\ [][Next]_vars

-----------------------------------------------------------------------------
(* Properties                                                              *)

\* The wrong attempts of the window that ends at now, since the last success.
FailedUntil(now) == {e \in failed : e[1] + Window >= now}

\* A refusal is always due: an attempt that met no other is answered 429 only
\* if the window that ends at its check holds MaxFailures wrong attempts.  And
\* it comes in time: of those that met no other, MaxFailures are enough, however
\* many overlapped before and since.  Right credentials make no difference, and
\* an attempt that was refused does not count.
RefusedWhenDue ==
    [][\A a \in Attempts : a \notin met /\ Count(a) =>
          LET wrong == FailedUntil(attempt[a].now)
          IN  /\ a \in locked' => Cardinality(wrong) >= MaxFailures
              /\ Cardinality(wrong \cap alone) >= MaxFailures => a \in locked']_vars

NextIsLocked == lockout # NoState /\ Spent(Recent(failures[lockout], clock))

\* While nobody is in the handler: once MaxFailures wrong attempts have been
\* answered in the window, the next attempt finds itself locked out
\* (qa/test_rate_limit_lockout.py:67-85).
SpentMeansLocked ==
    (/\ \A a \in Attempts : attempt[a].pc = "idle"
     /\ Cardinality(FailedUntil(clock)) >= MaxFailures)
        => NextIsLocked

\* So it is for wrong attempts that met no other, at every moment and whatever
\* overlaps with what: attempts that overlap lose each other's failures, never
\* the failure of an attempt that was alone.
SpentMeansLockedAlone ==
    Cardinality(FailedUntil(clock) \cap alone) >= MaxFailures => NextIsLocked

\* However attempts overlap, every entry of the list that counts stands for a
\* wrong attempt of its own since the last success: copies and late appends
\* lose failures but never invent one or bring back one that was forgiven.
EntriesAreFailures ==
    lockout # NoState => failures[lockout] \subseteq failed
=============================================================================
