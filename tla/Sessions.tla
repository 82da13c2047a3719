------------------------------ MODULE Sessions ------------------------------
(***************************************************************************)
(* The session store (app/auth.py:76-106): login creates a session,        *)
(* require_session guards every protected operation, logout invalidates.   *)
(* All of them are `def` and run in worker threads over one dict without a *)
(* lock.  A thread that has fetched a session object goes on with it after *)
(* another thread has popped it from the dict.                             *)
(***************************************************************************)
EXTENDS Naturals

CONSTANTS
    Requests,  \* the requests in flight at one time
    Tokens,    \* what secrets.token_urlsafe hands out, each once
    NoToken,   \* a request in no session
    Idle,      \* IDLE_TIMEOUT_SECONDS, in clock ticks
    Absolute,  \* ABSOLUTE_TIMEOUT_SECONDS, in clock ticks
    LastTick   \* bound: the clock stops here

ASSUME SessionAssumption ==
    /\ NoToken \notin Tokens
    /\ Idle \in Nat
    /\ Absolute \in Nat
    /\ LastTick \in Nat

VARIABLES
    clock,      \* time.time()
    sessions,   \* the keys of the dict _sessions
    created,    \* created_at of each token's session object
    last_seen,  \* last_seen_at of each token's session object
    request,    \* per request: where it stands, its token and its now
    issued,     \* history: the tokens issued so far
    ended,      \* history: the tokens a logout or a refusing check has ended
    used_at,    \* history: the latest now with which a request was let in
    met,        \* history: the requests that met another one of their session
    alone_at    \* history: the same for the requests let in that met no other

vars == <<clock, sessions, created, last_seen, request,
          issued, used_at, ended, met, alone_at>>

Ticks == 0..LastTick

NoRequest == [pc |-> "idle", op |-> "call", token |-> NoToken, now |-> 0]

\* The other requests of session k that are being judged.
OthersOf(r, k) == {q \in Requests \ {r} : request[q].pc # "idle" /\ request[q].token = k}

Init ==
    /\ clock = 0
    /\ sessions = {}
    /\ created = [k \in Tokens |-> 0]
    /\ last_seen = [k \in Tokens |-> 0]
    /\ request = [r \in Requests |-> NoRequest]
    /\ issued = {}
    /\ used_at = [k \in Tokens |-> 0]
    /\ ended = {}
    /\ met = {}
    /\ alone_at = [k \in Tokens |-> 0]

Tick ==
    /\ clock < LastTick
    /\ clock' = clock + 1
    /\ UNCHANGED <<sessions, created, last_seen, request,
                   issued, used_at, ended, met, alone_at>>

\* create_session, after login has accepted the credentials.
Login ==
    /\ \E k \in Tokens \ issued :
          /\ sessions' = sessions \cup {k}
          /\ created' = [created EXCEPT ![k] = clock]
          /\ last_seen' = [last_seen EXCEPT ![k] = clock]
          /\ used_at' = [used_at EXCEPT ![k] = clock]
          /\ alone_at' = [alone_at EXCEPT ![k] = clock]
          /\ issued' = issued \cup {k}
    /\ UNCHANGED <<clock, request, ended, met>>

\* _sessions.get(token), for a protected call or for logout; without a session
\* the answer is 401 and nothing changes.
Fetch(r) ==
    /\ request[r].pc = "idle"
    /\ \E k \in sessions, op \in {"call", "logout"} :
          /\ request' = [request EXCEPT ![r] =
                [pc |-> "judge", op |-> op, token |-> k, now |-> 0]]
          /\ met' = IF OthersOf(r, k) = {} THEN met \ {r}
                    ELSE met \cup OthersOf(r, k) \cup {r}
    /\ UNCHANGED <<clock, sessions, created, last_seen,
                   issued, used_at, ended, alone_at>>

\* now = time.time() against created_at and last_seen_at.
Expired_Absolute(k) == clock > created[k] + Absolute
Expired_OneEarly(k) == clock > created[k] + Absolute \/ clock >= last_seen[k] + Idle
Expired(k) == clock > created[k] + Absolute \/ clock > last_seen[k] + Idle

Judge(r) ==
    LET k == request[r].token
    IN  /\ request[r].pc = "judge"
        /\ IF Expired(k)
           THEN /\ sessions' = sessions \ {k}
                /\ ended' = ended \cup {k}
                /\ request' = [request EXCEPT ![r] = NoRequest]
           ELSE /\ request' = [request EXCEPT ![r].pc = "touch", ![r].now = clock]
                /\ UNCHANGED <<sessions, ended>>
        /\ UNCHANGED <<clock, created, last_seen, issued, used_at, met, alone_at>>

Later(t, u) == IF t >= u THEN t ELSE u

\* The session is put back into the dict, as a store without shared objects
\* would have to.
Touch_WriteBack(r) ==
    LET k == request[r].token
        n == request[r].now
    IN  /\ request[r].pc = "touch"
        /\ sessions' = sessions \cup {k}
        /\ last_seen' = [last_seen EXCEPT ![k] = n]
        /\ used_at' = [used_at EXCEPT ![k] = Later(n, @)]
        /\ alone_at' = IF r \in met THEN alone_at ELSE [alone_at EXCEPT ![k] = n]
        /\ request' = [request EXCEPT ![r] =
               IF request[r].op = "logout" THEN [@ EXCEPT !.pc = "pop"]
                                           ELSE NoRequest]
        /\ UNCHANGED <<clock, created, issued, ended, met>>

\* session.last_seen_at = now on the object fetched before; the request is in.
Touch(r) ==
    LET k == request[r].token
        n == request[r].now
    IN  /\ request[r].pc = "touch"
        /\ last_seen' = [last_seen EXCEPT ![k] = n]
        /\ used_at' = [used_at EXCEPT ![k] = Later(n, @)]
        /\ alone_at' = IF r \in met THEN alone_at ELSE [alone_at EXCEPT ![k] = n]
        /\ request' = [request EXCEPT ![r] =
               IF request[r].op = "logout" THEN [@ EXCEPT !.pc = "pop"]
                                           ELSE NoRequest]
        /\ UNCHANGED <<clock, sessions, created, issued, ended, met>>

\* invalidate_session, and the answer to logout.
Invalidate(r) ==
    /\ request[r].pc = "pop"
    /\ sessions' = sessions \ {request[r].token}
    /\ ended' = ended \cup {request[r].token}
    /\ request' = [request EXCEPT ![r] = NoRequest]
    /\ UNCHANGED <<clock, created, last_seen, issued, used_at,
                   met, alone_at>>

\* The process restarts: the store was in its memory.
Restart ==
    /\ sessions' = {}
    /\ request' = [r \in Requests |-> NoRequest]
    /\ UNCHANGED <<clock, created, last_seen, issued, used_at,
                   ended, met, alone_at>>

Next ==
    \/ Tick \/ Login \/ Restart
    \/ \E r \in Requests : Fetch(r) \/ Judge(r) \/ Touch(r) \/ Invalidate(r)

Spec == Init /\ [][Next]_vars

-----------------------------------------------------------------------------
(* Properties                                                              *)

\* Once a logout has been answered, or a check has refused the session for its
\* age, it is gone and stays gone, also if another request of the session was
\* in the middle of its check and is let in only now.
EndedStaysEnded == ended \cap sessions = {}

\* A request is let in at most Idle after the latest time at which one was,
\* although overlapping requests may set last_seen_at back.
IdleLimit ==
    \A r \in Requests : request[r].pc \in {"touch", "pop"} =>
        request[r].now <= used_at[request[r].token] + Idle

\* A session in use does not expire: the check refuses a session it found only
\* if it is too old, or if for Idle no request was let in that met no other of
\* its session.  Requests that overlap may set last_seen_at back to the time of
\* the slower one, never behind a request that had the session to itself.
ActiveStays ==
    [][\A r \in Requests : Judge(r) /\ request'[r].pc = "idle" =>
          \/ clock > created[request[r].token] + Absolute
          \/ clock > alone_at[request[r].token] + Idle]_vars
=============================================================================
