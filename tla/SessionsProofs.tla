--------------------------- MODULE SessionsProofs ---------------------------
(***************************************************************************)
(* What the session store promises, proved for any number of requests,     *)
(* tokens and restarts and any timeouts.                                   *)
(*                                                                         *)
(* EndedStaysEnded is nearly inductive: an ended token was issued, and     *)
(* Login takes one that was not.  The idle limit is about a request        *)
(* between its judgement and its answer; it needs that its token was       *)
(* issued (so that no Login resets the times it was judged by), and that   *)
(* last_seen_at, which overlapping requests may set back, never runs ahead *)
(* of the latest use.                                                      *)
(***************************************************************************)
EXTENDS Sessions, TLAPS

TypeOK ==
    /\ clock \in Nat
    /\ sessions \subseteq Tokens
    /\ created \in [Tokens -> Nat]
    /\ last_seen \in [Tokens -> Nat]
    /\ request \in [Requests -> [pc : {"idle", "judge", "touch", "pop"},
                                 op : {"call", "logout"},
                                 token : Tokens \cup {NoToken},
                                 now : Nat]]
    /\ issued \subseteq Tokens
    /\ used_at \in [Tokens -> Nat]

\* Only tokens that were issued are in the dict, ended, or held by a request.
Known ==
    /\ sessions \subseteq issued
    /\ ended \subseteq issued
    /\ \A r \in Requests : request[r].pc # "idle" => request[r].token \in issued

\* The time in a session object against the times of its uses.
Times == \A k \in Tokens : last_seen[k] <= used_at[k]

IInv == TypeOK /\ Known /\ Times /\ EndedStaysEnded /\ IdleLimit

-----------------------------------------------------------------------------

\* The store is empty and every request idle in the beginning.
LEMMA InitHolds == Init => IInv
BY SessionAssumption DEF Init, IInv, TypeOK, Known, Times, EndedStaysEnded, IdleLimit, NoRequest

\* A tick moves only the clock.
LEMMA TickPreserves == IInv /\ Tick => IInv'
BY DEF IInv, Tick, TypeOK, Known, Times, EndedStaysEnded, IdleLimit

\* A login touches the times of a token that nobody holds.
LEMMA LoginPreserves == IInv /\ Login => IInv'
<1> SUFFICES ASSUME IInv, Login PROVE IInv'
    OBVIOUS
<1>1. PICK k \in Tokens \ issued :
        /\ sessions' = sessions \cup {k}
        /\ created' = [created EXCEPT ![k] = clock]
        /\ last_seen' = [last_seen EXCEPT ![k] = clock]
        /\ used_at' = [used_at EXCEPT ![k] = clock]
        /\ issued' = issued \cup {k}
        /\ UNCHANGED <<clock, request, ended>>
    BY DEF Login
<1>2. TypeOK'
    BY <1>1 DEF IInv, TypeOK
<1>3. Known'
    BY <1>1 DEF IInv, Known
<1>4. Times'
    BY <1>1 DEF IInv, TypeOK, Times
<1>5. EndedStaysEnded'
    BY <1>1 DEF IInv, Known, EndedStaysEnded
<1>6. \A r \in Requests : request[r].pc # "idle" =>
        used_at'[request[r].token] = used_at[request[r].token]
    BY <1>1 DEF IInv, TypeOK, Known
<1>7. IdleLimit'
    BY <1>1, <1>6 DEF IInv, IdleLimit
<1>8. QED
    BY <1>2, <1>3, <1>4, <1>5, <1>7 DEF IInv

\* A fetched token is in the dict, hence issued.
LEMMA FetchPreserves ==
    ASSUME IInv, NEW r \in Requests, Fetch(r)
    PROVE  IInv'
<1>1. PICK k \in sessions, op \in {"call", "logout"} :
        request' = [request EXCEPT ![r] =
            [pc |-> "judge", op |-> op, token |-> k, now |-> 0]]
    BY DEF Fetch
<1>2. UNCHANGED <<clock, sessions, created, last_seen,
                  issued, used_at, ended>>
    BY DEF Fetch
<1>3. TypeOK'
    BY <1>1, <1>2 DEF IInv, TypeOK
<1>4. Known'
    BY <1>1, <1>2 DEF IInv, TypeOK, Known
<1>5. Times' /\ EndedStaysEnded'
    BY <1>2 DEF IInv, Times, EndedStaysEnded
<1>6. IdleLimit'
    BY <1>1, <1>2 DEF IInv, TypeOK, IdleLimit
<1>7. QED
    BY <1>3, <1>4, <1>5, <1>6 DEF IInv

\* A request that is not judged expired is within both limits.
LEMMA JudgePreserves ==
    ASSUME IInv, NEW r \in Requests, Judge(r)
    PROVE  IInv'
<1> DEFINE k == request[r].token
<1>0. /\ k \in issued
      /\ request[r].pc = "judge"
      /\ UNCHANGED <<clock, created, last_seen, issued, used_at>>
    BY DEF Judge, IInv, Known
<1>1. CASE Expired(k)
    <2>1. /\ sessions' = sessions \ {k}
          /\ ended' = ended \cup {k}
          /\ request' = [request EXCEPT ![r] = NoRequest]
        BY <1>1 DEF Judge
    <2>2. TypeOK'
        BY <1>0, <2>1 DEF IInv, TypeOK, NoRequest
    <2>3. Known' /\ Times' /\ EndedStaysEnded'
        BY <1>0, <2>1 DEF IInv, TypeOK, Known, Times, EndedStaysEnded, NoRequest
    <2>4. IdleLimit'
        BY <1>0, <2>1 DEF IInv, TypeOK, IdleLimit, NoRequest
    <2>5. QED
        BY <2>2, <2>3, <2>4 DEF IInv
<1>2. CASE ~Expired(k)
    <2>1. /\ request' = [request EXCEPT ![r].pc = "touch", ![r].now = clock]
          /\ UNCHANGED <<sessions, ended>>
        BY <1>2 DEF Judge
    <2>2. TypeOK'
        BY <1>0, <2>1 DEF IInv, TypeOK
    <2>3. Known' /\ Times' /\ EndedStaysEnded'
        BY <1>0, <2>1 DEF IInv, TypeOK, Known, Times, EndedStaysEnded
    <2>4. clock <= used_at[k] + Idle
        BY <1>0, <1>2, SessionAssumption DEF Expired, IInv, TypeOK, Times
    <2>5. request'[r].token = k /\ request'[r].now = clock
        BY <2>1 DEF IInv, TypeOK
    <2>6. \A q \in Requests : q # r => request'[q] = request[q]
        BY <2>1 DEF IInv, TypeOK
    <2>7. IdleLimit'
        BY <1>0, <2>4, <2>5, <2>6 DEF IInv, IdleLimit
    <2>8. QED
        BY <2>2, <2>3, <2>7 DEF IInv
<1>3. QED
    BY <1>1, <1>2

\* A touch may set last_seen_at back, but used_at only moves forward.
LEMMA TouchPreserves ==
    ASSUME IInv, NEW r \in Requests, Touch(r)
    PROVE  IInv'
<1> DEFINE k == request[r].token
           n == request[r].now
<1>0. /\ request[r].pc = "touch"
      /\ last_seen' = [last_seen EXCEPT ![k] = n]
      /\ used_at' = [used_at EXCEPT ![k] = Later(n, used_at[k])]
      /\ request' = [request EXCEPT ![r] =
             IF request[r].op = "logout" THEN [request[r] EXCEPT !.pc = "pop"]
                                         ELSE NoRequest]
      /\ UNCHANGED <<clock, sessions, created, issued, ended>>
    BY DEF Touch
<1>1. k \in issued /\ k \in Tokens /\ n \in Nat
    BY <1>0 DEF IInv, TypeOK, Known
<1>2. Later(n, used_at[k]) \in Nat /\ Later(n, used_at[k]) >= n
      /\ Later(n, used_at[k]) >= used_at[k]
    BY <1>1 DEF Later, IInv, TypeOK
<1>3. TypeOK'
    BY <1>0, <1>1, <1>2 DEF IInv, TypeOK, NoRequest
<1>4. Known' /\ EndedStaysEnded'
    BY <1>0 DEF IInv, TypeOK, Known, EndedStaysEnded, NoRequest
<1>5. Times'
    BY <1>0, <1>1, <1>2 DEF IInv, TypeOK, Times
<1>6. \A j \in Tokens : used_at'[j] \in Nat /\ used_at[j] \in Nat /\ used_at[j] <= used_at'[j]
    BY <1>0, <1>1, <1>2 DEF IInv, TypeOK
<1>7. \A q \in Requests : request'[q].pc \in {"touch", "pop"} =>
        /\ request[q].pc \in {"touch", "pop"}
        /\ request'[q].token = request[q].token
        /\ request'[q].now = request[q].now
        /\ request[q].token \in Tokens
        /\ request[q].now \in Nat
    BY <1>0, <1>1 DEF IInv, TypeOK, Known, NoRequest
<1>8. IdleLimit'
    BY <1>6, <1>7, SessionAssumption DEF IInv, IdleLimit
<1>9. QED
    BY <1>3, <1>4, <1>5, <1>8 DEF IInv

\* The token whose logout is answered leaves the dict in the same step.
LEMMA InvalidatePreserves ==
    ASSUME IInv, NEW r \in Requests, Invalidate(r)
    PROVE  IInv'
<1>0. /\ request[r].pc = "pop"
      /\ sessions' = sessions \ {request[r].token}
      /\ ended' = ended \cup {request[r].token}
      /\ request' = [request EXCEPT ![r] = NoRequest]
      /\ UNCHANGED <<clock, created, last_seen, issued, used_at>>
    BY DEF Invalidate
<1>1. TypeOK'
    BY <1>0 DEF IInv, TypeOK, NoRequest
<1>2. Known' /\ Times' /\ EndedStaysEnded'
    BY <1>0 DEF IInv, TypeOK, Known, Times, EndedStaysEnded, NoRequest
<1>3. IdleLimit'
    BY <1>0 DEF IInv, TypeOK, IdleLimit, NoRequest
<1>4. QED
    BY <1>1, <1>2, <1>3 DEF IInv

\* A restart forgets sessions and requests, never the history.
LEMMA RestartPreserves == IInv /\ Restart => IInv'
BY DEF IInv, Restart, TypeOK, Known, Times, EndedStaysEnded, IdleLimit, NoRequest

\* The invariant holds in every reachable state.
THEOREM Invariance == Spec => []IInv
<1>1. IInv /\ [Next]_vars => IInv'
    <2> SUFFICES ASSUME IInv, [Next]_vars PROVE IInv'
        OBVIOUS
    <2>1. CASE Tick
        BY <2>1, TickPreserves
    <2>2. CASE Login
        BY <2>2, LoginPreserves
    <2>3. CASE Restart
        BY <2>3, RestartPreserves
    <2>4. ASSUME NEW r \in Requests, Fetch(r) \/ Judge(r) \/ Touch(r) \/ Invalidate(r)
          PROVE  IInv'
        BY <2>4, FetchPreserves, JudgePreserves, TouchPreserves, InvalidatePreserves
    <2>5. CASE UNCHANGED vars
        BY <2>5 DEF vars, IInv, TypeOK, Known, Times, EndedStaysEnded, IdleLimit
    <2>6. QED
        BY <2>1, <2>2, <2>3, <2>4, <2>5 DEF Next
<1>2. QED
    BY <1>1, InitHolds, PTL DEF Spec

\* A session that a logout or a refusing check has ended never comes back.
THEOREM EndIsFinal == Spec => []EndedStaysEnded
<1>1. IInv => EndedStaysEnded
    BY DEF IInv
<1>2. QED
    BY <1>1, Invariance, PTL

\* No request is let in more than Idle after the latest use.
THEOREM IdleTimeoutHolds == Spec => []IdleLimit
<1>1. IInv => IdleLimit
    BY DEF IInv
<1>2. QED
    BY <1>1, Invariance, PTL

-----------------------------------------------------------------------------

\* A request that meets no other of its session while it is judged has the
\* latest time of all, and no touch after it brings an earlier one.
Apart ==
    \A r \in Requests, q \in Requests :
        /\ r # q
        /\ request[r].pc # "idle" /\ request[q].pc # "idle"
        /\ request[r].token = request[q].token
        => r \in met /\ q \in met

NotSetBack ==
    /\ alone_at \in [Tokens -> Nat]
    /\ \A k \in Tokens : alone_at[k] <= last_seen[k] /\ alone_at[k] <= clock
    /\ \A r \in Requests : request[r].pc = "touch" =>
          alone_at[request[r].token] <= request[r].now /\ request[r].now <= clock

SInv == Apart /\ NotSetBack

LEMMA SeenInit == Init => SInv
BY DEF Init, SInv, Apart, NotSetBack, NoRequest

\* A tick, a login of a new token, and a restart leave the order of the times.
LEMMA SeenSurroundings ==
    ASSUME IInv, SInv, Tick \/ Login \/ Restart
    PROVE  SInv'
<1>1. CASE Tick
    BY <1>1 DEF Tick, SInv, Apart, NotSetBack, IInv, TypeOK
<1>2. CASE Login
    <2>1. PICK k \in Tokens \ issued :
            /\ last_seen' = [last_seen EXCEPT ![k] = clock]
            /\ alone_at' = [alone_at EXCEPT ![k] = clock]
            /\ UNCHANGED <<clock, request, met>>
        BY <1>2 DEF Login
    <2>2. \A r \in Requests : request[r].pc = "touch" =>
             request[r].token # k /\ request[r].token \in Tokens
        BY DEF IInv, TypeOK, Known
    <2>3. Apart'
        BY <2>1 DEF SInv, Apart
    <2>4. NotSetBack'
        BY <2>1, <2>2 DEF SInv, NotSetBack, IInv, TypeOK
    <2>5. QED
        BY <2>3, <2>4 DEF SInv
<1>3. CASE Restart
    BY <1>3 DEF Restart, SInv, Apart, NotSetBack, NoRequest
<1>4. QED
    BY <1>1, <1>2, <1>3

LEMMA SeenRequest ==
    ASSUME IInv, SInv, NEW r \in Requests,
           Fetch(r) \/ Judge(r) \/ Touch(r) \/ Invalidate(r)
    PROVE  SInv'
<1>1. /\ clock' = clock
      /\ \A q \in Requests : q # r => request'[q] = request[q]
    BY DEF Fetch, Judge, Touch, Invalidate, IInv, TypeOK
<1>2. \A q \in Requests : request[q].pc # "idle" => request[q].token \in Tokens
    BY DEF IInv, TypeOK, Known
<1>3. CASE Fetch(r)
    <2>1. PICK k \in sessions, op \in {"call", "logout"} :
            /\ request' = [request EXCEPT ![r] =
                  [pc |-> "judge", op |-> op, token |-> k, now |-> 0]]
            /\ met' = IF OthersOf(r, k) = {} THEN met \ {r}
                      ELSE met \cup OthersOf(r, k) \cup {r}
        BY <1>3 DEF Fetch
    <2>2. request'[r].pc = "judge" /\ request'[r].token = k
        BY <2>1 DEF IInv, TypeOK
    <2>3. \A q \in Requests : q # r /\ request[q].pc # "idle" /\ request[q].token = k
                                 => q \in met' /\ r \in met'
        BY <2>1 DEF OthersOf
    <2>4. met \ {r} \subseteq met'
        BY <2>1
    <2>5. Apart'
        BY <1>1, <2>2, <2>3, <2>4 DEF SInv, Apart
    <2>6. NotSetBack'
        BY <1>1, <1>3, <2>2 DEF Fetch, SInv, NotSetBack
    <2>7. QED
        BY <2>5, <2>6 DEF SInv
<1>4. CASE Judge(r)
    <2>1. /\ request[r].pc = "judge"
          /\ request'[r].pc # "idle" => request'[r].token = request[r].token
          /\ request'[r].pc = "touch" => request'[r].now = clock
          /\ UNCHANGED <<last_seen, met, alone_at>>
        BY <1>4 DEF Judge, IInv, TypeOK, NoRequest
    <2>2. Apart'
        BY <1>1, <2>1 DEF SInv, Apart
    <2>3. clock <= clock
        BY DEF IInv, TypeOK
    <2>4. NotSetBack'
        BY <1>1, <1>2, <2>1, <2>3 DEF SInv, NotSetBack
    <2>5. QED
        BY <2>2, <2>4 DEF SInv
<1>5. CASE Touch(r)
    <2> DEFINE k == request[r].token
               n == request[r].now
    <2>1. /\ request[r].pc = "touch" /\ k \in Tokens /\ n \in Nat
          /\ alone_at[k] <= n /\ n <= clock /\ n <= n
        BY <1>2, <1>5 DEF Touch, SInv, NotSetBack, IInv, TypeOK
    <2>2. /\ last_seen' = [last_seen EXCEPT ![k] = n]
          /\ alone_at' = IF r \in met THEN alone_at ELSE [alone_at EXCEPT ![k] = n]
          /\ met' = met
          /\ request'[r].pc \in {"pop", "idle"}
          /\ request'[r].pc = "pop" => request'[r].token = k
        BY <1>5 DEF Touch, IInv, TypeOK, NoRequest
    <2>3. Apart'
        BY <1>1, <2>1, <2>2 DEF SInv, Apart
    <2>4. alone_at' \in [Tokens -> Nat]
        BY <2>1, <2>2 DEF SInv, NotSetBack
    <2>5. \A j \in Tokens : alone_at'[j] <= last_seen'[j] /\ alone_at'[j] <= clock'
        BY <1>1, <2>1, <2>2 DEF SInv, NotSetBack, IInv, TypeOK
    <2>6. ASSUME NEW q \in Requests, request'[q].pc = "touch"
          PROVE  alone_at'[request'[q].token] <= request'[q].now /\ request'[q].now <= clock'
        <3>1. q # r /\ request'[q] = request[q] /\ request[q].token \in Tokens
            BY <1>1, <1>2, <2>2, <2>6
        <3>2. r \notin met => request[q].token # k
            BY <2>1, <2>6, <3>1 DEF SInv, Apart
        <3>3. alone_at'[request[q].token] = alone_at[request[q].token]
            BY <2>2, <3>1, <3>2 DEF SInv, NotSetBack
        <3>4. QED
            BY <1>1, <2>6, <3>1, <3>3 DEF SInv, NotSetBack
    <2>7. QED
        BY <2>3, <2>4, <2>5, <2>6 DEF SInv, NotSetBack
<1>6. CASE Invalidate(r)
    <2>1. request'[r].pc = "idle" /\ UNCHANGED <<last_seen, met, alone_at>>
        BY <1>6 DEF Invalidate, NoRequest, IInv, TypeOK
    <2>2. QED
        BY <1>1, <2>1 DEF SInv, Apart, NotSetBack
<1>7. QED
    BY <1>3, <1>4, <1>5, <1>6

\* A session is refused only when it is too old, or when for Idle no request was
\* let in that had it to itself (require_session), whatever overlaps.
THEOREM SessionsInUseStay == Spec => ActiveStays
<1> DEFINE Stays == \A r \in Requests :
              Judge(r) /\ request'[r].pc = "idle" =>
                  \/ clock > created[request[r].token] + Absolute
                  \/ clock > alone_at[request[r].token] + Idle
<1>1. IInv /\ SInv /\ [Next]_vars => SInv'
    <2> SUFFICES ASSUME IInv, SInv, [Next]_vars PROVE SInv'
        OBVIOUS
    <2>1. CASE UNCHANGED vars
        BY <2>1 DEF vars, SInv, Apart, NotSetBack
    <2>2. CASE Next
        BY <2>2, SeenSurroundings, SeenRequest DEF Next
    <2>3. QED
        BY <2>1, <2>2
<1>2. IInv /\ SInv => Stays
    <2> SUFFICES ASSUME IInv, SInv, NEW r \in Requests,
                        Judge(r), request'[r].pc = "idle"
                 PROVE  \/ clock > created[request[r].token] + Absolute
                        \/ clock > alone_at[request[r].token] + Idle
        OBVIOUS
    <2> DEFINE k == request[r].token
    <2>1. Expired(k)
        BY DEF Judge, IInv, TypeOK
    <2>2. /\ k \in Tokens /\ created[k] \in Nat /\ alone_at[k] <= last_seen[k]
          /\ clock \in Nat /\ last_seen[k] \in Nat /\ alone_at[k] \in Nat
        BY DEF Judge, IInv, TypeOK, Known, Times, SInv, NotSetBack
    <2>3. QED
        BY <2>1, <2>2, SessionAssumption DEF Expired
<1>3. Spec => []SInv
    BY <1>1, SeenInit, Invariance, PTL DEF Spec
<1>4. IInv /\ SInv /\ [Next]_vars => [Stays]_vars
    BY <1>2
<1>5. QED
    BY <1>3, <1>4, Invariance, PTL DEF Spec, ActiveStays
=============================================================================
