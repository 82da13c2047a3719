-------------------------- MODULE RateLimiterProofs --------------------------
(***************************************************************************)
(* Theorems about RateLimiter, for every number of handlers, every limit   *)
(* and every length of the minute.                                         *)
(***************************************************************************)
EXTENDS RateLimiter, FiniteSetTheorems, TLAPS

USE LimiterAssumption

Entries == Ticks \X Nat

TypeInv ==
    /\ clock \in Ticks
    /\ window \subseteq Entries
    /\ handler \in [Handlers -> [pc     : {"idle", "write", "count", "append"},
                                 now    : Ticks,
                                 recent : SUBSET Entries]]
    /\ admitted \subseteq Entries
    /\ IsFiniteSet(admitted)
    /\ alone \subseteq admitted

\* The next entry is a new one.
Numbered == \A e \in admitted : e[2] < Cardinality(PassedAt(e[1]))

Punctual ==
    /\ \A e \in admitted : e[1] <= clock
    /\ \A h \in Handlers : handler[h].now <= clock

\* What the handlers inside together do to the window happens while no check
\* that meets no other passes.
Working(h) == handler[h].pc # "idle"

Apart ==
    \A g \in Handlers, h \in Handlers :
        (Working(g) /\ Working(h) /\ g # h) => g \in met /\ h \in met

\* The list that a handler holds has no entry that has left its minute, and
\* misses none in it of the checks that met no other.  So has the window, once
\* the list is written back, for a handler that is alone.
Faithful(h) ==
    /\ handler[h].pc = "write" =>
          /\ handler[h].recent \subseteq Recent(admitted, handler[h].now)
          /\ Recent(alone, handler[h].now) \subseteq handler[h].recent
    /\ (Working(h) /\ h \notin met) => \A e \in admitted : e[1] <= handler[h].now
    /\ (handler[h].pc \in {"count", "append"} /\ h \notin met) =>
          /\ Recent(alone, handler[h].now) \subseteq window
          /\ window \subseteq Recent(admitted, handler[h].now)
    /\ (handler[h].pc = "append" /\ h \notin met) => ~Full(window)

IInv == /\ TypeInv
        /\ EntriesAreAdmissions
        /\ Numbered
        /\ Punctual
        /\ Apart
        /\ \A h \in Handlers : Faithful(h)
        /\ Recent(alone, clock) \subseteq window
        /\ WithinLimitAlone

-----------------------------------------------------------------------------
(* Counting                                                                *)

LEMMA PassedFinite ==
    ASSUME TypeInv
    PROVE  /\ \A t : IsFiniteSet(PassedAt(t)) /\ Cardinality(PassedAt(t)) \in Nat
           /\ \A t : /\ IsFiniteSet(PassedIn(t) \cap alone)
                     /\ Cardinality(PassedIn(t) \cap alone) \in Nat
<1>1. /\ \A t : PassedAt(t) \subseteq admitted
      /\ \A t : PassedIn(t) \cap alone \subseteq admitted
  BY DEF PassedAt, PassedIn
<1>2. QED
  BY <1>1, FS_Subset, FS_CardinalityType DEF TypeInv

LEMMA InitHolds == Init => IInv
<1> SUFFICES ASSUME Init PROVE IInv
  OBVIOUS
<1>1. TypeInv
  BY FS_EmptySet DEF Init, TypeInv, Idle, Ticks
<1>2. ASSUME NEW t \in Ticks PROVE Cardinality(PassedIn(t) \cap alone) <= Limit
  <2>1. PassedIn(t) \cap alone = {}
    BY DEF Init
  <2>2. QED
    BY <2>1, FS_EmptySet
<1>3. QED
  BY <1>1, <1>2 DEF Init, IInv, EntriesAreAdmissions, Numbered, Punctual, Apart, Working,
     Faithful, Recent, WithinLimitAlone, Idle, Ticks

\* What one handler does to the numbers: its entry is new, and it fills up no
\* minute but those that its own list covers.
LEMMA AdmitCounts ==
    ASSUME IInv, NEW h \in Handlers, Admit(h)
    PROVE  /\ Entry(handler[h].now) \in Entries
           /\ IsFiniteSet(admitted')
           /\ Numbered'
           /\ WithinLimitAlone'
<1>a. PICK now \in Ticks : now = handler[h].now
  BY DEF IInv, TypeInv
<1>b. PICK e \in Entries : e = Entry(now) /\ e = <<now, Cardinality(PassedAt(now))>>
  BY PassedFinite DEF Entry, Entries, IInv
<1>1. /\ handler[h].pc = "append"
      /\ admitted' = admitted \cup {e}
      /\ admitted \subseteq Entries /\ IsFiniteSet(admitted)
  BY <1>a, <1>b DEF IInv, TypeInv, Admit
<1>2. e = <<now, Cardinality(PassedAt(now))>>
  BY <1>b
<1>3. IsFiniteSet(admitted')
  BY <1>1, FS_AddElement
<1>4. e \notin admitted
  BY <1>2, PassedFinite DEF IInv, Numbered
<1>5. /\ \A t : t # now => PassedAt(t)' = PassedAt(t)
      /\ PassedAt(now)' = PassedAt(now) \cup {e}
  BY <1>1, <1>2 DEF PassedAt
<1>6. Cardinality(PassedAt(now)') = Cardinality(PassedAt(now)) + 1
  <2>1. e \notin PassedAt(now)
    BY <1>4 DEF PassedAt
  <2>2. QED
    BY <1>5, <2>1, PassedFinite, FS_AddElement DEF IInv
<1>7. Numbered'
  <2> SUFFICES ASSUME NEW d \in admitted'
               PROVE  d[2] < Cardinality(PassedAt(d[1])')
    BY DEF Numbered
  <2>1. CASE d \in admitted /\ d[1] # now
    BY <1>5, <2>1 DEF IInv, Numbered
  <2>2. CASE d \in admitted /\ d[1] = now
    <3>1. d[2] \in Nat
      BY <1>1, <2>2 DEF Entries
    <3>2. Cardinality(PassedAt(now)) \in Nat
      BY PassedFinite DEF IInv
    <3>3. d[2] < Cardinality(PassedAt(now))
      BY <2>2 DEF IInv, Numbered
    <3>4. QED
      BY <1>6, <2>2, <3>1, <3>2, <3>3
  <2>3. CASE d = e
    <3>1. Cardinality(PassedAt(now)) \in Nat
      BY PassedFinite DEF IInv
    <3>2. d[1] = now /\ d[2] = Cardinality(PassedAt(now))
      BY <1>2, <2>3
    <3>3. QED
      BY <1>6, <3>1, <3>2
  <2>4. QED
    BY <1>1, <2>1, <2>2, <2>3
<1>8. ASSUME NEW t \in Ticks
      PROVE  Cardinality((PassedIn(t) \cap alone)') <= Limit
  <2>a. /\ Cardinality(PassedIn(t) \cap alone) <= Limit
        /\ alone' = IF h \in met THEN alone ELSE alone \cup {e}
        /\ alone \subseteq admitted
    BY <1>a, <1>b DEF IInv, TypeInv, WithinLimitAlone, Admit
  <2>1. CASE ~(now <= t /\ t < now + Minute /\ h \notin met)
    <3>1. (PassedIn(t) \cap alone)' = PassedIn(t) \cap alone
      BY <1>1, <1>2, <1>4, <2>1, <2>a DEF PassedIn
    <3>2. QED
      BY <2>a, <3>1
  <2>2. CASE now <= t /\ t < now + Minute /\ h \notin met
    <3>1. /\ (PassedIn(t) \cap alone)' = (PassedIn(t) \cap alone) \cup {e}
          /\ e \notin PassedIn(t) \cap alone
      BY <1>1, <1>2, <1>4, <2>2, <2>a DEF PassedIn
    <3>2. Recent(alone, now) \subseteq window /\ ~Full(window)
      BY <1>a, <1>1, <2>2 DEF IInv, Faithful
    <3>3. PassedIn(t) \cap alone \subseteq window
      BY <1>1, <2>2, <3>2 DEF PassedIn, Recent, Entries, Ticks
    <3>4. window \subseteq admitted
      BY DEF IInv, EntriesAreAdmissions
    <3>5. /\ IsFiniteSet(window) /\ Cardinality(window) \in Nat
          /\ Cardinality(PassedIn(t) \cap alone) <= Cardinality(window)
      BY <1>1, <3>3, <3>4, FS_Subset, FS_CardinalityType
    <3>6. Cardinality((PassedIn(t) \cap alone)') = Cardinality(PassedIn(t) \cap alone) + 1
      BY <3>1, PassedFinite, FS_AddElement DEF IInv
    <3>7. Cardinality(window) < Limit
      BY <3>2, <3>5 DEF Full
    <3>8. Cardinality(PassedIn(t) \cap alone) \in Nat
      BY PassedFinite DEF IInv
    <3>9. QED
      BY <3>5, <3>6, <3>7, <3>8
  <2>3. QED
    BY <2>1, <2>2
<1>9. WithinLimitAlone'
  BY <1>8 DEF WithinLimitAlone
<1>10. QED
  BY <1>a, <1>b, <1>3, <1>7, <1>9

LEMMA HistoryKept ==
    ASSUME IInv, UNCHANGED <<admitted, alone>>
    PROVE  Numbered' /\ WithinLimitAlone'
BY DEF IInv, Numbered, PassedAt, WithinLimitAlone, PassedIn

-----------------------------------------------------------------------------
(* The invariant                                                           *)

LEMMA TickHolds == IInv /\ Tick => IInv'
<1> SUFFICES ASSUME IInv, Tick PROVE IInv'
  OBVIOUS
<1>1. /\ clock \in Ticks /\ clock' \in Ticks /\ clock' = clock + 1
      /\ UNCHANGED <<window, handler, admitted, met, alone>>
  BY DEF IInv, TypeInv, Tick, Ticks
<1>2. TypeInv' /\ EntriesAreAdmissions'
  BY <1>1 DEF IInv, TypeInv, EntriesAreAdmissions
<1>3. Punctual'
  BY <1>1 DEF IInv, TypeInv, Punctual, Entries, Ticks
<1>4. Recent(alone, clock)' \subseteq Recent(alone, clock)
  BY <1>1 DEF IInv, TypeInv, Recent, Entries, Ticks
<1>5. Apart' /\ \A h \in Handlers : Faithful(h)'
  BY <1>1 DEF IInv, Apart, Working, Faithful, Recent, Full
<1>6. QED
  BY <1>1, <1>2, <1>3, <1>4, <1>5, HistoryKept DEF IInv

LEMMA ReadHolds ==
    ASSUME IInv, NEW h \in Handlers, ReadWindow(h)
    PROVE  IInv'
<1>1. /\ handler' = [handler EXCEPT ![h] =
             [pc |-> "write", now |-> clock, recent |-> Recent(window, clock)]]
      /\ UNCHANGED <<clock, window, admitted, alone>>
      /\ Recent(window, clock) \subseteq window
      /\ Recent(window, clock) \subseteq Recent(admitted, clock)
      /\ Recent(alone, clock) \subseteq Recent(window, clock)
  BY DEF ReadWindow, Recent, IInv, EntriesAreAdmissions
<1>2. TypeInv' /\ EntriesAreAdmissions' /\ Punctual'
  BY <1>1 DEF IInv, TypeInv, EntriesAreAdmissions, Punctual, Ticks
<1>3. \A g \in Handlers : Working(g)' => g = h \/ g \in OthersInside(h)
  BY <1>1 DEF Working, OthersInside, IInv, TypeInv
<1>4. Apart'
  BY <1>3 DEF Apart, ReadWindow, OthersInside
<1>5. Faithful(h)'
  BY <1>1 DEF IInv, TypeInv, Punctual, Faithful, Recent
<1>6. ASSUME NEW g \in Handlers, g # h
      PROVE  Faithful(g)'
  <2>1. Working(g)' => g \in met'
    BY <1>3, <1>6 DEF ReadWindow
  <2>2. handler'[g] = handler[g]
    BY <1>1, <1>6 DEF IInv, TypeInv
  <2>3. QED
    BY <1>1, <2>1, <2>2 DEF IInv, Faithful, Working, Recent
<1>7. QED
  BY <1>1, <1>2, <1>4, <1>5, <1>6, HistoryKept DEF IInv, Recent

LEMMA WriteHolds ==
    ASSUME IInv, NEW h \in Handlers, WriteWindow(h)
    PROVE  IInv'
<1>1. /\ handler' = [handler EXCEPT ![h].pc = "count", ![h].recent = {}]
      /\ window' = handler[h].recent
      /\ handler[h].pc = "write" /\ Working(h)
      /\ UNCHANGED <<clock, admitted, met, alone>>
  BY DEF WriteWindow, Working
<1>2. /\ handler[h].recent \subseteq Recent(admitted, handler[h].now)
      /\ Recent(alone, handler[h].now) \subseteq handler[h].recent
  BY <1>1 DEF IInv, Faithful
<1>3. TypeInv' /\ EntriesAreAdmissions' /\ Punctual'
  BY <1>1, <1>2 DEF IInv, TypeInv, EntriesAreAdmissions, Punctual, Recent
<1>4. Apart'
  BY <1>1 DEF IInv, TypeInv, Apart, Working
<1>5. Faithful(h)'
  BY <1>1, <1>2 DEF IInv, TypeInv, Faithful, Working, Recent
<1>6. ASSUME NEW g \in Handlers, g # h
      PROVE  Faithful(g)'
  <2>1. Working(g) => g \in met
    BY <1>1, <1>6 DEF IInv, Apart
  <2>2. handler'[g] = handler[g]
    BY <1>1, <1>6 DEF IInv, TypeInv
  <2>3. QED
    BY <1>1, <2>1, <2>2 DEF IInv, Faithful, Working, Recent
<1>7. Recent(alone, clock)' \subseteq window'
  <2>1. handler[h].now <= clock /\ handler[h].now \in Nat /\ clock \in Nat
    BY DEF IInv, TypeInv, Punctual, Ticks
  <2>2. QED
    BY <1>1, <1>2, <2>1 DEF IInv, TypeInv, Recent, Entries, Ticks
<1>8. QED
  BY <1>1, <1>3, <1>4, <1>5, <1>6, <1>7, HistoryKept DEF IInv

LEMMA CountHolds ==
    ASSUME IInv, NEW h \in Handlers, Count(h)
    PROVE  IInv'
<1>1. /\ handler' = [handler EXCEPT ![h] = IF Full(window) THEN Idle
                                           ELSE [@ EXCEPT !.pc = "append"]]
      /\ handler[h].pc = "count" /\ Working(h)
      /\ UNCHANGED <<clock, window, admitted, met, alone>>
  BY DEF Count, Working
<1>2. /\ handler' \in [Handlers -> [pc     : {"idle", "write", "count", "append"},
                                   now    : Ticks,
                                   recent : SUBSET Entries]]
      /\ handler'[h].now <= clock
      /\ handler'[h].pc \in {"idle", "append"}
      /\ handler'[h].pc = "append" => handler'[h].now = handler[h].now /\ ~Full(window)
      /\ \A g \in Handlers : g # h => handler'[g] = handler[g]
  BY <1>1 DEF IInv, TypeInv, Punctual, Idle, Ticks
<1>3. TypeInv' /\ EntriesAreAdmissions' /\ Punctual'
  BY <1>1, <1>2 DEF IInv, TypeInv, EntriesAreAdmissions, Punctual
<1>4. Apart'
  BY <1>1, <1>2 DEF IInv, Apart, Working
<1>5. Faithful(h)'
  BY <1>1, <1>2 DEF IInv, Faithful, Working, Recent, Full
<1>6. \A g \in Handlers : g # h => Faithful(g)'
  BY <1>1, <1>2 DEF IInv, Faithful, Working, Recent, Full
<1>7. QED
  BY <1>1, <1>3, <1>4, <1>5, <1>6, HistoryKept DEF IInv, Recent

LEMMA AdmitHolds ==
    ASSUME IInv, NEW h \in Handlers, Admit(h)
    PROVE  IInv'
<1> DEFINE e == Entry(handler[h].now)
<1>1. /\ window' = window \cup {e}
      /\ admitted' = admitted \cup {e}
      /\ alone' = IF h \in met THEN alone ELSE alone \cup {e}
      /\ handler' = [handler EXCEPT ![h] = Idle]
      /\ handler[h].pc = "append" /\ Working(h)
      /\ UNCHANGED <<clock, met>>
  BY DEF Admit, Working
<1>2. e \in Entries /\ e[1] = handler[h].now /\ IsFiniteSet(admitted')
  BY AdmitCounts DEF Entry
<1> HIDE DEF e
<1>3. TypeInv' /\ EntriesAreAdmissions'
  BY <1>1, <1>2 DEF IInv, TypeInv, EntriesAreAdmissions, Idle, Ticks
<1>4. Punctual'
  BY <1>1, <1>2 DEF IInv, TypeInv, Punctual, Idle, Ticks
<1>5. Apart'
  BY <1>1 DEF IInv, TypeInv, Apart, Working, Idle
<1>6. Faithful(h)'
  BY <1>1 DEF IInv, TypeInv, Faithful, Working, Idle
<1>7. ASSUME NEW g \in Handlers, g # h
      PROVE  Faithful(g)'
  <2>1. Working(g) => g \in met /\ h \in met
    BY <1>1, <1>7 DEF IInv, Apart
  <2>2. handler'[g] = handler[g]
    BY <1>1, <1>7 DEF IInv, TypeInv
  <2>3. QED
    BY <1>1, <2>1, <2>2 DEF IInv, Faithful, Working, Recent
<1>8. Recent(alone, clock)' \subseteq window'
  BY <1>1 DEF IInv, Recent
<1>9. QED
  BY <1>1, <1>3, <1>4, <1>5, <1>6, <1>7, <1>8, AdmitCounts DEF IInv

LEMMA StepHolds == IInv /\ [Next]_vars => IInv'
<1> SUFFICES ASSUME IInv, [Next]_vars
             PROVE  IInv'
  OBVIOUS
<1>1. CASE UNCHANGED vars
  BY <1>1 DEF vars, IInv, TypeInv, EntriesAreAdmissions, Numbered, PassedAt, Punctual, Apart,
     Working, Faithful, Recent, Full, WithinLimitAlone, PassedIn
<1>2. QED
  BY <1>1, TickHolds, ReadHolds, WriteHolds, CountHolds, AdmitHolds DEF Next

LEMMA Invariance == Spec => []IInv
BY InitHolds, StepHolds, PTL DEF Spec

-----------------------------------------------------------------------------
(* Theorems                                                                *)

\* However many handlers of a session overlap, the window holds only entries
\* of requests that passed: nobody is refused for requests it did not make.
THEOREM EntriesAreReal == Spec => []EntriesAreAdmissions
<1>1. IInv => EntriesAreAdmissions
  BY DEF IInv
<1>2. QED
  BY <1>1, Invariance, PTL

\* Of the requests that met no other of their session inside, at most the limit
\* passes in any minute, wherever it starts and however many overlapped.
THEOREM LimitHolds == Spec => []WithinLimitAlone
<1>1. IInv => WithinLimitAlone
  BY DEF IInv
<1>2. QED
  BY <1>1, Invariance, PTL

\* A session whose requests that passed have met no other keeps to its limit in
\* any minute: what passes beyond it, passes overlapping.
THEOREM LimitHoldsOneByOne == Spec => [](admitted = alone => WithinLimit)
<1>1. IInv /\ admitted = alone => WithinLimit
  <2>1. \A t : admitted = alone => PassedIn(t) \cap alone = PassedIn(t)
    BY DEF PassedIn
  <2>2. QED
    BY <2>1 DEF IInv, WithinLimit, WithinLimitAlone
<1>2. QED
  BY <1>1, Invariance, PTL

\* A request that met no other inside is refused only when the limit was
\* reached in the minute that ends with it.
THEOREM RefusalsAreDue == Spec => RefusedOnlyWhenSpent
<1> DEFINE Due == \A h \in Handlers :
                     (h \notin met /\ h \in refused' \ refused)
                         => Cardinality(PassedIn(handler[h].now)) >= Limit
<1>1. IInv /\ [Next]_vars => [Due]_vars
  <2> SUFFICES ASSUME IInv, Next, NEW h \in Handlers, h \notin met, h \in refused' \ refused
               PROVE  Cardinality(PassedIn(handler[h].now)) >= Limit
    OBVIOUS
  <2>1. Count(h) /\ Full(window) /\ handler[h].pc = "count"
    BY DEF Next, Tick, ReadWindow, WriteWindow, Count, Admit
  <2>2. /\ window \subseteq Recent(admitted, handler[h].now)
        /\ \A e \in admitted : e[1] <= handler[h].now
    BY <2>1 DEF IInv, Faithful, Working
  <2>3. window \subseteq PassedIn(handler[h].now)
    BY <2>2 DEF Recent, PassedIn
  <2>4. /\ IsFiniteSet(PassedIn(handler[h].now))
        /\ PassedIn(handler[h].now) \subseteq admitted
    <3>1. PassedIn(handler[h].now) \subseteq admitted
      BY DEF PassedIn
    <3>2. QED
      BY <3>1, FS_Subset DEF IInv, TypeInv
  <2>5. /\ Cardinality(window) <= Cardinality(PassedIn(handler[h].now))
        /\ Cardinality(window) \in Nat /\ Cardinality(PassedIn(handler[h].now)) \in Nat
    BY <2>3, <2>4, FS_Subset, FS_CardinalityType
  <2>6. QED
    BY <2>1, <2>5 DEF Full
<1>2. QED
  BY <1>1, Invariance, PTL DEF Spec, RefusedOnlyWhenSpent
=============================================================================
