-------------------------- MODULE LoginLockoutProofs --------------------------
(****************************************************************************)
(* Theorems about LoginLockout, for every number of overlapping attempts,   *)
(* every number of failures and every length of the window.                 *)
(****************************************************************************)
EXTENDS LoginLockout, FiniteSetTheorems, TLAPS

USE LockoutAssumption

Entries == Ticks \X Nat

Attempt == [pc    : {"idle", "rebind", "count", "compare", "append"},
            now   : Ticks,
            state : States \cup {NoState},
            seen  : SUBSET Entries,
            bound : BOOLEAN]

TypeInv ==
    /\ clock \in Ticks
    /\ lockout \in States \cup {NoState}
    /\ failures \in [States -> SUBSET Entries]
    /\ attempt \in [Attempts -> Attempt]
    /\ failed \subseteq Entries
    /\ IsFiniteSet(failed)
    /\ alone \subseteq failed

\* A copy taken of the list that counts, and still to be bound in its place,
\* holds only wrong attempts.  A success that forgets the state object makes
\* the copies of its list harmless: no later failure is given that object.
CopiesAreFailures ==
    \A a \in Attempts : attempt[a].pc = "rebind" =>
        /\ attempt[a].state \in States
        /\ attempt[a].state = lockout => attempt[a].seen \subseteq failed

HoldsState ==
    \A a \in Attempts :
        /\ attempt[a].pc \in {"count", "append"} => attempt[a].state \in States
        /\ attempt[a].now <= clock

\* What the attempts inside together do to the state object happens while no
\* attempt that meets no other fails.
Working(a) == attempt[a].pc # "idle"

Apart ==
    \A a \in Attempts, b \in Attempts :
        (Working(a) /\ Working(b) /\ a # b) => a \in met /\ b \in met

\* A copy still to be bound misses no failure of the window of an attempt that
\* was alone, unless all of them are forgiven by then.
CopiesAreComplete ==
    \A a \in Attempts : attempt[a].pc = "rebind" =>
        \A e \in Recent(alone, attempt[a].now) :
            attempt[a].state = lockout /\ e \in attempt[a].seen

\* An attempt that is alone holds the state object in use; the list it counts
\* is of its window and misses no failure in it of an attempt that was alone.
Faithful(a) ==
    (Working(a) /\ a \notin met) =>
        /\ a \notin locked
        /\ attempt[a].pc \in {"rebind", "count", "append"} => attempt[a].state = lockout
        /\ attempt[a].pc = "rebind" => attempt[a].seen \subseteq FailedUntil(attempt[a].now)
        /\ attempt[a].pc = "count" =>
              /\ failures[lockout] \subseteq FailedUntil(attempt[a].now)
              /\ Recent(alone, attempt[a].now) \subseteq failures[lockout]
        /\ attempt[a].pc = "append" => attempt[a].bound

AllListed == \A e \in Recent(alone, clock) : lockout # NoState /\ e \in failures[lockout]

IInv == /\ TypeInv
        /\ EntriesAreFailures
        /\ CopiesAreFailures
        /\ HoldsState
        /\ Apart
        /\ CopiesAreComplete
        /\ \A a \in Attempts : Faithful(a)
        /\ AllListed

\* What is left of a history grows smaller as the window moves on.
LEMMA WindowMoves ==
    ASSUME TypeInv, NEW t \in Ticks, NEW u \in Ticks, t <= u
    PROVE  Recent(alone, u) \subseteq Recent(alone, t)
BY DEF TypeInv, Recent, Entries, Ticks

\* The records the actions make.
LEMMA HoldingType ==
    ASSUME TypeInv
    PROVE  /\ Idle \in Attempt /\ Idle.pc = "idle" /\ Idle.now <= clock
           /\ Holding("compare", NoState, FALSE) \in Attempt
           /\ Holding("compare", NoState, FALSE).pc = "compare"
           /\ Holding("compare", NoState, FALSE).now <= clock
           /\ \A s \in States : /\ Holding("append", s, TRUE) \in Attempt
                                /\ Holding("append", s, TRUE).pc = "append"
                                /\ Holding("append", s, TRUE).state = s
                                /\ Holding("append", s, TRUE).bound = TRUE
                                /\ Holding("append", s, TRUE).now <= clock
BY DEF Idle, Holding, Attempt, TypeInv, Ticks

LEMMA InitHolds == Init => IInv
<1> SUFFICES ASSUME Init PROVE IInv
  OBVIOUS
<1>1. IsFiniteSet(failed)
  BY FS_EmptySet DEF Init
<1>2. QED
  BY <1>1 DEF Init, IInv, TypeInv, EntriesAreFailures, CopiesAreFailures, HoldsState, Apart,
     CopiesAreComplete, Working, Faithful, AllListed, Recent, Idle, Holding, Attempt, Ticks

-----------------------------------------------------------------------------
(* One lemma per action                                                    *)

LEMMA TickHolds == IInv /\ Tick => IInv'
<1> SUFFICES ASSUME IInv, Tick PROVE IInv'
  OBVIOUS
<1>1. /\ clock \in Ticks /\ clock' \in Ticks /\ clock' = clock + 1 /\ clock <= clock'
      /\ UNCHANGED <<lockout, failures, attempt, failed, locked, met, alone>>
  BY DEF IInv, TypeInv, Tick, Ticks
<1>2. TypeInv' /\ EntriesAreFailures' /\ CopiesAreFailures'
  BY <1>1 DEF IInv, TypeInv, EntriesAreFailures, CopiesAreFailures
<1>3. HoldsState'
  BY <1>1 DEF IInv, TypeInv, HoldsState, Attempt, Ticks
<1>4. Recent(alone, clock)' \subseteq Recent(alone, clock)
  BY <1>1, WindowMoves DEF IInv, Recent
<1>5. Apart' /\ CopiesAreComplete' /\ \A a \in Attempts : Faithful(a)'
  BY <1>1 DEF IInv, Apart, CopiesAreComplete, Working, Faithful, FailedUntil, Recent
<1>6. AllListed'
  BY <1>1, <1>4 DEF IInv, AllListed
<1>7. QED
  BY <1>2, <1>3, <1>5, <1>6 DEF IInv

LEMMA LookUpHolds ==
    ASSUME IInv, NEW a \in Attempts, LookUp(a)
    PROVE  IInv'
<1> DEFINE new == IF lockout = NoState
                  THEN Holding("compare", NoState, FALSE)
                  ELSE [pc |-> "rebind", now |-> clock, state |-> lockout, bound |-> FALSE,
                        seen |-> Recent(failures[lockout], clock)]
<1>1. /\ attempt' = [attempt EXCEPT ![a] = new]
      /\ locked' = locked \ {a}
      /\ UNCHANGED <<clock, lockout, failures, failed, alone>>
  BY DEF LookUp
<1>2. /\ new \in Attempt /\ new.now <= clock /\ new.pc \in {"compare", "rebind"}
      /\ new.pc = "rebind" =>
            /\ lockout # NoState /\ new.state = lockout /\ new.now = clock
            /\ new.seen = Recent(failures[lockout], clock)
            /\ new.seen \subseteq failed
  <2>1. CASE lockout = NoState
    BY <2>1, HoldingType DEF IInv
  <2>2. CASE lockout # NoState
    <3>1. /\ lockout \in States /\ clock \in Ticks /\ clock <= clock
          /\ Recent(failures[lockout], clock) \subseteq failed
          /\ Recent(failures[lockout], clock) \in SUBSET Entries
      BY <2>2 DEF IInv, TypeInv, EntriesAreFailures, Recent, Ticks
    <3>2. QED
      BY <2>2, <3>1 DEF Attempt
  <2>3. QED
    BY <2>1, <2>2
<1> HIDE DEF new
<1>3. TypeInv' /\ EntriesAreFailures' /\ CopiesAreFailures' /\ HoldsState'
  BY <1>1, <1>2 DEF IInv, TypeInv, EntriesAreFailures, CopiesAreFailures, HoldsState
<1>4. \A b \in Attempts : b # a => attempt'[b] = attempt[b]
  BY <1>1 DEF IInv, TypeInv
<1>5. Apart' /\ \A b \in Attempts : b # a /\ Working(b)' => b \in met'
  <2>1. \A b \in Attempts : b # a /\ Working(b)' => b \in OthersInside(a)
    BY <1>4 DEF OthersInside, Working
  <2>2. OthersInside(a) # {} => met' = OthersInside(a) \cup {a}
    BY DEF LookUp
  <2>3. QED
    BY <2>1, <2>2 DEF Apart
<1>6. new.pc = "rebind" => new.seen \subseteq FailedUntil(clock)
  BY <1>2 DEF Recent, FailedUntil
<1>7. Faithful(a)'
  BY <1>1, <1>2, <1>6 DEF IInv, TypeInv, Faithful, Working, FailedUntil
<1>8. CopiesAreComplete'
  <2>1. \A e \in Recent(alone, clock) : e \in Recent(failures[lockout], clock)
    BY DEF IInv, AllListed, Recent
  <2>2. QED
    BY <1>1, <1>2, <1>4, <2>1 DEF IInv, TypeInv, CopiesAreComplete, Recent
<1>9. AllListed'
  BY <1>1 DEF IInv, AllListed, Recent
<1>10. QED
  BY <1>3, <1>5, <1>7, <1>8, <1>9 DEF IInv, Faithful

LEMMA RebindHolds ==
    ASSUME IInv, NEW a \in Attempts, Rebind(a)
    PROVE  IInv'
<1>1. /\ attempt[a].pc = "rebind" /\ attempt[a].state \in States /\ Working(a)
      /\ failures' = [failures EXCEPT ![attempt[a].state] = attempt[a].seen]
      /\ UNCHANGED <<clock, lockout, failed, locked, met, alone>>
  BY DEF Rebind, IInv, CopiesAreFailures, Working
<1>2. \A b \in Attempts :
         /\ attempt'[b] \in Attempt
         /\ attempt'[b].state = attempt[b].state
         /\ attempt'[b].now = attempt[b].now
         /\ attempt'[b].pc = IF b = a THEN "count" ELSE attempt[b].pc
         /\ b # a => attempt'[b].seen = attempt[b].seen
  <2> SUFFICES ASSUME NEW b \in Attempts
               PROVE  /\ attempt'[b] \in Attempt
                      /\ attempt'[b].state = attempt[b].state
                      /\ attempt'[b].now = attempt[b].now
                      /\ attempt'[b].pc = IF b = a THEN "count" ELSE attempt[b].pc
                      /\ b # a => attempt'[b].seen = attempt[b].seen
    OBVIOUS
  <2>1. attempt[b] \in Attempt
    BY DEF IInv, TypeInv
  <2>2. CASE b = a
    <3>1. attempt'[b] = [attempt[b] EXCEPT !.pc = "count", !.seen = {}]
      BY <2>2 DEF Rebind
    <3>2. QED
      BY <2>1, <2>2, <3>1 DEF Attempt
  <2>3. CASE b # a /\ attempt[b].state = attempt[a].state
    <3>1. attempt'[b] = [attempt[b] EXCEPT !.bound = FALSE]
      BY <2>3 DEF Rebind
    <3>2. QED
      BY <2>1, <2>3, <3>1 DEF Attempt
  <2>4. CASE b # a /\ attempt[b].state # attempt[a].state
    <3>1. attempt'[b] = attempt[b]
      BY <2>4 DEF Rebind
    <3>2. QED
      BY <2>1, <2>4, <3>1
  <2>5. QED
    BY <2>2, <2>3, <2>4
<1>3. attempt' \in [Attempts -> Attempt]
  <2>1. attempt' = [b \in Attempts |-> attempt'[b]]
    BY DEF Rebind
  <2>2. QED
    BY <1>2, <2>1
<1>4. failures' \in [States -> SUBSET Entries]
  BY <1>1 DEF IInv, TypeInv, Attempt
<1>5. EntriesAreFailures'
  BY <1>1 DEF IInv, TypeInv, EntriesAreFailures, CopiesAreFailures
<1>6. CopiesAreFailures' /\ HoldsState'
  BY <1>1, <1>2 DEF IInv, CopiesAreFailures, HoldsState
<1>7. Apart' /\ CopiesAreComplete'
  BY <1>1, <1>2 DEF IInv, Apart, CopiesAreComplete, Working, Recent
<1>8. Faithful(a)'
  <2> SUFFICES ASSUME a \notin met
               PROVE  Faithful(a)'
    BY <1>1 DEF Faithful
  <2>1. /\ attempt[a].state = lockout /\ a \notin locked
        /\ attempt[a].seen \subseteq FailedUntil(attempt[a].now)
        /\ Recent(alone, attempt[a].now) \subseteq attempt[a].seen
    BY <1>1 DEF IInv, Faithful, CopiesAreComplete
  <2>2. failures'[lockout] = attempt[a].seen
    BY <1>1, <2>1 DEF IInv, TypeInv
  <2>3. QED
    BY <1>1, <1>2, <2>1, <2>2 DEF Faithful, FailedUntil, Recent
<1>9. \A b \in Attempts : b # a => Faithful(b)'
  BY <1>1, <1>2 DEF IInv, Apart, Working, Faithful
<1>10. AllListed'
  <2>1. Recent(alone, clock) \subseteq Recent(alone, attempt[a].now)
    BY WindowMoves DEF IInv, TypeInv, HoldsState, Attempt
  <2>2. CASE attempt[a].state = lockout
    <3>1. failures'[lockout] = attempt[a].seen /\ lockout # NoState
      BY <1>1, <2>2 DEF IInv, TypeInv
    <3>2. QED
      BY <1>1, <2>1, <3>1 DEF IInv, CopiesAreComplete, AllListed, Recent
  <2>3. CASE attempt[a].state # lockout
    BY <1>1, <2>1, <2>3 DEF IInv, CopiesAreComplete, AllListed, Recent
  <2>4. QED
    BY <2>2, <2>3
<1>11. QED
  BY <1>1, <1>3, <1>4, <1>5, <1>6, <1>7, <1>8, <1>9, <1>10 DEF IInv, TypeInv

\* An attempt leaves the handler, or goes on to the credentials.
LEMMA CountHolds ==
    ASSUME IInv, NEW a \in Attempts, Count(a)
    PROVE  IInv'
<1> DEFINE new == IF Spent(failures[attempt[a].state]) THEN Idle
                  ELSE Holding("compare", NoState, FALSE)
<1>1. /\ attempt' = [attempt EXCEPT ![a] = new]
      /\ attempt[a].pc = "count" /\ Working(a)
      /\ locked' \subseteq locked \cup {a}
      /\ new.pc = "compare" => locked' = locked
      /\ UNCHANGED <<clock, lockout, failures, failed, met, alone>>
  BY DEF Count, Idle, Holding, Working
<1>2. new \in Attempt /\ new.pc \in {"idle", "compare"} /\ new.now <= clock
  BY HoldingType DEF IInv
<1> HIDE DEF new
<1>3. TypeInv' /\ EntriesAreFailures' /\ CopiesAreFailures' /\ HoldsState'
  BY <1>1, <1>2 DEF IInv, TypeInv, EntriesAreFailures, CopiesAreFailures, HoldsState
<1>4. Apart' /\ CopiesAreComplete'
  BY <1>1, <1>2 DEF IInv, TypeInv, Apart, CopiesAreComplete, Working, Recent
<1>5. Faithful(a)'
  BY <1>1, <1>2 DEF IInv, TypeInv, Faithful, Working
<1>6. ASSUME NEW b \in Attempts, b # a
      PROVE  Faithful(b)'
  <2>1. Working(b) => b \in met
    BY <1>1, <1>6 DEF IInv, Apart
  <2>2. attempt'[b] = attempt[b]
    BY <1>1, <1>6 DEF IInv, TypeInv
  <2>3. QED
    BY <1>1, <2>1, <2>2 DEF Faithful, Working
<1>7. AllListed'
  BY <1>1 DEF IInv, AllListed, Recent
<1>8. QED
  BY <1>3, <1>4, <1>5, <1>6, <1>7 DEF IInv

LEMMA CompareWrongHolds ==
    ASSUME IInv, NEW a \in Attempts, CompareWrong(a)
    PROVE  IInv'
<1>1. PICK s \in States :
          /\ IF lockout = NoState THEN s \notin InUse ELSE s = lockout
          /\ lockout' = s
          /\ failures' = IF lockout = NoState
                         THEN [failures EXCEPT ![s] = {}] ELSE failures
          /\ attempt' = [attempt EXCEPT ![a] = Holding("append", s, TRUE)]
  BY DEF CompareWrong
<1>2. /\ attempt[a].pc = "compare" /\ Working(a)
      /\ UNCHANGED <<clock, failed, locked, met, alone>>
  BY DEF CompareWrong, Working
<1> DEFINE new == Holding("append", s, TRUE)
<1>3. /\ new \in Attempt /\ new.pc = "append" /\ new.state = s /\ new.bound = TRUE
      /\ new.now <= clock /\ attempt' = [attempt EXCEPT ![a] = new]
  BY <1>1, HoldingType DEF IInv
<1> HIDE DEF new
<1>4. TypeInv' /\ HoldsState'
  BY <1>1, <1>2, <1>3 DEF IInv, TypeInv, HoldsState
<1>5. EntriesAreFailures' /\ CopiesAreFailures'
  <2>1. CASE lockout = NoState
    <3>1. \A b \in Attempts : attempt[b].state # s
      BY <1>1, <2>1 DEF InUse
    <3>2. failures'[s] = {}
      BY <1>1, <2>1 DEF IInv, TypeInv
    <3>3. QED
      BY <1>1, <1>2, <1>3, <3>1, <3>2 DEF IInv, TypeInv, EntriesAreFailures,
         CopiesAreFailures
  <2>2. CASE lockout # NoState
    BY <1>1, <1>2, <1>3, <2>2 DEF IInv, TypeInv, EntriesAreFailures, CopiesAreFailures
  <2>3. QED
    BY <2>1, <2>2
<1>6. Apart'
  BY <1>2, <1>3 DEF IInv, TypeInv, Apart, Working
<1>7. Faithful(a)'
  BY <1>1, <1>2, <1>3 DEF IInv, TypeInv, Faithful, Working
<1>8. ASSUME NEW b \in Attempts, b # a
      PROVE  Faithful(b)'
  <2>1. Working(b) => b \in met
    BY <1>2, <1>8 DEF IInv, Apart
  <2>2. attempt'[b] = attempt[b]
    BY <1>3, <1>8 DEF IInv, TypeInv
  <2>3. QED
    BY <1>2, <2>1, <2>2 DEF Faithful, Working
<1>9. CopiesAreComplete' /\ AllListed'
  <2>1. CASE lockout = NoState
    <3>1. Recent(alone, clock) = {}
      BY <2>1 DEF IInv, AllListed
    <3>2. AllListed'
      BY <1>2, <3>1 DEF AllListed, Recent
    <3>3. CopiesAreComplete'
      BY <1>2, <1>3, <2>1 DEF IInv, TypeInv, CopiesAreFailures, CopiesAreComplete, Recent
    <3>4. QED
      BY <3>2, <3>3
  <2>2. CASE lockout # NoState
    BY <1>1, <1>2, <1>3, <2>2 DEF IInv, TypeInv, CopiesAreComplete, AllListed, Recent
  <2>3. QED
    BY <2>1, <2>2
<1>10. QED
  BY <1>4, <1>5, <1>6, <1>7, <1>8, <1>9 DEF IInv

LEMMA RecordHolds ==
    ASSUME IInv, NEW a \in Attempts, RecordFailure(a)
    PROVE  IInv'
<1>1. PICK n \in 0..Cardinality(Known) :
          /\ failures' = IF attempt[a].bound
                         THEN [failures EXCEPT ![attempt[a].state] = @ \cup {<<clock, n>>}]
                         ELSE failures
          /\ failed' = failed \cup {<<clock, n>>}
          /\ alone' = IF a \in met THEN alone ELSE alone \cup {<<clock, n>>}
  BY DEF RecordFailure
<1>2. /\ attempt[a].pc = "append" /\ attempt[a].state \in States /\ Working(a)
      /\ attempt' = [attempt EXCEPT ![a] = Idle]
      /\ UNCHANGED <<clock, lockout, locked, met>>
  BY DEF RecordFailure, IInv, HoldsState, Working
<1>3. <<clock, n>> \in Entries /\ IsFiniteSet(failed')
  <2>1. <<clock, n>> \in Entries
    BY DEF IInv, TypeInv, Entries
  <2>2. IsFiniteSet(failed \cup {<<clock, n>>})
    BY FS_AddElement DEF IInv, TypeInv
  <2>3. QED
    BY <1>1, <2>1, <2>2
<1>4. Idle \in Attempt /\ Idle.pc = "idle" /\ Idle.now <= clock
  BY HoldingType DEF IInv
<1>5. TypeInv' /\ HoldsState'
  BY <1>1, <1>2, <1>3, <1>4 DEF IInv, TypeInv, HoldsState
<1>6. EntriesAreFailures' /\ CopiesAreFailures'
  BY <1>1, <1>2, <1>4 DEF IInv, TypeInv, EntriesAreFailures, CopiesAreFailures
<1>7. /\ Apart' /\ Faithful(a)'
      /\ \A b \in Attempts : b # a => attempt'[b] = attempt[b]
  BY <1>2, <1>4 DEF IInv, TypeInv, Apart, Faithful, Working
<1>8. \A b \in Attempts : b # a /\ Working(b) => a \in met /\ b \in met
  BY <1>2 DEF IInv, Apart
<1>9. \A b \in Attempts : b # a => Faithful(b)'
  BY <1>2, <1>7, <1>8 DEF Faithful, Working
<1>10. CopiesAreComplete'
  BY <1>1, <1>2, <1>4, <1>7, <1>8 DEF IInv, TypeInv, CopiesAreComplete, Working, Recent
<1>11. AllListed'
  <2>1. a \notin met => attempt[a].state = lockout /\ attempt[a].bound
    BY <1>2 DEF IInv, Faithful
  <2>2. \A s \in States : failures[s] \subseteq failures'[s]
    BY <1>1 DEF IInv, TypeInv
  <2>3. a \notin met => lockout # NoState /\ <<clock, n>> \in failures'[lockout]
    BY <1>1, <1>2, <2>1 DEF IInv, TypeInv
  <2>4. QED
    BY <1>1, <1>2, <2>2, <2>3 DEF IInv, TypeInv, AllListed, Recent
<1>12. QED
  BY <1>5, <1>6, <1>7, <1>9, <1>10, <1>11 DEF IInv

LEMMA CompareRightHolds ==
    ASSUME IInv, NEW a \in Attempts, CompareRight(a)
    PROVE  IInv'
<1>1. /\ attempt[a].pc = "compare" /\ attempt' = [attempt EXCEPT ![a] = Idle]
      /\ lockout' = NoState /\ failed' = {} /\ alone' = {} /\ Working(a)
      /\ UNCHANGED <<clock, failures, locked, met>>
  BY DEF CompareRight, Working
<1>2. Idle \in Attempt /\ Idle.pc = "idle" /\ Idle.now <= clock
  BY HoldingType DEF IInv
<1>3. TypeInv' /\ EntriesAreFailures' /\ CopiesAreFailures' /\ HoldsState'
  BY <1>1, <1>2, FS_EmptySet DEF IInv, TypeInv, EntriesAreFailures, CopiesAreFailures,
     HoldsState
<1>4. Apart' /\ Faithful(a)' /\ \A b \in Attempts : b # a => attempt'[b] = attempt[b]
  BY <1>1, <1>2 DEF IInv, TypeInv, Apart, Faithful, Working
<1>5. \A b \in Attempts : b # a => Faithful(b)'
  BY <1>1, <1>4 DEF IInv, Apart, Faithful, Working
<1>6. CopiesAreComplete' /\ AllListed'
  BY <1>1 DEF CopiesAreComplete, AllListed, Recent
<1>7. QED
  BY <1>3, <1>4, <1>5, <1>6 DEF IInv

LEMMA StepHolds == IInv /\ [Next]_vars => IInv'
<1> SUFFICES ASSUME IInv, [Next]_vars
             PROVE  IInv'
  OBVIOUS
<1>1. CASE UNCHANGED vars
  BY <1>1 DEF vars, IInv, TypeInv, EntriesAreFailures, CopiesAreFailures, HoldsState,
     Apart, CopiesAreComplete, Working, Faithful, AllListed, FailedUntil, Recent
<1>2. QED
  BY <1>1, TickHolds, LookUpHolds, RebindHolds, CountHolds, CompareWrongHolds,
     RecordHolds, CompareRightHolds DEF Next

LEMMA Invariance == Spec => []IInv
BY InitHolds, StepHolds, PTL DEF Spec

-----------------------------------------------------------------------------
(* Theorems                                                                *)

\* However many attempts of a client overlap, the list that locks it out holds
\* only wrong attempts made since its last success.
THEOREM EntriesAreReal == Spec => []EntriesAreFailures
<1>1. IInv => EntriesAreFailures
  BY DEF IInv
<1>2. QED
  BY <1>1, Invariance, PTL

\* The failures of attempts that met no other count, whatever overlaps with what:
\* once the window holds the permitted number of them, the next attempt is
\* locked out.
THEOREM LockoutComesInTime == Spec => []SpentMeansLockedAlone
<1>1. IInv => SpentMeansLockedAlone
  <2> SUFFICES ASSUME IInv, Cardinality(FailedUntil(clock) \cap alone) >= MaxFailures
               PROVE  NextIsLocked
    BY DEF SpentMeansLockedAlone
  <2>1. FailedUntil(clock) \cap alone = Recent(alone, clock)
    BY DEF IInv, TypeInv, FailedUntil, Recent
  <2>2. lockout # NoState
    <3>1. Recent(alone, clock) # {}
      BY <2>1, FS_EmptySet
    <3>2. QED
      BY <3>1 DEF IInv, AllListed
  <2>3. Recent(alone, clock) \subseteq Recent(failures[lockout], clock)
    BY DEF IInv, AllListed, Recent
  <2>4. IsFiniteSet(Recent(failures[lockout], clock))
    <3>1. Recent(failures[lockout], clock) \subseteq failed
      BY <2>2 DEF IInv, EntriesAreFailures, Recent
    <3>2. QED
      BY <3>1, FS_Subset DEF IInv, TypeInv
  <2>5. /\ Cardinality(Recent(alone, clock)) <= Cardinality(Recent(failures[lockout], clock))
        /\ Cardinality(Recent(alone, clock)) \in Nat
        /\ Cardinality(Recent(failures[lockout], clock)) \in Nat
    BY <2>3, <2>4, FS_Subset, FS_CardinalityType
  <2>6. QED
    BY <2>1, <2>2, <2>5 DEF NextIsLocked, Spent
<1>2. QED
  BY <1>1, Invariance, PTL

\* A client none of whose failures overlapped: the lockout is in force as soon
\* as the window holds the permitted number of wrong attempts.
THEOREM LockoutComesOneByOne == Spec => [](failed = alone => SpentMeansLocked)
<1>1. SpentMeansLockedAlone /\ failed = alone => SpentMeansLocked
  <2>1. failed = alone => FailedUntil(clock) \cap alone = FailedUntil(clock)
    BY DEF FailedUntil
  <2>2. QED
    BY <2>1 DEF SpentMeansLocked, SpentMeansLockedAlone
<1>2. QED
  BY <1>1, LockoutComesInTime, PTL

\* An attempt that met no other: it is answered 429 only if the window that
\* ends at its check holds the permitted number of wrong attempts, and certainly
\* if that many of them met no other.
THEOREM RefusalsAreTimely == Spec => RefusedWhenDue
<1> DEFINE Exact == \A a \in Attempts : a \notin met /\ Count(a) =>
               LET wrong == FailedUntil(attempt[a].now)
               IN  /\ a \in locked' => Cardinality(wrong) >= MaxFailures
                   /\ Cardinality(wrong \cap alone) >= MaxFailures => a \in locked'
<1>1. IInv /\ [Next]_vars => [Exact]_vars
  <2> SUFFICES ASSUME IInv, NEW a \in Attempts, a \notin met, Count(a)
               PROVE  LET wrong == FailedUntil(attempt[a].now)
                      IN  /\ a \in locked' => Cardinality(wrong) >= MaxFailures
                          /\ Cardinality(wrong \cap alone) >= MaxFailures => a \in locked'
    OBVIOUS
  <2> DEFINE wrong == FailedUntil(attempt[a].now)
             list  == failures[lockout]
  <2>1. /\ attempt[a].state = lockout /\ a \notin locked
        /\ list \subseteq wrong /\ wrong \cap alone \subseteq list
        /\ wrong \subseteq failed
    BY DEF Count, IInv, Faithful, Working, FailedUntil, Recent
  <2>2. a \in locked' <=> Cardinality(list) >= MaxFailures
    BY <2>1 DEF Count, Spent
  <2> HIDE DEF wrong, list
  <2>3. IsFiniteSet(wrong) /\ IsFiniteSet(list)
    BY <2>1, FS_Subset DEF IInv, TypeInv
  <2>4. /\ Cardinality(list) <= Cardinality(wrong)
        /\ Cardinality(wrong \cap alone) <= Cardinality(list)
        /\ Cardinality(list) \in Nat /\ Cardinality(wrong) \in Nat
        /\ Cardinality(wrong \cap alone) \in Nat
    BY <2>1, <2>3, FS_Subset, FS_CardinalityType
  <2>5. QED
    BY <2>2, <2>4 DEF wrong
<1>2. QED
  BY <1>1, Invariance, PTL DEF Spec, RefusedWhenDue
=============================================================================
