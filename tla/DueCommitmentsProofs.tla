------------------------ MODULE DueCommitmentsProofs ------------------------
(***************************************************************************)
(* What is read from a note, its due dates and the buckets, proved for     *)
(* every note, every list of accounts, every day and every window.         *)
(***************************************************************************)
EXTENDS DueCommitments, WellFoundedInduction, TLAPS

\* What the capture has read from the note is still what the rows hold.
IInv ==
    /\ today \in Nat
    /\ note \in {<<>>} \cup Notes
    /\ account = FindAccount(Named(note))
    /\ attendees = Attendees(note)
    /\ commitments \in [Asks(note) -> Commitment]
    /\ \A c \in Asks(note) :
          /\ commitments[c].created_at <= today
          /\ Due(c) = ResolveDueDate(Found(note, c), commitments[c].created_at)

-----------------------------------------------------------------------------
(* Least elements                                                          *)

\* A set of natural numbers that is not empty has a least element.
LEMMA MinIsLeast ==
    ASSUME NEW T \in SUBSET Nat, T # {}
    PROVE  Min(T) \in T /\ \A t \in T : Min(T) <= t
<1> DEFINE R == OpToRel(<, Nat)
<1>0. R = {ss \in Nat \X Nat : ss[1] < ss[2]}
    BY DEF OpToRel
<1>1. \E x \in T : \A y \in T : ~(<<y, x>> \in R)
    <2>1. IsWellFoundedOn(R, Nat)
        BY NatLessThanWellFounded
    <2> HIDE DEF R
    <2>2. QED
        BY <2>1, WFMin
<1>2. \E x \in T : \A y \in T : x <= y
    <2> HIDE DEF R
    <2>1. PICK x \in T : \A y \in T : ~(<<y, x>> \in R)
        BY <1>1
    <2>2. \A y \in T : <<y, x>> \in R <=> y < x
        BY <1>0
    <2>3. \A y \in T : ~(y < x)
        BY <2>1, <2>2
    <2>4. \A y \in T : x \in Nat /\ y \in Nat
        OBVIOUS
    <2>5. QED
        BY <2>3, <2>4
<1>3. QED
    BY <1>2 DEF Min

\* And a greatest one if it has a bound.
LEMMA MaxExists ==
    ASSUME NEW T \in SUBSET Nat, T # {}, NEW n \in Nat, \A t \in T : t <= n
    PROVE  \E t \in T : \A u \in T : u <= t
<1> DEFINE U == {n - t : t \in T}
<1>1. U \in SUBSET Nat /\ U # {}
    <2>1. \A t \in T : n - t \in Nat
        OBVIOUS
    <2>2. QED
        BY <2>1
<1>2. Min(U) \in U /\ \A u \in U : Min(U) <= u
    BY <1>1, MinIsLeast
<1>3. PICK t \in T : Min(U) = n - t
    BY <1>2
<1>4. \A u \in T : n - t <= n - u
    BY <1>2, <1>3
<1>5. QED
    BY <1>4

-----------------------------------------------------------------------------
(* Due dates                                                               *)

\* A set of weekdays has a first one.
LEMMA FirstNamedIsNamed ==
    ASSUME NEW days \in SUBSET (0..6), days # {}
    PROVE  FirstNamed(days) \in days
<1>1. \E w \in days : \A v \in days : w <= v
    <2>1. CASE 0 \in days
        BY <2>1
    <2>2. CASE 0 \notin days /\ 1 \in days
        BY <2>2
    <2>3. CASE days \cap 0..1 = {} /\ 2 \in days
        BY <2>3
    <2>4. CASE days \cap 0..2 = {} /\ 3 \in days
        BY <2>4
    <2>5. CASE days \cap 0..3 = {} /\ 4 \in days
        BY <2>5
    <2>6. CASE days \cap 0..4 = {} /\ 5 \in days
        BY <2>6
    <2>7. CASE days \cap 0..5 = {}
        <3>1. days = {6}
            <4>1. \A v \in days : v \in 0..6 /\ v \notin 0..5
                BY <2>7
            <4>2. \A v \in 0..6 : v \notin 0..5 => v = 6
                OBVIOUS
            <4>3. QED
                BY <4>1, <4>2
        <3>2. QED
            BY <3>1
    <2>8. QED
        BY <2>1, <2>2, <2>3, <2>4, <2>5, <2>6, <2>7
<1>2. QED
    BY <1>1 DEF FirstNamed

\* A named weekday lies one to seven days ahead.
LEMMA DaysAheadRange ==
    ASSUME NEW day \in Int, NEW w \in 0..6
    PROVE  DaysAhead(day, w) \in 1..7
BY DEF DaysAhead, Weekday

\* The day so many days ahead is that weekday, and none before it is.
LEMMA DaysAheadIsNext ==
    ASSUME NEW day \in Int, NEW w \in 0..6,
           NEW due, due = day + DaysAhead(day, w)
    PROVE  /\ Weekday(due) = w
           /\ \A d \in (day + 1)..(due - 1) : Weekday(d) # w
BY DEF DaysAhead, Weekday

\* What is found in a clause is well typed.
LEMMA FoundType ==
    ASSUME NEW n \in Seq(Word), NEW c \in Clauses(n)
    PROVE  Found(n, c) \in Cues
<1> DEFINE words == c[1]..c[2]
           dated == {i \in words : n[i].iso # NoIso}
<1>1. /\ words \subseteq 1..Len(n)
      /\ \A i \in words : n[i] \in Word
    BY DEF Clauses
<1>2. UNION {n[i].weekdays : i \in words} \in SUBSET (0..6)
    BY <1>1 DEF Word
<1>3. (IF dated = {} THEN NoDate ELSE n[Min(dated)].iso) \in Int \cup {NoDate}
    <2>1. dated \in SUBSET Nat
        BY <1>1
    <2>2. dated # {} => Min(dated) \in dated
        BY <2>1, MinIsLeast
    <2>3. \A i \in dated : n[i].iso \in Int \cup {NoDate}
        BY <1>1 DEF Word
    <2>4. QED
        BY <2>2, <2>3
<1>4. QED
    BY <1>2, <1>3 DEF Found, Cues

\* A clause that names a day gives a date within a week.
LEMMA NamedWithinWeek ==
    ASSUME NEW cues \in Cues, NEW day \in Nat, NamesDay(cues)
    PROVE  ResolveDueDate(cues, day) \in day..(day + 7)
<1>1. CASE cues.tomorrow \/ cues.today
    BY <1>1 DEF ResolveDueDate, NamesDay
<1>2. CASE ~cues.tomorrow /\ ~cues.today
    <2>1. cues.weekdays # {} /\ cues.weekdays \in SUBSET (0..6)
        BY <1>2 DEF NamesDay, Cues
    <2>2. DaysAhead(day, FirstNamed(cues.weekdays)) \in 1..7
        BY <2>1, FirstNamedIsNamed, DaysAheadRange
    <2>3. QED
        BY <1>2, <2>1, <2>2 DEF ResolveDueDate, NamesDay
<1>3. QED
    BY <1>1, <1>2

\* Every clause gives a date or none.
LEMMA ResolveType ==
    ASSUME NEW cues \in Cues, NEW day \in Nat
    PROVE  ResolveDueDate(cues, day) \in Int \cup {NoDate}
<1>1. CASE NamesDay(cues)
    BY <1>1, NamedWithinWeek
<1>2. CASE ~NamesDay(cues)
    BY <1>2 DEF ResolveDueDate, NamesDay, Cues
<1>3. QED
    BY <1>1, <1>2

-----------------------------------------------------------------------------
(* The invariant                                                           *)

\* Nothing is read from an empty text.
LEMMA NothingFromNothing ==
    FindAccount(Named(<<>>)) = NoAccount /\ Attendees(<<>>) = {} /\ Asks(<<>>) = {}
<1>1. Named(<<>>) = {}
    BY DEF Named
<1>2. FindAccount({}) = NoAccount
    BY DEF FindAccount
<1>3. Meetings(<<>>) = {}
    BY DEF Meetings
<1>4. Clauses(<<>>) = {}
    BY DEF Clauses
<1>5. QED
    BY <1>1, <1>2, <1>3, <1>4 DEF Attendees, Asks

\* The invariant holds in every reachable state.
THEOREM Invariance == Spec => []IInv
<1>1. Init => IInv
    BY NothingFromNothing DEF Init, IInv
<1>2. IInv /\ [Next]_vars => IInv'
    <2> SUFFICES ASSUME IInv, [Next]_vars PROVE IInv'
        OBVIOUS
    <2>1. CASE NextDay
        BY <2>1, CalendarAssumption DEF NextDay, IInv, Commitment, Due
    <2>2. CASE Capture
        <3>1. PICK n \in Notes :
                 /\ note' = n
                 /\ account' = FindAccount(Named(n))
                 /\ attendees' = Attendees(n)
                 /\ commitments' = [c \in Asks(n) |->
                        [created_at |-> today, status |-> "open",
                         due_date |-> ResolveDueDate(Found(n, c), today)]]
            BY <2>2 DEF Capture
        <3>2. today' = today /\ today \in Nat
            BY <2>2 DEF Capture, IInv
        <3>3. \A c \in Asks(n) : ResolveDueDate(Found(n, c), today) \in Int \cup {NoDate}
            BY <3>2, NotesAssumption, FoundType, ResolveType DEF Asks
        <3>4. commitments' \in [Asks(n) -> Commitment]
            BY <3>1, <3>2, <3>3 DEF Commitment
        <3>5. \A c \in Asks(n) :
                 /\ commitments'[c].created_at = today
                 /\ commitments'[c].due_date = ResolveDueDate(Found(n, c), today)
            BY <3>1
        <3>6. QED
            BY <3>1, <3>2, <3>4, <3>5 DEF IInv, Due
    <2>3. ASSUME NEW c \in Open, Complete(c) PROVE IInv'
        <3>1. c \in Asks(note)
            BY DEF Open, IInv
        <3>2. commitments' \in [Asks(note) -> Commitment]
            BY <2>3, <3>1 DEF Complete, IInv, Commitment
        <3>3. \A d \in Asks(note) :
                 /\ commitments'[d].created_at = commitments[d].created_at
                 /\ commitments'[d].due_date = commitments[d].due_date
            BY <2>3, <3>1 DEF Complete, IInv, Commitment
        <3>4. UNCHANGED <<today, note, account, attendees>>
            BY <2>3 DEF Complete
        <3>5. QED
            BY <3>2, <3>3, <3>4 DEF IInv, Due
    <2>4. CASE UNCHANGED vars
        BY <2>4 DEF vars, IInv, Due
    <2>5. QED
        BY <2>1, <2>2, <2>3, <2>4 DEF Next
<1>3. QED
    BY <1>1, <1>2, PTL DEF Spec

\* The facts about an open commitment that the theorems below start from.
LEMMA OpenFacts ==
    ASSUME IInv, NEW c \in Open
    PROVE  /\ c \in Asks(note) /\ c \in Clauses(note) /\ note \in Seq(Word)
           /\ Found(note, c) \in Cues
           /\ commitments[c].created_at \in Nat /\ today \in Nat
           /\ commitments[c].created_at <= today
           /\ Due(c) = ResolveDueDate(Found(note, c), commitments[c].created_at)
<1>1. c \in Asks(note) /\ c \in Clauses(note)
    BY DEF Open, IInv, Asks
<1>2. note \in Seq(Word)
    <2>1. <<>> \in Seq(Word)
        OBVIOUS
    <2>2. QED
        BY <2>1, NotesAssumption DEF IInv
<1>3. commitments[c].created_at \in Nat
    BY <1>1 DEF IInv, Commitment
<1>4. Found(note, c) \in Cues
    BY <1>1, <1>2, FoundType
<1>5. QED
    BY <1>1, <1>2, <1>3, <1>4 DEF IInv

-----------------------------------------------------------------------------
(* The list                                                                *)

\* A commitment whose clause names a day is always listed while it is open.
THEOREM NamedDaysAreListed == Spec => []NamedDayListed
<1>1. IInv => NamedDayListed
    <2> SUFFICES ASSUME IInv, WindowDays >= 7,
                        NEW c \in Open, NamesDay(Found(note, c))
                 PROVE  c \in DueSoon \cup Overdue
        BY DEF NamedDayListed
    <2> DEFINE day == commitments[c].created_at
    <2>1. /\ day \in Nat /\ day <= today /\ today \in Nat
          /\ Found(note, c) \in Cues
          /\ Due(c) = ResolveDueDate(Found(note, c), day)
        BY OpenFacts
    <2>2. Due(c) \in day..(day + 7)
        BY <2>1, NamedWithinWeek
    <2>3. c \notin Unspecified
        BY <2>1, <2>2, ExtractionAssumption DEF Unspecified
    <2>4. Due(c) < today \/ (today <= Due(c) /\ Due(c) <= today + WindowDays)
        BY <2>1, <2>2, CalendarAssumption
    <2>5. QED
        BY <2>3, <2>4 DEF DueSoon, Overdue
<1>2. QED
    BY <1>1, Invariance, PTL

\* A weekday is resolved to its next occurrence after the day of the capture.
THEOREM WeekdaysAreNext == Spec => []WeekdayIsNext
<1>1. IInv => WeekdayIsNext
    <2> SUFFICES ASSUME IInv, NEW c \in Open, NamesDay(Found(note, c)),
                        ~Found(note, c).tomorrow, ~Found(note, c).today
                 PROVE  /\ Weekday(Due(c)) = FirstNamed(Found(note, c).weekdays)
                        /\ commitments[c].created_at < Due(c)
                        /\ \A d \in (commitments[c].created_at + 1)..(Due(c) - 1) :
                              Weekday(d) # FirstNamed(Found(note, c).weekdays)
        BY DEF WeekdayIsNext
    <2> DEFINE w == FirstNamed(Found(note, c).weekdays)
               day == commitments[c].created_at
    <2>1. /\ day \in Nat
          /\ Found(note, c).weekdays \in SUBSET (0..6)
          /\ Found(note, c).weekdays # {}
        BY OpenFacts DEF Cues, NamesDay
    <2>2. w \in 0..6
        BY <2>1, FirstNamedIsNamed
    <2>3. Due(c) = day + DaysAhead(day, w)
        BY <2>1, OpenFacts DEF ResolveDueDate, NamesDay
    <2>4. DaysAhead(day, w) \in 1..7
        BY <2>1, <2>2, DaysAheadRange
    <2>5. /\ Weekday(Due(c)) = w
          /\ \A d \in (day + 1)..(Due(c) - 1) : Weekday(d) # w
        BY <2>1, <2>2, <2>3, DaysAheadIsNext
    <2>6. day < Due(c)
        BY <2>1, <2>3, <2>4
    <2>7. QED
        BY <2>5, <2>6
<1>2. QED
    BY <1>1, Invariance, PTL

\* The two buckets leave no gap: what is listed stays listed until completed.
THEOREM ListedStays == Spec => ListedUntilComplete
<1>1. IInv /\ [Next]_vars => [ListStays]_vars
    <2> SUFFICES ASSUME IInv, Next, NEW c \in DueSoon \cup Overdue, c \in Open'
                 PROVE  c \in (DueSoon \cup Overdue)'
        BY DEF ListStays
    <2>1. /\ c \in Asks(note) /\ c \in Open
          /\ Due(c) \in Int \cup {NoDate} /\ Due(c) # NoDate
          /\ today \in Nat /\ WindowDays \in Nat
        BY CalendarAssumption
        DEF DueSoon, Overdue, Unspecified, Open, IInv, Commitment, Due
    <2>2. Due(c) <= today + WindowDays
        BY <2>1 DEF DueSoon, Overdue
    <2>3. Due(c)' = Due(c)
        <3>1. CASE Capture
            BY <2>1, <3>1, NothingFromNothing DEF Capture
        <3>2. CASE NextDay
            BY <3>2 DEF NextDay, Due
        <3>3. ASSUME NEW d \in Open, Complete(d) PROVE Due(c)' = Due(c)
            BY <2>1, <3>3 DEF Complete, Due, IInv, Commitment, Open
        <3>4. QED
            BY <3>1, <3>2, <3>3 DEF Next
    <2>4. today' \in Nat /\ today <= today'
        BY <2>1 DEF Next, NextDay, Capture, Complete
    <2>5. c \in (Open \ Unspecified)'
        BY <2>1, <2>3 DEF Unspecified
    <2>6. Due(c)' < today' \/ (today' <= Due(c)' /\ Due(c)' <= today' + WindowDays)
        BY <2>1, <2>2, <2>3, <2>4
    <2>7. QED
        BY <2>5, <2>6 DEF DueSoon, Overdue
<1>2. QED
    BY <1>1, Invariance, PTL DEF Spec, ListedUntilComplete
-----------------------------------------------------------------------------
(* What is read from the text                                              *)

\* The note in a state of the invariant.
LEMMA NoteFacts ==
    ASSUME IInv
    PROVE  /\ note \in Seq(Word)
           /\ \A i \in DOMAIN note :
                 note[i].spells # NoAccount => note[i].spells \in note[i].names
<1>1. CASE note = <<>>
    BY <1>1
<1>2. CASE note \in Notes
    BY <1>2, NotesAssumption
<1>3. QED
    BY <1>1, <1>2 DEF IInv

\* A note is filed under an account it calls by name and under no other, as
\* far as no word hides a name.
THEOREM MatchedOnlyByName == Spec => []MatchedByName
<1>1. IInv => MatchedByName
    <2> DEFINE spelled == {note[i].spells : i \in DOMAIN note} \ {NoAccount}
    <2> SUFFICES ASSUME IInv
                 PROVE  /\ account # NoAccount => spelled \subseteq {account}
                        /\ Named(note) = spelled =>
                              \A a \in Accounts : account = a <=> spelled = {a}
        BY DEF MatchedByName
    <2>1. spelled \subseteq Named(note)
        <3>1. ASSUME NEW i \in DOMAIN note, note[i].spells # NoAccount
              PROVE  note[i].spells \in Named(note)
            BY <3>1, NoteFacts DEF Named
        <3>2. QED
            BY <3>1
    <2>2. \A a \in Accounts : account = a <=> Named(note) = {a}
        <3>1. account = FindAccount(Named(note))
            BY DEF IInv
        <3>2. CASE \E a \in Accounts : Named(note) = {a}
            BY <3>1, <3>2 DEF FindAccount
        <3>3. CASE ~\E a \in Accounts : Named(note) = {a}
            BY <3>1, <3>3, ExtractionAssumption DEF FindAccount
        <3>4. QED
            BY <3>2, <3>3
    <2>3. account # NoAccount => Named(note) = {account}
        BY <2>2 DEF IInv, FindAccount
    <2>4. QED
        BY <2>1, <2>2, <2>3
<1>2. QED
    BY <1>1, Invariance, PTL

\* The stretch between stops around a word.
LEMMA ClauseAround ==
    ASSUME NEW n \in Seq(Word), NEW i \in 1..Len(n), n[i].is # "stop"
    PROVE  \E c \in Clauses(n) : i \in c[1]..c[2]
<1> DEFINE Before == {k \in 1..i : \A j \in k..i : n[j].is # "stop"}
           After == {k \in i..Len(n) : \A j \in i..k : n[j].is # "stop"}
<1>0. Len(n) \in Nat /\ i \in Nat
    OBVIOUS
<1>1. PICK first \in Before : \A k \in Before : first <= k
    <2>1. Before \in SUBSET Nat /\ i \in Before
        BY <1>0
    <2>2. QED
        BY ZenonT(40), <2>1, MinIsLeast
<1>2. PICK last \in After : \A k \in After : k <= last
    <2>1. After \in SUBSET Nat /\ i \in After /\ \A k \in After : k <= Len(n)
        BY <1>0
    <2>2. QED
        BY <1>0, <2>1, MaxExists
<1>3. first = 1 \/ n[first - 1].is = "stop"
    <2> SUFFICES ASSUME first # 1, n[first - 1].is # "stop" PROVE FALSE
        OBVIOUS
    <2>1. first - 1 \in Before
        BY <1>0, <1>1
    <2>2. QED
        BY <1>0, <1>1, <2>1
<1>4. last = Len(n) \/ n[last + 1].is = "stop"
    <2> SUFFICES ASSUME last # Len(n), n[last + 1].is # "stop" PROVE FALSE
        OBVIOUS
    <2>1. last + 1 \in After
        BY <1>0, <1>2
    <2>2. QED
        BY <1>0, <1>2, <2>1
<1>5. \A j \in first..last : n[j].is # "stop"
    BY <1>0
<1>6. <<first, last>> \in Clauses(n) /\ i \in first..last
    BY <1>0, <1>3, <1>4, <1>5 DEF Clauses
<1>7. QED
    BY <1>6

\* Of two clauses that share a word neither starts before the other or ends
\* after it.
LEMMA ClauseWithin ==
    ASSUME NEW n \in Seq(Word), NEW c \in Clauses(n), NEW d \in Clauses(n),
           NEW i \in c[1]..c[2], i \in d[1]..d[2]
    PROVE  d[1] <= c[1] /\ c[2] <= d[2]
<1>1. /\ c[1] \in 1..Len(n) /\ c[2] \in 1..Len(n)
      /\ d[1] \in 1..Len(n) /\ d[2] \in 1..Len(n) /\ Len(n) \in Nat
      /\ \A j \in c[1]..c[2] : n[j].is # "stop"
      /\ d[1] = 1 \/ n[d[1] - 1].is = "stop"
      /\ d[2] = Len(n) \/ n[d[2] + 1].is = "stop"
    BY DEF Clauses
<1>2. ASSUME c[1] < d[1] PROVE FALSE
    <2>1. d[1] - 1 \in c[1]..c[2] /\ d[1] # 1
        BY <1>1, <1>2
    <2>2. QED
        BY <1>1, <2>1
<1>3. ASSUME d[2] < c[2] PROVE FALSE
    <2>1. d[2] + 1 \in c[1]..c[2] /\ d[2] # Len(n)
        BY <1>1, <1>3
    <2>2. QED
        BY <1>1, <2>1
<1>4. QED
    BY <1>1, <1>2, <1>3

\* So they are one.
LEMMA ClausesDisjoint ==
    ASSUME NEW n \in Seq(Word), NEW c \in Clauses(n), NEW d \in Clauses(n),
           NEW i \in c[1]..c[2], i \in d[1]..d[2]
    PROVE  c = d
<1>1. /\ c \in (1..Len(n)) \X (1..Len(n)) /\ d \in (1..Len(n)) \X (1..Len(n))
      /\ Len(n) \in Nat
    BY DEF Clauses
<1>2. d[1] <= c[1] /\ c[2] <= d[2]
    BY ClauseWithin
<1>3. c[1] <= d[1] /\ d[2] <= c[2]
    BY ClauseWithin
<1>4. c[1] = d[1] /\ c[2] = d[2]
    BY <1>1, <1>2, <1>3
<1>5. QED
    BY <1>1, <1>4

\* Every request in a note is part of exactly one commitment.
THEOREM AsksAreKept == Spec => []EveryAskKept
<1>1. IInv => EveryAskKept
    <2> SUFFICES ASSUME IInv PROVE EveryAskKept
        OBVIOUS
    <2>1. note \in Seq(Word) /\ DOMAIN commitments = Asks(note)
        BY NoteFacts DEF IInv
    <2>2. ASSUME NEW i \in DOMAIN note, note[i].asks, note[i].is # "stop"
          PROVE  \E c \in DOMAIN commitments :
                    /\ i \in c[1]..c[2]
                    /\ \A d \in DOMAIN commitments : i \in d[1]..d[2] => d = c
        <3>1. PICK c \in Clauses(note) : i \in c[1]..c[2]
            BY <2>1, <2>2, ClauseAround
        <3>2. c \in Asks(note)
            BY <2>2, <3>1 DEF Asks
        <3>3. \A d \in Asks(note) : i \in d[1]..d[2] => d = c
            BY <2>1, <3>1, ClausesDisjoint DEF Asks
        <3>4. QED
            BY <2>1, <3>1, <3>2, <3>3
    <2>3. \A c \in DOMAIN commitments : \A i \in c[1]..c[2] : note[i].is # "stop"
        BY <2>1 DEF Asks, Clauses
    <2>4. QED
        BY <2>2, <2>3 DEF EveryAskKept
<1>2. QED
    BY <1>1, Invariance, PTL

\* The end of a clause is reached without a stop.
LEMMA ClauseEndFacts ==
    ASSUME NEW n \in Seq(Word), NEW m \in 1..Len(n), n[m].is # "stop"
    PROVE  /\ ClauseEnd(n, m) \in m..Len(n)
           /\ \A i \in m..ClauseEnd(n, m) : n[i].is # "stop"
           /\ ClauseEnd(n, m) = Len(n) \/ n[ClauseEnd(n, m) + 1].is = "stop"
<1> DEFINE Ends == {i \in m..Len(n) : i = Len(n) \/ n[i + 1].is = "stop"}
           end == ClauseEnd(n, m)
<1>1. Len(n) \in Nat /\ m \in Nat /\ m <= Len(n)
    OBVIOUS
<1>2. end \in Ends /\ \A e \in Ends : end <= e
    <2>1. Ends \in SUBSET Nat /\ Len(n) \in Ends
        BY <1>1
    <2>2. QED
        BY <2>1, MinIsLeast DEF ClauseEnd
<1>3. ASSUME NEW i \in m..end PROVE n[i].is # "stop"
    <2>1. CASE i = m
        BY <2>1
    <2>2. CASE i # m
        <3>1. i - 1 \in m..Len(n) /\ ~(end <= i - 1)
            BY <1>1, <1>2, <2>2
        <3>2. n[(i - 1) + 1].is # "stop"
            BY <1>2, <3>1
        <3>3. (i - 1) + 1 = i
            BY <1>1
        <3>4. QED
            BY <3>2, <3>3
    <2>3. QED
        BY <2>1, <2>2
<1>4. QED
    BY <1>2, <1>3

\* The names end within the clause and before a company.
LEMMA NamesEndFacts ==
    ASSUME NEW n \in Seq(Word), NEW m \in 1..Len(n), n[m].is = "met"
    PROVE  /\ NamesEnd(n, m) \in m..ClauseEnd(n, m)
           /\ \A i \in m..(NamesEnd(n, m) - 1) :
                 ~(n[i].is = "from" /\ n[i + 1].is = "Name")
<1> DEFINE end == ClauseEnd(n, m)
           companies == {i \in (m + 1)..(end - 1) :
                             n[i].is = "from" /\ n[i + 1].is = "Name"}
<1>1. end \in m..Len(n) /\ Len(n) \in Nat /\ m \in Nat
    BY ClauseEndFacts
<1> HIDE DEF end
<1>2. CASE companies = {}
    <2>1. NamesEnd(n, m) = end
        BY <1>2 DEF NamesEnd, end
    <2>2. ASSUME NEW i \in m..(end - 1)
          PROVE  ~(n[i].is = "from" /\ n[i + 1].is = "Name")
        <3>1. CASE i = m
            BY <3>1
        <3>2. CASE i # m
            <4>1. i \in (m + 1)..(end - 1)
                BY <1>1, <3>2
            <4>2. QED
                BY <1>2, <4>1
        <3>3. QED
            BY <3>1, <3>2
    <2>3. QED
        BY <1>1, <2>1, <2>2 DEF end
<1>3. CASE companies # {}
    <2>1. companies \in SUBSET Nat
        BY <1>1
    <2>2. Min(companies) \in companies /\ \A i \in companies : Min(companies) <= i
        BY <1>3, <2>1, MinIsLeast
    <2>3. NamesEnd(n, m) = Min(companies) - 1
        BY <1>3 DEF NamesEnd, end
    <2>4. ASSUME NEW i \in m..(Min(companies) - 2)
          PROVE  ~(n[i].is = "from" /\ n[i + 1].is = "Name")
        <3>1. CASE i = m
            BY <3>1
        <3>2. CASE i # m
            <4>1. i \in (m + 1)..(end - 1) /\ ~(Min(companies) <= i)
                BY <1>1, <2>2, <3>2
            <4>2. QED
                BY <2>2, <4>1
        <3>3. QED
            BY <3>1, <3>2
    <2>5. NamesEnd(n, m) \in m..end /\ NamesEnd(n, m) - 1 = Min(companies) - 2
        BY <1>1, <2>2, <2>3
    <2>6. QED
        BY <2>4, <2>5 DEF end
<1>4. QED
    BY <1>2, <1>3

\* Whoever is listed was named after "met" in the same clause, before the
\* company.
THEOREM OnlyMetAreListed == Spec => []AttendeesWereMet
<1>1. IInv => AttendeesWereMet
    <2> SUFFICES ASSUME IInv, NEW c \in Attendees(note)
                 PROVE  \E m \in 1..(c[1] - 1) :
                           /\ note[m].is = "met"
                           /\ \A i \in m..c[2] : note[i].is # "stop"
                           /\ \A i \in m..(c[2] - 1) :
                                 ~(note[i].is = "from" /\ note[i + 1].is = "Name")
        BY DEF AttendeesWereMet, IInv
    <2> DEFINE m == Min(Meetings(note))
               last == NamesEnd(note, m)
    <2>1. note \in Seq(Word) /\ Len(note) \in Nat
        BY NoteFacts
    <2>2. m \in Meetings(note)
        <3>1. Meetings(note) # {}
            BY DEF Attendees
        <3>2. Meetings(note) \in SUBSET Nat
            BY <2>1 DEF Meetings
        <3>3. QED
            BY <3>1, <3>2, MinIsLeast
    <2>3. m \in 1..Len(note) /\ note[m].is = "met"
        BY <2>1, <2>2 DEF Meetings
    <2> HIDE DEF m
    <2>4. (m + 1) - 1 = m
        BY <2>3
    <2>5. c \in ((m + 1)..last) \X ((m + 1)..last)
        BY <2>2, <2>4 DEF Attendees, m
    <2>6. last \in m..ClauseEnd(note, m)
        BY <2>1, <2>3, NamesEndFacts
    <2>7. \A i \in m..ClauseEnd(note, m) : note[i].is # "stop"
        BY <2>1, <2>3, ClauseEndFacts
    <2>8. \A i \in m..(last - 1) : ~(note[i].is = "from" /\ note[i + 1].is = "Name")
        BY <2>1, <2>3, NamesEndFacts
    <2>9. ClauseEnd(note, m) \in Nat
        BY <2>1, <2>3, ClauseEndFacts
    <2> HIDE DEF last
    <2>10. m \in 1..(c[1] - 1) /\ c[2] <= last /\ c[2] \in Nat /\ last \in Nat
        BY <2>3, <2>5, <2>6, <2>9
    <2>11. QED
        BY <2>3, <2>6, <2>7, <2>8, <2>9, <2>10
<1>2. QED
    BY <1>1, Invariance, PTL
\* In a meeting told in the plain form the names end with the last of them.
LEMMA PlainNamesEnd ==
    ASSUME NEW m \in DOMAIN note, NEW last \in (m + 1)..Len(note),
           note \in Seq(Word), PlainMeeting(m, last)
    PROVE  Min(Meetings(note)) = m /\ NamesEnd(note, m) = last
<1> DEFINE end == ClauseEnd(note, m)
           companies == {i \in (m + 1)..(end - 1) :
                             note[i].is = "from" /\ note[i + 1].is = "Name"}
<1>1. /\ note[m].is = "met" /\ \A i \in 1..(m - 1) : note[i].is # "met"
      /\ \A i \in (m + 1)..last : note[i].is \in {"Name", "and"}
      /\ note[m + 1].is = "Name"
      /\ \/ last = Len(note)
         \/ note[last + 1].is = "stop"
         \/ last + 2 <= Len(note) /\ note[last + 1].is = "from" /\ note[last + 2].is = "Name"
    BY DEF PlainMeeting
<1>2. m \in 1..Len(note) /\ Len(note) \in Nat
    OBVIOUS
<1>3. Min(Meetings(note)) = m
    <2>1. m \in Meetings(note) /\ Meetings(note) \in SUBSET Nat
        BY <1>1, <1>2 DEF Meetings
    <2>2. Min(Meetings(note)) \in Meetings(note) /\ Min(Meetings(note)) <= m
        BY <2>1, MinIsLeast
    <2>3. \A k \in Meetings(note) : k \in 1..Len(note) /\ note[k].is = "met"
        BY <1>2 DEF Meetings
    <2>4. ~(Min(Meetings(note)) < m)
        BY <1>1, <1>2, <2>2, <2>3
    <2>5. QED
        BY <1>2, <2>2, <2>3, <2>4
<1>4. /\ end \in m..Len(note)
      /\ \A i \in m..end : note[i].is # "stop"
      /\ end = Len(note) \/ note[end + 1].is = "stop"
    BY <1>1, <1>2, ClauseEndFacts
<1>5. /\ companies = {} => NamesEnd(note, m) = end
      /\ companies # {} => NamesEnd(note, m) = Min(companies) - 1
    BY DEF NamesEnd
<1> HIDE DEF end
<1>6. last <= end
    <2> SUFFICES ASSUME end < last PROVE FALSE
        BY <1>2, <1>4
    <2>1. end + 1 \in (m + 1)..last /\ end # Len(note)
        BY <1>2, <1>4
    <2>2. note[end + 1].is \in {"Name", "and"}
        BY <1>1, <2>1
    <2>3. QED
        BY <1>4, <2>1, <2>2
<1>7. \A i \in (m + 1)..last : note[i].is # "from"
    BY <1>1
<1>8. CASE last = Len(note) \/ note[last + 1].is = "stop"
    <2>1. end = last
        <3> SUFFICES ASSUME last < end PROVE FALSE
            BY <1>2, <1>4, <1>6
        <3>1. last # Len(note) /\ last + 1 \in m..end
            BY <1>2, <1>4
        <3>2. QED
            BY <1>4, <1>8, <3>1
    <2>2. companies = {}
        BY <1>2, <1>7, <2>1
    <2>3. QED
        BY <1>3, <1>5, <2>1, <2>2
<1>9. CASE last + 2 <= Len(note) /\ note[last + 1].is = "from" /\ note[last + 2].is = "Name"
    <2>1. last + 2 <= end
        <3>1. end # last
            BY <1>2, <1>4, <1>9
        <3>2. end # last + 1
            <4> SUFFICES ASSUME end = last + 1 PROVE FALSE
                OBVIOUS
            <4>1. note[(last + 1) + 1].is = "stop"
                BY <1>2, <1>4, <1>9
            <4>2. (last + 1) + 1 = last + 2
                BY <1>2
            <4>3. QED
                BY <1>9, <4>1, <4>2
        <3>3. QED
            BY <1>2, <1>4, <1>6, <3>1, <3>2
    <2>2. last + 1 \in companies
        <3>1. last + 1 \in (m + 1)..(end - 1) /\ (last + 1) + 1 = last + 2
            BY <1>2, <1>4, <2>1
        <3>2. QED
            BY <1>9, <3>1
    <2>3. companies \in SUBSET Nat
        BY <1>2, <1>4
    <2>4. Min(companies) \in companies /\ Min(companies) <= last + 1
        BY <2>2, <2>3, MinIsLeast
    <2>5. ~(Min(companies) <= last)
        BY <1>2, <1>7, <2>4
    <2>6. Min(companies) - 1 = last
        BY <1>2, <2>3, <2>4, <2>5
    <2>7. QED
        BY <1>3, <1>5, <2>2, <2>6
<1>10. QED
    BY <1>1, <1>8, <1>9

\* In a meeting told in the plain form nobody is left out.
THEOREM EveryoneIsListed == Spec => []EveryoneMetIsListed
<1>1. IInv => EveryoneMetIsListed
    <2> SUFFICES ASSUME IInv, NEW m \in DOMAIN note, NEW last \in (m + 1)..Len(note),
                        PlainMeeting(m, last),
                        NEW i \in (m + 1)..last, note[i].is = "Name"
                 PROVE  \E c \in Attendees(note) : i \in c[1]..c[2]
        BY DEF EveryoneMetIsListed, IInv
    <2> DEFINE first == m + 1
               seps == Separates(note, first, last)
    <2>1. note \in Seq(Word) /\ Len(note) \in Nat /\ m \in 1..Len(note)
        BY NoteFacts
    <2>2. /\ first \in Nat /\ last \in Nat /\ i \in Nat /\ m = first - 1
          /\ first <= i /\ i <= last
        BY <2>1
    <2>3. /\ \A j \in first..last : note[j].is \in {"Name", "and"}
          /\ note[first].is = "Name" /\ note[last].is = "Name"
          /\ \A j \in first..(last - 1) : note[j].is # "and" \/ note[j + 1].is # "and"
          /\ \A j \in first..(last - 2) : \E k \in j..(j + 2) : note[k].is = "and"
        BY DEF PlainMeeting
    <2>4. \A c \in (first..last) \X (first..last) :
             (/\ c[2] \in {c[1], c[1] + 1}
              /\ \A j \in c[1]..c[2] : note[j].is = "Name"
              /\ c[1] = first \/ c[1] - 1 \in seps
              /\ c[2] = last \/ c[2] + 1 \in seps) => c \in Attendees(note)
        <3>1. Min(Meetings(note)) = m /\ NamesEnd(note, m) = last
            BY <2>1, PlainNamesEnd
        <3>2. Meetings(note) # {}
            <4>1. m \in Meetings(note)
                BY <2>1, <2>2, <2>3 DEF Meetings, PlainMeeting
            <4>2. QED
                BY <4>1
        <3>3. (Min(Meetings(note)) + 1) - 1 = m /\ Min(Meetings(note)) + 1 = first
            BY <2>2, <3>1
        <3>4. Attendees(note) =
                 {c \in (first..last) \X (first..last) :
                     /\ c[2] \in {c[1], c[1] + 1}
                     /\ \A j \in c[1]..c[2] : note[j].is = "Name"
                     /\ c[1] = first \/ c[1] - 1 \in seps
                     /\ c[2] = last \/ c[2] + 1 \in seps}
            BY <3>1, <3>2, <3>3 DEF Attendees
        <3>5. QED
            BY <3>4
    <2> HIDE DEF first
    <2>5. ASSUME NEW j \in first..last, note[j].is = "and" PROVE j \in seps
        <3>1. j \in (first + 1)..(last - 1) /\ j \in Nat
            BY <2>2, <2>3, <2>5
        <3>2. j - 1 \in first..(last - 1) /\ (j - 1) + 1 = j
            BY <2>2, <3>1
        <3>3. note[j - 1].is # "and"
            BY <2>3, <2>5, <3>2
        <3>4. j \in (first + 1)..j /\ (j - j) % 2 = 0 /\ \A k \in j..j : k = j
            BY <2>2, <3>1
        <3>5. QED
            BY <2>5, <3>1, <3>3, <3>4 DEF Separates
    <2> HIDE DEF seps
    <2>6. ASSUME i # last, note[i + 1].is # "and" PROVE note[i + 1].is = "Name"
        BY <2>2, <2>3, <2>6
    <2>7. CASE i # first /\ note[i - 1].is = "Name"
        <3> DEFINE c == <<i - 1, i>>
        <3>1. c[1] = first \/ c[1] - 1 \in seps
            <4> SUFFICES ASSUME i - 1 # first PROVE i - 2 \in seps
                BY <2>2
            <4>1. /\ i - 2 \in first..(last - 2) /\ i - 2 \in first..last
                  /\ (i - 2)..((i - 2) + 2) = {i - 2, i - 1, i}
                BY <2>2, <2>7
            <4>2. note[i - 2].is = "and"
                BY <2>3, <2>7, <4>1
            <4>3. QED
                BY <2>5, <4>1, <4>2
        <3>2. c[2] = last \/ c[2] + 1 \in seps
            <4> SUFFICES ASSUME i # last PROVE i + 1 \in seps
                BY <2>2
            <4>1. /\ i - 1 \in first..(last - 2) /\ i + 1 \in first..last
                  /\ (i - 1)..((i - 1) + 2) = {i - 1, i, i + 1}
                BY <2>2, <2>7
            <4>2. note[i + 1].is = "and"
                BY <2>3, <2>7, <4>1
            <4>3. QED
                BY <2>5, <4>1, <4>2
        <3>3. c \in (first..last) \X (first..last) /\ (i - 1)..i = {i - 1, i} /\ i = (i - 1) + 1
            BY <2>2, <2>7
        <3>4. c \in Attendees(note)
            BY <2>4, <2>7, <3>1, <3>2, <3>3
        <3>5. QED
            BY <3>3, <3>4
    <2>8. CASE (i = first \/ note[i - 1].is = "and") /\ i # last /\ note[i + 1].is = "Name"
        <3> DEFINE c == <<i, i + 1>>
        <3>1. c[1] = first \/ c[1] - 1 \in seps
            BY <2>2, <2>5, <2>8
        <3>2. c[2] = last \/ c[2] + 1 \in seps
            <4> SUFFICES ASSUME i + 1 # last PROVE i + 2 \in seps
                BY <2>2
            <4>1. /\ i \in first..(last - 2) /\ i + 2 \in first..last
                  /\ i..(i + 2) = {i, i + 1, i + 2}
                BY <2>2, <2>8
            <4>2. note[i + 2].is = "and"
                BY <2>3, <2>8, <4>1
            <4>3. QED
                BY <2>5, <4>1, <4>2
        <3>3. c \in (first..last) \X (first..last) /\ i..(i + 1) = {i, i + 1}
            BY <2>2, <2>8
        <3>4. c \in Attendees(note)
            BY <2>4, <2>8, <3>1, <3>2, <3>3
        <3>5. QED
            BY <3>3, <3>4
    <2>9. CASE (i = first \/ note[i - 1].is = "and") /\ (i = last \/ note[i + 1].is = "and")
        <3> DEFINE c == <<i, i>>
        <3>1. c[1] = first \/ c[1] - 1 \in seps
            BY <2>2, <2>5, <2>9
        <3>2. c[2] = last \/ c[2] + 1 \in seps
            BY <2>2, <2>5, <2>9
        <3>3. c \in (first..last) \X (first..last) /\ i..i = {i}
            BY <2>2
        <3>4. c \in Attendees(note)
            BY <2>4, <3>1, <3>2, <3>3
        <3>5. QED
            BY <3>3, <3>4
    <2>10. i # first => note[i - 1].is \in {"Name", "and"}
        BY <2>2, <2>3
    <2>11. QED
        BY <2>6, <2>7, <2>8, <2>9, <2>10
<1>2. QED
    BY <1>1, Invariance, PTL
=============================================================================
