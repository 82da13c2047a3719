--------------------------- MODULE NoteExtraction ---------------------------
(***************************************************************************)
(* What the backend reads out of the text of a note: the account it names  *)
(* (app/adapters/crm_adapter.py:54-67), the people who were met and the    *)
(* commitments with their due dates (app/nlu/rule_based_client.py:39-98).  *)
(*                                                                         *)
(* A note is a sequence of words; a set phrase such as "at some point" is  *)
(* one word, and a comma, period or semicolon is one of its own that       *)
(* follows the word before it without a blank.  Of a word's spelling only  *)
(* what the code looks for in it is kept.  It looks for parts of words as  *)
(* readily as for words, so a word may hold several things at once, and an *)
(* account's name without being it.  The ampersand is left out.            *)
(*                                                                         *)
(* Days are integers, day d falls on the weekday d % 7 (0 is Monday); an   *)
(* ISO string is its day.                                                  *)
(***************************************************************************)
EXTENDS Integers, Sequences, FiniteSetsExt

CONSTANTS
    Accounts,   \* the accounts of the CRM adapter
    NoAccount,  \* the note is matched to none
    NoDate,     \* due_date is NULL; a stated date that does not exist
    NoIso       \* the word states no ISO date

ASSUME ExtractionAssumption ==
    NoAccount \notin Accounts /\ NoDate \notin Int /\ NoIso \notin Int

Word == [is       : {"met", "and", "from", "Name", "word", "stop"},
         spells   : Accounts \cup {NoAccount},  \* the account it is the name of
         names    : SUBSET Accounts,            \* those whose name occurs in it
         asks     : BOOLEAN,                    \* one of _COMMITMENT_CUES
         vague    : BOOLEAN,                    \* one of _VAGUE_DATE_TERMS
         tomorrow : BOOLEAN,
         today    : BOOLEAN,
         weekdays : SUBSET (0..6),
         iso      : Int \cup {NoDate, NoIso}]

-----------------------------------------------------------------------------
(* The account                                                             *)

\* The accounts whose name occurs in the text.
Named(note) == UNION {note[i].names : i \in DOMAIN note}

\* The first of several is as good as any other.
FindAccount_First(named) ==
    IF named = {} THEN NoAccount ELSE CHOOSE a \in named : TRUE
FindAccount(named) ==
    IF \E a \in Accounts : named = {a}
    THEN CHOOSE a \in Accounts : named = {a}
    ELSE NoAccount

-----------------------------------------------------------------------------
(* Commitments and their due dates                                         *)

\* _split_clauses: the stretches between stops, as first and last position.
Clauses(note) ==
    {c \in (1..Len(note)) \X (1..Len(note)) :
        /\ c[1] <= c[2]
        /\ \A i \in c[1]..c[2] : note[i].is # "stop"
        /\ c[1] = 1 \/ note[c[1] - 1].is = "stop"
        /\ c[2] = Len(note) \/ note[c[2] + 1].is = "stop"}

\* What _resolve_due_date finds in a clause.  Of several ISO dates it takes the
\* first, also when that one does not exist.
Cues == [vague : BOOLEAN, tomorrow : BOOLEAN, today : BOOLEAN,
         weekdays : SUBSET (0..6), iso : Int \cup {NoDate}]

Found(note, c) ==
    LET words == c[1]..c[2]
        dated == {i \in words : note[i].iso # NoIso}
    IN  [vague    |-> \E i \in words : note[i].vague,
         tomorrow |-> \E i \in words : note[i].tomorrow,
         today    |-> \E i \in words : note[i].today,
         weekdays |-> UNION {note[i].weekdays : i \in words},
         iso      |-> IF dated = {} THEN NoDate ELSE note[Min(dated)].iso]

\* _extract_commitments: the clauses with a cue.
Asks_FirstOnly(note) ==
    {c \in Clauses(note) : \E i \in c[1]..c[2] :
        note[i].asks /\ \A j \in 1..(c[1] - 1) : ~note[j].asks}
Asks(note) == {c \in Clauses(note) : \E i \in c[1]..c[2] : note[i].asks}

Weekday(day) == day % 7

\* The first weekday in the order of the week, not of the sentence.
FirstNamed(days) == CHOOSE w \in days : \A v \in days : w <= v

\* (weekday - reference_date.weekday()) % 7, or 7.
DaysAhead_SameDay(day, w) == (w - Weekday(day)) % 7
DaysAhead(day, w) ==
    IF (w - Weekday(day)) % 7 = 0 THEN 7 ELSE (w - Weekday(day)) % 7

ResolveDueDate(cues, day) ==
    IF cues.vague THEN NoDate
    ELSE IF cues.tomorrow THEN day + 1
    ELSE IF cues.today THEN day
    ELSE IF cues.weekdays # {} THEN day + DaysAhead(day, FirstNamed(cues.weekdays))
    ELSE cues.iso

-----------------------------------------------------------------------------
(* Attendees                                                               *)

\* The words "met" that something follows in their clause; the first counts.
Meetings(note) ==
    {i \in DOMAIN note : note[i].is = "met" /\ i < Len(note) /\ note[i + 1].is # "stop"}

\* The last word of the clause of position m.
ClauseEnd_OfNote(note, m) == Len(note)
ClauseEnd(note, m) ==
    Min({i \in m..Len(note) : i = Len(note) \/ note[i + 1].is = "stop"})

\* Where the names end: before "from" and a company, or with the clause.
NamesEnd_WithCompany(note, m) == ClauseEnd(note, m)
NamesEnd(note, m) ==
    LET end == ClauseEnd(note, m)
        companies == {i \in (m + 1)..(end - 1) :
                          note[i].is = "from" /\ note[i + 1].is = "Name"}
    IN  IF companies = {} THEN end ELSE Min(companies) - 1

\* An "and" separates with a blank on either side; of several in a row the
\* first uses up the blank of the second, the third that of the fourth.
Separates(note, first, last) ==
    {i \in (first + 1)..(last - 1) :
        \E k \in (first + 1)..i :
            /\ (i - k) % 2 = 0
            /\ \A j \in k..i : note[j].is = "and"
            /\ k = first + 1 \/ note[k - 1].is # "and"}

\* _extract_attendees: of the stretches between separators those that are a
\* name of one or two words.
Attendees(note) ==
    IF Meetings(note) = {} THEN {}
    ELSE LET first == Min(Meetings(note)) + 1
             last == NamesEnd(note, first - 1)
             seps == Separates(note, first, last)
         IN  {c \in (first..last) \X (first..last) :
                 /\ c[2] \in {c[1], c[1] + 1}
                 /\ \A i \in c[1]..c[2] : note[i].is = "Name"
                 /\ c[1] = first \/ c[1] - 1 \in seps
                 /\ c[2] = last \/ c[2] + 1 \in seps}
=============================================================================
