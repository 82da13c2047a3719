-------------------------- MODULE MCDueCommitments --------------------------
(* DueCommitments for TLC.  The notes are of four kinds, since what is read *)
(* from a note for one purpose does not depend on what is read for another. *)
EXTENDS DueCommitments

CONSTANTS Acme, Globex

A(kind) == [is |-> kind, spells |-> NoAccount, names |-> {}, asks |-> FALSE,
            vague |-> FALSE, tomorrow |-> FALSE, today |-> FALSE,
            weekdays |-> {}, iso |-> NoIso]

NotesOf(words, n) == UNION {[1..k -> words] : k \in 1..n}

\* One request with every combination of cues, at most two weekdays among them,
\* and stated dates on both sides of the calendar's start.
NamedWeekdays == {days \in SUBSET (0..6) : Cardinality(days) <= 2}

DatedNotes ==
    {<<[A("word") EXCEPT !.asks = TRUE, !.vague = v, !.tomorrow = t, !.today = n,
                         !.weekdays = days, !.iso = d]>> :
        v \in BOOLEAN, t \in BOOLEAN, n \in BOOLEAN, days \in NamedWeekdays,
        d \in {NoIso, NoDate, -2, 4, 12}}

\* Several clauses: requests, days and stops in any order.
AskingNotes ==
    NotesOf({A("stop"), [A("word") EXCEPT !.asks = TRUE],
             [A("Name") EXCEPT !.weekdays = {4}], [A("word") EXCEPT !.vague = TRUE],
             [A("word") EXCEPT !.iso = 4], [A("word") EXCEPT !.iso = NoDate]}, 4)

\* Meetings.
MeetingNotes ==
    LET words == {A(kind) : kind \in {"met", "and", "from", "Name", "word", "stop"}}
    IN  NotesOf(words, 3) \cup {<<A("met")>> \o n : n \in NotesOf(words, 5)}

\* Accounts called by name, and hidden in other words.
AccountNotes ==
    NotesOf({[A("Name") EXCEPT !.spells = a, !.names = {a}] : a \in {Acme, Globex}}
            \cup {[A("Name") EXCEPT !.names = n] : n \in SUBSET {Acme, Globex}}, 3)

MCAccounts == {Acme, Globex}
MCNotes == DatedNotes \cup AskingNotes \cup MeetingNotes \cup AccountNotes
=============================================================================
