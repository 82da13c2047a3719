--------------------------- MODULE DueCommitments ---------------------------
(***************************************************************************)
(* From what a note says to what the to-do list shows: the rows that the   *)
(* capture of a note writes (app/services/capture_service.py:41-76) and    *)
(* the buckets in which GET /commitments/due lists its commitments, day    *)
(* after day (app/services/commitments_service.py:22-57).                  *)
(***************************************************************************)
EXTENDS NoteExtraction

CONSTANTS
    WindowDays,  \* due_soon_window_days
    LastDay,     \* bound: the calendar ends here
    Notes        \* the texts that are captured

ASSUME CalendarAssumption == WindowDays \in Nat \ {0} /\ LastDay \in Nat

\* An account's name occurs in a word that is the name.
ASSUME NotesAssumption ==
    \A n \in Notes :
        /\ n \in Seq(Word)
        /\ \A i \in DOMAIN n : n[i].spells # NoAccount => n[i].spells \in n[i].names

VARIABLES
    today,       \* date.today() of the server
    note,        \* interactions.raw_text, empty before the capture
    account,     \* interactions.account_id
    attendees,   \* the rows of interaction_attendees, by their place in the text
    commitments  \* the rows of commitments, by their place in the text

vars == <<today, note, account, attendees, commitments>>

Commitment == [created_at : Nat, status : {"open", "complete"},
               due_date : Int \cup {NoDate}]

Open == {c \in DOMAIN commitments : commitments[c].status = "open"}

Due(c) == commitments[c].due_date

Unspecified == {c \in Open : Due(c) = NoDate}

Overdue == {c \in Open \ Unspecified : Due(c) < today}

DueSoon_WindowExclusive ==
    {c \in Open \ Unspecified : today <= Due(c) /\ Due(c) < today + WindowDays}
DueSoon_AfterToday ==
    {c \in Open \ Unspecified : today < Due(c) /\ Due(c) <= today + WindowDays}
DueSoon ==
    {c \in Open \ Unspecified : today <= Due(c) /\ Due(c) <= today + WindowDays}

Init ==
    /\ today = 0
    /\ note = <<>>
    /\ account = NoAccount
    /\ attendees = {}
    /\ commitments = <<>>

\* A note that is not blank is captured today.
Capture ==
    /\ note = <<>>
    /\ \E n \in Notes \ {<<>>} :
          /\ note' = n
          /\ account' = FindAccount(Named(n))
          /\ attendees' = Attendees(n)
          /\ commitments' = [c \in Asks(n) |->
                 [created_at |-> today, status |-> "open",
                  due_date |-> ResolveDueDate(Found(n, c), today)]]
    /\ UNCHANGED today

Complete(c) ==
    /\ c \in Open
    /\ commitments' = [commitments EXCEPT ![c].status = "complete"]
    /\ UNCHANGED <<today, note, account, attendees>>

NextDay ==
    /\ today < LastDay
    /\ today' = today + 1
    /\ UNCHANGED <<note, account, attendees, commitments>>

Next == \/ NextDay
        \/ Capture
        \/ \E c \in Open : Complete(c)

Spec == Init /\ [][Next]_vars

-----------------------------------------------------------------------------
(* Properties                                                              *)

\* A note that calls two accounts by name is filed under neither, and one that
\* calls a single account by name is filed under it, as long as no other word
\* contains an account's name (F-1 AC1, quoted in crm_adapter.py:59-61).  The
\* condition is needed: a text that names no account but has a word with one
\* account's name inside is filed under that account
\* (qa/test_matching_quality.py:22-33).
MatchedByName ==
    LET spelled == {note[i].spells : i \in DOMAIN note} \ {NoAccount}
    IN  /\ account # NoAccount => spelled \subseteq {account}
        /\ Named(note) = spelled =>
              \A a \in Accounts : account = a <=> spelled = {a}

\* Every request in a note becomes part of exactly one commitment, whatever
\* the punctuation around it, and no commitment runs over a stop: a note with
\* several requests gives several commitments.
EveryAskKept ==
    /\ \A i \in DOMAIN note : note[i].asks /\ note[i].is # "stop" =>
          \E c \in DOMAIN commitments :
              /\ i \in c[1]..c[2]
              /\ \A d \in DOMAIN commitments : i \in d[1]..d[2] => d = c
    /\ \A c \in DOMAIN commitments : \A i \in c[1]..c[2] : note[i].is # "stop"

\* Whoever is listed as an attendee was named after "met" in the same clause,
\* and not as part of the company: people of other clauses are not drawn in
\* (rule_based_client.py:48-49).
AttendeesWereMet ==
    \A c \in attendees :
        \E m \in 1..(c[1] - 1) :
            /\ note[m].is = "met"
            /\ \A i \in m..c[2] : note[i].is # "stop"
            /\ \A i \in m..(c[2] - 1) : ~(note[i].is = "from" /\ note[i + 1].is = "Name")

\* The plain form "met A B and C from D": names of one or two words between
\* single "and"s, then the company or the end of the clause.
PlainMeeting(m, last) ==
    /\ note[m].is = "met" /\ \A i \in 1..(m - 1) : note[i].is # "met"
    /\ \A i \in (m + 1)..last : note[i].is \in {"Name", "and"}
    /\ note[m + 1].is = "Name" /\ note[last].is = "Name"
    /\ \A i \in (m + 1)..(last - 1) : note[i].is # "and" \/ note[i + 1].is # "and"
    /\ \A i \in (m + 1)..(last - 2) : \E j \in i..(i + 2) : note[j].is = "and"
    /\ \/ last = Len(note)
       \/ note[last + 1].is = "stop"
       \/ last + 2 <= Len(note) /\ note[last + 1].is = "from" /\ note[last + 2].is = "Name"

\* Of a meeting told in the plain form nobody is left out, with a company
\* behind the last name or without (F-1 AC5, rule_based_client.py:4-6).
EveryoneMetIsListed ==
    \A m \in DOMAIN note : \A last \in (m + 1)..Len(note) :
        PlainMeeting(m, last) =>
            \A i \in (m + 1)..last :
                note[i].is = "Name" => \E c \in attendees : i \in c[1]..c[2]

NamesDay(cues) ==
    ~cues.vague /\ (cues.tomorrow \/ cues.today \/ cues.weekdays # {})

\* A commitment whose clause names a day of the coming week is on the list
\* from the day it is captured until it is completed, given the default
\* window of a week: "Friday" said on a Friday is seven days ahead, the last
\* day the window still holds, and no day falls between the two buckets.
NamedDayListed ==
    WindowDays >= 7 =>
        \A c \in Open : NamesDay(Found(note, c)) => c \in DueSoon \cup Overdue

\* A weekday means the first such day after the day of the capture, never the
\* day itself and never a week too late (rule_based_client.py:79).
WeekdayIsNext ==
    \A c \in Open :
        LET cues == Found(note, c)
            day == commitments[c].created_at
        IN  (NamesDay(cues) /\ ~cues.tomorrow /\ ~cues.today) =>
                /\ Weekday(Due(c)) = FirstNamed(cues.weekdays)
                /\ day < Due(c)
                /\ \A d \in (day + 1)..(Due(c) - 1) :
                      Weekday(d) # FirstNamed(cues.weekdays)

ListStays ==
    \A c \in DueSoon \cup Overdue :
        c \in Open' => c \in (DueSoon \cup Overdue)'

\* Once a commitment is on the list it stays there, day after day, until it
\* is completed: it moves from due soon to overdue without a gap.
ListedUntilComplete == [][ListStays]_vars
=============================================================================
