----------------------------- MODULE ReadModels -----------------------------
(***************************************************************************)
(* The read side beside the write side: POST /qa, POST /briefs and         *)
(* GET /interactions/unmatched while notes are captured and resolved       *)
(* (app/services/qa_service.py, app/services/brief_service.py,             *)
(* app/services/account_resolution.py, app/vector_store.py:78-88).         *)
(*                                                                         *)
(* The three handlers are `def` and run in worker threads.  Each of their  *)
(* SELECTs, and each query of the collection, sees the state of its own    *)
(* moment, so that an answer can be put together from several.             *)
(***************************************************************************)
EXTENDS CaptureService

CONSTANTS
    Readers,  \* the reads in flight at one time
    NoHint    \* the request carries no account_id

ASSUME HintIsFresh == NoHint \notin Accounts

VARIABLES
    reader,   \* per reader: where its handler stands and what it has read
    attached  \* history: the accounts that each note has been under

allVars == <<vars, reader, attached>>

Idle == [pc |-> "answered", op |-> "none", account |-> NoAccount,
         notes |-> {}, sources |-> {}, listed |-> {}]

Under(i, a) == <<i, a>> \in attached

ReadInit == /\ Init
            /\ reader = [q \in Readers |-> Idle]
            /\ attached = {}

-----------------------------------------------------------------------------
(* What a statement or a query returns                                     *)

\* resolve_account_id: a hint is an assertion, never a suggestion.
ResolveAccountId(hint, named) ==
    IF hint = NoHint THEN FindAccount(named)
    ELSE IF hint \in Accounts THEN hint
    ELSE NoAccount

NotesOf(a) == {i \in Interactions : Exists(i) /\ interactions[i].account_id = a}

OpenOf(a) == {c \in Commitments : commitments[c].status = "open"
                                  /\ commitments[c].account_id = a}

UnmatchedNotes == {i \in Interactions : interactions[i].match_status = "unmatched"}

\* query_by_account: some of the notes whose chunk is under the account, at
\* least one if there is any (the nearest n_results, which the model leaves
\* open).
Tagged_Anywhere(a) == {i \in Interactions : chunks[i] # NoChunk}
Tagged(a) == {i \in Interactions : chunks[i] = a}

Nearest(a) == {s \in SUBSET Tagged(a) : s = {} => Tagged(a) = {}}

-----------------------------------------------------------------------------
(* Handlers                                                                *)

Ask(q, op, a) ==
    reader' = [reader EXCEPT ![q] = [Idle EXCEPT !.pc = op, !.op = op, !.account = a]]

\* The loop dispatches a read.  A text that identifies no account is answered
\* without reading anything.
ReadDispatch(q) ==
    /\ reader[q].pc = "answered"
    /\ LoopFree
    /\ \/ \E hint \in Accounts \cup {NoHint}, named \in SUBSET Accounts,
             op \in {"attendees", "commitments", "general", "brief"} :
             LET a == ResolveAccountId(hint, named)
             IN  IF a = NoAccount
                 THEN reader' = [reader EXCEPT ![q] = Idle]
                 ELSE Ask(q, op, a)
       \/ Ask(q, "unmatched", NoAccount)
    /\ UNCHANGED <<vars, attached>>

\* "Who attended": one statement joins the account's notes and attendees.
AnswerAttendees(q) ==
    /\ reader[q].pc = "attendees"
    /\ reader' = [reader EXCEPT ![q].pc = "answered",
                                ![q].sources = NotesOf(reader[q].account)]
    /\ UNCHANGED <<vars, attached>>

\* The account's open commitments: the whole answer to "what did I promise",
\* and the last statement of a brief.
ReadCommitments(q) ==
    /\ reader[q].pc = "commitments"
    /\ reader' = [reader EXCEPT ![q].pc = "answered",
                                ![q].listed = OpenOf(reader[q].account)]
    /\ UNCHANGED <<vars, attached>>

\* A general question reads the account's latest note, a brief all of them;
\* without one the answer is no_history.  Which note is the latest is open.
ReadNotes(q) ==
    LET found == NotesOf(reader[q].account)
    IN  /\ reader[q].pc \in {"general", "brief"}
        /\ IF found = {}
           THEN reader' = [reader EXCEPT ![q].pc = "answered"]
           ELSE \E kept \in SUBSET found :
                   /\ IF reader[q].op = "brief" THEN kept = found
                                                ELSE \E i \in found : kept = {i}
                   /\ reader' = [reader EXCEPT ![q].pc = "chunks", ![q].notes = kept]
        /\ UNCHANGED <<vars, attached>>

\* query_by_account, and the rows read before where it returns nothing.
ReadChunks(q) ==
    /\ reader[q].pc = "chunks"
    /\ \E retrieved \in Nearest(reader[q].account) :
          reader' = [reader EXCEPT
              ![q].sources = IF retrieved = {} THEN reader[q].notes ELSE retrieved,
              ![q].pc = IF reader[q].op = "brief" THEN "commitments" ELSE "answered"]
    /\ UNCHANGED <<vars, attached>>

\* list_unmatched: the rows first.
ListUnmatched(q) ==
    /\ reader[q].pc = "unmatched"
    /\ reader' = [reader EXCEPT ![q].pc = "threads", ![q].notes = UnmatchedNotes]
    /\ UNCHANGED <<vars, attached>>

\* _to_schema: then the thread of each row, loaded when it is written out.
\* "sources" holds the rows written out so far.
ListThread(q) ==
    /\ reader[q].pc = "threads"
    /\ IF reader[q].notes = reader[q].sources
       THEN reader' = [reader EXCEPT ![q].pc = "answered"]
       ELSE \E i \in reader[q].notes \ reader[q].sources :
               reader' = [reader EXCEPT ![q].sources = @ \cup {i},
                                        ![q].listed = @ \cup ThreadOf(i)]
    /\ UNCHANGED <<vars, attached>>

\* A step of the write side.
Write ==
    /\ \E r \in Requests : Arrive(r) \/ Handle(r) \/ DispatchClose(r)
    /\ attached' = attached \cup
           {p \in Interactions \X Accounts : interactions'[p[1]].account_id = p[2]}
    /\ UNCHANGED reader

\* A crash ends the reads too.
CrashAll ==
    /\ Crash
    /\ reader' = [q \in Readers |-> Idle]
    /\ UNCHANGED attached

ReadNext ==
    \/ Write
    \/ CrashAll
    \/ \E q \in Readers :
          \/ ReadDispatch(q) \/ AnswerAttendees(q) \/ ReadCommitments(q)
          \/ ReadNotes(q) \/ ReadChunks(q) \/ ListUnmatched(q) \/ ListThread(q)

ReadSpec == ReadInit /\ [][ReadNext]_allVars

-----------------------------------------------------------------------------
(* Properties                                                              *)

\* An answer about an account is put together from notes and commitments that
\* have been filed under that account, and from nothing else, although rows
\* and index are read at different moments, two resolutions of a note may
\* file it under two accounts, and a re-tag may fail or come late.
OwnHistoryOnly ==
    \A q \in Readers : reader[q].account # NoAccount =>
        /\ \A i \in reader[q].notes \cup reader[q].sources : Under(i, reader[q].account)
        /\ \A c \in reader[q].listed :
              Under(commitments[c].interaction_id, reader[q].account)

\* A note in the list of unmatched notes is shown with all of its commitments
\* and no other's, although they are read after the list, while captures and
\* resolutions go on.
UnmatchedShownWhole ==
    \A q \in Readers : (reader[q].op = "unmatched" /\ reader[q].pc = "answered") =>
        reader[q].listed = UNION {ThreadOf(i) : i \in reader[q].notes}

ResolvedTwice(i) == \E a, b \in Accounts : a # b /\ Under(i, a) /\ Under(i, b)

\* The due list, the notes and the index disagree on the account of a note
\* only if two resolutions have filed it under two accounts: a note that was
\* matched when captured or resolved once is under one account everywhere,
\* its commitments done or open, its chunk unless that is still unassigned.
SplitOnlyIfResolvedTwice ==
    /\ \A c \in Commitments : CommitmentExists(c) =>
          LET i == commitments[c].interaction_id
          IN  commitments[c].account_id = interactions[i].account_id \/ ResolvedTwice(i)
    /\ \A i \in Interactions : chunks[i] \in Accounts =>
          chunks[i] = interactions[i].account_id \/ ResolvedTwice(i)
=============================================================================
