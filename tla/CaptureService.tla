---------------------------- MODULE CaptureService ----------------------------
(***************************************************************************)
(* The write side of the backend: notes are captured, attached to an       *)
(* account, and their commitments completed, by requests that run at the   *)
(* same time over one SQLite database and one Chroma collection            *)
(* (app/services/capture_service.py, app/services/commitments_service.py,  *)
(* app/vector_store.py, app/database.py).                                  *)
(*                                                                         *)
(* Who runs where.  capture_interaction is `async def`: its service call   *)
(* runs on the event loop from the flush to the return, and nothing else   *)
(* is dispatched meanwhile.  resolve_interaction_customer and              *)
(* mark_commitment_complete are `def`: the loop dispatches them to worker  *)
(* threads, where they interleave with each other and with a capture.      *)
(*                                                                         *)
(* SQLite.  A SELECT sees the committed state of its own moment.  The one  *)
(* write lock is taken by the first INSERT or UPDATE of a session and kept *)
(* to the end of its transaction; a session that finds it taken waits for  *)
(* it and after busy_timeout fails, which main.py answers with 503.  So a  *)
(* commit is two steps, the flush that takes the lock and the COMMIT that  *)
(* publishes and gives it up: between them other threads find it taken.    *)
(*                                                                         *)
(* Which requests hold the connections is the subject of ConnectionPool;   *)
(* here the pool may be empty whenever a connection is asked for.          *)
(*                                                                         *)
(* A definition X_Slip stands before X: it is X as a plausible slip would  *)
(* have written it.  No specification uses one; put in the place of X it   *)
(* breaks the property the README pairs it with.                           *)
(***************************************************************************)

CONSTANTS
    Requests,      \* request slots: the requests in flight at one time
    Interactions,  \* the ids new_id("INT") hands out
    Commitments,   \* the ids new_id("CMT") hands out
    Accounts,      \* the accounts of the CRM adapter
    NoAccount,     \* SQL NULL in an account_id column
    Unassigned,    \* the "__unassigned__" account of a chunk's metadata
    NoChunk,       \* the collection has no document for the interaction
    NoNote,        \* the request works on no interaction
    Nobody,        \* the write lock, or the event loop, is free
    Faults         \* whether Chroma calls may raise and the process may stop

ASSUME SentinelsAreFresh ==
    /\ NoAccount \notin Accounts
    /\ Unassigned \notin Accounts
    /\ NoChunk \notin Accounts \cup {Unassigned}
    /\ NoNote \notin Interactions
    /\ Nobody \notin Requests
    /\ Faults \in BOOLEAN

VARIABLES
    interactions,  \* committed rows of the table interactions
    commitments,   \* committed rows of the table commitments
    chunks,        \* account_id of each interaction's chunk in Chroma
    writer,        \* the request whose transaction holds SQLite's write lock
    loop,          \* the request that occupies the event loop
    req            \* per slot: where its handler stands and its local state

vars == <<interactions, commitments, chunks, writer, loop, req>>

-----------------------------------------------------------------------------
(* State                                                                   *)

Interaction == [match_status : {"absent", "unmatched", "matched"},
                account_id   : Accounts \cup {NoAccount}]

Commitment == [status         : {"absent", "open", "complete"},
               account_id     : Accounts \cup {NoAccount},
               interaction_id : Interactions \cup {NoNote}]

NoInteraction == [match_status |-> "absent", account_id |-> NoAccount]

NoCommitment ==
    [status |-> "absent", account_id |-> NoAccount, interaction_id |-> NoNote]

\* What a handler holds between two steps: "account" is the matched or the
\* chosen account, "dirty" the commitments its session will UPDATE at commit.
Request == [pc      : {"idle", "flush", "extract", "refresh", "index", "raised",
                       "closing", "card", "carded", "cardread", "resolve",
                       "load", "attach", "attached", "reindex", "complete",
                       "tick", "ticked", "reread"},
            note    : Interactions \cup {NoNote},
            account : Accounts \cup {NoAccount},
            dirty   : SUBSET Commitments]

IdleRequest ==
    [pc |-> "idle", note |-> NoNote, account |-> NoAccount, dirty |-> {}]

Exists(i) == interactions[i].match_status # "absent"

CommitmentExists(c) == commitments[c].status # "absent"

\* The relationship Interaction.commitments.
ThreadOf(i) ==
    {c \in Commitments : CommitmentExists(c) /\ commitments[c].interaction_id = i}

\* Ids that no committed row and no open transaction uses.
FreshNotes ==
    {i \in Interactions : ~Exists(i) /\ \A q \in Requests : req[q].note # i}

\* find_account_by_name_fragment, given the accounts whose name occurs in the
\* text: the only one, or none.
FindAccount(named) ==
    IF \E a \in Accounts : named = {a}
    THEN CHOOSE a \in Accounts : named = {a}
    ELSE NoAccount

Row(a) == [match_status |-> IF a = NoAccount THEN "unmatched" ELSE "matched",
           account_id   |-> a]

Extracted(i, a) == [status |-> "open", account_id |-> a, interaction_id |-> i]

\* "account_id or '__unassigned__'".
ChunkAccount_None(a) == a
ChunkAccount(a) == IF a = NoAccount THEN Unassigned ELSE a

\* The relationship's commitments that the loop of resolve_customer makes dirty:
\* one loaded with the account it is assigned stays clean, and no UPDATE is
\* sent for it.
Dirtied_OpenOnly(i, a) ==
    {c \in ThreadOf(i) : commitments[c].account_id # a /\ commitments[c].status = "open"}
Dirtied(i, a) == {c \in ThreadOf(i) : commitments[c].account_id # a}

\* The row an UPDATE of the account_id column alone leaves.
Moved_Not(c, a) == commitments[c]
Moved_WholeRow(c, a) == Extracted(commitments[c].interaction_id, a)
Moved(c, a) == [commitments[c] EXCEPT !.account_id = a]

\* The loop dispatches a handler, or goes on with one, only between the
\* stretches in which a capture occupies it.
LoopFree_Threaded == TRUE
LoopFree == loop = Nobody

\* busy_timeout runs out only while another transaction holds the lock.
TimesOut_Never == FALSE
TimesOut == writer # Nobody

\* db.close() without the rollback.
Rollback_Not == UNCHANGED writer

\* db.close() rolls back and gives up the lock.
Rollback == writer' = Nobody

Init ==
    /\ interactions = [i \in Interactions |-> NoInteraction]
    /\ commitments = [c \in Commitments |-> NoCommitment]
    /\ chunks = [i \in Interactions |-> NoChunk]
    /\ writer = Nobody
    /\ loop = Nobody
    /\ req = [r \in Requests |-> IdleRequest]

Goto(r, label) == req' = [req EXCEPT ![r].pc = label]

\* The handler has answered, with a result or with an error.
Answer(r) == req' = [req EXCEPT ![r] = IdleRequest]

-----------------------------------------------------------------------------
(* POST /interactions, typed note                                          *)

\* The handler reaches capture_typed_interaction with a note that is not
\* blank; the accounts it names decide the match.
CaptureStart(r) ==
    /\ req[r].pc = "idle"
    /\ LoopFree
    /\ \E i \in FreshNotes, named \in SUBSET Accounts :
          req' = [req EXCEPT ![r] = [pc |-> "flush", note |-> i, dirty |-> {},
                                     account |-> FindAccount(named)]]
    /\ loop' = r
    /\ UNCHANGED <<interactions, commitments, chunks, writer>>

\* The chunk is written before the commit it depends on.
CaptureFlush_IndexFirst(r) ==
    /\ req[r].pc = "flush"
    /\ writer = Nobody
    /\ writer' = r
    /\ chunks' = [chunks EXCEPT ![req[r].note] = ChunkAccount(req[r].account)]
    /\ Goto(r, "extract")
    /\ UNCHANGED <<interactions, commitments, loop>>

\* db.flush(): the INSERT takes the write lock.
CaptureFlush(r) ==
    /\ req[r].pc = "flush"
    /\ writer = Nobody
    /\ writer' = r
    /\ Goto(r, "extract")
    /\ UNCHANGED <<interactions, commitments, chunks, loop>>

\* busy_timeout runs out while another transaction holds the lock: the
\* session rolls back and the client gets 503.
CaptureBusy(r) ==
    /\ req[r].pc \in {"flush", "card"}
    /\ TimesOut
    /\ loop' = Nobody
    /\ Answer(r)
    /\ UNCHANGED <<interactions, commitments, chunks, writer>>

\* nlu.extract has returned; db.commit() publishes the row with the
\* commitments found in the text and releases the lock.
CaptureCommit(r) ==
    LET i == req[r].note
        a == req[r].account
    IN  /\ req[r].pc = "extract"
        /\ \E found \in SUBSET {c \in Commitments : ~CommitmentExists(c)} :
              commitments' = [c \in Commitments |->
                  IF c \in found THEN Extracted(i, a) ELSE commitments[c]]
        /\ interactions' = [interactions EXCEPT ![i] = Row(a)]
        /\ writer' = Nobody
        /\ Goto(r, "refresh")
        /\ UNCHANGED <<chunks, loop>>

\* The commitments follow the note in a second transaction.
CaptureRefresh_LateThread(r) ==
    /\ req[r].pc = "refresh"
    /\ \E c \in Commitments :
          /\ ~CommitmentExists(c)
          /\ commitments' = [commitments EXCEPT ![c] =
                 Extracted(req[r].note, req[r].account)]
    /\ Goto(r, "index")
    /\ UNCHANGED <<interactions, chunks, writer, loop>>

\* db.refresh(interaction) reads the row back.
CaptureRefresh(r) ==
    /\ req[r].pc = "refresh"
    /\ req' = [req EXCEPT ![r].account = interactions[req[r].note].account_id,
                          ![r].pc = "index"]
    /\ UNCHANGED <<interactions, commitments, chunks, writer, loop>>

\* The chunk is upserted, or the upsert raises and the exception is dropped.
CaptureIndex(r) ==
    /\ req[r].pc = "index"
    /\ \/ chunks' = [chunks EXCEPT ![req[r].note] = ChunkAccount(req[r].account)]
       \/ Faults /\ UNCHANGED chunks
    /\ loop' = Nobody
    /\ Answer(r)
    /\ UNCHANGED <<interactions, commitments, writer>>

\* nlu.extract raises.  The exception leaves the handler, the loop is free,
\* and the transaction stays open until get_db's finally clause has run.
CaptureRaise(r) ==
    /\ req[r].pc = "extract"
    /\ loop' = Nobody
    /\ Goto(r, "raised")
    /\ UNCHANGED <<interactions, commitments, chunks, writer>>

\* The loop hands get_db's exit to a worker thread.
DispatchClose(r) ==
    /\ req[r].pc = "raised"
    /\ LoopFree
    /\ Goto(r, "closing")
    /\ UNCHANGED <<interactions, commitments, chunks, writer, loop>>

\* db.close() rolls the transaction back.
CloseSession(r) ==
    /\ req[r].pc = "closing"
    /\ Rollback
    /\ Answer(r)
    /\ UNCHANGED <<interactions, commitments, chunks, loop>>

-----------------------------------------------------------------------------
(* POST /interactions, business card                                       *)

CardStart(r) ==
    /\ req[r].pc = "idle"
    /\ LoopFree
    /\ \E i \in FreshNotes :
          req' = [req EXCEPT ![r] = [pc |-> "card", note |-> i, dirty |-> {},
                                     account |-> NoAccount]]
    /\ loop' = r
    /\ UNCHANGED <<interactions, commitments, chunks, writer>>

\* db.flush(): the INSERT takes the write lock.
CardFlush(r) ==
    /\ req[r].pc = "card"
    /\ writer = Nobody
    /\ writer' = r
    /\ Goto(r, "carded")
    /\ UNCHANGED <<interactions, commitments, chunks, loop>>

\* db.commit(): an unmatched row without commitments, and no chunk.
CardCommit(r) ==
    /\ req[r].pc = "carded"
    /\ interactions' = [interactions EXCEPT ![req[r].note] = Row(NoAccount)]
    /\ writer' = Nobody
    /\ Goto(r, "cardread")
    /\ UNCHANGED <<commitments, chunks, loop>>

CardRefresh(r) ==
    /\ req[r].pc = "cardread"
    /\ loop' = Nobody
    /\ Answer(r)
    /\ UNCHANGED <<interactions, commitments, chunks, writer>>

-----------------------------------------------------------------------------
(* POST /interactions/{id}/resolve-customer                                *)

\* The loop dispatches the handler for an id a client has learnt from an
\* earlier answer and an account the adapter knows (the 404s change nothing).
ResolveDispatch(r) ==
    /\ req[r].pc = "idle"
    /\ LoopFree
    /\ \E i \in Interactions, a \in Accounts :
          /\ Exists(i)
          /\ req' = [req EXCEPT ![r] = [pc |-> "resolve", note |-> i,
                                        account |-> a, dirty |-> {}]]
    /\ UNCHANGED <<interactions, commitments, chunks, writer, loop>>

\* db.get, then the match_status check: 409 unless it is still unmatched.
ResolveRead(r) ==
    /\ req[r].pc = "resolve"
    /\ IF interactions[req[r].note].match_status = "unmatched"
       THEN Goto(r, "load")
       ELSE Answer(r)
    /\ UNCHANGED <<interactions, commitments, chunks, writer, loop>>

\* The lazy load of interaction.commitments and the assignments to them.
ResolveLoad(r) ==
    /\ req[r].pc = "load"
    /\ req' = [req EXCEPT ![r].dirty = Dirtied(req[r].note, req[r].account),
                          ![r].pc = "attach"]
    /\ UNCHANGED <<interactions, commitments, chunks, writer, loop>>

\* db.commit() sends the UPDATEs by primary key: the first takes the lock.
ResolveFlush(r) ==
    /\ req[r].pc = "attach"
    /\ writer = Nobody
    /\ writer' = r
    /\ Goto(r, "attached")
    /\ UNCHANGED <<interactions, commitments, chunks, loop>>

\* COMMIT publishes them all and releases the lock.
ResolveCommit(r) ==
    LET a == req[r].account
    IN  /\ req[r].pc = "attached"
        /\ interactions' = [interactions EXCEPT ![req[r].note] =
               [match_status |-> "matched", account_id |-> a]]
        /\ commitments' = [c \in Commitments |->
               IF c \in req[r].dirty THEN Moved(c, a) ELSE commitments[c]]
        /\ writer' = Nobody
        /\ Goto(r, "reindex")
        /\ UNCHANGED <<chunks, loop>>

\* db.refresh, then update_chunk_account: only if there is a chunk; a failure
\* of the latter is dropped.
ResolveReindex(r) ==
    LET i == req[r].note
    IN  /\ req[r].pc = "reindex"
        /\ \/ chunks' = [chunks EXCEPT ![i] =
                  IF @ = NoChunk THEN NoChunk ELSE req[r].account]
           \/ Faults /\ UNCHANGED chunks
        /\ Answer(r)
        /\ UNCHANGED <<interactions, commitments, writer, loop>>

-----------------------------------------------------------------------------
(* PATCH /commitments/{id}/complete                                        *)

CompleteDispatch(r) ==
    /\ req[r].pc = "idle"
    /\ LoopFree
    /\ \E c \in Commitments :
          /\ CommitmentExists(c)
          /\ req' = [req EXCEPT ![r] = [pc |-> "complete", note |-> NoNote,
                                        account |-> NoAccount, dirty |-> {c}]]
    /\ UNCHANGED <<interactions, commitments, chunks, writer, loop>>

\* db.get: a commitment loaded as complete stays clean, commit writes nothing.
CompleteRead(r) ==
    /\ req[r].pc = "complete"
    /\ IF \A c \in req[r].dirty : commitments[c].status = "open"
       THEN Goto(r, "tick")
       ELSE Goto(r, "reread")
    /\ UNCHANGED <<interactions, commitments, chunks, writer, loop>>

\* db.commit() sends the UPDATE, which takes the lock.
CompleteFlush(r) ==
    /\ req[r].pc = "tick"
    /\ writer = Nobody
    /\ writer' = r
    /\ Goto(r, "ticked")
    /\ UNCHANGED <<interactions, commitments, chunks, loop>>

\* COMMIT publishes it, the status column alone, and releases the lock.
CompleteCommit(r) ==
    /\ req[r].pc = "ticked"
    /\ commitments' = [c \in Commitments |->
           IF c \in req[r].dirty
           THEN [commitments[c] EXCEPT !.status = "complete"]
           ELSE commitments[c]]
    /\ writer' = Nobody
    /\ Goto(r, "reread")
    /\ UNCHANGED <<interactions, chunks, loop>>

CompleteRefresh(r) ==
    /\ req[r].pc = "reread"
    /\ Answer(r)
    /\ UNCHANGED <<interactions, commitments, chunks, writer, loop>>

\* busy_timeout runs out in a worker thread: 503, nothing written.
CommitBusy(r) ==
    /\ req[r].pc \in {"attach", "tick"}
    /\ TimesOut
    /\ Answer(r)
    /\ UNCHANGED <<interactions, commitments, chunks, writer, loop>>

-----------------------------------------------------------------------------
(* Connections.  A session takes one from the engine's pool for its first  *)
(* statement, gives it back when it commits, and takes one again for the   *)
(* refresh.                                                                *)

\* The handler's next statement needs a connection its session has not got.
Connecting(r) ==
    req[r].pc \in {"flush", "card", "refresh", "cardread",
                   "resolve", "reindex", "complete", "reread"}

\* The pool has none for 30 seconds: TimeoutError, which no exception handler
\* of main.py takes for a 503.  What was committed stays; what was to follow
\* the refresh is left out.
Starve(r) ==
    /\ Connecting(r)
    /\ loop' = IF loop = r THEN Nobody ELSE loop
    /\ Answer(r)
    /\ UNCHANGED <<interactions, commitments, chunks, writer>>

-----------------------------------------------------------------------------
(* The process stops and starts again: open transactions roll back, what   *)
(* was committed and what was indexed stays.                               *)

Crash ==
    /\ Faults
    /\ req' = [r \in Requests |-> IdleRequest]
    /\ writer' = Nobody
    /\ loop' = Nobody
    /\ UNCHANGED <<interactions, commitments, chunks>>

-----------------------------------------------------------------------------
(* Specification                                                           *)

\* What clients ask for.
Arrive(r) ==
    CaptureStart(r) \/ CardStart(r) \/ ResolveDispatch(r) \/ CompleteDispatch(r)

\* What a handler does once it has been dispatched, in its thread or on the
\* loop.  Where it needs the write lock or a connection, it gets it or its
\* timeout runs out.
Handle(r) ==
    \/ CaptureFlush(r) \/ CaptureBusy(r) \/ CaptureCommit(r) \/ CaptureRaise(r)
    \/ CaptureRefresh(r) \/ CaptureIndex(r) \/ CloseSession(r)
    \/ CardFlush(r) \/ CardCommit(r) \/ CardRefresh(r)
    \/ ResolveRead(r) \/ ResolveLoad(r) \/ ResolveFlush(r) \/ ResolveCommit(r)
    \/ ResolveReindex(r)
    \/ CompleteRead(r) \/ CompleteFlush(r) \/ CompleteCommit(r) \/ CompleteRefresh(r)
    \/ CommitBusy(r) \/ Starve(r)

Next == \/ \E r \in Requests : Arrive(r) \/ Handle(r) \/ DispatchClose(r)
        \/ Crash

Spec == Init /\ [][Next]_vars

-----------------------------------------------------------------------------
(* Properties                                                              *)

TypeOK ==
    /\ interactions \in [Interactions -> Interaction]
    /\ commitments \in [Commitments -> Commitment]
    /\ chunks \in [Interactions -> Accounts \cup {Unassigned, NoChunk}]
    /\ writer \in Requests \cup {Nobody}
    /\ loop \in Requests \cup {Nobody}
    /\ req \in [Requests -> Request]

\* account_id is NULL exactly when the note is unmatched, in the row itself
\* and in every commitment of its thread (models.py:32 and :73-74), however
\* many resolutions of the note overlap.
NullIffUnmatched ==
    /\ \A i \in Interactions : Exists(i) =>
          (interactions[i].account_id = NoAccount
             <=> interactions[i].match_status = "unmatched")
    /\ \A c \in Commitments : CommitmentExists(c) =>
          /\ commitments[c].interaction_id \in Interactions
          /\ Exists(commitments[c].interaction_id)
          /\ commitments[c].account_id = NoAccount
               <=> interactions[commitments[c].interaction_id].match_status = "unmatched"

\* Chroma never holds a chunk of a note SQLite does not hold, whatever fails
\* and whenever the process stops (the order argued for in
\* capture_service.py:79-85), and never files a note under an account while
\* the note is unmatched.
NoOrphanChunk ==
    \A i \in Interactions :
        /\ chunks[i] # NoChunk => Exists(i)
        /\ chunks[i] \in Accounts => interactions[i].match_status = "matched"

\* A commitment and its note are filed under the same account (decision DAT-1,
\* models.py:73): what GET /commitments/due shows under an account is what
\* POST /qa and POST /briefs read for it.
ThreadAgreement ==
    \A c \in Commitments : CommitmentExists(c) =>
        commitments[c].account_id
            = interactions[commitments[c].interaction_id].account_id

StatusesAdvance ==
    /\ \A i \in Interactions :
          interactions[i].match_status = "matched"
              => interactions'[i].match_status = "matched"
    /\ \A c \in Commitments :
          commitments[c].status = "complete"
              => commitments'[c].status = "complete"

\* No step takes an account away from a note or reopens a commitment, even
\* one that commits what it read before another request's commit.
StatusesOnlyAdvance == [][StatusesAdvance]_vars

ThreadsStay == \A i \in Interactions : Exists(i) => ThreadOf(i)' = ThreadOf(i)

\* A note and its commitments become visible in one step: once a reader can
\* see the note its thread neither grows nor shrinks, so an unmatched note can
\* be resolved as soon as it is listed without missing a commitment.
ThreadLandsWhole == [][ThreadsStay]_vars

\* A resolve request that is answered 200 found the note unmatched: of two
\* resolutions of one note one is refused with 409
\* (qa/test_concurrency.py:20-22).
ResolvedOnce ==
    [][\A r \in Requests :
          ResolveCommit(r) => interactions[req[r].note].match_status = "unmatched"]_vars

AtInsert(r) == req[r].pc \in {"flush", "card"}

\* A capture never waits for a note that is still being extracted, however
\* long that takes: two captures do not contend for the write lock.  One that
\* finds it taken stands behind a worker thread that has sent its UPDATEs and
\* will COMMIT, or behind a failed extraction whose rollback is due; there is
\* no other way to a capture's 503 (main.py:49-58).
CapturesNeverContend ==
    \A r \in Requests :
        AtInsert(r) /\ writer # Nobody
            => req[writer].pc \in {"attached", "ticked", "raised", "closing"}

\* A capture that comes between the failure and the dispatch of its rollback.
Overtakes(r) == AtInsert(r) /\ writer # Nobody /\ req[writer].pc = "raised"

\* Such a capture is bound to fail: the rollback it waits for waits for the
\* loop, which it occupies until busy_timeout has run out.
OvertakingFails ==
    [][\A r \in Requests : Overtakes(r) => Overtakes(r)' \/ req'[r] = IdleRequest]_vars

-----------------------------------------------------------------------------
(* The abstract specification                                              *)

Log == INSTANCE InteractionLog
       WITH Interactions <- Interactions, Commitments <- Commitments,
            Accounts <- Accounts, NoAccount <- NoAccount,
            Unassigned <- Unassigned, NoChunk <- NoChunk, NoNote <- NoNote,
            interactions <- interactions, commitments <- commitments,
            chunks <- chunks

\* Read through the two tables and the collection alone, every behaviour is
\* one of InteractionLog: interleaved handlers, failures and crashes add no
\* visible state of their own.
InteractionLogSpec == Log!Spec
=============================================================================
