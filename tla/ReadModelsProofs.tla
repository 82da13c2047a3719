--------------------------- MODULE ReadModelsProofs ---------------------------
(***************************************************************************)
(* Theorems about ReadModels, for every number of requests, reads, notes,  *)
(* commitments and accounts.  What CaptureServiceProofs has proved of the  *)
(* write side carries over, since a read changes nothing of it.            *)
(***************************************************************************)
EXTENDS ReadModels, CaptureServiceProofs

USE SentinelsAreFresh

LEMMA ReadStepIsStep == [ReadNext]_allVars => [Next]_vars
BY DEF ReadNext, allVars, Write, CrashAll, Next, ReadDispatch, AnswerAttendees,
   ReadCommitments, ReadNotes, ReadChunks, ListUnmatched, ListThread

LEMMA ReadImplementsHandlers == ReadSpec => Spec
<1>1. ReadInit => Init
  BY DEF ReadInit
<1>2. QED
  BY <1>1, ReadStepIsStep, PTL DEF ReadSpec, Spec

LEMMA HandlersInvariant == ReadSpec => []IInv
BY ReadImplementsHandlers, Invariance, PTL

-----------------------------------------------------------------------------
(* What a step of the write side leaves to a read that is under way        *)

LEMMA NotesStay ==
    ASSUME IInv, [Next]_vars, NEW i \in Interactions, Exists(i)
    PROVE  Exists(i)'
<1> USE DEF IInv, TypeInv, TypeOK, Interaction, Exists
<1>1. ASSUME NEW r \in Requests, Arrive(r) \/ DispatchClose(r)
      PROVE  UNCHANGED interactions
  BY <1>1 DEF Arrive, CaptureStart, CardStart, ResolveDispatch, CompleteDispatch, DispatchClose
<1>2. ASSUME NEW r \in Requests, Handle(r)
      PROVE  Exists(i)'
  <2>1. CASE CaptureCommit(r)
    BY <2>1 DEF CaptureCommit, Row
  <2>2. CASE CardCommit(r)
    BY <2>2 DEF CardCommit, Row
  <2>3. CASE ResolveCommit(r)
    BY <2>3 DEF ResolveCommit
  <2>4. CASE ~(CaptureCommit(r) \/ CardCommit(r) \/ ResolveCommit(r))
    <3>1. UNCHANGED interactions
      BY <1>2, <2>4 DEF Handle, CaptureFlush, CaptureBusy, CaptureRaise, CaptureRefresh,
         CaptureIndex, CloseSession, CardFlush, CardRefresh, ResolveRead, ResolveLoad,
         ResolveFlush, ResolveReindex, CompleteRead, CompleteFlush, CompleteCommit,
         CompleteRefresh, CommitBusy, Starve
    <3>2. QED
      BY <3>1
  <2>5. QED
    BY <2>1, <2>2, <2>3, <2>4
<1>3. CASE Crash
  BY <1>3 DEF Crash
<1>4. CASE UNCHANGED vars
  BY <1>4 DEF vars
<1>5. QED
  BY <1>1, <1>2, <1>3, <1>4 DEF Next

LEMMA CommitmentsStay ==
    ASSUME IInv, [Next]_vars, NEW c \in Commitments, CommitmentExists(c)
    PROVE  /\ CommitmentExists(c)'
           /\ commitments'[c].interaction_id = commitments[c].interaction_id
<1>1. PICK i \in Interactions : i = commitments[c].interaction_id /\ Exists(i)
  BY DEF IInv, NullIffUnmatched
<1>2. c \in ThreadOf(i)
  BY <1>1 DEF ThreadOf
<1>3. ThreadOf(i)' = ThreadOf(i)
  BY <1>1, ThreadsStep DEF ThreadsStay
<1>4. c \in ThreadOf(i)'
  BY <1>2, <1>3
<1>5. QED
  BY <1>1, <1>4 DEF ThreadOf

-----------------------------------------------------------------------------
(* The history of accounts covers everything a read can be told            *)

\* Where a row, a chunk, a commitment or a re-filing names an account, the
\* note has been under it.
RowsFiled ==
    \A i \in Interactions : interactions[i].account_id \in Accounts
        => <<i, interactions[i].account_id>> \in attached

ChunksFiled ==
    \A i \in Interactions : chunks[i] \in Accounts => <<i, chunks[i]>> \in attached

ThreadsFiled ==
    \A c \in Commitments : CommitmentExists(c) /\ commitments[c].account_id \in Accounts
        => <<commitments[c].interaction_id, commitments[c].account_id>> \in attached

RefilingsFiled ==
    \A r \in Requests : req[r].pc = "reindex" => <<req[r].note, req[r].account>> \in attached

Filed == RowsFiled /\ ChunksFiled /\ ThreadsFiled /\ RefilingsFiled

LEMMA HistoryGrows == [ReadNext]_allVars => attached \subseteq attached'
BY DEF ReadNext, allVars, Write, CrashAll, ReadDispatch, AnswerAttendees,
   ReadCommitments, ReadNotes, ReadChunks, ListUnmatched, ListThread

LEMMA RowsFiledStep ==
    ASSUME IInv, RowsFiled, [ReadNext]_allVars
    PROVE  RowsFiled'
<1>1. CASE Write
  BY <1>1 DEF Write, RowsFiled
<1>2. CASE UNCHANGED <<interactions, attached>>
  BY <1>2 DEF RowsFiled
<1>3. QED
  BY <1>1, <1>2 DEF ReadNext, allVars, vars, CrashAll, Crash, ReadDispatch,
     AnswerAttendees, ReadCommitments, ReadNotes, ReadChunks, ListUnmatched, ListThread

\* Who changes the index, and who the threads.
LEMMA WhoIndexes ==
    ASSUME [Next]_vars
    PROVE  UNCHANGED chunks \/ \E r \in Requests : CaptureIndex(r) \/ ResolveReindex(r)
<1>1. ASSUME NEW r \in Requests, Handle(r), ~CaptureIndex(r), ~ResolveReindex(r)
      PROVE  UNCHANGED chunks
  BY <1>1 DEF Handle, CaptureFlush, CaptureBusy, CaptureCommit, CaptureRaise,
     CaptureRefresh, CloseSession, CardFlush, CardCommit, CardRefresh, ResolveRead,
     ResolveLoad, ResolveFlush, ResolveCommit, CompleteRead, CompleteFlush,
     CompleteCommit, CompleteRefresh, CommitBusy, Starve
<1>2. ASSUME NEW r \in Requests, Arrive(r) \/ DispatchClose(r)
      PROVE  UNCHANGED chunks
  BY <1>2 DEF Arrive, CaptureStart, CardStart, ResolveDispatch, CompleteDispatch, DispatchClose
<1>3. QED
  BY <1>1, <1>2 DEF Next, Crash, vars

LEMMA WhoCommits ==
    ASSUME [Next]_vars
    PROVE  UNCHANGED commitments
             \/ \E r \in Requests : CaptureCommit(r) \/ ResolveCommit(r) \/ CompleteCommit(r)
<1>1. ASSUME NEW r \in Requests, Handle(r),
             ~CaptureCommit(r), ~ResolveCommit(r), ~CompleteCommit(r)
      PROVE  UNCHANGED commitments
  BY <1>1 DEF Handle, CaptureFlush, CaptureBusy, CaptureIndex, CaptureRaise,
     CaptureRefresh, CloseSession, CardFlush, CardCommit, CardRefresh, ResolveRead,
     ResolveLoad, ResolveFlush, ResolveReindex, CompleteRead, CompleteFlush,
     CompleteRefresh, CommitBusy, Starve
<1>2. ASSUME NEW r \in Requests, Arrive(r) \/ DispatchClose(r)
      PROVE  UNCHANGED commitments
  BY <1>2 DEF Arrive, CaptureStart, CardStart, ResolveDispatch, CompleteDispatch, DispatchClose
<1>3. QED
  BY <1>1, <1>2 DEF Next, Crash, vars

LEMMA ChunksFiledStep ==
    ASSUME IInv, Filed, [ReadNext]_allVars
    PROVE  ChunksFiled'
<1>1. attached \subseteq attached' /\ [Next]_vars
  BY HistoryGrows, ReadStepIsStep
<1>2. CASE UNCHANGED chunks
  BY <1>1, <1>2 DEF Filed, ChunksFiled
<1>3. ASSUME NEW r \in Requests, CaptureIndex(r)
      PROVE  ChunksFiled'
  <2>1. /\ req[r].note \in Interactions
        /\ req[r].account = interactions[req[r].note].account_id
    BY <1>3 DEF CaptureIndex, IInv, NotesOwned, Publishing, LocalsRight, LocalRight
  <2>2. \A i \in Interactions : \/ chunks'[i] = chunks[i]
                                \/ i = req[r].note /\ chunks'[i] = ChunkAccount(req[r].account)
    BY <1>3, <2>1 DEF CaptureIndex, IInv, TypeInv, TypeOK
  <2>3. ChunkAccount(req[r].account) \in Accounts
           => <<req[r].note, ChunkAccount(req[r].account)>> \in attached
    BY <2>1 DEF ChunkAccount, Filed, RowsFiled
  <2>4. QED
    BY <1>1, <2>2, <2>3 DEF Filed, ChunksFiled
<1>4. ASSUME NEW r \in Requests, ResolveReindex(r)
      PROVE  ChunksFiled'
  <2>1. <<req[r].note, req[r].account>> \in attached
    BY <1>4 DEF ResolveReindex, Filed, RefilingsFiled
  <2>2. \A i \in Interactions : \/ chunks'[i] = chunks[i]
                                \/ i = req[r].note /\ chunks'[i] \in {NoChunk, req[r].account}
    BY <1>4 DEF ResolveReindex, IInv, TypeInv, TypeOK
  <2>3. QED
    BY <1>1, <2>1, <2>2 DEF Filed, ChunksFiled
<1>5. QED
  BY <1>1, <1>2, <1>3, <1>4, WhoIndexes

LEMMA ThreadsFiledStep ==
    ASSUME IInv, Filed, [ReadNext]_allVars
    PROVE  ThreadsFiled'
<1>1. attached \subseteq attached' /\ [Next]_vars /\ RowsFiled'
  BY HistoryGrows, ReadStepIsStep, RowsFiledStep DEF Filed
<1>2. CASE UNCHANGED commitments
  BY <1>1, <1>2 DEF Filed, ThreadsFiled, CommitmentExists
<1>3. ASSUME NEW r \in Requests, CaptureCommit(r)
      PROVE  ThreadsFiled'
  <2>1. /\ req[r].note \in Interactions
        /\ interactions'[req[r].note].account_id = req[r].account
    BY <1>3 DEF CaptureCommit, Row, IInv, NotesOwned, Pending, TypeInv, TypeOK
  <2>2. req[r].account \in Accounts => <<req[r].note, req[r].account>> \in attached'
    BY <1>1, <2>1 DEF RowsFiled
  <2>3. \A c \in Commitments : \/ commitments'[c] = commitments[c]
                               \/ commitments'[c] = Extracted(req[r].note, req[r].account)
    BY <1>3 DEF CaptureCommit
  <2>4. QED
    BY <1>1, <2>2, <2>3 DEF Filed, ThreadsFiled, Extracted, CommitmentExists
<1>4. ASSUME NEW r \in Requests, ResolveCommit(r)
      PROVE  ThreadsFiled'
  <2>1. /\ req[r].note \in Interactions
        /\ interactions'[req[r].note].account_id = req[r].account
        /\ req[r].dirty \subseteq ThreadOf(req[r].note)
        /\ req[r].account \in Accounts
    BY <1>4 DEF ResolveCommit, IInv, NotesOwned, Resolving, LocalsRight, LocalRight, ThreadLoaded,
       TypeInv, TypeOK, ChosenAccount
  <2>2. <<req[r].note, req[r].account>> \in attached'
    BY <1>1, <2>1 DEF RowsFiled
  <2>3. \A c \in Commitments :
           commitments'[c] = IF c \in req[r].dirty THEN Moved(c, req[r].account)
                                                   ELSE commitments[c]
    BY <1>4 DEF ResolveCommit
  <2>4. \A c \in Commitments :
           \/ commitments'[c] = commitments[c]
           \/ /\ commitments'[c].interaction_id = req[r].note
              /\ commitments'[c].account_id = req[r].account
    BY ZenonT(40), <2>1, <2>3 DEF Moved, ThreadOf, IInv, TypeInv, TypeOK, Commitment
  <2>5. QED
    BY <1>1, <2>2, <2>4 DEF Filed, ThreadsFiled, CommitmentExists
<1>5. ASSUME NEW r \in Requests, CompleteCommit(r)
      PROVE  ThreadsFiled'
  <2>1. \A c \in Commitments :
           /\ CommitmentExists(c)' => CommitmentExists(c)
           /\ commitments'[c].account_id = commitments[c].account_id
           /\ commitments'[c].interaction_id = commitments[c].interaction_id
    BY <1>5 DEF CompleteCommit, IInv, LocalsRight, LocalRight, CommitmentExists, TypeInv,
       TypeOK, Commitment
  <2>2. QED
    BY <1>1, <2>1 DEF Filed, ThreadsFiled
<1>6. QED
  BY <1>1, <1>2, <1>3, <1>4, <1>5, WhoCommits

LEMMA WhoRefiles ==
    ASSUME IInv, [Next]_vars, NEW q \in Requests, req'[q].pc = "reindex"
    PROVE  req'[q] = req[q] \/ ResolveCommit(q)
<1> USE DEF IInv, TypeInv, TypeOK, Request, Goto, Answer, IdleRequest
<1>1. ASSUME NEW r \in Requests, Arrive(r) \/ DispatchClose(r)
      PROVE  req'[q] = req[q]
  BY <1>1 DEF Arrive, CaptureStart, CardStart, ResolveDispatch, CompleteDispatch, DispatchClose
<1>2. ASSUME NEW r \in Requests, Handle(r), ~ResolveCommit(r)
      PROVE  req'[q] = req[q]
  <2>1. CASE \/ CaptureFlush(r) \/ CaptureCommit(r) \/ CaptureRaise(r)
             \/ CardFlush(r) \/ CardCommit(r) \/ ResolveLoad(r) \/ ResolveFlush(r)
             \/ CompleteFlush(r) \/ CompleteCommit(r)
    BY <2>1 DEF CaptureFlush, CaptureCommit, CaptureRaise, CardFlush, CardCommit,
       ResolveLoad, ResolveFlush, CompleteFlush, CompleteCommit
  <2>2. CASE \/ CaptureBusy(r) \/ CaptureIndex(r) \/ CloseSession(r) \/ CardRefresh(r)
             \/ ResolveReindex(r) \/ CompleteRefresh(r) \/ CommitBusy(r) \/ Starve(r)
    BY <2>2 DEF CaptureBusy, CaptureIndex, CloseSession, CardRefresh, ResolveReindex,
       CompleteRefresh, CommitBusy, Starve
  <2>3. CASE CaptureRefresh(r) \/ ResolveRead(r) \/ CompleteRead(r)
    BY <2>3 DEF CaptureRefresh, ResolveRead, CompleteRead
  <2>4. QED
    BY <1>2, <2>1, <2>2, <2>3 DEF Handle
<1>3. ASSUME NEW r \in Requests, ResolveCommit(r), r # q
      PROVE  req'[q] = req[q]
  BY <1>3 DEF ResolveCommit
<1>4. CASE Crash
  BY <1>4 DEF Crash
<1>5. CASE UNCHANGED vars
  BY <1>5 DEF vars
<1>6. QED
  BY <1>1, <1>2, <1>3, <1>4, <1>5 DEF Next

LEMMA RefilingsFiledStep ==
    ASSUME IInv, Filed, [ReadNext]_allVars
    PROVE  RefilingsFiled'
<1> SUFFICES ASSUME NEW r \in Requests, req'[r].pc = "reindex"
             PROVE  <<req'[r].note, req'[r].account>> \in attached'
  BY DEF RefilingsFiled
<1>1. attached \subseteq attached' /\ [Next]_vars /\ RowsFiled'
  BY HistoryGrows, ReadStepIsStep, RowsFiledStep DEF Filed
<1>2. CASE req'[r] = req[r]
  BY <1>1, <1>2 DEF Filed, RefilingsFiled
<1>3. CASE ResolveCommit(r)
  <2>1. /\ req[r].note \in Interactions
        /\ req[r].account \in Accounts
        /\ interactions'[req[r].note].account_id = req[r].account
        /\ req'[r].note = req[r].note
        /\ req'[r].account = req[r].account
    BY <1>3 DEF ResolveCommit, Goto, IInv, NotesOwned, Resolving, TypeInv, TypeOK,
       ChosenAccount, Request
  <2>2. QED
    BY <1>1, <2>1 DEF RowsFiled
<1>4. QED
  BY <1>1, <1>2, <1>3, WhoRefiles

LEMMA FiledInvariant == ReadSpec => []Filed
<1>1. ReadInit => Filed
  BY DEF ReadInit, Init, Filed, RowsFiled, ChunksFiled, ThreadsFiled, RefilingsFiled,
     NoInteraction, NoCommitment, IdleRequest, CommitmentExists
<1>2. IInv /\ Filed /\ [ReadNext]_allVars => Filed'
  BY RowsFiledStep, ChunksFiledStep, ThreadsFiledStep, RefilingsFiledStep DEF Filed
<1>3. QED
  BY <1>1, <1>2, HandlersInvariant, PTL DEF ReadSpec

-----------------------------------------------------------------------------
(* What a read holds                                                       *)

Reader == [pc      : {"answered", "attendees", "commitments", "general", "brief",
                      "chunks", "unmatched", "threads"},
           op      : {"none", "attendees", "commitments", "general", "brief", "unmatched"},
           account : Accounts \cup {NoAccount},
           notes   : SUBSET Interactions,
           sources : SUBSET Interactions,
           listed  : SUBSET Commitments]

\* What a handler of the read side may hold at any moment.
Right(x) ==
    /\ x \in Reader
    /\ x.pc \in {"attendees", "commitments", "general", "brief", "chunks"}
          => x.account \in Accounts
    /\ \A c \in x.listed : CommitmentExists(c)
    /\ x.account # NoAccount =>
          /\ \A i \in x.notes \cup x.sources : <<i, x.account>> \in attached
          /\ \A c \in x.listed : <<commitments[c].interaction_id, x.account>> \in attached
    \* A list of unmatched notes: so far, the threads of the notes written out.
    /\ x.op = "unmatched" =>
          /\ x.account = NoAccount
          /\ \A i \in x.notes : Exists(i)
          /\ x.sources \subseteq x.notes
          /\ x.listed = UNION {ThreadOf(i) : i \in x.sources}
          /\ x.pc = "unmatched" => x.sources = {}
          /\ x.pc = "answered" => x.sources = x.notes
    /\ x.op # "unmatched" => x.pc \notin {"unmatched", "threads"}

RInv == /\ reader \in [Readers -> Reader]
        /\ \A q \in Readers : Right(reader[q])

LEMMA ResolvedAccount ==
    ASSUME NEW hint \in Accounts \cup {NoHint}, NEW named \in SUBSET Accounts
    PROVE  ResolveAccountId(hint, named) \in Accounts \cup {NoAccount}
BY FoundAccount DEF ResolveAccountId

\* The write side does not undo what a read holds.
LEMMA WriteKeeps ==
    ASSUME IInv, [ReadNext]_allVars, NEW x, Right(x)
    PROVE  Right(x)'
<1>1. attached \subseteq attached' /\ [Next]_vars
  BY HistoryGrows, ReadStepIsStep
<1>2. ASSUME NEW c \in x.listed
      PROVE  /\ CommitmentExists(c)'
             /\ commitments'[c].interaction_id = commitments[c].interaction_id
  BY <1>1, <1>2, CommitmentsStay DEF Right, Reader
<1>3. ASSUME x.op = "unmatched"
      PROVE  /\ \A i \in x.notes : Exists(i)'
             /\ \A i \in x.sources : ThreadOf(i)' = ThreadOf(i)
  BY <1>1, <1>3, NotesStay, ThreadsStep DEF Right, Reader, ThreadsStay
<1>4. ASSUME x.op = "unmatched"
      PROVE  UNION {ThreadOf(i)' : i \in x.sources} = UNION {ThreadOf(i) : i \in x.sources}
  BY <1>3, <1>4
<1>5. QED
  BY <1>1, <1>2, <1>3, <1>4 DEF Right

\* A step of one read.
LEMMA ReadKeeps ==
    ASSUME RInv, UNCHANGED <<vars, attached>>,
           NEW q \in Readers, NEW x, Right(x), reader' = [reader EXCEPT ![q] = x]
    PROVE  RInv'
<1>1. \A y : Right(y)' <=> Right(y)
  BY DEF Right, vars, CommitmentExists, Exists, ThreadOf
<1>2. QED
  BY <1>1 DEF RInv, Right

LEMMA DispatchRight ==
    ASSUME IInv, RInv, NEW q \in Readers, ReadDispatch(q)
    PROVE  RInv'
<1>1. Right(Idle)
  BY DEF Right, Reader, Idle
<1>2. ASSUME NEW op \in {"attendees", "commitments", "general", "brief"}, NEW a \in Accounts
      PROVE  Right([Idle EXCEPT !.pc = op, !.op = op, !.account = a])
  BY DEF Right, Reader, Idle
<1>3. Right([Idle EXCEPT !.pc = "unmatched", !.op = "unmatched", !.account = NoAccount])
  BY DEF Right, Reader, Idle
<1>4. QED
  <2>1. UNCHANGED <<vars, attached>>
    BY DEF ReadDispatch
  <2>2. \/ reader' = [reader EXCEPT ![q] = Idle]
        \/ \E op \in {"attendees", "commitments", "general", "brief"}, a \in Accounts :
              reader' = [reader EXCEPT ![q] =
                            [Idle EXCEPT !.pc = op, !.op = op, !.account = a]]
        \/ reader' = [reader EXCEPT ![q] =
              [Idle EXCEPT !.pc = "unmatched", !.op = "unmatched", !.account = NoAccount]]
    BY ResolvedAccount DEF ReadDispatch, Ask
  <2>3. QED
    BY <1>1, <1>2, <1>3, <2>1, <2>2, ReadKeeps

LEMMA AccountReadRight ==
    ASSUME IInv, Filed, RInv, NEW q \in Readers,
           AnswerAttendees(q) \/ ReadCommitments(q) \/ ReadNotes(q) \/ ReadChunks(q)
    PROVE  RInv'
<1> DEFINE x == reader[q]
           a == reader[q].account
<1>1. /\ x \in Reader /\ Right(x)
      /\ a \in Accounts /\ a # NoAccount
      /\ UNCHANGED <<vars, attached>>
      /\ x.op # "unmatched"
  BY DEF AnswerAttendees, ReadCommitments, ReadNotes, ReadChunks, RInv, Right, Reader
<1>2. \A i \in NotesOf(a) : i \in Interactions /\ <<i, a>> \in attached
  BY <1>1 DEF NotesOf, Filed, RowsFiled
<1>3. \A i \in Tagged(a) : i \in Interactions /\ <<i, a>> \in attached
  BY <1>1 DEF Tagged, Filed, ChunksFiled
<1>4. \A c \in OpenOf(a) : /\ c \in Commitments
                           /\ CommitmentExists(c)
                           /\ <<commitments[c].interaction_id, a>> \in attached
  BY <1>1 DEF OpenOf, Filed, ThreadsFiled, CommitmentExists
<1>5. CASE AnswerAttendees(q)
  <2>1. Right([x EXCEPT !.pc = "answered", !.sources = NotesOf(a)])
    BY <1>1, <1>2 DEF Right, Reader
  <2>2. reader' = [reader EXCEPT ![q] = [x EXCEPT !.pc = "answered", !.sources = NotesOf(a)]]
    BY <1>1, <1>5 DEF AnswerAttendees, RInv
  <2>3. QED
    BY <1>1, <2>1, <2>2, ReadKeeps
<1>6. CASE ReadCommitments(q)
  <2>1. Right([x EXCEPT !.pc = "answered", !.listed = OpenOf(a)])
    BY <1>1, <1>4 DEF Right, Reader
  <2>2. reader' = [reader EXCEPT ![q] = [x EXCEPT !.pc = "answered", !.listed = OpenOf(a)]]
    BY <1>1, <1>6 DEF ReadCommitments, RInv
  <2>3. QED
    BY <1>1, <2>1, <2>2, ReadKeeps
<1>7. CASE ReadNotes(q)
  <2>1. Right([x EXCEPT !.pc = "answered"])
    BY <1>1 DEF Right, Reader
  <2>2. ASSUME NEW kept \in SUBSET NotesOf(a)
        PROVE  Right([x EXCEPT !.pc = "chunks", !.notes = kept])
    BY <1>1, <1>2 DEF Right, Reader
  <2>3. \/ reader' = [reader EXCEPT ![q] = [x EXCEPT !.pc = "answered"]]
        \/ \E kept \in SUBSET NotesOf(a) :
              reader' = [reader EXCEPT ![q] = [x EXCEPT !.pc = "chunks", !.notes = kept]]
    BY <1>1, <1>7 DEF ReadNotes, RInv
  <2>4. QED
    BY <1>1, <2>1, <2>2, <2>3, ReadKeeps
<1>8. CASE ReadChunks(q)
  <2>1. ASSUME NEW found \in SUBSET Interactions,
               \A i \in found : <<i, a>> \in attached,
               NEW label \in {"commitments", "answered"}
        PROVE  Right([x EXCEPT !.sources = found, !.pc = label])
    BY <1>1, <2>1 DEF Right, Reader
  <2>2. PICK retrieved \in Nearest(a) :
            reader' = [reader EXCEPT
               ![q].sources = IF retrieved = {} THEN x.notes ELSE retrieved,
               ![q].pc = IF x.op = "brief" THEN "commitments" ELSE "answered"]
    BY <1>8 DEF ReadChunks
  <2>3. retrieved \subseteq Tagged(a)
    BY DEF Nearest
  <2>4. \A i \in x.notes : <<i, a>> \in attached
    BY <1>1 DEF Right
  <2>5. PICK found \in SUBSET Interactions, label \in {"commitments", "answered"} :
            /\ \A i \in found : <<i, a>> \in attached
            /\ reader' = [reader EXCEPT ![q] = [x EXCEPT !.sources = found, !.pc = label]]
    <3>1. CASE retrieved = {}
      BY <1>1, <2>2, <2>4, <3>1 DEF RInv, Reader
    <3>2. CASE retrieved # {}
      BY <1>1, <1>3, <2>2, <2>3, <3>2 DEF RInv, Reader
    <3>3. QED
      BY <3>1, <3>2
  <2>6. QED
    BY <1>1, <2>1, <2>5, ReadKeeps
<1>9. QED
  BY <1>5, <1>6, <1>7, <1>8

LEMMA ListRight ==
    ASSUME IInv, RInv, NEW q \in Readers, ListUnmatched(q) \/ ListThread(q)
    PROVE  RInv'
<1> DEFINE x == reader[q]
<1>1. CASE ListUnmatched(q)
  <2>1. /\ x \in Reader /\ Right(x) /\ x.pc = "unmatched" /\ x.op = "unmatched"
        /\ UNCHANGED <<vars, attached>>
    BY <1>1 DEF ListUnmatched, RInv, Right
  <2>2. Right([x EXCEPT !.pc = "threads", !.notes = UnmatchedNotes])
    <3>1. x.sources = {} /\ x.listed = {}
      BY <2>1 DEF Right
    <3>2. UnmatchedNotes \in SUBSET Interactions /\ \A i \in UnmatchedNotes : Exists(i)
      BY DEF UnmatchedNotes, Exists
    <3>3. QED
      BY <2>1, <3>1, <3>2 DEF Right, Reader
  <2>3. reader' = [reader EXCEPT ![q] = [x EXCEPT !.pc = "threads", !.notes = UnmatchedNotes]]
    BY <1>1 DEF ListUnmatched, RInv
  <2>4. QED
    BY <2>1, <2>2, <2>3, ReadKeeps
<1>2. CASE ListThread(q)
  <2>1. /\ x \in Reader /\ Right(x) /\ x.pc = "threads" /\ x.op = "unmatched"
        /\ UNCHANGED <<vars, attached>>
    BY <1>2 DEF ListThread, RInv, Right
  <2>2. CASE x.notes = x.sources
    <3>1. Right([x EXCEPT !.pc = "answered"])
      BY <2>1, <2>2 DEF Right, Reader
    <3>2. reader' = [reader EXCEPT ![q] = [x EXCEPT !.pc = "answered"]]
      BY <1>2, <2>2 DEF ListThread, RInv
    <3>3. QED
      BY <2>1, <3>1, <3>2, ReadKeeps
  <2>3. CASE x.notes # x.sources
    <3>1. PICK i \in x.notes \ x.sources :
              reader' = [reader EXCEPT ![q] =
                            [x EXCEPT !.sources = @ \cup {i}, !.listed = @ \cup ThreadOf(i)]]
      BY <1>2, <2>3 DEF ListThread, RInv
    <3>2. UNION {ThreadOf(j) : j \in x.sources \cup {i}} = x.listed \cup ThreadOf(i)
      BY <2>1 DEF Right
    <3>3. Right([x EXCEPT !.sources = @ \cup {i}, !.listed = @ \cup ThreadOf(i)])
      BY <2>1, <3>2 DEF Right, Reader, ThreadOf
    <3>4. QED
      BY <2>1, <3>1, <3>3, ReadKeeps
  <2>4. QED
    BY <2>2, <2>3
<1>3. QED
  BY <1>1, <1>2

LEMMA RInvStep == IInv /\ Filed /\ RInv /\ [ReadNext]_allVars => RInv'
<1> SUFFICES ASSUME IInv, Filed, RInv, [ReadNext]_allVars
             PROVE  RInv'
  OBVIOUS
<1>1. CASE UNCHANGED reader
  BY <1>1, WriteKeeps DEF RInv
<1>2. CASE CrashAll
  BY <1>2 DEF CrashAll, RInv, Right, Reader, Idle
<1>3. QED
  BY <1>1, <1>2, DispatchRight, AccountReadRight, ListRight DEF ReadNext, Write, allVars

LEMMA ReadInvariant == ReadSpec => []RInv
<1>1. ReadInit => RInv
  BY DEF ReadInit, RInv, Right, Reader, Idle
<1>2. QED
  BY <1>1, RInvStep, HandlersInvariant, FiledInvariant, PTL DEF ReadSpec

\* Whatever is captured, resolved, re-filed or left un-re-filed while it is
\* read, an answer about an account holds only notes and commitments that have
\* been filed under that account.
THEOREM AnswersKeepToAccount == ReadSpec => []OwnHistoryOnly
<1>1. RInv => OwnHistoryOnly
  BY DEF RInv, Right, OwnHistoryOnly, Under
<1>2. QED
  BY <1>1, ReadInvariant, PTL

\* A note listed as unmatched is shown with its own commitments, all of them.
THEOREM UnmatchedListedWhole == ReadSpec => []UnmatchedShownWhole
<1>1. RInv => UnmatchedShownWhole
  BY DEF RInv, Right, UnmatchedShownWhole
<1>2. QED
  BY <1>1, ReadInvariant, PTL

\* Two accounts for one note mean two resolutions, however many requests there
\* are: each account that a row, a commitment or a chunk names is on record.
THEOREM SplitTakesTwoResolutions == ReadSpec => []SplitOnlyIfResolvedTwice
<1>1. ASSUME IInv, Filed, NEW c \in Commitments, CommitmentExists(c),
             NEW i, i = commitments[c].interaction_id,
             commitments[c].account_id # interactions[i].account_id
      PROVE  ResolvedTwice(i)
  <2>1. i \in Interactions /\ Exists(i)
    BY <1>1 DEF IInv, NullIffUnmatched
  <2>2. commitments[c].account_id \in Accounts /\ interactions[i].account_id \in Accounts
    BY <1>1, <2>1 DEF IInv, NullIffUnmatched, TypeInv, TypeOK, Commitment, Interaction
  <2>3. Under(i, commitments[c].account_id) /\ Under(i, interactions[i].account_id)
    BY <1>1, <2>1, <2>2 DEF Filed, ThreadsFiled, RowsFiled, Under
  <2>4. QED
    BY <1>1, <2>2, <2>3 DEF ResolvedTwice
<1>2. ASSUME IInv, Filed, NEW i \in Interactions, chunks[i] \in Accounts,
             chunks[i] # interactions[i].account_id
      PROVE  ResolvedTwice(i)
  <2>1. interactions[i].match_status = "matched"
    BY <1>2 DEF IInv, NoOrphanChunk
  <2>2. interactions[i].account_id \in Accounts
    <3>1. interactions[i].account_id # NoAccount
      BY <1>2, <2>1 DEF IInv, NullIffUnmatched, Exists
    <3>2. interactions[i] \in Interaction
      BY <1>2 DEF IInv, TypeInv, TypeOK
    <3>3. QED
      BY <3>1, <3>2 DEF Interaction
  <2>3. Under(i, chunks[i]) /\ Under(i, interactions[i].account_id)
    BY <1>2, <2>2 DEF Filed, ChunksFiled, RowsFiled, Under
  <2>4. QED
    BY <1>2, <2>2, <2>3 DEF ResolvedTwice
<1>3. IInv /\ Filed => SplitOnlyIfResolvedTwice
  BY <1>1, <1>2 DEF SplitOnlyIfResolvedTwice
<1>4. QED
  BY <1>3, HandlersInvariant, FiledInvariant, PTL
=============================================================================
