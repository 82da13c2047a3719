------------------------- MODULE ConnectionPoolProofs -------------------------
(***************************************************************************)
(* Theorems about ConnectionPool, for every size of the pool and every     *)
(* finite number of requests: it implements CaptureService, so that all    *)
(* that is proved of the handlers holds with the pool around them; the     *)
(* pool is never overdrawn; the index follows resolutions; requests block  *)
(* each other only around the loop; and every session ends.                *)
(***************************************************************************)
EXTENDS ConnectionPool, CaptureServiceProofs, FiniteSetTheorems

USE SentinelsAreFresh

-----------------------------------------------------------------------------
(* The pool implements the handlers                                        *)

LEMMA PoolStepIsStep == [PoolNext]_poolVars => [Next]_vars
<1> SUFFICES ASSUME [PoolNext]_poolVars
             PROVE  [Next]_vars
  OBVIOUS
<1>1. ASSUME NEW r \in Requests, PoolArrive(r) \/ PoolDispatchClose(r)
      PROVE  Next
  BY <1>1 DEF PoolArrive, PoolDispatchClose, Next
<1>2. ASSUME NEW r \in Requests, Insert(r) \/ Work(r) \/ Finish(r) \/ RunDry(r)
      PROVE  Next
  <2>1. Handle(r)
    BY <1>2 DEF Insert, Work, Finish, RunDry, Handle
  <2>2. QED
    BY <2>1 DEF Next
<1>3. ASSUME NEW r \in Requests,
             \/ Connect(r) \/ ReadDispatch(r) \/ ReadAnswer(r)
             \/ ReadRunDry(r) \/ DispatchExit(r) \/ Exit(r)
      PROVE  UNCHANGED vars
  BY <1>3 DEF Connect, ReadDispatch, ReadAnswer, ReadRunDry, DispatchExit, Exit
<1>4. CASE UNCHANGED poolVars
  BY <1>4 DEF poolVars
<1>5. QED
  BY <1>1, <1>2, <1>3, <1>4 DEF PoolNext, Run

\* Every behaviour of the handlers on a pool of connections is one of the
\* handlers alone, so every safety theorem about CaptureService holds of it.
THEOREM PoolImplementsHandlers == PoolSpec => Spec
<1>1. PoolInit => Init
  BY DEF PoolInit
<1>2. QED
  BY <1>1, PoolStepIsStep, PTL DEF PoolSpec, Spec

LEMMA HandlersInvariant == PoolSpec => []IInv
BY PoolImplementsHandlers, Invariance, PTL

-----------------------------------------------------------------------------
(* The pool is never overdrawn                                             *)

\* PoolTypeOK without the count.
Slots ==
    /\ session \in [Requests -> SessionStates]
    /\ givenUp \subseteq Interactions
    /\ \A r \in Requests :
          /\ session[r] \in {"reading", "open", "closing"} => req[r].pc = "idle"
          /\ session[r] = "connected" => req[r].pc \in {"flush", "card"}

\* One slot moves at a time, and it takes a connection only from a pool that
\* has one.
OneTakes(r) ==
    /\ \A q \in Requests \ {r} : req'[q] = req[q] /\ session'[q] = session[q]
    /\ r \in CheckedOut' => r \in CheckedOut \/ Available

LEMMA ArriveTakes ==
    ASSUME IInv, Slots, NEW r \in Requests, PoolArrive(r)
    PROVE  Slots' /\ OneTakes(r)
<1> USE DEF IInv, TypeInv, TypeOK, Request, IdleRequest, Slots, SessionStates,
        OneTakes, CheckedOut, InTransaction, PoolArrive
<1>1. CASE CaptureStart(r)
  BY <1>1 DEF CaptureStart
<1>2. CASE CardStart(r)
  BY <1>2 DEF CardStart
<1>3. CASE ResolveDispatch(r)
  BY <1>3 DEF ResolveDispatch
<1>4. CASE CompleteDispatch(r)
  BY <1>4 DEF CompleteDispatch
<1>5. QED
  BY <1>1, <1>2, <1>3, <1>4 DEF Arrive

LEMMA InsertTakes ==
    ASSUME IInv, Slots, NEW r \in Requests, Insert(r)
    PROVE  Slots' /\ OneTakes(r)
<1> USE DEF IInv, TypeInv, TypeOK, Request, IdleRequest, Slots, SessionStates,
        OneTakes, CheckedOut, InTransaction, Goto, Answer, SetSession, Insert
<1>1. CASE CaptureFlush(r)
  BY <1>1 DEF CaptureFlush
<1>2. CASE CaptureBusy(r)
  BY <1>2 DEF CaptureBusy
<1>3. CASE CardFlush(r)
  BY <1>3 DEF CardFlush
<1>4. QED
  BY <1>1, <1>2, <1>3 DEF Insert

LEMMA WorkTakes ==
    ASSUME IInv, Slots, NEW r \in Requests, Work(r)
    PROVE  Slots' /\ OneTakes(r)
<1> USE DEF IInv, TypeInv, TypeOK, Request, IdleRequest, Slots, SessionStates,
        OneTakes, CheckedOut, InTransaction, Goto, Answer, Connecting
<1>1. /\ UNCHANGED <<session, givenUp>>
      /\ Connecting(r) => Available
  BY DEF Work
<1>2. CASE CaptureCommit(r)
  BY <1>1, <1>2 DEF CaptureCommit
<1>3. CASE CaptureRaise(r)
  BY <1>1, <1>3 DEF CaptureRaise
<1>4. CASE CaptureRefresh(r)
  BY <1>1, <1>4 DEF CaptureRefresh
<1>5. CASE CloseSession(r)
  BY <1>1, <1>5 DEF CloseSession
<1>6. CASE ResolveLoad(r)
  BY <1>1, <1>6 DEF ResolveLoad
<1>7. CASE ResolveCommit(r)
  BY <1>1, <1>7 DEF ResolveCommit
<1>8. CASE CompleteRead(r)
  <2>1. CASE Goto(r, "tick")
    BY <1>1, <1>8, <2>1 DEF CompleteRead
  <2>2. CASE Goto(r, "reread")
    BY <1>1, <1>8, <2>2 DEF CompleteRead
  <2>3. QED
    BY <1>8, <2>1, <2>2 DEF CompleteRead
<1>9. CASE CompleteCommit(r)
  BY <1>1, <1>9 DEF CompleteCommit
<1>10. CASE CommitBusy(r)
  BY <1>1, <1>10 DEF CommitBusy
<1>11. CASE CardCommit(r)
  BY <1>1, <1>11 DEF CardCommit
<1>12. CASE ResolveFlush(r)
  BY <1>1, <1>12 DEF ResolveFlush
<1>13. CASE CompleteFlush(r)
  BY <1>1, <1>13 DEF CompleteFlush
<1>14. QED
  BY <1>2, <1>3, <1>4, <1>5, <1>6, <1>7, <1>8, <1>9, <1>10, <1>11, <1>12, <1>13 DEF Work

LEMMA FinishTakes ==
    ASSUME IInv, Slots, NEW r \in Requests, Finish(r)
    PROVE  Slots' /\ OneTakes(r)
<1> USE DEF IInv, TypeInv, TypeOK, Request, IdleRequest, Slots, SessionStates,
        OneTakes, CheckedOut, InTransaction, Goto, Answer, Connecting, SetSession
<1>1. /\ IF req'[r].pc = "idle" THEN SetSession(r, "open") ELSE UNCHANGED session
      /\ Connecting(r) => Available
  BY DEF Finish
<1>2. givenUp' \subseteq Interactions
  BY DEF Finish, NoteGivenUp, NotesOwned, Resolving
<1>3. CASE CaptureIndex(r)
  BY <1>1, <1>2, <1>3 DEF CaptureIndex
<1>4. CASE CardRefresh(r)
  BY <1>1, <1>2, <1>4 DEF CardRefresh
<1>5. CASE CompleteRefresh(r)
  BY <1>1, <1>2, <1>5 DEF CompleteRefresh
<1>6. CASE ResolveRead(r)
  <2>1. CASE Goto(r, "load")
    BY <1>1, <1>2, <1>6, <2>1 DEF ResolveRead
  <2>2. CASE Answer(r)
    BY <1>1, <1>2, <1>6, <2>2 DEF ResolveRead
  <2>3. QED
    BY <1>6, <2>1, <2>2 DEF ResolveRead
<1>7. CASE ResolveReindex(r)
  BY <1>1, <1>2, <1>7 DEF ResolveReindex
<1>8. QED
  BY <1>3, <1>4, <1>5, <1>6, <1>7 DEF Finish

LEMMA RunDryTakes ==
    ASSUME IInv, Slots, NEW r \in Requests, RunDry(r)
    PROVE  Slots' /\ OneTakes(r)
<1> USE DEF IInv, TypeInv, TypeOK, Request, IdleRequest, Slots, SessionStates,
        OneTakes, CheckedOut, InTransaction, Answer
<1>1. givenUp' \subseteq Interactions
  BY DEF RunDry, NoteGivenUp, NotesOwned, Resolving
<1>2. QED
  BY <1>1 DEF RunDry, Starve

LEMMA SessionTakes ==
    ASSUME IInv, Slots, NEW r \in Requests,
           \/ Connect(r) \/ ReadDispatch(r) \/ ReadAnswer(r) \/ ReadRunDry(r)
           \/ PoolDispatchClose(r) \/ DispatchExit(r) \/ Exit(r)
    PROVE  Slots' /\ OneTakes(r)
<1> USE DEF IInv, TypeInv, TypeOK, Request, Slots, SessionStates, OneTakes,
        CheckedOut, InTransaction, SetSession, vars
<1>1. CASE Connect(r)
  BY <1>1 DEF Connect
<1>2. CASE ReadDispatch(r)
  BY <1>2 DEF ReadDispatch
<1>3. CASE ReadAnswer(r)
  BY <1>3 DEF ReadAnswer
<1>4. CASE ReadRunDry(r)
  BY <1>4 DEF ReadRunDry
<1>5. CASE PoolDispatchClose(r)
  BY <1>5 DEF PoolDispatchClose, DispatchClose, Goto
<1>6. CASE DispatchExit(r)
  BY <1>6 DEF DispatchExit
<1>7. CASE Exit(r)
  BY <1>7 DEF Exit
<1>8. QED
  BY <1>1, <1>2, <1>3, <1>4, <1>5, <1>6, <1>7

LEMMA CountStep ==
    ASSUME NEW r \in Requests, OneTakes(r), Cardinality(CheckedOut) <= PoolSize
    PROVE  Cardinality(CheckedOut') <= PoolSize
<1> USE PoolAssumption
<1>1. IsFiniteSet(CheckedOut) /\ IsFiniteSet(CheckedOut')
  BY FS_Subset DEF CheckedOut
<1>2. Cardinality(CheckedOut) \in Nat /\ Cardinality(CheckedOut') \in Nat
  BY <1>1, FS_CardinalityType
<1>3. \A q \in Requests \ {r} : q \in CheckedOut' <=> q \in CheckedOut
  BY DEF OneTakes, CheckedOut, InTransaction
<1>4. CheckedOut' \subseteq CheckedOut \cup {r}
  BY <1>3 DEF CheckedOut
<1>5. CASE r \in CheckedOut \/ r \notin CheckedOut'
  <2>1. CheckedOut' \subseteq CheckedOut
    BY <1>4, <1>5
  <2>2. Cardinality(CheckedOut') <= Cardinality(CheckedOut)
    BY <1>1, <2>1, FS_Subset
  <2>3. QED
    BY <1>2, <2>2
<1>6. CASE r \notin CheckedOut /\ r \in CheckedOut'
  <2>1. Cardinality(CheckedOut) < PoolSize
    BY <1>6 DEF OneTakes, Available
  <2>2. Cardinality(CheckedOut \cup {r}) = Cardinality(CheckedOut) + 1
    BY <1>1, <1>6, FS_AddElement
  <2>3. Cardinality(CheckedOut') <= Cardinality(CheckedOut \cup {r})
    BY <1>1, <1>4, FS_AddElement, FS_Subset
  <2>4. QED
    BY <1>2, <2>1, <2>2, <2>3
<1>7. QED
  BY <1>5, <1>6

LEMMA PoolTypeStep == IInv /\ PoolTypeOK /\ [PoolNext]_poolVars => PoolTypeOK'
<1> SUFFICES ASSUME IInv, PoolTypeOK, [PoolNext]_poolVars
             PROVE  PoolTypeOK'
  OBVIOUS
<1>1. Slots /\ Cardinality(CheckedOut) <= PoolSize
  BY DEF PoolTypeOK, Slots
<1>2. ASSUME NEW r \in Requests, Slots', OneTakes(r)
      PROVE  PoolTypeOK'
  BY <1>1, <1>2, CountStep DEF PoolTypeOK, Slots
<1>3. CASE PoolNext
  <2>1. PICK r \in Requests :
            \/ PoolArrive(r) \/ Insert(r) \/ Work(r) \/ Finish(r) \/ RunDry(r)
            \/ Connect(r) \/ ReadDispatch(r) \/ ReadAnswer(r) \/ ReadRunDry(r)
            \/ PoolDispatchClose(r) \/ DispatchExit(r) \/ Exit(r)
    BY <1>3 DEF PoolNext, Run
  <2>2. Slots' /\ OneTakes(r)
    BY <1>1, <2>1, ArriveTakes, InsertTakes, WorkTakes, FinishTakes,
       RunDryTakes, SessionTakes
  <2>3. QED
    BY <1>2, <2>2
<1>4. CASE UNCHANGED poolVars
  BY <1>4 DEF poolVars, vars, PoolTypeOK, CheckedOut, InTransaction
<1>5. QED
  BY <1>3, <1>4

\* Whatever the number of requests in flight, no more connections are out than
\* the pool has, and no slot holds two.
THEOREM PoolNeverOverdrawn == PoolSpec => []PoolTypeOK
<1>1. PoolInit => PoolTypeOK
  <2> SUFFICES ASSUME PoolInit PROVE PoolTypeOK
    OBVIOUS
  <2>1. CheckedOut = {}
    BY DEF PoolInit, Init, IdleRequest, CheckedOut, InTransaction
  <2>2. Cardinality(CheckedOut) <= PoolSize
    BY <2>1, FS_EmptySet, PoolAssumption
  <2>3. QED
    BY <2>2 DEF PoolInit, PoolTypeOK, SessionStates
<1>2. QED
  BY <1>1, PoolTypeStep, HandlersInvariant, PTL DEF PoolSpec

SlotsInv == IInv /\ Slots

LEMMA SlotsInvariant == PoolSpec => []SlotsInv
<1>1. PoolTypeOK => Slots
  BY DEF PoolTypeOK, Slots
<1>2. QED
  BY <1>1, PoolNeverOverdrawn, HandlersInvariant, PTL DEF SlotsInv

-----------------------------------------------------------------------------
(* The index follows resolutions                                           *)

\* A step that is not the end of a re-filing and leaves the rows, the chunks
\* and what has been given up as they are.
LEMMA IndexKept ==
    ASSUME IndexFollowsResolution, NEW r \in Requests, req[r].pc # "reindex",
           UNCHANGED <<interactions, chunks, givenUp>>,
           \A q \in Requests \ {r} : req'[q] = req[q]
    PROVE  IndexFollowsResolution'
BY DEF IndexFollowsResolution

\* The end of a re-filing, however it ends.
LEMMA IndexRefiled ==
    ASSUME IInv, IndexFollowsResolution, NEW r \in Requests, req[r].pc = "reindex",
           UNCHANGED interactions, NoteGivenUp(r),
           \A i \in Interactions \ {req[r].note} : chunks'[i] = chunks[i],
           \A q \in Requests \ {r} : req'[q] = req[q]
    PROVE  IndexFollowsResolution'
<1> SUFFICES ASSUME NEW i \in Interactions \ givenUp',
                    interactions[i].match_status = "matched",
                    chunks'[i] = Unassigned
             PROVE  \E q \in Requests : req'[q].pc = "reindex" /\ req'[q].note = i
  BY DEF IndexFollowsResolution
<1>1. req[r].account \in Accounts
  BY DEF IInv, TypeInv, ChosenAccount
<1>2. i # req[r].note
  BY <1>1 DEF NoteGivenUp
<1>3. chunks[i] = Unassigned /\ i \notin givenUp
  BY <1>2 DEF NoteGivenUp
<1>4. PICK q \in Requests : req[q].pc = "reindex" /\ req[q].note = i
  BY <1>3 DEF IndexFollowsResolution
<1>5. QED
  BY <1>2, <1>4

LEMMA IndexStep == IInv /\ IndexFollowsResolution /\ [PoolNext]_poolVars => IndexFollowsResolution'
<1> SUFFICES ASSUME IInv, IndexFollowsResolution, [PoolNext]_poolVars
             PROVE  IndexFollowsResolution'
  OBVIOUS
<1> USE DEF IInv, TypeInv, TypeOK, Request, Goto, Answer
<1>1. ASSUME NEW r \in Requests, PoolArrive(r)
      PROVE  IndexFollowsResolution'
  <2>1. /\ req[r].pc # "reindex"
        /\ UNCHANGED <<interactions, chunks, givenUp>>
        /\ \A q \in Requests \ {r} : req'[q] = req[q]
    BY <1>1 DEF PoolArrive, Arrive, CaptureStart, CardStart, ResolveDispatch, CompleteDispatch
  <2>2. QED
    BY <2>1, IndexKept
<1>2. ASSUME NEW r \in Requests, Insert(r)
      PROVE  IndexFollowsResolution'
  <2>1. /\ req[r].pc # "reindex"
        /\ UNCHANGED <<interactions, chunks, givenUp>>
        /\ \A q \in Requests \ {r} : req'[q] = req[q]
    BY <1>2 DEF Insert, CaptureFlush, CaptureBusy, CardFlush
  <2>2. QED
    BY <2>1, IndexKept
<1>3. ASSUME NEW r \in Requests, Work(r)
      PROVE  IndexFollowsResolution'
  <2>1. CASE CaptureCommit(r)
    <3>1. chunks[req[r].note] = NoChunk
      BY <2>1 DEF CaptureCommit, NotesOwned, Pending, NoOrphanChunk
    <3>2. QED
      BY <1>3, <2>1, <3>1 DEF CaptureCommit, Work, IndexFollowsResolution
  <2>2. CASE ResolveCommit(r)
    BY <1>3, <2>2 DEF ResolveCommit, Work, IndexFollowsResolution
  <2>3. CASE CardCommit(r)
    BY <1>3, <2>3 DEF CardCommit, Row, Work, IndexFollowsResolution
  <2>4. CASE \/ CaptureRaise(r) \/ CaptureRefresh(r) \/ CloseSession(r)
             \/ ResolveLoad(r) \/ ResolveFlush(r)
             \/ CompleteRead(r) \/ CompleteFlush(r) \/ CompleteCommit(r) \/ CommitBusy(r)
    <3>1. /\ req[r].pc # "reindex"
          /\ UNCHANGED <<interactions, chunks, givenUp>>
          /\ \A q \in Requests \ {r} : req'[q] = req[q]
      BY <1>3, <2>4 DEF Work, CaptureRaise, CaptureRefresh, CloseSession,
         ResolveLoad, ResolveFlush, CompleteRead, CompleteFlush, CompleteCommit, CommitBusy
    <3>2. QED
      BY <3>1, IndexKept
  <2>5. QED
    BY <1>3, <2>1, <2>2, <2>3, <2>4 DEF Work
<1>4. ASSUME NEW r \in Requests, Finish(r)
      PROVE  IndexFollowsResolution'
  <2>1. CASE CaptureIndex(r)
    \* The note's account is read back: no resolution came between.
    <3>1. /\ req[r].note \in Interactions
          /\ req[r].account = interactions[req[r].note].account_id
          /\ UNCHANGED <<interactions, givenUp>>
          /\ \A q \in Requests \ {r} : req'[q] = req[q]
      BY <1>4, <2>1 DEF Finish, CaptureIndex, LocalsRight, LocalRight, NotesOwned, Publishing, NoteGivenUp
    <3>2. ASSUME NEW i \in Interactions \ givenUp,
                 interactions[i].match_status = "matched",
                 chunks'[i] = Unassigned
          PROVE  \E q \in Requests : req'[q].pc = "reindex" /\ req'[q].note = i
      <4>1. interactions[i].account_id # NoAccount
        BY <3>2 DEF NullIffUnmatched, Exists
      <4>2. chunks[i] = Unassigned
        BY <2>1, <3>1, <3>2, <4>1 DEF CaptureIndex, ChunkAccount, Interaction
      <4>3. PICK q \in Requests : req[q].pc = "reindex" /\ req[q].note = i
        BY <3>2, <4>2 DEF IndexFollowsResolution
      <4>4. QED
        BY <2>1, <3>1, <4>3 DEF CaptureIndex
    <3>3. QED
      BY <3>1, <3>2 DEF IndexFollowsResolution
  <2>2. CASE ResolveReindex(r)
    <3>1. /\ req[r].pc = "reindex" /\ NoteGivenUp(r) /\ UNCHANGED interactions
          /\ \A i \in Interactions \ {req[r].note} : chunks'[i] = chunks[i]
          /\ \A q \in Requests \ {r} : req'[q] = req[q]
      BY <1>4, <2>2 DEF Finish, ResolveReindex
    <3>2. QED
      BY <3>1, IndexRefiled
  <2>3. CASE CardRefresh(r) \/ CompleteRefresh(r) \/ ResolveRead(r)
    <3>1. /\ req[r].pc # "reindex"
          /\ UNCHANGED <<interactions, chunks, givenUp>>
          /\ \A q \in Requests \ {r} : req'[q] = req[q]
      BY <1>4, <2>3 DEF Finish, CardRefresh, CompleteRefresh, ResolveRead, NoteGivenUp
    <3>2. QED
      BY <3>1, IndexKept
  <2>4. QED
    BY <1>4, <2>1, <2>2, <2>3 DEF Finish
<1>5. ASSUME NEW r \in Requests, RunDry(r)
      PROVE  IndexFollowsResolution'
  <2>1. /\ UNCHANGED <<interactions, chunks>>
        /\ \A q \in Requests \ {r} : req'[q] = req[q]
        /\ NoteGivenUp(r)
    BY <1>5 DEF RunDry, Starve
  <2>2. CASE req[r].pc = "reindex"
    BY <2>1, <2>2, IndexRefiled
  <2>3. CASE req[r].pc # "reindex"
    BY <2>1, <2>3, IndexKept DEF NoteGivenUp
  <2>4. QED
    BY <2>2, <2>3
<1>6. ASSUME NEW r \in Requests,
             \/ Connect(r) \/ ReadDispatch(r) \/ ReadAnswer(r) \/ ReadRunDry(r)
             \/ DispatchExit(r) \/ Exit(r)
      PROVE  IndexFollowsResolution'
  BY <1>6 DEF Connect, ReadDispatch, ReadAnswer, ReadRunDry, DispatchExit, Exit,
     vars, IndexFollowsResolution
<1>7. ASSUME NEW r \in Requests, PoolDispatchClose(r)
      PROVE  IndexFollowsResolution'
  <2>1. /\ req[r].pc # "reindex"
        /\ UNCHANGED <<interactions, chunks, givenUp>>
        /\ \A q \in Requests \ {r} : req'[q] = req[q]
    BY <1>7 DEF PoolDispatchClose, DispatchClose
  <2>2. QED
    BY <2>1, IndexKept
<1>8. CASE UNCHANGED poolVars
  BY <1>8 DEF poolVars, vars, IndexFollowsResolution
<1>9. QED
  BY <1>1, <1>2, <1>3, <1>4, <1>5, <1>6, <1>7, <1>8 DEF PoolNext, Run

\* An attached note is left in the index under the sentinel only where its
\* re-filing was given up, for any number of captures and resolutions.
THEOREM IndexFollows == PoolSpec => []IndexFollowsResolution
<1>1. PoolInit => IndexFollowsResolution
  BY DEF PoolInit, Init, IndexFollowsResolution, NoInteraction
<1>2. QED
  BY <1>1, IndexStep, HandlersInvariant, PTL DEF PoolSpec
-----------------------------------------------------------------------------
(* Where requests wait for each other                                      *)

\* The three things a slot can wait for, and whether it holds a connection then.
LEMMA WaitKinds ==
    ASSUME SlotsInv, NEW r \in Requests, Unended(r), ~Served(r)
    PROVE  \/ WantsConnection(r) /\ ~Available /\ r \notin CheckedOut
           \/ WantsLock(r) /\ writer # Nobody /\ r \in CheckedOut
           \/ AwaitsLoop(r) /\ ~LoopFree /\ r \in CheckedOut
BY DEF SlotsInv, IInv, TypeInv, TypeOK, Request, Slots, SessionStates, Served, Unended,
   WantsConnection, WantsLock, AwaitsLoop, Connecting, CheckedOut, InTransaction

\* The circle never closes over the lock alone: who holds it wants neither the
\* lock nor a connection.
LEMMA LockHolderWaits ==
    ASSUME SlotsInv, writer # Nobody
    PROVE  /\ writer \in CheckedOut
           /\ ~WantsLock(writer) /\ ~WantsConnection(writer)
<1>1. writer \in Requests /\ req[writer].pc \in Holding
  BY DEF SlotsInv, IInv, TypeInv, TypeOK, LockOwned
<1>2. session[writer] \in SessionStates
  BY <1>1 DEF SlotsInv, Slots
<1>3. QED
  BY <1>1, <1>2 DEF SlotsInv, Slots, SessionStates, Holding, CheckedOut, InTransaction,
     WantsLock, WantsConnection, Connecting

LEMMA ExhaustedPoolIsOut ==
    ASSUME ~Available
    PROVE  CheckedOut # {}
BY FS_EmptySet, PoolAssumption DEF Available

LEMMA CheckedOutUnended ==
    ASSUME NEW r \in CheckedOut
    PROVE  r \in Requests /\ Unended(r)
BY DEF CheckedOut, InTransaction, Unended

LEMMA CirclesPassTheLoop == SlotsInv => OnlyTheLoopDeadlocks
<1> SUFFICES ASSUME SlotsInv, NEW r \in Requests, Unended(r),
                    \A q \in Requests : ~Served(q)
             PROVE  ~LoopFree /\ \E q \in CheckedOut : AwaitsLoop(q)
  BY DEF OnlyTheLoopDeadlocks
<1>1. CheckedOut # {}
  BY WaitKinds, ExhaustedPoolIsOut
<1>2. PICK q \in CheckedOut : TRUE
  BY <1>1
<1>3. ASSUME NEW p \in CheckedOut
      PROVE  \/ WantsLock(p) /\ writer # Nobody
             \/ AwaitsLoop(p) /\ ~LoopFree
  BY <1>3, CheckedOutUnended, WaitKinds
<1>4. CASE writer # Nobody
  BY <1>3, <1>4, LockHolderWaits
<1>5. QED
  BY <1>2, <1>3, <1>4

\* For any number of requests and any size of the pool: unless a capture stops
\* the loop and an exit waits for it, somebody goes on without a timeout.
THEOREM OnlyCapturesDeadlock == PoolSpec => []OnlyTheLoopDeadlocks
BY SlotsInvariant, CirclesPassTheLoop, PTL

\* A step of another's that is not on the loop leaves the loop as it is.
LEMMA OthersLeaveLoop ==
    ASSUME SlotsInv, NEW r \in Requests, loop = r, NEW q \in Requests \ {r}, Run(q)
    PROVE  loop' = loop
<1>1. req[q].pc \notin OnLoop
  BY DEF SlotsInv, IInv, LoopOwned
<1>2. ASSUME Handle(q)
      PROVE  loop' = loop
  BY <1>1, <1>2 DEF Handle, OnLoop, CaptureFlush, CaptureBusy, CaptureCommit, CaptureRaise,
     CaptureRefresh, CaptureIndex, CloseSession, CardFlush, CardCommit, CardRefresh,
     ResolveRead, ResolveLoad, ResolveFlush, ResolveCommit, ResolveReindex, CompleteRead,
     CompleteFlush, CompleteCommit, CompleteRefresh, CommitBusy, Starve
<1>3. CASE Insert(q) \/ Work(q) \/ Finish(q) \/ RunDry(q)
  BY <1>2, <1>3 DEF Insert, Work, Finish, RunDry, Handle
<1>4. CASE Connect(q) \/ ReadAnswer(q) \/ ReadRunDry(q) \/ Exit(q)
  BY <1>4 DEF Connect, ReadAnswer, ReadRunDry, Exit, vars
<1>5. QED
  BY <1>3, <1>4 DEF Run

LEMMA AwaitingDoesNotRun ==
    ASSUME SlotsInv, NEW q \in Requests, AwaitsLoop(q)
    PROVE  ~Run(q)
BY DEF SlotsInv, Slots, SessionStates, AwaitsLoop, Run, Connect, Insert, Work, Finish, RunDry,
   ReadAnswer, ReadRunDry, Exit, CaptureFlush, CaptureBusy, CaptureCommit, CaptureRaise,
   CaptureRefresh, CaptureIndex, CloseSession, CardFlush, CardCommit, CardRefresh,
   ResolveRead, ResolveLoad, ResolveFlush, ResolveCommit, ResolveReindex, CompleteRead,
   CompleteFlush, CompleteCommit, CompleteRefresh, CommitBusy, Starve, Connecting

LEMMA RunTakes ==
    ASSUME SlotsInv, NEW r \in Requests, Run(r)
    PROVE  OneTakes(r)
BY InsertTakes, WorkTakes, FinishTakes, RunDryTakes, SessionTakes DEF Run, SlotsInv

\* The only step a capture that is locked out has left is its timeout.
LEMMA LockedOutRunsDry ==
    ASSUME SlotsInv, NEW r \in Requests, LockedOut(r), Run(r)
    PROVE  req'[r] = IdleRequest
<1>1. session[r] = "none" /\ Connecting(r) /\ ~Available
  BY DEF LockedOut, SlotsInv, IInv, LoopOwned, OnLoop, Slots, WantsConnection
<1>2. ~Connect(r) /\ ~Work(r) /\ ~Finish(r)
  BY <1>1 DEF Connect, Work, Finish
<1>3. ~Insert(r) /\ ~ReadAnswer(r) /\ ~ReadRunDry(r) /\ ~Exit(r)
  BY <1>1 DEF Insert, ReadAnswer, ReadRunDry, Exit
<1>4. QED
  BY <1>2, <1>3 DEF Run, RunDry, Starve, Answer, SlotsInv, IInv, TypeInv, TypeOK

\* Nobody else can end it: the others hold no connection, or wait for the loop.
LEMMA LockedOutByOthers ==
    ASSUME SlotsInv, NEW r \in Requests, LockedOut(r), NEW q \in Requests \ {r}, Run(q)
    PROVE  LockedOut(r)'
<1>1. q \notin CheckedOut
  BY AwaitingDoesNotRun DEF LockedOut
<1>2. /\ q \notin CheckedOut'
      /\ \A p \in Requests \ {q} : req'[p] = req[p] /\ session'[p] = session[p]
  BY <1>1, RunTakes DEF LockedOut, OneTakes
<1>3. CheckedOut' = CheckedOut
  BY <1>1, <1>2 DEF CheckedOut, InTransaction
<1>4. \A p \in CheckedOut' : AwaitsLoop(p)'
  BY <1>1, <1>2, <1>3, CheckedOutUnended DEF LockedOut, AwaitsLoop
<1>5. ~Available'
  BY <1>3 DEF LockedOut, Available
<1>6. loop' = r /\ WantsConnection(r)'
  BY <1>2, OthersLeaveLoop DEF LockedOut, WantsConnection, Connecting
<1>7. QED
  BY <1>4, <1>5, <1>6 DEF LockedOut

LEMMA LockedOutStays ==
    ASSUME SlotsInv, [PoolNext]_poolVars, NEW r \in Requests, LockedOut(r)
    PROVE  LockedOut(r)' \/ req'[r] = IdleRequest
<1>1. ~LoopFree
  BY SentinelsAreFresh DEF LockedOut, LoopFree
<1>2. ASSUME NEW q \in Requests, PoolArrive(q) \/ ReadDispatch(q)
      PROVE  FALSE
  BY <1>1, <1>2 DEF PoolArrive, Arrive, CaptureStart, CardStart, ResolveDispatch,
     CompleteDispatch, ReadDispatch
<1>3. ASSUME NEW q \in Requests, PoolDispatchClose(q) \/ DispatchExit(q)
      PROVE  FALSE
  BY <1>1, <1>3 DEF PoolDispatchClose, DispatchClose, DispatchExit
<1>4. ASSUME NEW q \in Requests, Run(q)
      PROVE  LockedOut(r)' \/ req'[r] = IdleRequest
  BY <1>4, LockedOutRunsDry, LockedOutByOthers
<1>5. CASE UNCHANGED poolVars
  BY <1>5 DEF poolVars, vars, LockedOut, WantsConnection, Connecting, Available, CheckedOut,
     InTransaction, AwaitsLoop
<1>6. QED
  BY <1>2, <1>3, <1>4, <1>5 DEF PoolNext

\* A capture that meets a pool in the hands of answered sessions always fails,
\* after the whole timeout with the loop stopped.
THEOREM LockedOutCapturesFail == PoolSpec => LockedOutFails
<1>1. SlotsInv /\ [PoolNext]_poolVars
         => [\A r \in Requests : LockedOut(r) => LockedOut(r)' \/ req'[r] = IdleRequest]_poolVars
  BY LockedOutStays
<1>2. QED
  BY <1>1, SlotsInvariant, PTL DEF PoolSpec, LockedOutFails

-----------------------------------------------------------------------------
(* No thread is stuck.  The provers know nothing of ENABLED.  What reading   *)
(* the actions one by one shows, that a step whose guards are open can be    *)
(* taken, is the hypothesis GuardsEnable; that some guards are always open,  *)
(* which depends on the states the program can be in, is proved.             *)

\* The guards of the actions of Run, one by one.
HasStep(r) ==
    \/ req[r].pc \in {"flush", "card"} /\ session[r] = "none" /\ Available
    \/ req[r].pc \in {"flush", "card"} /\ session[r] = "connected" /\ writer = Nobody
    \/ req[r].pc \in {"flush", "card"} /\ session[r] = "connected" /\ TimesOut
    \/ req[r].pc \in {"extract", "closing", "index", "carded", "load", "attached", "ticked"}
    \/ req[r].pc \in {"attach", "tick"} /\ writer = Nobody
    \/ req[r].pc \in {"attach", "tick"} /\ TimesOut
    \/ req[r].pc \in {"refresh", "cardread", "resolve", "reindex", "complete", "reread"}
           /\ Available
    \/ Connecting(r) /\ session[r] = "none" /\ PoolTimesOut
    \/ session[r] = "reading" /\ Available
    \/ session[r] = "reading" /\ PoolTimesOut
    \/ session[r] = "closing"

GuardsEnable ==
    \A r \in Requests :
        /\ HasStep(r) => ENABLED <<Run(r)>>_poolVars
        /\ loop = r /\ HasStep(r) => ENABLED <<LoopRun>>_poolVars
        /\ LoopFree /\ req[r].pc = "raised" => ENABLED <<PoolDispatchClose(r)>>_poolVars
        /\ LoopFree /\ session[r] = "open" => ENABLED <<DispatchExit(r)>>_poolVars

\* Wherever a handler and its session stand, there is a step for them, or they
\* wait for the loop; where the step wants a connection or the lock, a timeout
\* ends the wait.
LEMMA ThreadsHaveStep ==
    ASSUME SlotsInv, NEW r \in Requests
    PROVE  HasStep(r) <=> Unended(r) /\ ~AwaitsLoop(r)
BY DEF SlotsInv, IInv, TypeInv, TypeOK, Request, Slots, SessionStates, HasStep, Unended,
   AwaitsLoop, Connecting, PoolTimesOut, TimesOut

\* What occupies the loop is at a step of its own and never waits for the loop.
LEMMA LoopHasStep ==
    ASSUME SlotsInv, ~LoopFree
    PROVE  loop \in Requests /\ HasStep(loop)
<1>1. loop \in Requests /\ req[loop].pc \in OnLoop
  BY DEF SlotsInv, IInv, TypeInv, TypeOK, LoopOwned, LoopFree
<1>2. Unended(loop) /\ ~AwaitsLoop(loop)
  BY <1>1 DEF OnLoop, SlotsInv, Slots, SessionStates, Unended, AwaitsLoop
<1>3. QED
  BY <1>1, <1>2, ThreadsHaveStep

\* Each thread that has not ended, and waits for no dispatch, has a step with an
\* open guard, and so has the capture on the loop.
GuardsOpen ==
    /\ \A r \in Requests : Unended(r) => AwaitsLoop(r) \/ HasStep(r)
    /\ ~LoopFree => \E r \in Requests : loop = r /\ HasStep(r)

\* NoThreadStuck without ENABLED, for any number of requests and any size of the
\* pool.
THEOREM GuardsStayOpen == PoolSpec => []GuardsOpen
<1>1. SlotsInv => GuardsOpen
  BY ThreadsHaveStep, LoopHasStep DEF GuardsOpen
<1>2. QED
  BY <1>1, SlotsInvariant, PTL

LEMMA GuardsSuffice == SlotsInv => (GuardsEnable <=> NoThreadStuck)
<1> SUFFICES ASSUME SlotsInv
             PROVE  GuardsEnable <=> NoThreadStuck
  OBVIOUS
<1>1. GuardsEnable => NoThreadStuck
  BY ThreadsHaveStep, LoopHasStep DEF GuardsEnable, NoThreadStuck
<1>2. NoThreadStuck => GuardsEnable
  BY SentinelsAreFresh, ThreadsHaveStep DEF GuardsEnable, NoThreadStuck, LoopFree
<1>3. QED
  BY <1>1, <1>2

\* NoThreadStuck for any number of requests and any size of the pool, from what
\* single actions can do; and no less is meant by it.
THEOREM NoThreadGetsStuck == PoolSpec => ([]GuardsEnable <=> []NoThreadStuck)
BY SlotsInvariant, GuardsSuffice, PTL

-----------------------------------------------------------------------------
(* Every session ends.  That fair steps lead to the end, although exits wait *)
(* for the loop and the loop for connections.                                *)

\* How many steps a handler and its session are from their end, at most.
HandlerLeft == [idle     |-> 0, closing  |-> 1, raised  |-> 2, index  |-> 3,
                cardread |-> 3, reindex  |-> 3, reread  |-> 3, carded |-> 4,
                attached |-> 4, ticked   |-> 4, refresh |-> 4, attach |-> 5,
                tick     |-> 5, extract  |-> 5, load    |-> 6, complete |-> 6,
                resolve  |-> 7, flush    |-> 7, card    |-> 7]

StepsLeft(r) ==
    CASE session[r] = "closing"   -> 1
      [] session[r] = "open"      -> 2
      [] session[r] = "reading"   -> 3
      [] session[r] = "connected" -> 6
      [] session[r] = "none"      -> HandlerLeft[req[r].pc]

LEMMA StepsLeftType ==
    ASSUME SlotsInv, NEW r \in Requests
    PROVE  /\ StepsLeft(r) \in 0..7
           /\ StepsLeft(r) = 0 <=> ~Unended(r)
           /\ StepsLeft(r) = 2 <=> AwaitsLoop(r)
BY DEF SlotsInv, IInv, TypeInv, TypeOK, Request, Slots, SessionStates, StepsLeft,
   HandlerLeft, Unended, AwaitsLoop

SlotKept(q) == req'[q] = req[q] /\ session'[q] = session[q]

\* A step takes its own slot forward.
Forward(r) ==
    /\ \A q \in Requests \ {r} : SlotKept(q)
    /\ StepsLeft(r)' < StepsLeft(r)

LEMMA RunForward ==
    ASSUME SlotsInv, NEW r \in Requests,
           Run(r) \/ PoolDispatchClose(r) \/ DispatchExit(r)
    PROVE  Forward(r)
<1> USE DEF SlotsInv, IInv, TypeInv, TypeOK, Request, IdleRequest, Slots, SessionStates,
        StepsLeft, HandlerLeft, Goto, Answer, SetSession, Connecting
<1>1. \A q \in Requests \ {r} : SlotKept(q)
  <2>1. OneTakes(r)
    BY InsertTakes, WorkTakes, FinishTakes, RunDryTakes, SessionTakes DEF Run
  <2>2. QED
    BY <2>1 DEF OneTakes, SlotKept
<1> SUFFICES StepsLeft(r)' < StepsLeft(r)
  BY <1>1 DEF Forward
<1>2. CASE Insert(r)
  BY <1>2 DEF Insert, CaptureFlush, CaptureBusy, CardFlush
<1>3. CASE Work(r)
  <2>1. session[r] = "none" /\ session'[r] = session[r] /\ req[r].pc # "idle"
    BY <1>3 DEF Work, CaptureCommit, CaptureRaise, CaptureRefresh, CloseSession,
       CardCommit, ResolveLoad, ResolveFlush, ResolveCommit, CompleteRead, CompleteFlush,
       CompleteCommit, CommitBusy
  <2>2. HandlerLeft[req'[r].pc] < HandlerLeft[req[r].pc]
    BY <1>3 DEF Work, CaptureCommit, CaptureRaise, CaptureRefresh, CloseSession,
       CardCommit, ResolveLoad, ResolveFlush, ResolveCommit, CompleteRead, CompleteFlush,
       CompleteCommit, CommitBusy
  <2>3. QED
    BY <2>1, <2>2
<1>4. CASE Finish(r)
  BY <1>4 DEF Finish, CaptureIndex, CardRefresh, CompleteRefresh, ResolveRead, ResolveReindex
<1>5. CASE RunDry(r)
  BY <1>5 DEF RunDry, Starve
<1>6. CASE \/ Connect(r) \/ ReadAnswer(r) \/ ReadRunDry(r) \/ Exit(r)
           \/ PoolDispatchClose(r) \/ DispatchExit(r)
  BY <1>6 DEF Connect, ReadAnswer, ReadRunDry, Exit, PoolDispatchClose, DispatchClose,
     DispatchExit, vars
<1>7. QED
  BY <1>2, <1>3, <1>4, <1>5, <1>6 DEF Run

LEMMA ArriveFromEnd ==
    ASSUME SlotsInv, NEW r \in Requests, PoolArrive(r) \/ ReadDispatch(r)
    PROVE  /\ ~Unended(r)
           /\ LoopFree
           /\ \A q \in Requests \ {r} : SlotKept(q)
<1>1. OneTakes(r)
  BY ArriveTakes, SessionTakes DEF SlotsInv
<1>2. \A q \in Requests \ {r} : SlotKept(q)
  BY <1>1 DEF OneTakes, SlotKept
<1>3. QED
  BY <1>2 DEF PoolArrive, ReadDispatch, Arrive, CaptureStart, CardStart, ResolveDispatch,
     CompleteDispatch, Unended

\* One slot's part in any step: it goes forward, or begins, or stays.
LEMMA EverySlot ==
    ASSUME SlotsInv, [PoolNext]_poolVars, NEW q \in Requests, Unended(q)
    PROVE  SlotKept(q) \/ StepsLeft(q)' < StepsLeft(q)
<1>1. ASSUME NEW r \in Requests, Run(r) \/ PoolDispatchClose(r) \/ DispatchExit(r)
      PROVE  SlotKept(q) \/ StepsLeft(q)' < StepsLeft(q)
  BY <1>1, RunForward DEF Forward
<1>2. ASSUME NEW r \in Requests, PoolArrive(r) \/ ReadDispatch(r)
      PROVE  SlotKept(q)
  BY <1>2, ArriveFromEnd
<1>3. CASE UNCHANGED poolVars
  BY <1>3 DEF poolVars, vars, SlotKept
<1>4. QED
  BY <1>1, <1>2, <1>3 DEF PoolNext

\* The loop: the capture on it goes forward until the loop is free.
LoopAt(n) == loop # Nobody /\ StepsLeft(loop) = n

LoopBelow(n) == loop # Nobody => StepsLeft(loop) < n

LoopAtMost(n) == LoopAt(n) \/ LoopBelow(n)

LEMMA LoopHolder ==
    ASSUME SlotsInv, ~LoopFree
    PROVE  loop \in Requests /\ Unended(loop)
BY DEF SlotsInv, IInv, TypeInv, TypeOK, LoopOwned, OnLoop, LoopFree, Unended

LEMMA LoopKeptOrFreed ==
    ASSUME [PoolNext]_poolVars, ~LoopFree
    PROVE  loop' \in {loop, Nobody}
<1>1. ASSUME NEW r \in Requests, Handle(r)
      PROVE  loop' \in {loop, Nobody}
  BY <1>1 DEF Handle, CaptureFlush, CaptureBusy, CaptureCommit, CaptureRaise,
     CaptureRefresh, CaptureIndex, CloseSession, CardFlush, CardCommit, CardRefresh,
     ResolveRead, ResolveLoad, ResolveFlush, ResolveCommit, ResolveReindex, CompleteRead,
     CompleteFlush, CompleteCommit, CompleteRefresh, CommitBusy, Starve
<1>2. ASSUME NEW r \in Requests, Arrive(r) \/ DispatchClose(r)
      PROVE  FALSE
  BY <1>2 DEF Arrive, CaptureStart, CardStart, ResolveDispatch, CompleteDispatch,
     DispatchClose, LoopFree
<1>3. CASE Crash \/ UNCHANGED vars
  BY <1>3 DEF Crash, vars
<1>4. QED
  BY <1>1, <1>2, <1>3, PoolStepIsStep DEF Next

LEMMA LoopGoesOn ==
    ASSUME SlotsInv, [PoolNext]_poolVars, NEW n \in 1..7, LoopAt(n)
    PROVE  LoopAtMost(n)'
<1>1. ~LoopFree
  BY DEF LoopAt, LoopFree
<1>2. PICK q \in Requests : q = loop /\ Unended(q) /\ StepsLeft(q) = n
  BY <1>1, LoopHolder DEF LoopAt
<1>3. StepsLeft(q)' = n \/ StepsLeft(q)' < n
  BY <1>2, EverySlot DEF SlotKept, StepsLeft
<1>4. CASE loop' = Nobody
  BY <1>4 DEF LoopAtMost, LoopBelow
<1>5. CASE loop' = q
  <2>1. q # Nobody
    BY <1>2 DEF LoopAt
  <2>2. StepsLeft(loop)' = n \/ StepsLeft(loop)' < n
    BY <1>3, <1>5 DEF StepsLeft
  <2>3. QED
    BY <1>5, <2>1, <2>2 DEF LoopAtMost, LoopAt, LoopBelow
<1>6. loop' \in {loop, Nobody}
  BY <1>1, LoopKeptOrFreed
<1>7. QED
  BY <1>2, <1>4, <1>5, <1>6

LEMMA LoopRunStep ==
    ASSUME SlotsInv, LoopRun, NEW n \in 1..7, LoopAt(n)
    PROVE  LoopBelow(n)'
<1>1. PICK q \in Requests : q = loop /\ Run(q)
  BY DEF LoopRun
<1>2. StepsLeft(q)' < n
  BY <1>1, RunForward DEF Forward, LoopAt
<1>3. loop' \in {q, Nobody}
  BY <1>1, LoopKeptOrFreed DEF PoolNext, LoopAt, LoopFree
<1>4. CASE loop' = Nobody
  BY <1>4 DEF LoopBelow
<1>5. CASE loop' = q
  BY <1>2, <1>5 DEF LoopBelow, StepsLeft
<1>6. QED
  BY <1>3, <1>4, <1>5

LoopLeadsDown(n) == LoopAt(n) ~> LoopBelow(n)

LEMMA LoopAdvances ==
    ASSUME NEW n \in 1..7
    PROVE  PoolSpec /\ []NoThreadStuck /\ LoopFair => LoopLeadsDown(n)
<1>1. SlotsInv /\ [PoolNext]_poolVars /\ LoopAt(n) => LoopAtMost(n)'
  BY LoopGoesOn
<1>2. SlotsInv /\ <<LoopRun>>_poolVars /\ LoopAt(n) => LoopBelow(n)'
  BY LoopRunStep
<1>3. NoThreadStuck /\ LoopAt(n) => ENABLED <<LoopRun>>_poolVars
  BY DEF NoThreadStuck, LoopAt, LoopFree
<1>4. LoopAtMost(n) => LoopAt(n) \/ LoopBelow(n)
  BY DEF LoopAtMost
<1>5. QED
  BY <1>1, <1>2, <1>3, <1>4, SlotsInvariant, PTL DEF PoolSpec, LoopFair, LoopLeadsDown

\* However long captures occupy it, the loop is free again and again.
LEMMA LoopIsFreed == PoolSpec /\ []NoThreadStuck /\ LoopFair => []<>LoopFree
<1> DEFINE Premise == PoolSpec /\ []NoThreadStuck /\ LoopFair
<1>1. \A n \in 1..7 : Premise => LoopLeadsDown(n)
  BY LoopAdvances
<1>2. /\ Premise => LoopLeadsDown(1)
      /\ Premise => LoopLeadsDown(2)
      /\ Premise => LoopLeadsDown(3)
      /\ Premise => LoopLeadsDown(4)
      /\ Premise => LoopLeadsDown(5)
      /\ Premise => LoopLeadsDown(6)
      /\ Premise => LoopLeadsDown(7)
  BY <1>1
<1>3. SlotsInv => LoopFree \/ LoopAt(7) \/ LoopBelow(7)
  BY LoopHolder, StepsLeftType DEF LoopAt, LoopBelow, LoopFree
<1>4. /\ SlotsInv /\ LoopBelow(7) => LoopFree \/ LoopAt(6) \/ LoopBelow(6)
      /\ SlotsInv /\ LoopBelow(6) => LoopFree \/ LoopAt(5) \/ LoopBelow(5)
      /\ SlotsInv /\ LoopBelow(5) => LoopFree \/ LoopAt(4) \/ LoopBelow(4)
      /\ SlotsInv /\ LoopBelow(4) => LoopFree \/ LoopAt(3) \/ LoopBelow(3)
      /\ SlotsInv /\ LoopBelow(3) => LoopFree \/ LoopAt(2) \/ LoopBelow(2)
      /\ SlotsInv /\ LoopBelow(2) => LoopFree \/ LoopAt(1) \/ LoopBelow(1)
      /\ SlotsInv /\ LoopBelow(1) => LoopFree
  BY LoopHolder, StepsLeftType DEF LoopAt, LoopBelow, LoopFree
<1>5. QED
  BY <1>2, <1>3, <1>4, SlotsInvariant, PTL DEF LoopLeadsDown

\* One session: it goes forward until nothing of it is left.
SessionAt(r, n) == StepsLeft(r) = n

SessionBelow(r, n) == StepsLeft(r) < n

SessionAtMost(r, n) == SessionAt(r, n) \/ SessionBelow(r, n)

SessionLeadsDown(r, n) == SessionAt(r, n) ~> SessionBelow(r, n)

LEMMA SessionGoesOn ==
    ASSUME SlotsInv, [PoolNext]_poolVars, NEW r \in Requests, NEW n \in 1..7,
           SessionAt(r, n)
    PROVE  SessionAtMost(r, n)'
<1>1. Unended(r)
  BY StepsLeftType DEF SessionAt
<1>2. StepsLeft(r)' = n \/ StepsLeft(r)' < n
  BY <1>1, EverySlot DEF SlotKept, StepsLeft, SessionAt
<1>3. QED
  BY <1>2 DEF SessionAtMost, SessionAt, SessionBelow

LEMMA SessionRunStep ==
    ASSUME SlotsInv, NEW r \in Requests, NEW n \in 1..7, SessionAt(r, n),
           Run(r) \/ PoolDispatchClose(r) \/ DispatchExit(r)
    PROVE  SessionBelow(r, n)'
BY RunForward DEF Forward, SessionAt, SessionBelow

\* A thread that waits for no dispatch runs because it always can.
LEMMA SessionAdvances ==
    ASSUME NEW r \in Requests, NEW n \in 1..7, n # 2
    PROVE  PoolSpec /\ []NoThreadStuck /\ ThreadFair(r) => SessionLeadsDown(r, n)
<1>1. SlotsInv /\ [PoolNext]_poolVars /\ SessionAt(r, n) => SessionAtMost(r, n)'
  BY SessionGoesOn
<1>2. SlotsInv /\ <<Run(r)>>_poolVars /\ SessionAt(r, n) => SessionBelow(r, n)'
  BY SessionRunStep
<1>3. SlotsInv /\ SessionAt(r, n) => Unended(r) /\ ~AwaitsLoop(r)
  BY StepsLeftType DEF SessionAt
<1>4. NoThreadStuck /\ Unended(r) /\ ~AwaitsLoop(r) => ENABLED <<Run(r)>>_poolVars
  BY DEF NoThreadStuck
<1>5. SessionAtMost(r, n) => SessionAt(r, n) \/ SessionBelow(r, n)
  BY DEF SessionAtMost
<1>6. QED
  BY <1>1, <1>2, <1>3, <1>4, <1>5, SlotsInvariant, PTL
     DEF PoolSpec, ThreadFair, SessionLeadsDown

AwaitsClose(r) == req[r].pc = "raised" /\ session[r] = "none"

AwaitsExit(r) == session[r] = "open"

\* An exit that waits for the loop stays where it is until it is dispatched,
\* and the loop is free again and again: it is dispatched.
LEMMA ExitIsDispatched ==
    ASSUME NEW r \in Requests
    PROVE  PoolSpec /\ []NoThreadStuck /\ LoopFair /\ CloseFair(r) /\ ExitFair(r)
              => SessionLeadsDown(r, 2)
<1>1. SlotsInv /\ SessionAt(r, 2) => AwaitsClose(r) \/ AwaitsExit(r)
  BY StepsLeftType DEF SessionAt, AwaitsLoop, AwaitsClose, AwaitsExit, StepsLeft, SlotsInv,
     Slots, SessionStates
<1>2. SlotsInv /\ AwaitsClose(r) => SessionAt(r, 2)
  BY DEF AwaitsClose, SessionAt, StepsLeft, HandlerLeft
<1>3. SlotsInv /\ AwaitsExit(r) => SessionAt(r, 2)
  BY DEF AwaitsExit, SessionAt, StepsLeft
<1>4. SlotsInv /\ AwaitsClose(r) /\ [PoolNext]_poolVars
         => AwaitsClose(r)' \/ SessionBelow(r, 2)'
  <2> SUFFICES ASSUME SlotsInv, AwaitsClose(r), [PoolNext]_poolVars
               PROVE  AwaitsClose(r)' \/ SessionBelow(r, 2)'
    OBVIOUS
  <2>1. SlotKept(r) \/ StepsLeft(r)' < 2
    BY <1>2, StepsLeftType, EverySlot DEF SessionAt
  <2>2. QED
    BY <2>1 DEF SlotKept, AwaitsClose, SessionBelow
<1>5. SlotsInv /\ AwaitsExit(r) /\ [PoolNext]_poolVars
         => AwaitsExit(r)' \/ SessionBelow(r, 2)'
  <2> SUFFICES ASSUME SlotsInv, AwaitsExit(r), [PoolNext]_poolVars
               PROVE  AwaitsExit(r)' \/ SessionBelow(r, 2)'
    OBVIOUS
  <2>1. SlotKept(r) \/ StepsLeft(r)' < 2
    BY <1>3, StepsLeftType, EverySlot DEF SessionAt
  <2>2. QED
    BY <2>1 DEF SlotKept, AwaitsExit, SessionBelow
<1>6. SlotsInv /\ SessionAt(r, 2) /\ <<PoolDispatchClose(r)>>_poolVars => SessionBelow(r, 2)'
  BY SessionRunStep
<1>7. SlotsInv /\ SessionAt(r, 2) /\ <<DispatchExit(r)>>_poolVars => SessionBelow(r, 2)'
  BY SessionRunStep
<1>8. NoThreadStuck /\ LoopFree /\ AwaitsClose(r)
         => ENABLED <<PoolDispatchClose(r)>>_poolVars
  BY DEF NoThreadStuck, AwaitsClose
<1>9. NoThreadStuck /\ LoopFree /\ AwaitsExit(r) => ENABLED <<DispatchExit(r)>>_poolVars
  BY DEF NoThreadStuck, AwaitsExit
<1>10. QED
  BY <1>1, <1>2, <1>3, <1>4, <1>5, <1>6, <1>7, <1>8, <1>9, LoopIsFreed, SlotsInvariant, PTL
     DEF PoolSpec, CloseFair, ExitFair, SessionLeadsDown

\* EverySessionEnds.  At each distance from its end a session goes forward:
\* at two steps it waits for the loop, which is free again and again, at any
\* other its thread can run.
THEOREM EverySessionDoesEnd == FairPoolSpec /\ []GuardsEnable => EverySessionEnds
<1> SUFFICES ASSUME NEW r \in Requests
             PROVE  FairPoolSpec /\ []GuardsEnable => (Unended(r) ~> ~Unended(r))
  BY DEF EverySessionEnds
<1> DEFINE Premise == PoolSpec /\ []NoThreadStuck /\ LoopFair /\ ThreadFair(r)
                         /\ CloseFair(r) /\ ExitFair(r)
<1>1. FairPoolSpec /\ []GuardsEnable => Premise
  BY NoThreadGetsStuck DEF FairPoolSpec, Fairness
<1>2. \A n \in 1..7 : Premise => SessionLeadsDown(r, n)
  BY SessionAdvances, ExitIsDispatched
<1>3. /\ Premise => SessionLeadsDown(r, 1)
      /\ Premise => SessionLeadsDown(r, 2)
      /\ Premise => SessionLeadsDown(r, 3)
      /\ Premise => SessionLeadsDown(r, 4)
      /\ Premise => SessionLeadsDown(r, 5)
      /\ Premise => SessionLeadsDown(r, 6)
      /\ Premise => SessionLeadsDown(r, 7)
  BY <1>2
<1>4. SlotsInv => SessionAt(r, 7) \/ SessionBelow(r, 7)
  BY StepsLeftType DEF SessionAt, SessionBelow
<1>5. /\ SlotsInv /\ SessionBelow(r, 7) => SessionAt(r, 6) \/ SessionBelow(r, 6)
      /\ SlotsInv /\ SessionBelow(r, 6) => SessionAt(r, 5) \/ SessionBelow(r, 5)
      /\ SlotsInv /\ SessionBelow(r, 5) => SessionAt(r, 4) \/ SessionBelow(r, 4)
      /\ SlotsInv /\ SessionBelow(r, 4) => SessionAt(r, 3) \/ SessionBelow(r, 3)
      /\ SlotsInv /\ SessionBelow(r, 3) => SessionAt(r, 2) \/ SessionBelow(r, 2)
      /\ SlotsInv /\ SessionBelow(r, 2) => SessionAt(r, 1) \/ SessionBelow(r, 1)
      /\ SlotsInv /\ SessionBelow(r, 1) => ~Unended(r)
  BY StepsLeftType DEF SessionAt, SessionBelow
<1>6. QED
  BY <1>1, <1>3, <1>4, <1>5, SlotsInvariant, PTL DEF SessionLeadsDown

SessionEnds(r) == Unended(r) ~> ~Unended(r)

LockReturned(r) == (writer = r) ~> (writer = Nobody)

ConnectionReturned(r) == (r \in CheckedOut) ~> (r \notin CheckedOut)

LEMMA LockKeptOrReturned ==
    ASSUME IInv, [Next]_vars, writer # Nobody
    PROVE  writer' \in {writer, Nobody}
<1>1. ASSUME NEW r \in Requests, Handle(r)
      PROVE  writer' \in {writer, Nobody}
  BY <1>1 DEF Handle, CaptureFlush, CaptureBusy, CaptureCommit, CaptureRaise,
     CaptureRefresh, CaptureIndex, CloseSession, Rollback, CardFlush, CardCommit, CardRefresh,
     ResolveRead, ResolveLoad, ResolveFlush, ResolveCommit, ResolveReindex, CompleteRead,
     CompleteFlush, CompleteCommit, CompleteRefresh, CommitBusy, Starve
<1>2. ASSUME NEW r \in Requests, Arrive(r) \/ DispatchClose(r)
      PROVE  writer' = writer
  BY <1>2 DEF Arrive, CaptureStart, CardStart, ResolveDispatch, CompleteDispatch,
     DispatchClose
<1>3. CASE Crash \/ UNCHANGED vars
  BY <1>3 DEF Crash, vars
<1>4. QED
  BY <1>1, <1>2, <1>3 DEF Next

\* What the requests share always comes back: the event loop from captures,
\* the write lock from a transaction, a connection from a session.
THEOREM SharedThingsComeBack ==
    FairPoolSpec /\ []GuardsEnable
        => /\ []<>LoopFree
           /\ \A r \in Requests : LockReturned(r)
           /\ \A r \in Requests : ConnectionReturned(r)
<1>1. FairPoolSpec => PoolSpec /\ LoopFair
  BY DEF FairPoolSpec, Fairness
<1>2. FairPoolSpec /\ []GuardsEnable => []<>LoopFree
  BY <1>1, LoopIsFreed, NoThreadGetsStuck, PTL
<1>3. ASSUME NEW r \in Requests
      PROVE  FairPoolSpec /\ []GuardsEnable => LockReturned(r) /\ ConnectionReturned(r)
  <2>1. FairPoolSpec /\ []GuardsEnable => SessionEnds(r)
    BY EverySessionDoesEnd DEF EverySessionEnds, SessionEnds
  <2>2. SlotsInv /\ writer = r => Unended(r)
    BY DEF SlotsInv, IInv, TypeInv, TypeOK, LockOwned, Holding, Unended
  <2>3. SlotsInv /\ [PoolNext]_poolVars /\ writer = r => (writer = r)' \/ (writer = Nobody)'
    BY LockKeptOrReturned, PoolStepIsStep DEF SlotsInv
  <2>4. SlotsInv /\ ~Unended(r) => r \notin CheckedOut
    BY DEF CheckedOut, InTransaction, Unended
  <2>5. QED
    BY <1>1, <2>1, <2>2, <2>3, <2>4, SlotsInvariant, PTL
       DEF PoolSpec, SessionEnds, LockReturned, ConnectionReturned
<1>4. QED
  BY <1>2, <1>3
=============================================================================
