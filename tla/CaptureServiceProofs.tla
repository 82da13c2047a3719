------------------------- MODULE CaptureServiceProofs -------------------------
(***************************************************************************)
(* Theorems about CaptureService, for every number of requests, notes,     *)
(* commitments and accounts.                                               *)
(***************************************************************************)
EXTENDS CaptureService, TLAPS

USE SentinelsAreFresh

-----------------------------------------------------------------------------
(* Types                                                                   *)

LEMMA FoundAccount ==
    ASSUME NEW named \in SUBSET Accounts
    PROVE  FindAccount(named) \in Accounts \cup {NoAccount}
BY DEF FindAccount

LEMMA CompletedType ==
    ASSUME NEW row \in Commitment
    PROVE  [row EXCEPT !.status = "complete"] \in Commitment
BY DEF Commitment

\* The types alone are not inductive: a resolution writes its account into the
\* chunk, so that account must be one of the adapter's.
ChosenAccount ==
    \A r \in Requests :
        req[r].pc \in {"resolve", "load", "attach", "attached", "reindex"}
            => req[r].account \in Accounts

TypeInv == TypeOK /\ ChosenAccount

LEMMA TypeInit == Init => TypeInv
BY DEF Init, TypeInv, TypeOK, ChosenAccount, Interaction, Commitment, Request, NoInteraction,
       NoCommitment, IdleRequest

LEMMA TypeStep == TypeInv /\ [Next]_vars => TypeInv'
<1> SUFFICES ASSUME TypeInv, [Next]_vars
             PROVE  TypeInv'
  OBVIOUS
<1> USE DEF TypeInv, TypeOK, ChosenAccount, Interaction, Commitment, Request, Goto, Answer, IdleRequest
<1>1. ASSUME NEW r \in Requests, Arrive(r)
      PROVE  TypeInv'
  <2>1. CASE CaptureStart(r)
    BY <2>1, FoundAccount DEF CaptureStart, FreshNotes
  <2>2. CASE CardStart(r)
    BY <2>2 DEF CardStart, FreshNotes
  <2>3. CASE ResolveDispatch(r)
    BY <2>3 DEF ResolveDispatch
  <2>4. CASE CompleteDispatch(r)
    BY <2>4 DEF CompleteDispatch
  <2>5. QED
    BY <1>1, <2>1, <2>2, <2>3, <2>4 DEF Arrive
<1>2. ASSUME NEW r \in Requests, Handle(r)
      PROVE  TypeInv'
  <2>1. CASE CaptureFlush(r)
    BY ZenonT(40), <2>1 DEF CaptureFlush
  <2>2. CASE CaptureBusy(r)
    BY <2>2 DEF CaptureBusy
  <2>3. CASE CaptureCommit(r)
    <3>1. interactions' \in [Interactions -> Interaction]
      BY <2>3 DEF CaptureCommit, Row
    <3>2. commitments' \in [Commitments -> Commitment]
      <4>1. PICK found \in SUBSET Commitments :
                commitments' = [c \in Commitments |->
                    IF c \in found THEN Extracted(req[r].note, req[r].account)
                                   ELSE commitments[c]]
        BY <2>3 DEF CaptureCommit
      <4>2. QED
        BY <4>1 DEF Extracted
    <3>3. req' \in [Requests -> Request] /\ ChosenAccount'
      BY ZenonT(40), <2>3 DEF CaptureCommit
    <3>4. UNCHANGED <<chunks, loop>> /\ writer' = Nobody
      BY <2>3 DEF CaptureCommit
    <3>5. QED
      BY <3>1, <3>2, <3>3, <3>4
  <2>4. CASE CaptureRaise(r)
    BY ZenonT(40), <2>4 DEF CaptureRaise
  <2>5. CASE CaptureRefresh(r)
    <3>1. TypeOK'
      BY <2>5 DEF CaptureRefresh
    <3>2. ChosenAccount'
      BY <2>5 DEF CaptureRefresh
    <3>3. QED
      BY <3>1, <3>2
  <2>6. CASE CaptureIndex(r)
    BY <2>6 DEF CaptureIndex, ChunkAccount
  <2>7. CASE CloseSession(r)
    BY <2>7 DEF CloseSession, Rollback
  <2>8. CASE CardCommit(r)
    BY ZenonT(40), <2>8 DEF CardCommit, Row
  <2>9. CASE ResolveRead(r)
    <3>1. CASE Goto(r, "load")
      BY <2>9, <3>1 DEF ResolveRead
    <3>2. CASE Answer(r)
      BY <2>9, <3>2 DEF ResolveRead
    <3>3. QED
      BY <2>9, <3>1, <3>2 DEF ResolveRead
  <2>10. CASE ResolveLoad(r)
    <3>1. TypeOK'
      <4>1. Dirtied(req[r].note, req[r].account) \in SUBSET Commitments
        BY DEF Dirtied, ThreadOf
      <4>2. req' \in [Requests -> Request]
        BY <2>10, <4>1 DEF ResolveLoad
      <4>3. QED
        BY <2>10, <4>2 DEF ResolveLoad
    <3>2. ChosenAccount'
      BY <2>10 DEF ResolveLoad
    <3>3. QED
      BY <3>1, <3>2
  <2>11. CASE ResolveCommit(r)
    <3>1. interactions' \in [Interactions -> Interaction]
      BY <2>11 DEF ResolveCommit
    <3>2. commitments' \in [Commitments -> Commitment]
      <4>1. req[r].account \in Accounts
        BY <2>11 DEF ResolveCommit
      <4>2. \A c \in Commitments : Moved(c, req[r].account) \in Commitment
        BY <4>1 DEF Moved
      <4>3. commitments' = [c \in Commitments |->
                IF c \in req[r].dirty THEN Moved(c, req[r].account)
                                      ELSE commitments[c]]
        BY <2>11 DEF ResolveCommit
      <4>4. QED
        BY <4>2, <4>3
    <3>3. ChosenAccount'
      BY <2>11 DEF ResolveCommit
    <3>4. req' \in [Requests -> Request]
      BY <2>11 DEF ResolveCommit
    <3>5. UNCHANGED <<chunks, loop>> /\ writer' = Nobody
      BY <2>11 DEF ResolveCommit
    <3>6. QED
      BY <3>1, <3>2, <3>3, <3>4, <3>5
  <2>12. CASE ResolveReindex(r)
    <3>1. chunks' \in [Interactions -> Accounts \cup {Unassigned, NoChunk}]
      BY <2>12 DEF ResolveReindex
    <3>2. QED
      BY <2>12, <3>1 DEF ResolveReindex
  <2>13. CASE CompleteRead(r)
    <3>1. CASE Goto(r, "tick")
      BY ZenonT(40), <2>13, <3>1 DEF CompleteRead
    <3>2. CASE Goto(r, "reread")
      BY <2>13, <3>2 DEF CompleteRead
    <3>3. QED
      BY <2>13, <3>1, <3>2 DEF CompleteRead
  <2>14. CASE CompleteCommit(r)
    <3>1. commitments' \in [Commitments -> Commitment]
      <4>1. \A c \in Commitments : [commitments[c] EXCEPT !.status = "complete"] \in Commitment
        BY CompletedType
      <4>2. commitments' = [c \in Commitments |->
                IF c \in req[r].dirty
                THEN [commitments[c] EXCEPT !.status = "complete"]
                ELSE commitments[c]]
        BY <2>14 DEF CompleteCommit
      <4>3. QED
        BY <4>1, <4>2
    <3>2. req' \in [Requests -> Request] /\ ChosenAccount'
      BY ZenonT(40), <2>14 DEF CompleteCommit
    <3>3. UNCHANGED <<interactions, chunks, loop>> /\ writer' = Nobody
      BY <2>14 DEF CompleteCommit
    <3>4. QED
      BY <3>1, <3>2, <3>3
  <2>15. CASE CommitBusy(r)
    BY <2>15 DEF CommitBusy
  <2>16. CASE CardRefresh(r)
    BY <2>16 DEF CardRefresh
  <2>17. CASE CompleteRefresh(r)
    BY <2>17 DEF CompleteRefresh
  <2>18. CASE Starve(r)
    BY <2>18 DEF Starve, Connecting
  <2>19. CASE CardFlush(r)
    BY ZenonT(40), <2>19 DEF CardFlush
  <2>20. CASE ResolveFlush(r)
    BY <2>20 DEF ResolveFlush
  <2>21. CASE CompleteFlush(r)
    BY ZenonT(40), <2>21 DEF CompleteFlush
  <2>22. QED
    BY <1>2, <2>1, <2>2, <2>3, <2>4, <2>5, <2>6, <2>7, <2>8, <2>9, <2>10, <2>11, <2>12,
       <2>13, <2>14, <2>15, <2>16, <2>17, <2>18, <2>19, <2>20, <2>21 DEF Handle
<1>3. ASSUME NEW r \in Requests, DispatchClose(r)
      PROVE  TypeInv'
  BY ZenonT(40), <1>3 DEF DispatchClose
<1>4. CASE Crash
  BY <1>4 DEF Crash
<1>5. CASE UNCHANGED vars
  BY <1>5 DEF vars
<1>6. QED
  BY <1>1, <1>2, <1>3, <1>4, <1>5 DEF Next

\* Every reachable state of every instance has the types of the tables, the
\* index metadata, the two mutual-exclusion cells and the handlers' locals.
THEOREM TypeCorrect == Spec => []TypeOK
<1>1. TypeInv => TypeOK
  BY DEF TypeInv
<1>2. QED
  BY <1>1, TypeInit, TypeStep, PTL DEF Spec

-----------------------------------------------------------------------------
(* The inductive invariant: who holds what, and what each handler may rely *)
(* on at the point where it stands.                                        *)

Holding == {"extract", "raised", "closing", "carded", "attached", "ticked"}

OnLoop == {"flush", "extract", "refresh", "index", "card", "carded", "cardread"}

\* The note is this request's own and not committed yet.
Pending == {"flush", "extract", "raised", "closing", "card", "carded"}

\* The note is committed, but nobody else has been told of it.
Publishing == {"refresh", "index"}

Resolving == {"resolve", "load", "attach", "attached", "reindex"}

LockOwned == \A r \in Requests : req[r].pc \in Holding <=> writer = r

LoopOwned == \A r \in Requests : req[r].pc \in OnLoop <=> loop = r

NotesOwned ==
    \A r \in Requests :
        /\ req[r].pc \in Pending \cup Publishing \cup Resolving
              => req[r].note \in Interactions
        /\ req[r].pc \in Pending => ~Exists(req[r].note)
        /\ req[r].pc \in Publishing \cup Resolving => Exists(req[r].note)
        /\ req[r].pc \in Pending \cup Publishing =>
              \A q \in Requests : q # r => req[q].note # req[r].note

\* Once a thread is loaded every commitment of it that has no account is dirty.
ThreadLoaded(r) ==
    req[r].pc \in {"attach", "attached"} =>
        /\ req[r].dirty \subseteq ThreadOf(req[r].note)
        /\ \A c \in ThreadOf(req[r].note) :
              commitments[c].account_id = NoAccount => c \in req[r].dirty

LocalRight(r) ==
    /\ req[r].pc = "index"
          => req[r].account = interactions[req[r].note].account_id
    /\ ThreadLoaded(r)
    /\ req[r].pc = "reindex"
          => interactions[req[r].note].match_status = "matched"
    /\ req[r].pc \in {"complete", "tick", "ticked"} =>
          \E c \in Commitments : req[r].dirty = {c} /\ CommitmentExists(c)

LocalsRight == \A r \in Requests : LocalRight(r)

IInv == /\ TypeInv
        /\ LockOwned
        /\ LoopOwned
        /\ NotesOwned
        /\ LocalsRight
        /\ NullIffUnmatched
        /\ NoOrphanChunk

LEMMA LockStep == IInv /\ [Next]_vars => LockOwned'
<1> SUFFICES ASSUME IInv, [Next]_vars
             PROVE  LockOwned'
  OBVIOUS
<1> USE DEF IInv, TypeInv, TypeOK, Request, Goto, Answer, IdleRequest, LockOwned, Holding
<1>1. ASSUME NEW r \in Requests, Arrive(r)
      PROVE  LockOwned'
  <2>1. CASE CaptureStart(r)
    BY <2>1 DEF CaptureStart, FreshNotes, LoopFree
  <2>2. CASE CardStart(r)
    BY <2>2 DEF CardStart, FreshNotes, LoopFree
  <2>3. CASE ResolveDispatch(r)
    BY <2>3 DEF ResolveDispatch, LoopFree
  <2>4. CASE CompleteDispatch(r)
    BY <2>4 DEF CompleteDispatch, LoopFree
  <2>5. QED
    BY <1>1, <2>1, <2>2, <2>3, <2>4 DEF Arrive
<1>2. ASSUME NEW r \in Requests, Handle(r)
      PROVE  LockOwned'
  <2>1. CASE CaptureFlush(r)
    BY <2>1 DEF CaptureFlush
  <2>2. CASE CaptureBusy(r)
    BY <2>2 DEF CaptureBusy, TimesOut
  <2>3. CASE CaptureCommit(r)
    BY <2>3 DEF CaptureCommit, Row, Extracted
  <2>4. CASE CaptureRaise(r)
    BY <2>4 DEF CaptureRaise
  <2>5. CASE CaptureRefresh(r)
    BY <2>5 DEF CaptureRefresh
  <2>6. CASE CaptureIndex(r)
    BY <2>6 DEF CaptureIndex, ChunkAccount
  <2>7. CASE CloseSession(r)
    BY <2>7 DEF CloseSession, Rollback
  <2>8. CASE CardCommit(r)
    BY <2>8 DEF CardCommit, Row
  <2>9. CASE ResolveRead(r)
    BY <2>9 DEF ResolveRead
  <2>10. CASE ResolveLoad(r)
    BY <2>10 DEF ResolveLoad, Dirtied, ThreadOf
  <2>11. CASE ResolveCommit(r)
    BY <2>11 DEF ResolveCommit, Moved
  <2>12. CASE ResolveReindex(r)
    BY <2>12 DEF ResolveReindex
  <2>13. CASE CompleteRead(r)
    BY <2>13 DEF CompleteRead
  <2>14. CASE CompleteCommit(r)
    BY <2>14 DEF CompleteCommit
  <2>15. CASE CommitBusy(r)
    BY <2>15 DEF CommitBusy, TimesOut
  <2>16. CASE CardRefresh(r)
    BY <2>16 DEF CardRefresh
  <2>17. CASE CompleteRefresh(r)
    BY <2>17 DEF CompleteRefresh
  <2>18. CASE Starve(r)
    BY <2>18 DEF Starve, Connecting
  <2>19. CASE CardFlush(r)
    BY <2>19 DEF CardFlush
  <2>20. CASE ResolveFlush(r)
    BY <2>20 DEF ResolveFlush
  <2>21. CASE CompleteFlush(r)
    BY <2>21 DEF CompleteFlush
  <2>22. QED
    BY <1>2, <2>1, <2>2, <2>3, <2>4, <2>5, <2>6, <2>7, <2>8, <2>9, <2>10, <2>11, <2>12,
       <2>13, <2>14, <2>15, <2>16, <2>17, <2>18, <2>19, <2>20, <2>21 DEF Handle
<1>3. ASSUME NEW r \in Requests, DispatchClose(r)
      PROVE  LockOwned'
  BY <1>3 DEF DispatchClose, LoopFree
<1>4. CASE Crash
  BY <1>4 DEF Crash
<1>5. CASE UNCHANGED vars
  BY <1>5 DEF vars
<1>6. QED
  BY <1>1, <1>2, <1>3, <1>4, <1>5 DEF Next

LEMMA LoopStep == IInv /\ [Next]_vars => LoopOwned'
<1> SUFFICES ASSUME IInv, [Next]_vars
             PROVE  LoopOwned'
  OBVIOUS
<1> USE DEF IInv, TypeInv, TypeOK, Request, Goto, Answer, IdleRequest, LoopOwned, OnLoop
<1>1. ASSUME NEW r \in Requests, Arrive(r)
      PROVE  LoopOwned'
  <2>1. CASE CaptureStart(r)
    BY <2>1 DEF CaptureStart, FreshNotes, LoopFree
  <2>2. CASE CardStart(r)
    BY <2>2 DEF CardStart, FreshNotes, LoopFree
  <2>3. CASE ResolveDispatch(r)
    BY <2>3 DEF ResolveDispatch, LoopFree
  <2>4. CASE CompleteDispatch(r)
    BY <2>4 DEF CompleteDispatch, LoopFree
  <2>5. QED
    BY <1>1, <2>1, <2>2, <2>3, <2>4 DEF Arrive
<1>2. ASSUME NEW r \in Requests, Handle(r)
      PROVE  LoopOwned'
  <2>1. CASE CaptureFlush(r)
    BY <2>1 DEF CaptureFlush
  <2>2. CASE CaptureBusy(r)
    BY <2>2 DEF CaptureBusy, TimesOut
  <2>3. CASE CaptureCommit(r)
    BY <2>3 DEF CaptureCommit, Row, Extracted
  <2>4. CASE CaptureRaise(r)
    BY <2>4 DEF CaptureRaise
  <2>5. CASE CaptureRefresh(r)
    BY <2>5 DEF CaptureRefresh
  <2>6. CASE CaptureIndex(r)
    BY <2>6 DEF CaptureIndex, ChunkAccount
  <2>7. CASE CloseSession(r)
    BY <2>7 DEF CloseSession, Rollback
  <2>8. CASE CardCommit(r)
    BY <2>8 DEF CardCommit, Row
  <2>9. CASE ResolveRead(r)
    BY <2>9 DEF ResolveRead
  <2>10. CASE ResolveLoad(r)
    BY <2>10 DEF ResolveLoad, Dirtied, ThreadOf
  <2>11. CASE ResolveCommit(r)
    BY <2>11 DEF ResolveCommit, Moved
  <2>12. CASE ResolveReindex(r)
    BY <2>12 DEF ResolveReindex
  <2>13. CASE CompleteRead(r)
    BY <2>13 DEF CompleteRead
  <2>14. CASE CompleteCommit(r)
    BY <2>14 DEF CompleteCommit
  <2>15. CASE CommitBusy(r)
    BY <2>15 DEF CommitBusy, TimesOut
  <2>16. CASE CardRefresh(r)
    BY <2>16 DEF CardRefresh
  <2>17. CASE CompleteRefresh(r)
    BY <2>17 DEF CompleteRefresh
  <2>18. CASE Starve(r)
    BY <2>18 DEF Starve, Connecting
  <2>19. CASE CardFlush(r)
    BY <2>19 DEF CardFlush
  <2>20. CASE ResolveFlush(r)
    BY <2>20 DEF ResolveFlush
  <2>21. CASE CompleteFlush(r)
    BY <2>21 DEF CompleteFlush
  <2>22. QED
    BY <1>2, <2>1, <2>2, <2>3, <2>4, <2>5, <2>6, <2>7, <2>8, <2>9, <2>10, <2>11, <2>12,
       <2>13, <2>14, <2>15, <2>16, <2>17, <2>18, <2>19, <2>20, <2>21 DEF Handle
<1>3. ASSUME NEW r \in Requests, DispatchClose(r)
      PROVE  LoopOwned'
  BY <1>3 DEF DispatchClose, LoopFree
<1>4. CASE Crash
  BY <1>4 DEF Crash
<1>5. CASE UNCHANGED vars
  BY <1>5 DEF vars
<1>6. QED
  BY <1>1, <1>2, <1>3, <1>4, <1>5 DEF Next

LEMMA NotesStep == IInv /\ [Next]_vars => NotesOwned'
<1> SUFFICES ASSUME IInv, [Next]_vars
             PROVE  NotesOwned'
  OBVIOUS
<1> USE DEF IInv, TypeInv, TypeOK, Request, Goto, Answer, IdleRequest, LoopOwned, OnLoop, NotesOwned, Pending, Publishing, Resolving, Exists, Interaction
<1>1. ASSUME NEW r \in Requests, Arrive(r)
      PROVE  NotesOwned'
  <2>1. CASE CaptureStart(r)
    BY <2>1 DEF CaptureStart, FreshNotes, LoopFree
  <2>2. CASE CardStart(r)
    BY <2>2 DEF CardStart, FreshNotes, LoopFree
  <2>3. CASE ResolveDispatch(r)
    BY <2>3 DEF ResolveDispatch, LoopFree
  <2>4. CASE CompleteDispatch(r)
    BY <2>4 DEF CompleteDispatch, LoopFree
  <2>5. QED
    BY <1>1, <2>1, <2>2, <2>3, <2>4 DEF Arrive
<1>2. ASSUME NEW r \in Requests, Handle(r)
      PROVE  NotesOwned'
  <2>1. CASE CaptureFlush(r)
    BY <2>1 DEF CaptureFlush
  <2>2. CASE CaptureBusy(r)
    BY <2>2 DEF CaptureBusy, TimesOut
  <2>3. CASE CaptureCommit(r)
    BY <2>3 DEF CaptureCommit, Row, Extracted
  <2>4. CASE CaptureRaise(r)
    BY <2>4 DEF CaptureRaise
  <2>5. CASE CaptureRefresh(r)
    <3>1. \A q \in Requests : q # r => req'[q] = req[q]
      BY <2>5 DEF CaptureRefresh
    <3>2. /\ req[r].pc = "refresh" /\ req'[r].pc = "index"
          /\ req'[r].note = req[r].note
      BY <2>5 DEF CaptureRefresh
    <3>3. UNCHANGED <<interactions, commitments>>
      BY <2>5 DEF CaptureRefresh
    <3>4. QED
      BY <3>1, <3>2, <3>3
  <2>6. CASE CaptureIndex(r)
    BY <2>6 DEF CaptureIndex, ChunkAccount
  <2>7. CASE CloseSession(r)
    BY <2>7 DEF CloseSession, Rollback
  <2>8. CASE CardCommit(r)
    BY <2>8 DEF CardCommit, Row
  <2>9. CASE ResolveRead(r)
    <3>1. CASE Goto(r, "load")
      BY <2>9, <3>1 DEF ResolveRead
    <3>2. CASE Answer(r)
      BY <2>9, <3>2 DEF ResolveRead
    <3>3. QED
      BY <2>9, <3>1, <3>2 DEF ResolveRead
  <2>10. CASE ResolveLoad(r)
    <3>1. \A q \in Requests : q # r => req'[q] = req[q]
      BY <2>10 DEF ResolveLoad
    <3>2. /\ req[r].pc = "load" /\ req'[r].pc = "attach"
          /\ req'[r].note = req[r].note
      BY <2>10 DEF ResolveLoad
    <3>3. UNCHANGED <<interactions, commitments>>
      BY <2>10 DEF ResolveLoad
    <3>4. \A q \in Requests :
             /\ req'[q].note = req[q].note
             /\ req'[q].pc \in Pending <=> req[q].pc \in Pending
             /\ req'[q].pc \in Publishing <=> req[q].pc \in Publishing
             /\ req'[q].pc \in Resolving <=> req[q].pc \in Resolving
      BY <3>1, <3>2
    <3>5. QED
      BY <3>3, <3>4
  <2>11. CASE ResolveCommit(r)
    BY <2>11 DEF ResolveCommit, Moved
  <2>12. CASE ResolveReindex(r)
    BY <2>12 DEF ResolveReindex
  <2>13. CASE CompleteRead(r)
    <3>1. CASE Goto(r, "tick")
      BY <2>13, <3>1 DEF CompleteRead
    <3>2. CASE Goto(r, "reread")
      BY <2>13, <3>2 DEF CompleteRead
    <3>3. QED
      BY <2>13, <3>1, <3>2 DEF CompleteRead
  <2>14. CASE CompleteCommit(r)
    BY <2>14 DEF CompleteCommit
  <2>15. CASE CommitBusy(r)
    BY <2>15 DEF CommitBusy, TimesOut
  <2>16. CASE CardRefresh(r)
    BY <2>16 DEF CardRefresh
  <2>17. CASE CompleteRefresh(r)
    BY <2>17 DEF CompleteRefresh
  <2>18. CASE Starve(r)
    BY <2>18 DEF Starve, Connecting
  <2>19. CASE CardFlush(r)
    BY <2>19 DEF CardFlush
  <2>20. CASE ResolveFlush(r)
    BY <2>20 DEF ResolveFlush
  <2>21. CASE CompleteFlush(r)
    BY <2>21 DEF CompleteFlush
  <2>22. QED
    BY <1>2, <2>1, <2>2, <2>3, <2>4, <2>5, <2>6, <2>7, <2>8, <2>9, <2>10, <2>11, <2>12,
       <2>13, <2>14, <2>15, <2>16, <2>17, <2>18, <2>19, <2>20, <2>21 DEF Handle
<1>3. ASSUME NEW r \in Requests, DispatchClose(r)
      PROVE  NotesOwned'
  BY <1>3 DEF DispatchClose, LoopFree
<1>4. CASE Crash
  BY <1>4 DEF Crash
<1>5. CASE UNCHANGED vars
  BY <1>5 DEF vars
<1>6. QED
  BY <1>1, <1>2, <1>3, <1>4, <1>5 DEF Next

LEMMA IInit == Init => IInv
<1> SUFFICES ASSUME Init PROVE IInv
  OBVIOUS
<1> USE DEF Init, NoInteraction, NoCommitment, IdleRequest
<1>1. TypeInv
  BY TypeInit
<1>2. LockOwned /\ LoopOwned
  BY DEF LockOwned, Holding, LoopOwned, OnLoop
<1>3. NotesOwned
  BY DEF NotesOwned, Pending, Publishing, Resolving
<1>4. LocalsRight
  BY DEF LocalsRight, LocalRight, ThreadLoaded
<1>5. NullIffUnmatched /\ NoOrphanChunk
  BY DEF NullIffUnmatched, NoOrphanChunk, Exists, CommitmentExists
<1>6. QED
  BY <1>1, <1>2, <1>3, <1>4, <1>5 DEF IInv

LEMMA LocalsStep == IInv /\ [Next]_vars => LocalsRight'
<1> SUFFICES ASSUME IInv, [Next]_vars
             PROVE  LocalsRight'
  OBVIOUS
<1> USE DEF IInv, TypeInv, TypeOK, Request, Goto, Answer, IdleRequest, LocalsRight, LocalRight, ThreadLoaded, ThreadOf, CommitmentExists, Exists, NotesOwned, Pending, Publishing, Resolving, Interaction, Commitment, NullIffUnmatched
<1>1. ASSUME NEW r \in Requests, Arrive(r)
      PROVE  LocalsRight'
  <2>1. CASE CaptureStart(r)
    BY <2>1 DEF CaptureStart, FreshNotes, LoopFree
  <2>2. CASE CardStart(r)
    BY <2>2 DEF CardStart, FreshNotes, LoopFree
  <2>3. CASE ResolveDispatch(r)
    BY <2>3 DEF ResolveDispatch, LoopFree
  <2>4. CASE CompleteDispatch(r)
    BY <2>4 DEF CompleteDispatch, LoopFree
  <2>5. QED
    BY <1>1, <2>1, <2>2, <2>3, <2>4 DEF Arrive
<1>2. ASSUME NEW r \in Requests, Handle(r)
      PROVE  LocalsRight'
  <2>1. CASE CaptureFlush(r)
    BY <2>1 DEF CaptureFlush
  <2>2. CASE CaptureBusy(r)
    BY <2>2 DEF CaptureBusy, TimesOut
  <2>3. CASE CaptureCommit(r)
    BY <2>3 DEF CaptureCommit, Row, Extracted
  <2>4. CASE CaptureRaise(r)
    BY <2>4 DEF CaptureRaise
  <2>5. CASE CaptureRefresh(r)
    <3>1. \A q \in Requests : q # r => req'[q] = req[q]
      BY <2>5 DEF CaptureRefresh
    <3>2. /\ req[r].pc = "refresh" /\ req'[r].pc = "index"
          /\ req'[r].note = req[r].note
          /\ req'[r].account = interactions[req[r].note].account_id
      BY <2>5 DEF CaptureRefresh
    <3>3. UNCHANGED <<interactions, commitments>>
      BY <2>5 DEF CaptureRefresh
    <3>4. ASSUME NEW q \in Requests, q # r
          PROVE  LocalRight(q)'
      BY <3>1, <3>3, <3>4
    <3>5. LocalRight(r)'
      BY <3>2, <3>3
    <3>6. QED
      BY <3>4, <3>5
  <2>6. CASE CaptureIndex(r)
    BY <2>6 DEF CaptureIndex, ChunkAccount
  <2>7. CASE CloseSession(r)
    BY <2>7 DEF CloseSession, Rollback
  <2>8. CASE CardCommit(r)
    BY <2>8 DEF CardCommit, Row
  <2>9. CASE ResolveRead(r)
    <3>1. CASE Goto(r, "load")
      BY <2>9, <3>1 DEF ResolveRead
    <3>2. CASE Answer(r)
      BY <2>9, <3>2 DEF ResolveRead
    <3>3. QED
      BY <2>9, <3>1, <3>2 DEF ResolveRead
  <2>10. CASE ResolveLoad(r)
    <3>1. \A q \in Requests : q # r => req'[q] = req[q]
      BY <2>10 DEF ResolveLoad
    <3>2. /\ req[r].pc = "load" /\ req'[r].pc = "attach"
          /\ req'[r].note = req[r].note
          /\ req'[r].dirty = Dirtied(req[r].note, req[r].account)
      BY <2>10 DEF ResolveLoad
    <3>3. UNCHANGED <<interactions, commitments>>
      BY <2>10 DEF ResolveLoad
    <3>4. ASSUME NEW q \in Requests, q # r
          PROVE  LocalRight(q)'
      BY <3>1, <3>3, <3>4
    <3>5. LocalRight(r)'
      <4>1. ThreadOf(req[r].note)' = ThreadOf(req[r].note)
        BY <3>2, <3>3
      <4>2. req[r].account # NoAccount
        BY <3>2 DEF ChosenAccount
      <4>3. ThreadLoaded(r)'
        BY <3>2, <3>3, <4>1, <4>2 DEF Dirtied
      <4>4. QED
        BY <3>2, <4>3
    <3>6. QED
      BY <3>4, <3>5
  <2>11. CASE ResolveCommit(r)
    <3>1. \A i \in Interactions : ThreadOf(i)' = ThreadOf(i)
      BY <2>11 DEF ResolveCommit, Moved
    <3>2. \A c \in Commitments : commitments'[c].account_id = NoAccount
                                 => commitments[c].account_id = NoAccount
      BY <2>11 DEF ResolveCommit, Moved, ChosenAccount
    <3>3. \A c \in Commitments : commitments'[c].status = commitments[c].status
      BY <2>11 DEF ResolveCommit, Moved
    <3>4. interactions'[req[r].note].match_status = "matched"
      BY <2>11 DEF ResolveCommit
    <3>5. ASSUME NEW q \in Requests
          PROVE  /\ req'[q].pc = "index"
                       => req'[q].account = interactions'[req'[q].note].account_id
                 /\ ThreadLoaded(q)'
                 /\ req'[q].pc = "reindex"
                       => interactions'[req'[q].note].match_status = "matched"
                 /\ req'[q].pc \in {"complete", "tick", "ticked"} =>
                       \E c \in Commitments :
                           req'[q].dirty = {c} /\ CommitmentExists(c)'
      <4>1. CASE q = r
        BY <2>11, <3>4, <4>1 DEF ResolveCommit
      <4>2. CASE q # r
        <5>1. req'[q] = req[q]
          BY <2>11, <4>2 DEF ResolveCommit
        <5>2. req[q].pc = "index" => req[q].note # req[r].note
          BY <2>11, <4>2 DEF ResolveCommit
        <5>3. req[q].pc = "reindex"
                => interactions'[req[q].note].match_status = "matched"
          BY <2>11 DEF ResolveCommit
        <5>4. ThreadLoaded(q)'
          BY <3>1, <3>2, <5>1
        <5>5. req[q].pc = "index"
                => req[q].account = interactions'[req[q].note].account_id
          BY <2>11, <5>2 DEF ResolveCommit
        <5>6. req[q].pc \in {"complete", "tick", "ticked"} =>
                \E c \in Commitments : req[q].dirty = {c} /\ CommitmentExists(c)'
          BY <3>3
        <5>7. QED
          BY <5>1, <5>3, <5>4, <5>5, <5>6
      <4>3. QED
        BY <4>1, <4>2
    <3>6. QED
      BY <3>5
  <2>12. CASE ResolveReindex(r)
    BY <2>12 DEF ResolveReindex
  <2>13. CASE CompleteRead(r)
    <3>1. CASE Goto(r, "tick")
      <4>1. \A c \in req[r].dirty : commitments[c].status = "open"
        BY <2>13, <3>1 DEF CompleteRead
      <4>2. QED
        BY <2>13, <3>1, <4>1 DEF CompleteRead
    <3>2. CASE Goto(r, "reread")
      BY <2>13, <3>2 DEF CompleteRead
    <3>3. QED
      BY <2>13, <3>1, <3>2 DEF CompleteRead
  <2>14. CASE CompleteCommit(r)
    BY <2>14 DEF CompleteCommit
  <2>15. CASE CommitBusy(r)
    BY <2>15 DEF CommitBusy, TimesOut
  <2>16. CASE CardRefresh(r)
    BY <2>16 DEF CardRefresh
  <2>17. CASE CompleteRefresh(r)
    BY <2>17 DEF CompleteRefresh
  <2>18. CASE Starve(r)
    BY <2>18 DEF Starve, Connecting
  <2>19. CASE CardFlush(r)
    BY <2>19 DEF CardFlush
  <2>20. CASE ResolveFlush(r)
    BY <2>20 DEF ResolveFlush
  <2>21. CASE CompleteFlush(r)
    BY <2>21 DEF CompleteFlush
  <2>22. QED
    BY <1>2, <2>1, <2>2, <2>3, <2>4, <2>5, <2>6, <2>7, <2>8, <2>9, <2>10, <2>11, <2>12,
       <2>13, <2>14, <2>15, <2>16, <2>17, <2>18, <2>19, <2>20, <2>21 DEF Handle
<1>3. ASSUME NEW r \in Requests, DispatchClose(r)
      PROVE  LocalsRight'
  BY <1>3 DEF DispatchClose, LoopFree
<1>4. CASE Crash
  BY <1>4 DEF Crash
<1>5. CASE UNCHANGED vars
  BY <1>5 DEF vars
<1>6. QED
  BY <1>1, <1>2, <1>3, <1>4, <1>5 DEF Next

LEMMA NullStep == IInv /\ [Next]_vars => NullIffUnmatched'
<1> SUFFICES ASSUME IInv, [Next]_vars
             PROVE  NullIffUnmatched'
  OBVIOUS
<1> USE DEF IInv, TypeInv, TypeOK, Request, Goto, Answer, IdleRequest, NullIffUnmatched, NotesOwned, Pending, Publishing, Resolving, Exists, CommitmentExists, Interaction, Commitment, LocalsRight, LocalRight, ThreadLoaded, ThreadOf
<1>1. ASSUME NEW r \in Requests, Arrive(r)
      PROVE  NullIffUnmatched'
  <2>1. CASE CaptureStart(r)
    BY <2>1 DEF CaptureStart, FreshNotes, LoopFree
  <2>2. CASE CardStart(r)
    BY <2>2 DEF CardStart, FreshNotes, LoopFree
  <2>3. CASE ResolveDispatch(r)
    BY <2>3 DEF ResolveDispatch, LoopFree
  <2>4. CASE CompleteDispatch(r)
    BY <2>4 DEF CompleteDispatch, LoopFree
  <2>5. QED
    BY <1>1, <2>1, <2>2, <2>3, <2>4 DEF Arrive
<1>2. ASSUME NEW r \in Requests, Handle(r)
      PROVE  NullIffUnmatched'
  <2>1. CASE CaptureFlush(r)
    BY <2>1 DEF CaptureFlush
  <2>2. CASE CaptureBusy(r)
    BY <2>2 DEF CaptureBusy, TimesOut
  <2>3. CASE CaptureCommit(r)
    BY <2>3 DEF CaptureCommit, Row, Extracted
  <2>4. CASE CaptureRaise(r)
    BY <2>4 DEF CaptureRaise
  <2>5. CASE CaptureRefresh(r)
    BY <2>5 DEF CaptureRefresh
  <2>6. CASE CaptureIndex(r)
    BY <2>6 DEF CaptureIndex, ChunkAccount
  <2>7. CASE CloseSession(r)
    BY <2>7 DEF CloseSession, Rollback
  <2>8. CASE CardCommit(r)
    BY <2>8 DEF CardCommit, Row
  <2>9. CASE ResolveRead(r)
    BY <2>9 DEF ResolveRead
  <2>10. CASE ResolveLoad(r)
    BY <2>10 DEF ResolveLoad, Dirtied, ThreadOf
  <2>11. CASE ResolveCommit(r)
    <3>1. \A c \in Commitments :
            /\ commitments'[c].status = commitments[c].status
            /\ commitments'[c].interaction_id = commitments[c].interaction_id
            /\ commitments'[c].account_id = IF c \in req[r].dirty
                                            THEN req[r].account
                                            ELSE commitments[c].account_id
      BY <2>11 DEF ResolveCommit, Moved
    <3>2. \A i \in Interactions :
            interactions'[i] = IF i = req[r].note
                               THEN [match_status |-> "matched",
                                     account_id |-> req[r].account]
                               ELSE interactions[i]
      BY <2>11 DEF ResolveCommit
    <3>3. req[r].account \in Accounts /\ req[r].account # NoAccount
      BY <2>11 DEF ResolveCommit, ChosenAccount
    <3>4. /\ req[r].dirty \subseteq ThreadOf(req[r].note)
          /\ \A c \in ThreadOf(req[r].note) :
                commitments[c].account_id = NoAccount => c \in req[r].dirty
      BY <2>11 DEF ResolveCommit
    <3>5. Exists(req[r].note) /\ req[r].note \in Interactions
      BY <2>11 DEF ResolveCommit
    <3>6. ASSUME NEW i \in Interactions, Exists(i)'
          PROVE  interactions'[i].account_id = NoAccount
                   <=> interactions'[i].match_status = "unmatched"
      BY <3>2, <3>3, <3>6
    <3>7. ASSUME NEW c \in Commitments, CommitmentExists(c)'
          PROVE  /\ commitments'[c].interaction_id \in Interactions
                 /\ Exists(commitments[c].interaction_id)'
                 /\ commitments'[c].account_id = NoAccount
                      <=> interactions'[commitments'[c].interaction_id].match_status
                            = "unmatched"
      <4>1. CASE commitments[c].interaction_id = req[r].note
        BY <3>1, <3>2, <3>3, <3>4, <3>5, <3>7, <4>1
      <4>2. CASE commitments[c].interaction_id # req[r].note
        BY <3>1, <3>2, <3>4, <3>7, <4>2
      <4>3. QED
        BY <4>1, <4>2
    <3>8. QED
      BY <3>1, <3>6, <3>7
  <2>12. CASE ResolveReindex(r)
    BY <2>12 DEF ResolveReindex
  <2>13. CASE CompleteRead(r)
    BY <2>13 DEF CompleteRead
  <2>14. CASE CompleteCommit(r)
    BY <2>14 DEF CompleteCommit
  <2>15. CASE CommitBusy(r)
    BY <2>15 DEF CommitBusy, TimesOut
  <2>16. CASE CardRefresh(r)
    BY <2>16 DEF CardRefresh
  <2>17. CASE CompleteRefresh(r)
    BY <2>17 DEF CompleteRefresh
  <2>18. CASE Starve(r)
    BY <2>18 DEF Starve, Connecting
  <2>19. CASE CardFlush(r)
    BY <2>19 DEF CardFlush
  <2>20. CASE ResolveFlush(r)
    BY <2>20 DEF ResolveFlush
  <2>21. CASE CompleteFlush(r)
    BY <2>21 DEF CompleteFlush
  <2>22. QED
    BY <1>2, <2>1, <2>2, <2>3, <2>4, <2>5, <2>6, <2>7, <2>8, <2>9, <2>10, <2>11, <2>12,
       <2>13, <2>14, <2>15, <2>16, <2>17, <2>18, <2>19, <2>20, <2>21 DEF Handle
<1>3. ASSUME NEW r \in Requests, DispatchClose(r)
      PROVE  NullIffUnmatched'
  BY <1>3 DEF DispatchClose, LoopFree
<1>4. CASE Crash
  BY <1>4 DEF Crash
<1>5. CASE UNCHANGED vars
  BY <1>5 DEF vars
<1>6. QED
  BY <1>1, <1>2, <1>3, <1>4, <1>5 DEF Next

LEMMA OrphanStep == IInv /\ [Next]_vars => NoOrphanChunk'
<1> SUFFICES ASSUME IInv, [Next]_vars
             PROVE  NoOrphanChunk'
  OBVIOUS
<1> USE DEF IInv, TypeInv, TypeOK, Request, Goto, Answer, IdleRequest, NoOrphanChunk, NotesOwned, Pending, Publishing, Resolving, Exists, Interaction, LocalsRight, LocalRight, NullIffUnmatched
<1>1. ASSUME NEW r \in Requests, Arrive(r)
      PROVE  NoOrphanChunk'
  <2>1. CASE CaptureStart(r)
    BY <2>1 DEF CaptureStart, FreshNotes, LoopFree
  <2>2. CASE CardStart(r)
    BY <2>2 DEF CardStart, FreshNotes, LoopFree
  <2>3. CASE ResolveDispatch(r)
    BY <2>3 DEF ResolveDispatch, LoopFree
  <2>4. CASE CompleteDispatch(r)
    BY <2>4 DEF CompleteDispatch, LoopFree
  <2>5. QED
    BY <1>1, <2>1, <2>2, <2>3, <2>4 DEF Arrive
<1>2. ASSUME NEW r \in Requests, Handle(r)
      PROVE  NoOrphanChunk'
  <2>1. CASE CaptureFlush(r)
    BY <2>1 DEF CaptureFlush
  <2>2. CASE CaptureBusy(r)
    BY <2>2 DEF CaptureBusy, TimesOut
  <2>3. CASE CaptureCommit(r)
    BY <2>3 DEF CaptureCommit, Row, Extracted
  <2>4. CASE CaptureRaise(r)
    BY <2>4 DEF CaptureRaise
  <2>5. CASE CaptureRefresh(r)
    BY <2>5 DEF CaptureRefresh
  <2>6. CASE CaptureIndex(r)
    BY <2>6 DEF CaptureIndex, ChunkAccount
  <2>7. CASE CloseSession(r)
    BY <2>7 DEF CloseSession, Rollback
  <2>8. CASE CardCommit(r)
    BY <2>8 DEF CardCommit, Row
  <2>9. CASE ResolveRead(r)
    BY <2>9 DEF ResolveRead
  <2>10. CASE ResolveLoad(r)
    BY <2>10 DEF ResolveLoad, Dirtied, ThreadOf
  <2>11. CASE ResolveCommit(r)
    BY <2>11 DEF ResolveCommit, Moved
  <2>12. CASE ResolveReindex(r)
    BY <2>12 DEF ResolveReindex
  <2>13. CASE CompleteRead(r)
    BY <2>13 DEF CompleteRead
  <2>14. CASE CompleteCommit(r)
    BY <2>14 DEF CompleteCommit
  <2>15. CASE CommitBusy(r)
    BY <2>15 DEF CommitBusy, TimesOut
  <2>16. CASE CardRefresh(r)
    BY <2>16 DEF CardRefresh
  <2>17. CASE CompleteRefresh(r)
    BY <2>17 DEF CompleteRefresh
  <2>18. CASE Starve(r)
    BY <2>18 DEF Starve, Connecting
  <2>19. CASE CardFlush(r)
    BY <2>19 DEF CardFlush
  <2>20. CASE ResolveFlush(r)
    BY <2>20 DEF ResolveFlush
  <2>21. CASE CompleteFlush(r)
    BY <2>21 DEF CompleteFlush
  <2>22. QED
    BY <1>2, <2>1, <2>2, <2>3, <2>4, <2>5, <2>6, <2>7, <2>8, <2>9, <2>10, <2>11, <2>12,
       <2>13, <2>14, <2>15, <2>16, <2>17, <2>18, <2>19, <2>20, <2>21 DEF Handle
<1>3. ASSUME NEW r \in Requests, DispatchClose(r)
      PROVE  NoOrphanChunk'
  BY <1>3 DEF DispatchClose, LoopFree
<1>4. CASE Crash
  BY <1>4 DEF Crash
<1>5. CASE UNCHANGED vars
  BY <1>5 DEF vars
<1>6. QED
  BY <1>1, <1>2, <1>3, <1>4, <1>5 DEF Next

LEMMA IInvStep == IInv /\ [Next]_vars => IInv'
<1>1. IInv /\ [Next]_vars => TypeInv'
  BY TypeStep DEF IInv
<1>2. QED
  BY <1>1, LockStep, LoopStep, NotesStep, LocalsStep, NullStep, OrphanStep DEF IInv

LEMMA Invariance == Spec => []IInv
BY IInit, IInvStep, PTL DEF Spec

\* account_id is NULL exactly when the note is unmatched, in the note's row and
\* in its commitments, for any number of overlapping captures, resolutions and
\* completions, with failures and restarts anywhere.
THEOREM NullExactlyWhenUnmatched == Spec => []NullIffUnmatched
<1>1. IInv => NullIffUnmatched
  BY DEF IInv
<1>2. QED
  BY <1>1, Invariance, PTL

\* The index holds no chunk of a note that SQLite does not hold, and no chunk
\* under an account for a note that has none.
THEOREM ChunksAreBacked == Spec => []NoOrphanChunk
<1>1. IInv => NoOrphanChunk
  BY DEF IInv
<1>2. QED
  BY <1>1, Invariance, PTL

LEMMA AdvanceStep == IInv /\ [Next]_vars => StatusesAdvance
<1> SUFFICES ASSUME IInv, [Next]_vars
             PROVE  StatusesAdvance
  OBVIOUS
<1> USE DEF IInv, TypeInv, TypeOK, Request, Goto, Answer, IdleRequest, StatusesAdvance, NotesOwned, Pending, Publishing, Resolving, Exists, CommitmentExists, Interaction, Commitment
<1>1. ASSUME NEW r \in Requests, Arrive(r)
      PROVE  StatusesAdvance
  <2>1. CASE CaptureStart(r)
    BY <2>1 DEF CaptureStart, FreshNotes, LoopFree
  <2>2. CASE CardStart(r)
    BY <2>2 DEF CardStart, FreshNotes, LoopFree
  <2>3. CASE ResolveDispatch(r)
    BY <2>3 DEF ResolveDispatch, LoopFree
  <2>4. CASE CompleteDispatch(r)
    BY <2>4 DEF CompleteDispatch, LoopFree
  <2>5. QED
    BY <1>1, <2>1, <2>2, <2>3, <2>4 DEF Arrive
<1>2. ASSUME NEW r \in Requests, Handle(r)
      PROVE  StatusesAdvance
  <2>1. CASE CaptureFlush(r)
    BY <2>1 DEF CaptureFlush
  <2>2. CASE CaptureBusy(r)
    BY <2>2 DEF CaptureBusy, TimesOut
  <2>3. CASE CaptureCommit(r)
    BY <2>3 DEF CaptureCommit, Row, Extracted
  <2>4. CASE CaptureRaise(r)
    BY <2>4 DEF CaptureRaise
  <2>5. CASE CaptureRefresh(r)
    BY <2>5 DEF CaptureRefresh
  <2>6. CASE CaptureIndex(r)
    BY <2>6 DEF CaptureIndex, ChunkAccount
  <2>7. CASE CloseSession(r)
    BY <2>7 DEF CloseSession, Rollback
  <2>8. CASE CardCommit(r)
    BY <2>8 DEF CardCommit, Row
  <2>9. CASE ResolveRead(r)
    BY <2>9 DEF ResolveRead
  <2>10. CASE ResolveLoad(r)
    BY <2>10 DEF ResolveLoad, Dirtied, ThreadOf
  <2>11. CASE ResolveCommit(r)
    BY <2>11 DEF ResolveCommit, Moved
  <2>12. CASE ResolveReindex(r)
    BY <2>12 DEF ResolveReindex
  <2>13. CASE CompleteRead(r)
    BY <2>13 DEF CompleteRead
  <2>14. CASE CompleteCommit(r)
    BY <2>14 DEF CompleteCommit
  <2>15. CASE CommitBusy(r)
    BY <2>15 DEF CommitBusy, TimesOut
  <2>16. CASE CardRefresh(r)
    BY <2>16 DEF CardRefresh
  <2>17. CASE CompleteRefresh(r)
    BY <2>17 DEF CompleteRefresh
  <2>18. CASE Starve(r)
    BY <2>18 DEF Starve, Connecting
  <2>19. CASE CardFlush(r)
    BY <2>19 DEF CardFlush
  <2>20. CASE ResolveFlush(r)
    BY <2>20 DEF ResolveFlush
  <2>21. CASE CompleteFlush(r)
    BY <2>21 DEF CompleteFlush
  <2>22. QED
    BY <1>2, <2>1, <2>2, <2>3, <2>4, <2>5, <2>6, <2>7, <2>8, <2>9, <2>10, <2>11, <2>12,
       <2>13, <2>14, <2>15, <2>16, <2>17, <2>18, <2>19, <2>20, <2>21 DEF Handle
<1>3. ASSUME NEW r \in Requests, DispatchClose(r)
      PROVE  StatusesAdvance
  BY <1>3 DEF DispatchClose, LoopFree
<1>4. CASE Crash
  BY <1>4 DEF Crash
<1>5. CASE UNCHANGED vars
  BY <1>5 DEF vars
<1>6. QED
  BY <1>1, <1>2, <1>3, <1>4, <1>5 DEF Next

\* No step of any behaviour takes an account away or reopens a commitment.
THEOREM StatusesAdvanceOnly == Spec => StatusesOnlyAdvance
<1>1. IInv /\ [Next]_vars => [StatusesAdvance]_vars
  BY AdvanceStep
<1>2. QED
  BY <1>1, Invariance, PTL DEF Spec, StatusesOnlyAdvance

LEMMA ThreadsStep == IInv /\ [Next]_vars => ThreadsStay
<1> SUFFICES ASSUME IInv, [Next]_vars
             PROVE  ThreadsStay
  OBVIOUS
<1> USE DEF IInv, TypeInv, TypeOK, Request, Goto, Answer, IdleRequest, ThreadsStay, ThreadOf, NotesOwned, Pending, Publishing, Resolving, Exists, CommitmentExists, Interaction, Commitment, LocalsRight, LocalRight
<1>1. ASSUME NEW r \in Requests, Arrive(r)
      PROVE  ThreadsStay
  <2>1. CASE CaptureStart(r)
    BY <2>1 DEF CaptureStart, FreshNotes, LoopFree
  <2>2. CASE CardStart(r)
    BY <2>2 DEF CardStart, FreshNotes, LoopFree
  <2>3. CASE ResolveDispatch(r)
    BY <2>3 DEF ResolveDispatch, LoopFree
  <2>4. CASE CompleteDispatch(r)
    BY <2>4 DEF CompleteDispatch, LoopFree
  <2>5. QED
    BY <1>1, <2>1, <2>2, <2>3, <2>4 DEF Arrive
<1>2. ASSUME NEW r \in Requests, Handle(r)
      PROVE  ThreadsStay
  <2>1. CASE CaptureFlush(r)
    BY <2>1 DEF CaptureFlush
  <2>2. CASE CaptureBusy(r)
    BY <2>2 DEF CaptureBusy, TimesOut
  <2>3. CASE CaptureCommit(r)
    BY <2>3 DEF CaptureCommit, Row, Extracted
  <2>4. CASE CaptureRaise(r)
    BY <2>4 DEF CaptureRaise
  <2>5. CASE CaptureRefresh(r)
    BY <2>5 DEF CaptureRefresh
  <2>6. CASE CaptureIndex(r)
    BY <2>6 DEF CaptureIndex, ChunkAccount
  <2>7. CASE CloseSession(r)
    BY <2>7 DEF CloseSession, Rollback
  <2>8. CASE CardCommit(r)
    BY <2>8 DEF CardCommit, Row
  <2>9. CASE ResolveRead(r)
    BY <2>9 DEF ResolveRead
  <2>10. CASE ResolveLoad(r)
    BY <2>10 DEF ResolveLoad, Dirtied, ThreadOf
  <2>11. CASE ResolveCommit(r)
    BY <2>11 DEF ResolveCommit, Moved
  <2>12. CASE ResolveReindex(r)
    BY <2>12 DEF ResolveReindex
  <2>13. CASE CompleteRead(r)
    BY <2>13 DEF CompleteRead
  <2>14. CASE CompleteCommit(r)
    BY <2>14 DEF CompleteCommit
  <2>15. CASE CommitBusy(r)
    BY <2>15 DEF CommitBusy, TimesOut
  <2>16. CASE CardRefresh(r)
    BY <2>16 DEF CardRefresh
  <2>17. CASE CompleteRefresh(r)
    BY <2>17 DEF CompleteRefresh
  <2>18. CASE Starve(r)
    BY <2>18 DEF Starve, Connecting
  <2>19. CASE CardFlush(r)
    BY <2>19 DEF CardFlush
  <2>20. CASE ResolveFlush(r)
    BY <2>20 DEF ResolveFlush
  <2>21. CASE CompleteFlush(r)
    BY <2>21 DEF CompleteFlush
  <2>22. QED
    BY <1>2, <2>1, <2>2, <2>3, <2>4, <2>5, <2>6, <2>7, <2>8, <2>9, <2>10, <2>11, <2>12,
       <2>13, <2>14, <2>15, <2>16, <2>17, <2>18, <2>19, <2>20, <2>21 DEF Handle
<1>3. ASSUME NEW r \in Requests, DispatchClose(r)
      PROVE  ThreadsStay
  BY <1>3 DEF DispatchClose, LoopFree
<1>4. CASE Crash
  BY <1>4 DEF Crash
<1>5. CASE UNCHANGED vars
  BY <1>5 DEF vars
<1>6. QED
  BY <1>1, <1>2, <1>3, <1>4, <1>5 DEF Next

\* A note's thread is complete in the step that makes the note visible.
THEOREM ThreadsLandWhole == Spec => ThreadLandsWhole
<1>1. IInv /\ [Next]_vars => [ThreadsStay]_vars
  BY ThreadsStep
<1>2. QED
  BY <1>1, Invariance, PTL DEF Spec, ThreadLandsWhole

\* The loop belongs to the capture at its INSERT, so that the holder of the
\* lock, if there is one, is a committing worker thread or past its own stretch
\* on the loop.
THEOREM CapturesDoNotContend == Spec => []CapturesNeverContend
<1>1. IInv => CapturesNeverContend
  BY SentinelsAreFresh DEF IInv, TypeInv, TypeOK, Request, CapturesNeverContend, AtInsert,
     LockOwned, Holding, LoopOwned, OnLoop
<1>2. QED
  BY <1>1, Invariance, PTL

LEMMA OvertakingStep ==
    ASSUME IInv, [Next]_vars, NEW r \in Requests, Overtakes(r)
    PROVE  Overtakes(r)' \/ req'[r] = IdleRequest
<1> USE DEF IInv, TypeInv, TypeOK, Request, Goto, Answer, Overtakes, AtInsert
<1> DEFINE w == writer
<1>1. w \in Requests /\ w # r /\ loop = r /\ req[w].pc = "raised"
  BY DEF LoopOwned, OnLoop
<1>2. ASSUME NEW q \in Requests, Arrive(q) \/ DispatchClose(q)
      PROVE  FALSE
  BY <1>1, <1>2, SentinelsAreFresh DEF Arrive, CaptureStart, CardStart, ResolveDispatch,
     CompleteDispatch, DispatchClose, LoopFree
<1>3. ASSUME NEW q \in Requests, q # r, Handle(q)
      PROVE  writer' = w /\ req'[w] = req[w] /\ req'[r] = req[r]
  <2>1. q # w /\ req[q].pc \notin OnLoop \cup Holding
    BY <1>1, <1>3 DEF LockOwned, Holding, LoopOwned, Handle, CaptureFlush, CaptureBusy,
       CaptureCommit, CaptureRaise, CaptureRefresh, CaptureIndex, CloseSession, CardFlush,
       CardCommit, CardRefresh, ResolveRead, ResolveLoad, ResolveFlush, ResolveCommit,
       ResolveReindex, CompleteRead, CompleteFlush, CompleteCommit, CompleteRefresh,
       CommitBusy, Starve, Connecting
  <2>2. QED
    BY <1>1, <1>3, <2>1 DEF OnLoop, Holding, Handle, CaptureFlush, CaptureBusy,
       CaptureCommit, CaptureRaise, CaptureRefresh, CaptureIndex, CloseSession, CardFlush,
       CardCommit, CardRefresh, ResolveRead, ResolveLoad, ResolveFlush, ResolveCommit,
       ResolveReindex, CompleteRead, CompleteFlush, CompleteCommit, CompleteRefresh,
       CommitBusy, Starve
<1>4. CASE Handle(r)
  BY <1>1, <1>4, SentinelsAreFresh DEF Handle, CaptureFlush, CaptureBusy,
     CaptureCommit, CaptureRaise, CaptureRefresh, CaptureIndex, CloseSession, CardFlush,
     CardCommit, CardRefresh, ResolveRead, ResolveLoad, ResolveFlush, ResolveCommit,
     ResolveReindex, CompleteRead, CompleteFlush, CompleteCommit, CompleteRefresh,
     CommitBusy, Starve
<1>5. CASE Crash
  BY <1>5 DEF Crash
<1>6. CASE UNCHANGED vars
  BY <1>6 DEF vars
<1>7. CASE \E q \in Requests : q # r /\ Handle(q)
  BY <1>1, <1>3, <1>7
<1>8. QED
  BY <1>2, <1>4, <1>5, <1>6, <1>7 DEF Next

\* A capture between a failed extraction and its rollback gets no further.
THEOREM OvertakingCapturesFail == Spec => OvertakingFails
<1>1. IInv /\ [Next]_vars
         => [\A r \in Requests : Overtakes(r) => Overtakes(r)' \/ req'[r] = IdleRequest]_vars
  BY OvertakingStep
<1>2. QED
  BY <1>1, Invariance, PTL DEF Spec, OvertakingFails

LEMMA LogStep == IInv /\ [Next]_vars => [Log!Next]_(Log!logVars)
<1> SUFFICES ASSUME IInv, [Next]_vars
             PROVE  [Log!Next]_(Log!logVars)
  OBVIOUS
<1> USE DEF IInv, TypeInv, TypeOK, Request, Goto, Answer, NotesOwned, Pending, Publishing, Resolving, Log!logVars
<1>1. ASSUME NEW r \in Requests, Arrive(r)
      PROVE  [Log!Next]_(Log!logVars)
  <2>1. CASE CaptureStart(r)
    BY <2>1 DEF CaptureStart
  <2>2. CASE CardStart(r)
    BY <2>2 DEF CardStart
  <2>3. CASE ResolveDispatch(r)
    BY <2>3 DEF ResolveDispatch
  <2>4. CASE CompleteDispatch(r)
    BY <2>4 DEF CompleteDispatch
  <2>5. QED
    BY <1>1, <2>1, <2>2, <2>3, <2>4 DEF Arrive
<1>2. ASSUME NEW r \in Requests, Handle(r)
      PROVE  [Log!Next]_(Log!logVars)
  <2>1. CASE CaptureFlush(r)
    BY <2>1 DEF CaptureFlush
  <2>2. CASE CaptureBusy(r)
    BY <2>2 DEF CaptureBusy
  <2>3. CASE CaptureCommit(r)
    <3>1. ~Exists(req[r].note) /\ req[r].note \in Interactions
      BY <2>3 DEF CaptureCommit
    <3>2. PICK found \in SUBSET {c \in Commitments : ~CommitmentExists(c)} :
              commitments' = [c \in Commitments |->
                  IF c \in found THEN Extracted(req[r].note, req[r].account)
                                 ELSE commitments[c]]
      BY <2>3 DEF CaptureCommit
    <3>3. Log!Capture(req[r].note, req[r].account)
      <4>1. ~Log!Noted(req[r].note)
        BY <3>1 DEF Exists, Log!Noted
      <4>2. interactions' = [interactions EXCEPT ![req[r].note] =
               [match_status |-> IF req[r].account = NoAccount
                                 THEN "unmatched" ELSE "matched",
                account_id   |-> req[r].account]]
        BY <2>3 DEF CaptureCommit, Row
      <4>3. found \in SUBSET {c \in Commitments : commitments[c].status = "absent"}
        BY DEF CommitmentExists
      <4>4. commitments' = [c \in Commitments |->
                IF c \in found
                THEN [status |-> "open", account_id |-> req[r].account,
                      interaction_id |-> req[r].note]
                ELSE commitments[c]]
        BY <3>2 DEF Extracted
      <4>5. UNCHANGED chunks
        BY <2>3 DEF CaptureCommit
      <4>6. QED
        BY <4>1, <4>2, <4>3, <4>4, <4>5 DEF Log!Capture
    <3>4. QED
      BY <3>1, <3>3 DEF Log!Next
  <2>4. CASE CaptureRaise(r)
    BY <2>4 DEF CaptureRaise
  <2>5. CASE CaptureRefresh(r)
    BY <2>5 DEF CaptureRefresh
  <2>6. CASE CaptureIndex(r)
    <3>1. CASE UNCHANGED chunks
      BY <2>6, <3>1 DEF CaptureIndex
    <3>2. CASE chunks' = [chunks EXCEPT ![req[r].note] = ChunkAccount(req[r].account)]
      <4>1. /\ Exists(req[r].note)
            /\ req[r].note \in Interactions
            /\ req[r].account = interactions[req[r].note].account_id
        BY <2>6 DEF CaptureIndex, LocalsRight, LocalRight
      <4>2. /\ ChunkAccount(req[r].account) \in Accounts \cup {Unassigned}
            /\ ChunkAccount(req[r].account) \in Accounts
                  => interactions[req[r].note].match_status = "matched"
        BY <4>1 DEF ChunkAccount, NullIffUnmatched, Exists, Interaction
      <4>3. Log!Index(req[r].note, ChunkAccount(req[r].account))
        BY <2>6, <3>2, <4>1, <4>2 DEF CaptureIndex, Log!Index, Log!Noted,
           Exists
      <4>4. QED
        BY <4>1, <4>2, <4>3 DEF Log!Next
    <3>3. QED
      BY <2>6, <3>1, <3>2 DEF CaptureIndex
  <2>7. CASE CloseSession(r)
    BY <2>7 DEF CloseSession, Rollback
  <2>8. CASE CardCommit(r)
    <3>1. ~Exists(req[r].note) /\ req[r].note \in Interactions
      BY <2>8 DEF CardCommit
    <3>2. commitments = [c \in Commitments |->
              IF c \in {}
              THEN [status |-> "open", account_id |-> NoAccount,
                    interaction_id |-> req[r].note]
              ELSE commitments[c]]
      OBVIOUS
    <3>3. {} \in SUBSET {c \in Commitments : commitments[c].status = "absent"}
      OBVIOUS
    <3>4. UNCHANGED <<commitments, chunks>>
      BY <2>8 DEF CardCommit
    <3>5. interactions' = [interactions EXCEPT ![req[r].note] =
               [match_status |-> IF NoAccount = NoAccount
                                 THEN "unmatched" ELSE "matched",
                account_id   |-> NoAccount]]
      BY <2>8 DEF CardCommit, Row
    <3>6. Log!Capture(req[r].note, NoAccount)
      BY <3>1, <3>2, <3>3, <3>4, <3>5 DEF Log!Capture, Log!Noted, Exists
    <3>7. QED
      BY <3>1, <3>6 DEF Log!Next
  <2>9. CASE ResolveRead(r)
    BY <2>9 DEF ResolveRead
  <2>10. CASE ResolveLoad(r)
    BY <2>10 DEF ResolveLoad
  <2>11. CASE ResolveCommit(r)
    <3>1. /\ Exists(req[r].note)
          /\ req[r].note \in Interactions
          /\ req[r].account \in Accounts
      BY <2>11 DEF ResolveCommit, ChosenAccount
    <3>2. /\ req[r].dirty \subseteq ThreadOf(req[r].note)
          /\ \A c \in ThreadOf(req[r].note) :
                commitments[c].account_id = NoAccount => c \in req[r].dirty
      BY <2>11 DEF ResolveCommit, LocalsRight, LocalRight, ThreadLoaded
    <3>3. Log!Thread(req[r].note) = ThreadOf(req[r].note)
      BY DEF Log!Thread, ThreadOf, CommitmentExists
    <3>4. /\ interactions' = [interactions EXCEPT ![req[r].note] =
               [match_status |-> "matched", account_id |-> req[r].account]]
          /\ commitments' = [c \in Commitments |->
                IF c \in req[r].dirty
                THEN [commitments[c] EXCEPT !.account_id = req[r].account]
                ELSE commitments[c]]
          /\ UNCHANGED chunks
      BY <2>11 DEF ResolveCommit, Moved
    <3>5. Log!Attach(req[r].note, req[r].account)
      <4>1. req[r].dirty \in SUBSET Log!Thread(req[r].note)
        BY <3>2, <3>3
      <4>2. \A c \in Log!Thread(req[r].note) :
               commitments[c].account_id = NoAccount => c \in req[r].dirty
        BY <3>2, <3>3
      <4>3. Log!Noted(req[r].note)
        BY <3>1 DEF Exists, Log!Noted
      <4>4. \E moved \in SUBSET Log!Thread(req[r].note) :
               /\ \A c \in Log!Thread(req[r].note) :
                     commitments[c].account_id = NoAccount => c \in moved
               /\ commitments' = [c \in Commitments |->
                      IF c \in moved
                      THEN [commitments[c] EXCEPT !.account_id = req[r].account]
                      ELSE commitments[c]]
        BY <3>4, <4>1, <4>2
      <4>5. QED
        BY <3>4, <4>3, <4>4 DEF Log!Attach
    <3>6. QED
      BY <3>1, <3>5 DEF Log!Next
  <2>12. CASE ResolveReindex(r)
    <3>1. /\ req[r].note \in Interactions
          /\ req[r].account \in Accounts
          /\ interactions[req[r].note].match_status = "matched"
          /\ UNCHANGED <<interactions, commitments>>
      BY <2>12 DEF ResolveReindex, ChosenAccount, LocalsRight, LocalRight
    <3>2. CASE UNCHANGED chunks
      BY <3>1, <3>2
    <3>3. CASE chunks' = [chunks EXCEPT ![req[r].note] = req[r].account]
      <4>1. Log!Index(req[r].note, req[r].account)
        BY <3>1, <3>3 DEF Log!Index, Log!Noted
      <4>2. QED
        BY <3>1, <4>1 DEF Log!Next
    <3>4. QED
      BY <2>12, <3>2, <3>3 DEF ResolveReindex
  <2>13. CASE CompleteRead(r)
    BY <2>13 DEF CompleteRead
  <2>14. CASE CompleteCommit(r)
    <3>1. PICK c \in Commitments : req[r].dirty = {c} /\ CommitmentExists(c)
      BY <2>14 DEF CompleteCommit, LocalsRight, LocalRight
    <3>2. /\ commitments' = [commitments EXCEPT ![c] =
                                [@ EXCEPT !.status = "complete"]]
          /\ UNCHANGED <<interactions, chunks>>
      BY <2>14, <3>1 DEF CompleteCommit
    <3>3. CASE commitments[c].status = "open"
      <4>1. Log!Complete(c)
        BY <3>2, <3>3 DEF Log!Complete
      <4>2. QED
        BY <3>1, <4>1 DEF Log!Next
    <3>4. CASE commitments[c].status # "open"
      <4>1. commitments[c].status = "complete"
        BY <3>1, <3>4 DEF CommitmentExists, Commitment
      <4>2. [commitments[c] EXCEPT !.status = "complete"] = commitments[c]
        BY <4>1 DEF Commitment
      <4>3. commitments' = commitments
        BY <3>2, <4>2
      <4>4. QED
        BY <3>2, <4>3
    <3>5. QED
      BY <3>3, <3>4
  <2>15. CASE CommitBusy(r)
    BY <2>15 DEF CommitBusy
  <2>16. CASE CardRefresh(r)
    BY <2>16 DEF CardRefresh
  <2>17. CASE CompleteRefresh(r)
    BY <2>17 DEF CompleteRefresh
  <2>18. CASE Starve(r)
    BY <2>18 DEF Starve, Connecting
  <2>19. CASE CardFlush(r)
    BY <2>19 DEF CardFlush
  <2>20. CASE ResolveFlush(r)
    BY <2>20 DEF ResolveFlush
  <2>21. CASE CompleteFlush(r)
    BY <2>21 DEF CompleteFlush
  <2>22. QED
    BY <1>2, <2>1, <2>2, <2>3, <2>4, <2>5, <2>6, <2>7, <2>8, <2>9, <2>10, <2>11, <2>12,
       <2>13, <2>14, <2>15, <2>16, <2>17, <2>18, <2>19, <2>20, <2>21 DEF Handle
<1>3. ASSUME NEW r \in Requests, DispatchClose(r)
      PROVE  [Log!Next]_(Log!logVars)
  BY <1>3 DEF DispatchClose
<1>4. CASE Crash
  BY <1>4 DEF Crash
<1>5. CASE UNCHANGED vars
  BY <1>5 DEF vars
<1>6. QED
  BY <1>1, <1>2, <1>3, <1>4, <1>5 DEF Next

\* Whatever the handlers interleave, fail at or are cut off by, the tables and
\* the index change as InteractionLog says: captures whole, accounts replaced
\* and never removed, completions kept, index entries backed by rows.
THEOREM ImplementsLog == Spec => InteractionLogSpec
<1>1. Init => Log!Init
  BY DEF Init, Log!Init, NoInteraction, NoCommitment
<1>2. IInv /\ [Next]_vars => [Log!Next]_(Log!logVars)
  BY LogStep
<1>3. QED
  BY <1>1, <1>2, Invariance, PTL DEF Spec, InteractionLogSpec, Log!Spec

-----------------------------------------------------------------------------
(* A thread and its note.  Where three resolutions find one note           *)
(* unmatched, CaptureThreadSplit.cfg ends with its thread under two        *)
(* accounts; of two the first to commit leaves no more than one other, and *)
(* a later one is refused.                                                 *)

Underway == {"load", "attach", "attached"}

\* No note is being attached by three requests.
NoThreeUnderway ==
    \A p \in Requests, q \in Requests, r \in Requests :
        (/\ req[p].pc \in Underway /\ req[q].pc \in Underway /\ req[r].pc \in Underway
         /\ req[p].note = req[r].note /\ req[q].note = req[r].note)
            => p = q \/ p = r \/ q = r

\* A note that has been attached is being attached by at most one request.
LastUnderway ==
    \A r \in Requests, q \in Requests :
        (/\ req[r].pc \in Underway /\ req[q].pc \in Underway
         /\ req[r].note = req[q].note
         /\ interactions[req[r].note].match_status = "matched") => r = q

\* What a resolution leaves alone is under its account already.
LeftAlone(r) ==
    req[r].pc \in {"attach", "attached"} =>
        \A c \in ThreadOf(req[r].note) :
            c \in req[r].dirty \/ commitments[c].account_id = req[r].account

PairInv ==
    /\ LastUnderway
    /\ \A r \in Requests : LeftAlone(r)
    /\ ThreadAgreement

LEMMA PairInit == Init => PairInv
BY DEF Init, PairInv, LastUnderway, LeftAlone, ThreadAgreement, Underway, IdleRequest,
       NoCommitment, CommitmentExists

\* A step that neither files anything nor takes a resolution further.
LEMMA QuietKeeps ==
    ASSUME PairInv, interactions' = interactions,
           \A c \in Commitments :
              /\ CommitmentExists(c)' = CommitmentExists(c)
              /\ commitments'[c].account_id = commitments[c].account_id
              /\ commitments'[c].interaction_id = commitments[c].interaction_id,
           \A r \in Requests : req'[r].pc \in Underway => req'[r] = req[r]
    PROVE  PairInv'
<1>1. \A i : ThreadOf(i)' = ThreadOf(i)
  BY DEF ThreadOf
<1>2. LastUnderway'
  BY DEF PairInv, LastUnderway
<1>3. ASSUME NEW r \in Requests
      PROVE  LeftAlone(r)'
  <2>1. req'[r].pc \in {"attach", "attached"} => req'[r] = req[r]
    BY DEF Underway
  <2>2. \A c \in ThreadOf(req[r].note) : c \in Commitments
    BY DEF ThreadOf
  <2>3. QED
    BY <1>1, <2>1, <2>2 DEF PairInv, LeftAlone
<1>4. ThreadAgreement'
  BY DEF PairInv, ThreadAgreement
<1>5. QED
  BY <1>2, <1>3, <1>4 DEF PairInv

LEMMA ReadAndLoadKeepPairs ==
    ASSUME IInv, PairInv, NEW r \in Requests,
           ResolveRead(r) \/ ResolveLoad(r) \/ ResolveFlush(r)
    PROVE  PairInv'
<1> USE DEF IInv, TypeInv, TypeOK, Request, Goto, Answer, IdleRequest
<1>1. UNCHANGED <<interactions, commitments>>
  BY DEF ResolveRead, ResolveLoad, ResolveFlush
<1>2. \A q \in Requests : q # r => req'[q] = req[q]
  BY DEF ResolveRead, ResolveLoad, ResolveFlush
<1>3. \A i : ThreadOf(i)' = ThreadOf(i)
  BY <1>1 DEF ThreadOf, CommitmentExists
<1>4. ThreadAgreement'
  BY <1>1 DEF PairInv, ThreadAgreement, CommitmentExists
<1>5. CASE ResolveRead(r)
  <2>1. /\ req'[r].pc \notin {"attach", "attached"}
        /\ req'[r].pc = "load" =>
              /\ req'[r].note = req[r].note
              /\ interactions[req[r].note].match_status = "unmatched"
    BY <1>5 DEF ResolveRead
  <2>2. LastUnderway'
    BY <1>1, <1>2, <2>1 DEF PairInv, LastUnderway, Underway
  <2>3. \A q \in Requests : LeftAlone(q)'
    BY <1>1, <1>2, <1>3, <2>1 DEF PairInv, LeftAlone
  <2>4. QED
    BY <1>4, <2>2, <2>3 DEF PairInv
<1>6. CASE ResolveLoad(r)
  <2>1. /\ req[r].pc = "load" /\ req'[r].pc = "attach" /\ req'[r].note = req[r].note
        /\ req'[r].account = req[r].account
        /\ req'[r].dirty = Dirtied(req[r].note, req[r].account)
    BY <1>6 DEF ResolveLoad
  <2>2. LastUnderway'
    BY <1>1, <1>2, <2>1 DEF PairInv, LastUnderway, Underway
  <2>3. LeftAlone(r)'
    BY <1>1, <1>3, <2>1 DEF LeftAlone, Dirtied
  <2>4. \A q \in Requests : q # r => LeftAlone(q)'
    BY <1>1, <1>2, <1>3 DEF PairInv, LeftAlone
  <2>5. QED
    BY <1>4, <2>2, <2>3, <2>4 DEF PairInv
<1>7. CASE ResolveFlush(r)
  <2>1. /\ req[r].pc = "attach" /\ req'[r].pc = "attached" /\ req'[r].note = req[r].note
        /\ req'[r].account = req[r].account /\ req'[r].dirty = req[r].dirty
    BY <1>7 DEF ResolveFlush
  <2>2. LastUnderway'
    BY <1>1, <1>2, <2>1 DEF PairInv, LastUnderway, Underway
  <2>3. \A q \in Requests : LeftAlone(q)'
    BY <1>1, <1>2, <1>3, <2>1 DEF PairInv, LeftAlone
  <2>4. QED
    BY <1>4, <2>2, <2>3 DEF PairInv
<1>8. QED
  BY <1>5, <1>6, <1>7

\* The first commit finds every commitment of the thread without an account,
\* so that the other resolution, whatever it has loaded, moves all of them.
LEMMA AttachKeepsPairs ==
    ASSUME IInv, PairInv, NoThreeUnderway, NEW r \in Requests, ResolveCommit(r)
    PROVE  PairInv'
<1> USE DEF IInv, TypeInv, TypeOK, Request, Goto
<1> DEFINE i == req[r].note
           a == req[r].account
<1>1. /\ req[r].pc = "attached" /\ i \in Interactions /\ Exists(i)
      /\ req[r].dirty \subseteq ThreadOf(i) /\ a \in Accounts
  BY DEF ResolveCommit, NotesOwned, Resolving, LocalsRight, LocalRight, ThreadLoaded,
         ChosenAccount
<1>2. \A c \in Commitments :
         /\ CommitmentExists(c)' = CommitmentExists(c)
         /\ commitments'[c].interaction_id = commitments[c].interaction_id
         /\ commitments'[c].account_id = IF c \in req[r].dirty THEN a
                                         ELSE commitments[c].account_id
  BY DEF ResolveCommit, Moved, Commitment, CommitmentExists
<1>3. \A j \in Interactions :
         interactions'[j] = IF j = i THEN [match_status |-> "matched", account_id |-> a]
                            ELSE interactions[j]
  BY DEF ResolveCommit
<1>4. /\ req'[r].pc = "reindex"
      /\ \A q \in Requests : q # r => req'[q] = req[q]
  BY DEF ResolveCommit
<1>5. \A j : ThreadOf(j)' = ThreadOf(j)
  BY <1>2 DEF ThreadOf
<1>6. LastUnderway'
  <2> SUFFICES ASSUME NEW p \in Requests, NEW q \in Requests,
                      req'[p].pc \in Underway, req'[q].pc \in Underway,
                      req'[p].note = req'[q].note,
                      interactions'[req'[p].note].match_status = "matched"
               PROVE  p = q
    BY DEF LastUnderway
  <2>1. p # r /\ q # r /\ req'[p] = req[p] /\ req'[q] = req[q]
    BY <1>4 DEF Underway
  <2>2. CASE req[p].note = i
    BY <1>1, <2>1, <2>2 DEF NoThreeUnderway, Underway
  <2>3. CASE req[p].note # i
    <3>1. req[p].note \in Interactions
      BY <2>1 DEF NotesOwned, Resolving, Underway
    <3>2. QED
      BY <1>3, <2>1, <2>3, <3>1 DEF PairInv, LastUnderway
  <2>4. QED
    BY <2>2, <2>3
<1>7. ThreadAgreement'
  <2> SUFFICES ASSUME NEW c \in Commitments, CommitmentExists(c)
               PROVE  commitments'[c].account_id
                        = interactions'[commitments[c].interaction_id].account_id
    BY <1>2 DEF ThreadAgreement
  <2>1. commitments[c].interaction_id \in Interactions
    BY DEF NullIffUnmatched
  <2>2. CASE commitments[c].interaction_id = i
    <3>1. c \in ThreadOf(i)
      BY <2>2 DEF ThreadOf
    <3>2. commitments'[c].account_id = a
      BY <1>1, <1>2, <3>1 DEF PairInv, LeftAlone
    <3>3. QED
      BY <1>1, <1>3, <2>2, <3>2
  <2>3. CASE commitments[c].interaction_id # i
    <3>1. c \notin req[r].dirty
      BY <1>1, <2>3 DEF ThreadOf
    <3>2. QED
      BY <1>2, <1>3, <2>1, <2>3, <3>1 DEF PairInv, ThreadAgreement
  <2>4. QED
    BY <2>2, <2>3
<1>8. ASSUME NEW q \in Requests
      PROVE  LeftAlone(q)'
  <2>1. CASE q = r \/ req[q].pc \notin {"attach", "attached"}
    BY <1>4, <2>1 DEF LeftAlone
  <2>2. CASE q # r /\ req[q].pc \in {"attach", "attached"} /\ req[q].note = i
    <3>1. interactions[i].match_status # "matched"
      BY <1>1, <2>2 DEF PairInv, LastUnderway, Underway
    <3>2. interactions[i].match_status = "unmatched"
      BY <1>1, <3>1 DEF Exists, Interaction
    <3>3. \A c \in ThreadOf(i) : commitments[c].account_id = NoAccount
      BY <3>2 DEF NullIffUnmatched, ThreadOf
    <3>4. \A c \in ThreadOf(i) : c \in req[q].dirty
      BY <2>2, <3>3 DEF LocalsRight, LocalRight, ThreadLoaded
    <3>5. QED
      BY <1>4, <1>5, <2>2, <3>4 DEF LeftAlone
  <2>3. CASE q # r /\ req[q].pc \in {"attach", "attached"} /\ req[q].note # i
    <3>1. \A c \in ThreadOf(req[q].note) : c \in Commitments /\ c \notin req[r].dirty
      BY <1>1, <2>3 DEF ThreadOf
    <3>2. QED
      BY <1>2, <1>4, <1>5, <2>3, <3>1 DEF PairInv, LeftAlone
  <2>4. QED
    BY <2>1, <2>2, <2>3
<1>9. QED
  BY <1>6, <1>7, <1>8 DEF PairInv

\* A capture files a note nobody else works on.
LEMMA PublishKeepsPairs ==
    ASSUME IInv, PairInv, NEW r \in Requests, CaptureCommit(r) \/ CardCommit(r)
    PROVE  PairInv'
<1> USE DEF IInv, TypeInv, TypeOK, Request, Goto
<1> DEFINE i == req[r].note
           a == IF req[r].pc = "carded" THEN NoAccount ELSE req[r].account
<1>1. i \in Interactions /\ ~Exists(i) /\ \A q \in Requests : q # r => req[q].note # i
  BY DEF CaptureCommit, CardCommit, NotesOwned, Pending
<1>2. /\ interactions' = [interactions EXCEPT ![i] = Row(a)]
      /\ req'[r].pc \notin Underway
      /\ \A q \in Requests : q # r => req'[q] = req[q]
  BY DEF CaptureCommit, CardCommit, Underway
<1>3. PICK found \in SUBSET {c \in Commitments : ~CommitmentExists(c)} :
         \A c \in Commitments :
            commitments'[c] = IF c \in found THEN Extracted(i, a) ELSE commitments[c]
  <2>1. CASE CaptureCommit(r)
    BY <2>1 DEF CaptureCommit
  <2>2. CASE CardCommit(r)
    <3>1. \A c \in Commitments : commitments'[c] = IF c \in {} THEN Extracted(i, a)
                                                   ELSE commitments[c]
      BY <2>2 DEF CardCommit
    <3>2. {} \in SUBSET {c \in Commitments : ~CommitmentExists(c)}
      OBVIOUS
    <3>3. QED
      BY <3>1, <3>2
  <2>3. QED
    BY <2>1, <2>2
<1>4. \A c \in Commitments : CommitmentExists(c) =>
         /\ commitments'[c] = commitments[c]
         /\ commitments[c].interaction_id \in Interactions \ {i}
  BY <1>1, <1>3 DEF NullIffUnmatched
<1>5. ThreadAgreement'
  <2> SUFFICES ASSUME NEW c \in Commitments, CommitmentExists(c)'
               PROVE  commitments'[c].account_id
                        = interactions'[commitments'[c].interaction_id].account_id
    BY DEF ThreadAgreement
  <2>1. CASE CommitmentExists(c)
    BY <1>2, <1>4, <2>1 DEF PairInv, ThreadAgreement
  <2>2. CASE ~CommitmentExists(c)
    <3>1. commitments'[c] = Extracted(i, a)
      BY <1>3, <2>2 DEF CommitmentExists
    <3>2. QED
      BY <1>1, <1>2, <3>1 DEF Extracted, Row
  <2>3. QED
    BY <2>1, <2>2
<1>6. \A j \in Interactions \ {i} : ThreadOf(j)' = ThreadOf(j)
  BY <1>3, <1>4 DEF ThreadOf, CommitmentExists, Extracted
<1>7. \A q \in Requests : req'[q].pc \in Underway =>
         q # r /\ req'[q] = req[q] /\ req[q].note \in Interactions \ {i}
  BY <1>1, <1>2 DEF NotesOwned, Resolving, Underway
<1>8. LastUnderway'
  BY <1>2, <1>7 DEF PairInv, LastUnderway
<1>9. ASSUME NEW q \in Requests
      PROVE  LeftAlone(q)'
  <2>1. ASSUME req'[q].pc \in {"attach", "attached"}
        PROVE  req'[q] = req[q] /\ req[q].note \in Interactions \ {i}
    BY <1>7, <2>1 DEF Underway
  <2>2. \A c \in ThreadOf(req[q].note) : c \in Commitments /\ CommitmentExists(c)
    BY DEF ThreadOf
  <2>3. QED
    BY <1>4, <1>6, <2>1, <2>2 DEF PairInv, LeftAlone
<1>10. QED
  BY <1>5, <1>8, <1>9 DEF PairInv

LEMMA PairStep ==
    ASSUME IInv, PairInv, NoThreeUnderway, [Next]_vars
    PROVE  PairInv'
<1> USE DEF IInv, TypeInv, TypeOK, Request, Goto, Answer, IdleRequest, Underway
<1>1. ASSUME interactions' = interactions,
             \A c \in Commitments :
                /\ CommitmentExists(c)' = CommitmentExists(c)
                /\ commitments'[c].account_id = commitments[c].account_id
                /\ commitments'[c].interaction_id = commitments[c].interaction_id,
             \A r \in Requests : req'[r].pc \in Underway => req'[r] = req[r]
      PROVE  PairInv'
  BY <1>1, QuietKeeps
<1>2. ASSUME NEW r \in Requests, Arrive(r)
      PROVE  PairInv'
  <2>1. UNCHANGED <<interactions, commitments>>
    BY <1>2 DEF Arrive, CaptureStart, CardStart, ResolveDispatch, CompleteDispatch
  <2>2. \A q \in Requests : req'[q].pc \in Underway => req'[q] = req[q]
    BY <1>2 DEF Arrive, CaptureStart, CardStart, ResolveDispatch, CompleteDispatch
  <2>3. QED
    BY <1>1, <2>1, <2>2 DEF CommitmentExists
<1>3. ASSUME NEW r \in Requests,
             \/ CaptureFlush(r) \/ CaptureBusy(r) \/ CaptureRaise(r) \/ CaptureRefresh(r)
             \/ CaptureIndex(r) \/ CloseSession(r) \/ CardRefresh(r) \/ ResolveReindex(r)
             \/ CompleteRead(r) \/ CompleteRefresh(r) \/ CommitBusy(r) \/ Starve(r)
             \/ DispatchClose(r) \/ CardFlush(r) \/ CompleteFlush(r)
      PROVE  PairInv'
  <2>1. UNCHANGED <<interactions, commitments>>
    BY <1>3 DEF CaptureFlush, CaptureBusy, CaptureRaise, CaptureRefresh, CaptureIndex,
                CloseSession, CardRefresh, ResolveReindex, CompleteRead, CompleteRefresh,
                CommitBusy, Starve, DispatchClose, CardFlush, CompleteFlush
  <2>2. \A q \in Requests : req'[q].pc \in Underway => req'[q] = req[q]
    <3>1. CASE CaptureFlush(r) \/ CaptureBusy(r) \/ CaptureRaise(r) \/ CaptureRefresh(r)
      BY <3>1 DEF CaptureFlush, CaptureBusy, CaptureRaise, CaptureRefresh
    <3>2. CASE CaptureIndex(r) \/ CloseSession(r) \/ CardRefresh(r) \/ ResolveReindex(r)
      BY <3>2 DEF CaptureIndex, CloseSession, CardRefresh, ResolveReindex
    <3>3. CASE CompleteRead(r) \/ CompleteRefresh(r) \/ CommitBusy(r)
      BY <3>3 DEF CompleteRead, CompleteRefresh, CommitBusy
    <3>4. CASE Starve(r) \/ DispatchClose(r)
      BY <3>4 DEF Starve, DispatchClose
    <3>5. CASE CardFlush(r) \/ CompleteFlush(r)
      BY <3>5 DEF CardFlush, CompleteFlush
    <3>6. QED
      BY <1>3, <3>1, <3>2, <3>3, <3>4, <3>5
  <2>3. QED
    BY <1>1, <2>1, <2>2 DEF CommitmentExists
<1>4. ASSUME NEW r \in Requests, CompleteCommit(r)
      PROVE  PairInv'
  <2>1. \A c \in Commitments :
           /\ CommitmentExists(c)' = CommitmentExists(c)
           /\ commitments'[c].account_id = commitments[c].account_id
           /\ commitments'[c].interaction_id = commitments[c].interaction_id
    <3>1. \A c \in Commitments : c \in req[r].dirty => CommitmentExists(c)
      BY <1>4 DEF CompleteCommit, LocalsRight, LocalRight
    <3>2. QED
      BY <1>4, <3>1 DEF CompleteCommit, CommitmentExists, Commitment
  <2>2. interactions' = interactions
        /\ \A q \in Requests : req'[q].pc \in Underway => req'[q] = req[q]
    BY <1>4 DEF CompleteCommit
  <2>3. QED
    BY <1>1, <2>1, <2>2
<1>5. CASE Crash
  <2>1. /\ UNCHANGED <<interactions, commitments>>
        /\ \A q \in Requests : req'[q].pc \notin Underway
    BY <1>5 DEF Crash
  <2>2. QED
    BY <1>1, <2>1 DEF CommitmentExists
<1>6. CASE UNCHANGED vars
  BY <1>1, <1>6 DEF vars, CommitmentExists
<1>7. ASSUME NEW r \in Requests, Handle(r)
      PROVE  PairInv'
  BY <1>3, <1>4, <1>7, ReadAndLoadKeepPairs, AttachKeepsPairs, PublishKeepsPairs DEF Handle
<1>8. QED
  BY <1>2, <1>3, <1>5, <1>6, <1>7 DEF Next

\* However many requests there are, a note and its commitments part company
\* only when three resolutions of the note have overlapped
\* (resolve_interaction_customer, capture_service.py).
THEOREM OnlyThreeSplit == Spec /\ []NoThreeUnderway => []ThreadAgreement
<1>1. IInv /\ PairInv /\ NoThreeUnderway /\ [Next]_vars => PairInv'
  BY PairStep
<1>2. PairInv => ThreadAgreement
  BY DEF PairInv
<1>3. QED
  BY <1>1, <1>2, PairInit, Invariance, PTL DEF Spec

\* With at most two requests at a time a note and its commitments are always
\* under one account.
THEOREM TwoRequestsAgree ==
    ASSUME \E p, q : Requests \subseteq {p, q}
    PROVE  Spec => []ThreadAgreement
<1>1. NoThreeUnderway
  BY DEF NoThreeUnderway
<1>2. QED
  BY <1>1, OnlyThreeSplit, PTL

\* No note is being attached by two requests.
NoTwoUnderway ==
    \A p \in Requests, q \in Requests :
        (/\ req[p].pc \in Underway /\ req[q].pc \in Underway
         /\ req[p].note = req[q].note) => p = q

UnderwayUnmatched ==
    \A r \in Requests :
        req[r].pc \in Underway => interactions[req[r].note].match_status = "unmatched"

\* A resolution gets under way by finding its note unmatched.
LEMMA WhoGetsUnderway ==
    ASSUME IInv, [Next]_vars, NEW q \in Requests, req'[q].pc \in Underway
    PROVE  /\ req'[q].note = req[q].note
           /\ \/ req[q].pc \in Underway
              \/ req[q].pc = "resolve" /\ interactions[req[q].note].match_status = "unmatched"
<1> USE DEF IInv, TypeInv, TypeOK, Request, Goto, Answer, IdleRequest, Underway
<1>1. ASSUME NEW r \in Requests, Arrive(r) \/ DispatchClose(r)
      PROVE  req'[q] = req[q]
  BY <1>1 DEF Arrive, CaptureStart, CardStart, ResolveDispatch, CompleteDispatch,
     DispatchClose
<1>2. ASSUME NEW r \in Requests, Handle(r),
             ~ResolveRead(r), ~ResolveLoad(r), ~ResolveFlush(r)
      PROVE  req'[q] = req[q]
  <2>1. CASE \/ CaptureFlush(r) \/ CaptureCommit(r) \/ CaptureRaise(r)
             \/ CardFlush(r) \/ CardCommit(r) \/ ResolveCommit(r)
             \/ CompleteFlush(r) \/ CompleteCommit(r)
    BY <2>1 DEF CaptureFlush, CaptureCommit, CaptureRaise, CardFlush, CardCommit,
       ResolveCommit, CompleteFlush, CompleteCommit
  <2>2. CASE \/ CaptureBusy(r) \/ CaptureIndex(r) \/ CloseSession(r) \/ CardRefresh(r)
             \/ ResolveReindex(r) \/ CompleteRefresh(r) \/ CommitBusy(r) \/ Starve(r)
    BY <2>2 DEF CaptureBusy, CaptureIndex, CloseSession, CardRefresh, ResolveReindex,
       CompleteRefresh, CommitBusy, Starve
  <2>3. CASE CaptureRefresh(r) \/ CompleteRead(r)
    BY <2>3 DEF CaptureRefresh, CompleteRead
  <2>4. QED
    BY <1>2, <2>1, <2>2, <2>3 DEF Handle
<1>3. ASSUME NEW r \in Requests, ResolveRead(r)
      PROVE  /\ req'[q].note = req[q].note
             /\ \/ req[q].pc \in Underway
                \/ /\ req[q].pc = "resolve"
                   /\ interactions[req[q].note].match_status = "unmatched"
  BY <1>3 DEF ResolveRead
<1>4. ASSUME NEW r \in Requests, ResolveLoad(r) \/ ResolveFlush(r)
      PROVE  req'[q].note = req[q].note /\ req[q].pc \in Underway
  BY <1>4 DEF ResolveLoad, ResolveFlush
<1>5. CASE Crash
  BY <1>5 DEF Crash
<1>6. CASE UNCHANGED vars
  BY <1>6 DEF vars
<1>7. QED
  BY <1>1, <1>2, <1>3, <1>4, <1>5, <1>6 DEF Next

LEMMA UnderwayStep ==
    ASSUME IInv, UnderwayUnmatched, NoTwoUnderway, [Next]_vars
    PROVE  UnderwayUnmatched'
<1> SUFFICES ASSUME NEW q \in Requests, req'[q].pc \in Underway
             PROVE  interactions'[req'[q].note].match_status = "unmatched"
  BY DEF UnderwayUnmatched
<1> USE DEF IInv, TypeInv, TypeOK, Underway
<1> DEFINE i == req[q].note
<1>1. /\ req'[q].note = i /\ req[q].pc \in Underway \cup {"resolve"}
      /\ i \in Interactions /\ Exists(i)
      /\ interactions[i].match_status = "unmatched"
  BY WhoGetsUnderway DEF UnderwayUnmatched, NotesOwned, Resolving
<1>2. CASE interactions'[i] = interactions[i]
  BY <1>1, <1>2
<1>3. ASSUME NEW r \in Requests, CaptureCommit(r) \/ CardCommit(r)
      PROVE  interactions'[i] = interactions[i]
  <2>1. req[r].note # i
    BY <1>1, <1>3 DEF CaptureCommit, CardCommit, NotesOwned, Pending
  <2>2. QED
    BY <1>1, <1>3, <2>1 DEF CaptureCommit, CardCommit
<1>4. ASSUME NEW r \in Requests, ResolveCommit(r)
      PROVE  interactions'[i] = interactions[i]
  <2>1. req[r].pc = "attached" /\ req'[r].pc = "reindex"
    BY <1>4 DEF ResolveCommit, Goto
  <2>2. q # r /\ req'[q] = req[q]
    BY <1>4, <2>1 DEF ResolveCommit, Goto
  <2>3. req[r].note # i
    BY <2>1, <2>2 DEF NoTwoUnderway
  <2>4. QED
    BY <1>1, <1>4, <2>3 DEF ResolveCommit
<1>5. ASSUME NEW r \in Requests, Handle(r),
             ~CaptureCommit(r), ~CardCommit(r), ~ResolveCommit(r)
      PROVE  UNCHANGED interactions
  BY <1>5 DEF Handle, CaptureFlush, CaptureBusy, CaptureRaise, CaptureRefresh,
     CaptureIndex, CloseSession, CardFlush, CardRefresh, ResolveRead, ResolveLoad,
     ResolveFlush, ResolveReindex, CompleteRead, CompleteFlush, CompleteCommit,
     CompleteRefresh, CommitBusy, Starve
<1>6. ASSUME NEW r \in Requests, Arrive(r) \/ DispatchClose(r)
      PROVE  UNCHANGED interactions
  BY <1>6 DEF Arrive, CaptureStart, CardStart, ResolveDispatch, CompleteDispatch,
     DispatchClose
<1>7. CASE Crash \/ UNCHANGED vars
  BY <1>1, <1>7 DEF Crash, vars
<1>8. QED
  BY <1>2, <1>3, <1>4, <1>5, <1>6, <1>7 DEF Next

\* Of two resolutions of a note the later is refused, unless it had found the
\* note unmatched before the earlier one committed (resolve_customer reads
\* match_status and commits later).
THEOREM ResolvedOnceUnlessOverlapped == Spec /\ []NoTwoUnderway => ResolvedOnce
<1>1. Init => UnderwayUnmatched
  BY DEF Init, UnderwayUnmatched, Underway, IdleRequest
<1>2. IInv /\ UnderwayUnmatched /\ NoTwoUnderway /\ [Next]_vars => UnderwayUnmatched'
  BY UnderwayStep
<1>3. UnderwayUnmatched
         => \A r \in Requests :
               ResolveCommit(r) => interactions[req[r].note].match_status = "unmatched"
  BY DEF UnderwayUnmatched, Underway, ResolveCommit
<1>4. QED
  BY <1>1, <1>2, <1>3, Invariance, PTL DEF Spec, ResolvedOnce
=============================================================================
