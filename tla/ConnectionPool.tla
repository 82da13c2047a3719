---------------------------- MODULE ConnectionPool ----------------------------
(***************************************************************************)
(* CaptureService with the connections it runs on (app/database.py:22-29,  *)
(* 70-77): the engine's pool, the sessions that hold a connection, and     *)
(* the handlers that only read.  Restarts are CaptureService's subject and *)
(* are left out here.                                                      *)
(*                                                                         *)
(* Who waits for whom.  A session keeps its connection after the handler   *)
(* has answered, until get_db's exit, which the event loop must dispatch.  *)
(* A capture asks for a connection on the event loop, and stops the loop   *)
(* while it waits.  When the pool is in the hands of sessions that have    *)
(* answered, the capture and they wait for each other, and the timeout of  *)
(* the pool decides.                                                       *)
(***************************************************************************)
EXTENDS CaptureService, Naturals, FiniteSets

CONSTANT PoolSize  \* pool_size and max_overflow of create_engine together

ASSUME PoolAssumption == PoolSize \in Nat \ {0} /\ IsFiniteSet(Requests)

VARIABLES
    session,  \* per slot: its read handler, or what its session has checked out
    givenUp   \* history: the notes of which a re-filing was given up

poolVars == <<vars, session, givenUp>>

\* "reading": a GET, a question or a brief is in its worker thread;
\* "connected": a capture has its connection and wants the write lock;
\* "open": answered, with the connection still out; "closing": get_db's exit
\* runs in a worker thread.
SessionStates == {"none", "reading", "connected", "open", "closing"}

\* The handler is between the first and the last statement of a transaction.
InTransaction(r) ==
    req[r].pc \in {"extract", "raised", "closing", "index", "carded", "load",
                   "attach", "attached", "tick", "ticked"}

CheckedOut ==
    {r \in Requests : session[r] \in {"connected", "open", "closing"} \/ InTransaction(r)}

\* One for all, whatever is out.
Available_Unbounded == TRUE
Available == Cardinality(CheckedOut) < PoolSize

\* QueuePool's timeout can only run out while nobody returns a connection.
PoolTimesOut_Never == FALSE
PoolTimesOut == ~Available

PoolInit ==
    /\ Init
    /\ session = [r \in Requests |-> "none"]
    /\ givenUp = {}

SetSession(r, state) == session' = [session EXCEPT ![r] = state]

\* A re-filing that leaves the chunk where it was has been given up.
NoteGivenUp(r) ==
    givenUp' = IF /\ req[r].pc = "reindex"
                  /\ chunks'[req[r].note] \notin {NoChunk, req[r].account}
               THEN givenUp \cup {req[r].note}
               ELSE givenUp

-----------------------------------------------------------------------------
(* The handlers of CaptureService                                          *)

PoolArrive(r) ==
    /\ Arrive(r)
    /\ session[r] = "none"
    /\ UNCHANGED <<session, givenUp>>

\* The INSERT of a capture first gets a connection, then the write lock.
Connect(r) ==
    /\ req[r].pc \in {"flush", "card"}
    /\ session[r] = "none"
    /\ Available
    /\ SetSession(r, "connected")
    /\ UNCHANGED <<vars, givenUp>>

\* With the lock or without: from here the transaction tells who is connected.
Insert(r) ==
    /\ CaptureFlush(r) \/ CaptureBusy(r) \/ CardFlush(r)
    /\ session[r] = "connected"
    /\ SetSession(r, "none")
    /\ UNCHANGED givenUp

\* Any other step of a handler that goes on, or whose session ends with it.
Work(r) ==
    /\ \/ CaptureCommit(r) \/ CaptureRaise(r) \/ CaptureRefresh(r) \/ CloseSession(r)
       \/ CardCommit(r)
       \/ ResolveLoad(r) \/ ResolveFlush(r) \/ ResolveCommit(r)
       \/ CompleteRead(r) \/ CompleteFlush(r) \/ CompleteCommit(r) \/ CommitBusy(r)
    /\ Connecting(r) => Available
    /\ UNCHANGED <<session, givenUp>>

\* A step that may end the handler with its last transaction still open: the
\* refresh's, or that of the db.get that was answered with 409.
Finish(r) ==
    /\ \/ CaptureIndex(r) \/ CardRefresh(r) \/ CompleteRefresh(r)
       \/ ResolveRead(r) \/ ResolveReindex(r)
    /\ Connecting(r) => Available
    /\ IF req'[r].pc = "idle" THEN SetSession(r, "open") ELSE UNCHANGED session
    /\ NoteGivenUp(r)

\* Nobody has returned a connection in time.
RunDry(r) ==
    /\ Starve(r)
    /\ session[r] = "none"
    /\ PoolTimesOut
    /\ NoteGivenUp(r)
    /\ UNCHANGED session

PoolDispatchClose(r) == DispatchClose(r) /\ UNCHANGED <<session, givenUp>>

-----------------------------------------------------------------------------
(* Handlers that only read, and the end of a session                       *)

ReadDispatch(r) ==
    /\ req[r].pc = "idle"
    /\ session[r] = "none"
    /\ LoopFree
    /\ SetSession(r, "reading")
    /\ UNCHANGED <<vars, givenUp>>

\* All its statements run on one connection.
ReadAnswer(r) ==
    /\ session[r] = "reading"
    /\ Available
    /\ SetSession(r, "open")
    /\ UNCHANGED <<vars, givenUp>>

ReadRunDry(r) ==
    /\ session[r] = "reading"
    /\ PoolTimesOut
    /\ SetSession(r, "none")
    /\ UNCHANGED <<vars, givenUp>>

\* The exit is handed to a worker thread by the thread that answered.
DispatchExit_ByWorker(r) ==
    /\ session[r] = "open"
    /\ SetSession(r, "closing")
    /\ UNCHANGED <<vars, givenUp>>

\* The answer has been sent; the loop hands get_db's exit to a worker thread.
DispatchExit(r) ==
    /\ session[r] = "open"
    /\ LoopFree
    /\ SetSession(r, "closing")
    /\ UNCHANGED <<vars, givenUp>>

\* db.close() returns the connection.
Exit(r) ==
    /\ session[r] = "closing"
    /\ SetSession(r, "none")
    /\ UNCHANGED <<vars, givenUp>>

-----------------------------------------------------------------------------
(* Specification                                                           *)

\* What a worker thread does, and the loop inside a capture.
Run(r) == \/ Connect(r) \/ Insert(r) \/ Work(r) \/ Finish(r) \/ RunDry(r)
          \/ ReadAnswer(r) \/ ReadRunDry(r) \/ Exit(r)

PoolNext ==
    \E r \in Requests : \/ PoolArrive(r) \/ ReadDispatch(r)
                        \/ Run(r)
                        \/ PoolDispatchClose(r) \/ DispatchExit(r)

PoolSpec == PoolInit /\ [][PoolNext]_poolVars

\* The event loop goes on with the capture that occupies it.
LoopRun == \E r \in Requests : loop = r /\ Run(r)

\* A thread that can run does run, the loop's as well as a worker's.  The
\* loop's ready queue is first in, first out, so an exit waits behind the
\* captures ahead of it and no longer.
LoopFair == WF_poolVars(LoopRun)
ThreadFair(r) == WF_poolVars(Run(r))
CloseFair(r) == SF_poolVars(PoolDispatchClose(r))
ExitFair(r) == SF_poolVars(DispatchExit(r))

Fairness == LoopFair /\ \A r \in Requests : ThreadFair(r) /\ CloseFair(r) /\ ExitFair(r)

FairPoolSpec == PoolSpec /\ Fairness

-----------------------------------------------------------------------------
(* Properties                                                              *)

\* A session has at most one connection, and the pool never lends more than
\* it has: a slot whose handler is at work has no older session left open.
PoolTypeOK ==
    /\ session \in [Requests -> SessionStates]
    /\ givenUp \subseteq Interactions
    /\ \A r \in Requests :
          /\ session[r] \in {"reading", "open", "closing"} => req[r].pc = "idle"
          /\ session[r] = "connected" => req[r].pc \in {"flush", "card"}
    /\ Cardinality(CheckedOut) <= PoolSize

\* Once a note is attached and no request is still about to re-file it, its
\* chunk is not left under the sentinel, where no account's question finds it,
\* unless the re-filing was given up: Chroma failed, or the refresh before it
\* found the pool dry.  While the process runs (a stop between the commit and
\* the re-filing loses it too) there is no other way: a resolution that found no
\* chunk to re-file cannot overlap the capture that writes the chunk, since
\* the loop dispatches nothing between the capture's commit and its upsert.
IndexFollowsResolution ==
    \A i \in Interactions \ givenUp :
        (interactions[i].match_status = "matched" /\ chunks[i] = Unassigned)
            => \E r \in Requests : req[r].pc = "reindex" /\ req[r].note = i

\* Something of the request is left: its handler or its session.
Unended(r) == req[r].pc # "idle" \/ session[r] # "none"

\* All that is left is an exit that the loop has to dispatch.
AwaitsLoop(r) == req[r].pc = "raised" \/ session[r] = "open"

\* No thread waits for what can stay away for ever: a handler that has been
\* dispatched can take a step or run into a timeout, whoever has the lock and
\* the connections; the loop can go on with its capture; and an exit waits for
\* nothing but the loop.
NoThreadStuck ==
    /\ ~LoopFree => ENABLED <<LoopRun>>_poolVars
    /\ \A r \in Requests :
          /\ Unended(r) /\ ~AwaitsLoop(r) => ENABLED <<Run(r)>>_poolVars
          /\ LoopFree /\ req[r].pc = "raised"
                => ENABLED <<PoolDispatchClose(r)>>_poolVars
          /\ LoopFree /\ session[r] = "open" => ENABLED <<DispatchExit(r)>>_poolVars

\* What the next step of a slot takes that another may have.
WantsConnection(r) == session[r] = "reading" \/ (session[r] = "none" /\ Connecting(r))
WantsLock(r) == session[r] = "connected" \/ req[r].pc \in {"attach", "tick"}

\* All of it is there: the slot goes on, and no timeout has to help.
Served(r) ==
    /\ Unended(r)
    /\ WantsConnection(r) => Available
    /\ WantsLock(r) => writer = Nobody
    /\ AwaitsLoop(r) => LoopFree

\* Connections, the lock and the loop are taken in no common order, so requests
\* can wait for each other in a circle; every circle goes through a capture that
\* stops the loop and a connection whose return the loop would have to dispatch.
\* Among worker threads alone somebody can always go on without a timeout.
OnlyTheLoopDeadlocks ==
    (\E r \in Requests : Unended(r)) /\ (\A r \in Requests : ~Served(r))
        => ~LoopFree /\ \E r \in CheckedOut : AwaitsLoop(r)

\* A capture stops the loop for want of a connection, and every connection is
\* with a session that waits for the loop to dispatch its exit.
LockedOut(r) ==
    /\ loop = r
    /\ WantsConnection(r)
    /\ ~Available
    /\ \A q \in CheckedOut : AwaitsLoop(q)

\* Such a capture is bound to fail: whatever the others do, no connection comes
\* back and no request is dispatched before the timeout of the pool has run out
\* for it.
LockedOutFails ==
    [][\A r \in Requests : LockedOut(r) => LockedOut(r)' \/ req'[r] = IdleRequest]_poolVars

\* Every request is answered and every connection and the write lock come
\* back: no wait for the lock or the pool and no exception keeps a handler,
\* and with it the event loop, for ever, although a connection's return needs
\* the loop, captures stop the loop to wait for a connection, and a rollback
\* waits behind captures that wait for its lock.
EverySessionEnds ==
    \A r \in Requests : Unended(r) ~> ~Unended(r)
=============================================================================
