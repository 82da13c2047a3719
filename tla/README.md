# Conversational CRM: specifications, model checking and proofs

TLA+ modules of the backend under `src/app` and of the web client under
`src/frontend/src`, the TLC configurations that check them on small instances,
and TLAPS proofs for every instance. Every definition is translated from the
code; `PROJECT.json` ("map") names the lines each one stands for.

Contents: [the system](#the-system) · [modules](#modules) · [what the runs
show](#what-the-runs-show) · [bounds](#bounds) · [assumptions about the
platform](#assumptions-about-the-platform) · [fairness](#fairness) ·
[proofs](#proofs) · [slips](#slips) · [what is not modelled](#what-is-not-modelled)
· [plan](#plan)

Run one model: `tlc -config CaptureSafety.cfg MCCaptureService`. Check the proofs
of one module: `tlapm CaptureServiceProofs.tla`.

## The system

A FastAPI process serves one shared login. Notes are captured, matched to an
account of a constant list, and mined for commitments; the rep resolves notes
without a match, ticks off commitments, asks questions and requests briefs.
State lives in four places: an SQLite database, a Chroma collection, three
dicts in the memory of the process, and the state of each browser tab.

| Component | State | Operations | What makes it correct |
|---|---|---|---|
| Capture and resolution (`services/capture_service.py`, `routers/interactions.py`) | rows `interactions`, `attendees`, `commitments`; the chunk of each note | capture typed, capture card, resolve customer, list unmatched | a note lands with all its commitments or not at all; account and status agree; a commitment follows its note |
| Commitment completion (`services/commitments_service.py:60-67`) | `commitments.status` | complete | complete is final and does not undo a concurrent resolution |
| Sessions, connections and the write lock (`database.py`) | one session per request, a pool of connections, WAL, `busy_timeout` | open, flush, commit, roll back, refresh, return the connection | lock and connections always come back; a refused request leaves nothing behind |
| Vector store (`vector_store.py`) | one document per note with its `account_id` | upsert, re-tag, query by account | no chunk without a note, none under an account for an unmatched note |
| Questions and briefs (`services/qa_service.py`, `brief_service.py`, `account_resolution.py`) | none | read rows and chunks in several statements | an answer uses one account's history only |
| Due list (`services/commitments_service.py:22-57`) | none | bucket by date | an open dated commitment is listed, every day until it is done |
| Rule-based extraction (`nlu/rule_based_client.py`) | none | clauses, commitments, due dates, attendees of a note | no request is lost, whoever was met is listed and nobody else; "Friday" is the next Friday |
| CRM adapter (`adapters/crm_adapter.py`) | constant lists | find an account by its name in a text | an ambiguous note is filed under no account |
| Session store (`auth.py:76-106`) | `_sessions` | create, validate and touch, invalidate | an ended session does not come back; the idle timeout holds and hits nobody early |
| Login lockout (`auth.py:58-73`) | `_lockouts` | look up, record failure, record success | locked out exactly when the window is spent |
| Rate limiter (`auth.py:124-138`) | `_rate_windows` | check | at most the limit in any minute, and no request refused before |
| Web client (`frontend/src`) | `isAuthenticated`, the cookie, per page a list, spinner, banner, picker, conversation | submit, navigate, retry, settle, sign in and out | the page agrees with what it was told; nobody is signed out for nothing |

How they interact:

- `capture_interaction` is `async def`. Its service call is synchronous, so it
  occupies the event loop from the flush to the return. All other handlers are
  `def`: the loop dispatches them to worker threads, where they interleave with
  each other and with a capture that is already running. No handler can be
  *dispatched* while a capture occupies the loop.
- Every request has a session of its own. Two requests meet in SQLite's
  committed rows, in its single write lock, in the pool of connections, and in
  the collection. A session takes a connection for its first statement, gives
  it back at the commit, takes one again for the refresh after the commit, and
  returns that one after the answer, in `get_db`'s exit, which the loop has to
  dispatch.
- The dicts of `auth.py` are shared by worker threads without a lock. Between
  two operations on a dict, a list or an object another thread may run.
- A browser tab has several calls in flight. They are served and answered in
  any order, and outlive the page that sent them.

Hard behaviours: lost updates between resolutions that overlap; the window
between commit and index write; a lock held across a model call that may raise
while its release is queued behind captures that wait for it; connections whose
return needs the loop that a capture occupies while it waits for a connection;
a commit that succeeds and a refresh that fails after it; check-then-act on
the dicts; answers that overtake each other in the client; restarts. They are
listed line by line under "hazards" in `PROJECT.json`.

## Modules

| Module | Models | State and actions |
|---|---|---|
| `CaptureService` | the write side: capture, card, resolve, complete, sessions, write lock, index, and handlers that find no connection (`Starve`) | `interactions`, `commitments`, `chunks` are the stores; `writer` holds the write lock, `loop` the event loop; `req[r].pc` is the place of a request in its handler. One action per stretch between two points where another request can be seen: flush, commit, refresh, upsert; read, lazy load, flush, commit, re-tag |
| `ConnectionPool` | composes `CaptureService` with the pool it runs on and with handlers that only read; carries the fairness | `session[r]` is what the slot's session has checked out beyond its transaction, `givenUp` the notes whose re-filing was given up. Every action is one of `CaptureService` with a condition on the pool, or a stutter of it |
| `InteractionLog` | what the write side promises its readers, with no requests, locks or threads | `Capture`, `Attach`, `Complete`, `Index` on the same three stores |
| `ReadModels` | questions, briefs and the unmatched list beside the writers (extends `CaptureService`) | `reader[q]` holds what a read has seen; one action per SELECT or query |
| `NoteExtraction` | what is read out of a note: account, clauses, commitments with dates, attendees | operators on a sequence of words; a word keeps what the code looks for in it |
| `DueCommitments` | from a note to its rows and to the buckets of the due list, day after day (on top of `NoteExtraction`) | `note`, `account`, `attendees`, `commitments` are what the capture writes, `today` the server's date; `Capture`, `Complete`, `NextDay` |
| `Sessions` | the session store with overlapping requests, logout, restart | fetch, judge, touch, pop as separate steps on a shared object |
| `LoginLockout` | `is_locked_out`, `record_login_failure`, `record_login_success` as login calls them | identities of state objects, and whether the list a thread holds is still the bound one; a list is the set of its entries |
| `RateLimiter` | `check_rate_limit` | read, write back, count, append as separate steps; a list is the set of its entries |
| `WebClient` | one tab: belief, cookie, pages, calls in flight, and the server's sessions and lists behind them | `calls` is a bag; `Serve`, `Fail`, `Receive` on any call in it; `Mount` forgets a page and keeps its calls |
| `CaptureServiceProofs`, `ConnectionPoolProofs`, `ReadModelsProofs`, `DueCommitmentsProofs`, `SessionsProofs`, `LoginLockoutProofs`, `RateLimiterProofs`, `WebClientProofs` | theorems | see [proofs](#proofs) |
| `MC...` | constants and symmetry for TLC | |

Correspondence worth knowing before reading `CaptureService`:

- `db.commit()` of a worker or of a card is two steps, `...Flush` and `...Commit`: the first
  UPDATE takes the write lock, and only the COMMIT, statements later, publishes
  and gives it up. The UPDATEs between the two are seen by nobody else, so they
  are one step; the lock is seen, by a capture that flushes on the loop meanwhile.
- `Dirtied` is SQLAlchemy's rule that an assignment of the value already loaded
  leaves the attribute clean and sends no UPDATE. `ResolveLoad` is the lazy load
  of `interaction.commitments`, later than the load of the note; this gap is
  what `thread_split` is about. `Moved` and the completion write one column and
  keep the other as committed.
- An id reaches `ResolveDispatch` only after the note is visible, since clients
  learn ids from answers. With `LoopFree` this makes it impossible for a
  resolution to slip between the commit and the upsert of the same note's
  capture (`IndexFollowsResolution` of `ConnectionPool`, proved). What remains,
  while the process runs (restarts are left out of that run; a stop between commit and
  re-filing loses it too), is a re-filing that is given up: Chroma raises and the exception is dropped,
  or the refresh before it finds no connection; the history `givenUp` names
  exactly these. `LoopFree_Threaded` is
  what would happen were `capture_interaction` changed from `async def` to
  `def`: the note would stay indexed under `__unassigned__`.
- A refresh after a commit (`CaptureRefresh`, `CardRefresh`, `CompleteRefresh`,
  and the one at the head of `ResolveReindex`) needs a connection of its own. If
  the pool stays dry the handler is answered 500 although its change is
  committed (`Starve`): the note is in the table and not in the index, or the
  note is attached and its chunk is not re-filed.
- `CaptureRaise` leaves the transaction open until `get_db`'s `finally` has been
  dispatched (`DispatchClose`), which waits for the loop like any handler.
- `ConnectionPool` reuses `CaptureService`'s actions unchanged. `Connecting(r)`
  says which of them are about to ask for a connection, `InTransaction(r)` which
  requests hold one by the place they are in; `session` holds what these two do
  not tell.

## What the runs show

| Run | Question | Result |
|---|---|---|
| `capture_safety` | Two overlapping requests of any kind, Chroma failures, restarts: are rows, threads and index consistent, and is every change one the abstract log allows? With whom does a capture find the write lock, and when is it bound to be answered 503? | holds |
| `connection_pool` | Three overlapping requests, captures, resolutions and reads, over two connections: does the pool never lend more than it has, is every request answered and every connection and the lock returned, is no thread ever stuck; who can block whom, and what becomes of a capture that is blocked; does the index follow a resolution? | holds |
| `resolved_once` | Of two overlapping resolutions is one refused with 409, as `qa/test_concurrency.py:20-22` says? | **violated**: both read "unmatched", both commit, both are answered 200 |
| `thread_split` | Does a commitment stay with its note when three resolutions overlap? | **violated**: R1 has read the note; R2 resolves it to the same account as R1; R1 loads the commitments, which need no change; R3, which had also read "unmatched", moves all to another account; R1 commits the note only |
| `read_models` | Is an answer built from one account's history; does the unmatched list show whole threads; is a note that shows two accounts one that was resolved twice? | holds |
| `due_commitments` | Is a note filed by the name it calls, each request kept, everyone met listed and nobody else, and is a commitment with a named day on the list from its capture until it is done? | holds |
| `sessions` | Is a session gone for good once a logout or a refusing check has ended it, does the idle timeout hold, is a session in use never refused? | holds |
| `login_lockout` | Does the failure of an attempt that met no other always count, whatever overlaps around it; is a client locked out by real failures only? | holds |
| `lockout_overlap` | Does the lockout also come in time when attempts overlap? | **violated**: a failure is lost when its list is replaced by a concurrent check, or its object popped by a concurrent success, before it is appended |
| `rate_limiter` | Of the requests that meet no other, does at most the limit pass, is none refused before, whatever overlaps around them; is no entry invented? | holds |
| `limiter_overlap` | Does the limit hold when requests of one session overlap? | **violated**: two checks count before either appends |
| `web_client` | Calls answered in any order: do settled items stay off the page, conversations stay paired, spinners end; who can sign the tab out? | holds |

The four violations are in "findings", each with the sentence of the
repository it contradicts. How far each sentence is true is stated and proved:

- `resolved_once`: no two requests find the same note unmatched, then each
  resolution that is answered 200 found it unmatched at its commit
  (`ResolvedOnceUnlessOverlapped`).
- `thread_split`: `ThreadAgreement` holds in `capture_safety` (two requests) and
  fails with three; it holds for any number of requests of which no three have
  found the same note unmatched (`OnlyThreeSplit`). What readers see of it,
  `SplitOnlyIfResolvedTwice`, holds always.
- `limiter_overlap`, `lockout_overlap`: the histories `met` and `alone` tell the
  requests that met another one inside from those that did not. Requests that
  overlap lose each other's entries, never an entry of a request that was alone,
  whether it came before or after them. So `WithinLimitAlone`,
  `SpentMeansLockedAlone`, `RefusedOnlyWhenSpent` and `RefusedWhenDue` hold of
  the latter in the middle of any overlaps; where nothing overlaps they are the
  refuted sentences (`LimitHoldsOneByOne`, `LockoutComesOneByOne`).

`ActiveStays` of `Sessions` is of the same kind: requests of one session that
overlap may set `last_seen_at` back to the time of the slower one, and so shorten
its life, never behind a request that had the session to itself (`alone_at`).

`lockout_overlap`: `record_login_failure` looks up the list and appends later
(`auth.py:69`). In between, another attempt's check can bind the filtered copy it
took before (`auth.py:64`), or another attempt's success can pop the object
(`auth.py:73`). TLC's shortest traces are of both kinds, and which one it reports
depends on the order in which its workers search.

`CapturesNeverContend`: a capture that finds the write lock taken finds it with a
worker between its flush and its COMMIT, or with a request whose extraction has
raised, never with another capture or card that goes on: those do not let
the loop go with a transaction open. The worker gives the lock up in time or not; it
does not need the loop for that. The failed extraction does: if its rollback has not been
dispatched yet, the capture occupies the loop that the rollback needs, waits
`busy_timeout` out to no purpose and is answered 503 (`OvertakingFails`).

`EverySessionEnds` rests on two timeouts. Two sessions that have answered hold
the pool's connections until the loop dispatches their exits; a capture that
asks for a connection stops the loop. Nobody can go on until the pool's timeout
ends the wait with an error. Without that timeout (the slip
`PoolTimesOut_Never`) TLC finds the system stuck for ever. Without
`busy_timeout` it is the capture behind a failed extraction that waits for ever
(the slip `TimesOut_Never`, caught by `NoThreadStuck`: a thread that has not
ended and does not wait for the loop can always take a step).

`OnlyTheLoopDeadlocks` says where those timeouts are needed at all. Connections,
the write lock and the loop are taken in no common order: a commit waits for the
lock with a connection in its hands, a capture for both with the loop in its. Still
the requests block each other only when a capture stops the loop and a session
that holds a connection waits for the loop; the worker threads alone always have
one among them that goes on without a timeout. The holder of the lock is the
reason: it wants nothing but the loop. One connection kept, or one lock not
given up (the slip `Rollback_Not`), and this is no longer so. `LockedOutFails` is
what becomes of the capture: with every connection in the hands of sessions that
wait for the loop it stays blocked, whatever anybody does, until the pool's
timeout fails it, and the whole server with it, as nothing is dispatched
meanwhile. A `get_db` whose exit did not need the loop (the slip
`DispatchExit_ByWorker`) would let it go on.

`MatchedByName` has a condition: no other word contains an account's name. The
match is a substring match, so that a note about another company whose name
contains an account's name is filed under that account
(`qa/test_matching_quality.py:22-33` records it, and `NoteExtraction` has the
behaviour). `EveryoneMetIsListed` is stated for the plain form "met A and B from
C", names of one or two words; the code drops longer names, and of "A and and B"
it keeps neither separator apart from the name.

`SettledStaysOff` of `WebClient` has one exception, a load of the same page that
was out when the page was told that an item is closed. It does happen: a
completion that is slow, a second click on the same button that fails, its
Retry, and the reload's older answer last. `KeptSignedIn` has one exception too:
a 401 to a call of an earlier session that arrives after a new login signs the
tab out of the new session.

`GET /accounts` is called outside `useAuthAwareCall`, so that a 401 to it leaves
`isAuthenticated` true and the picker failed, although `AuthContext.tsx:8` says
"Any API call that gets a 401 should call this". The model has this behaviour
(`Aware`), no run states the sentence.

## Bounds

| Run | Bound | Why it is enough to be interesting |
|---|---|---|
| `capture_safety` | 2 requests in flight, 2 notes, 2 commitments, 2 accounts; slots are reused without limit | every pair of handlers overlaps at every pair of steps; a thread with two commitments, two notes competing for commitments, two accounts for one note |
| `connection_pool` | 3 requests, 2 notes, no commitments, 1 account, 2 connections | one request whose connection waits for the loop, one capture that occupies the loop, one more of any kind; two connections are fewer than the requests that want one |
| `thread_split` | 3 resolutions of 1 note | the smallest that fails |
| `read_models` | 2 writers, 1 reader, 2 notes, 1 commitment, 2 accounts | two resolutions under two accounts around each step of the reader |
| `due_commitments` | 17 days; notes of four kinds: one request with each combination of cues and any weekday or pair of weekdays; up to 4 words of requests, days and stops; meetings of up to 6 words; up to 3 words with account names in them | every weekday is the day of a capture, and the window of a week passes over the end of a week twice; what is read from a note for one purpose does not depend on what is read for another, so the kinds need not be mixed |
| `sessions` | 2 requests, 2 tokens, idle 1, absolute 3, 6 ticks | both timeouts expire, in both orders, with a request in the middle of its check |
| `login_lockout` | 2 attempts, 3 state objects, 2 failures, window 1, 3 ticks, `Burst` 2 | the window slides past failures; a popped object is still held while a new one is made |
| `rate_limiter` | 2 handlers, limit 2, minute 2, 5 ticks, `Burst` 3 | two whole minutes, and a burst above the limit in one tick |
| `web_client` | 2 tokens, 1 commitment, 1 note, `MaxCalls` 2, `MaxTurns` 3 | a page sends two calls when mounted, on top of up to two the user has started: up to four in flight; two exchanges in a conversation |

`LastTick`, `LastDay`, `Burst`, `MaxCalls` and `MaxTurns` are bounds of the
models; the code has no such limits. The clock models stop when the clock does,
which is why their configurations switch the deadlock check off. Symmetry (of
requests, handlers, attempts, ids) is used only in runs without liveness
properties.

## Assumptions about the platform

- *SQLite and SQLAlchemy.* WAL; under pysqlite's default mode a SELECT opens no
  transaction, so each statement sees the committed state of its own moment;
  the first INSERT or UPDATE takes the one write lock and the end of the
  transaction gives it up; a writer that waits longer than `busy_timeout` gets
  an `OperationalError`, answered 503. `autoflush` is off (`database.py`), an
  object once loaded keeps its loaded attributes until the commit.
- *The pool.* `create_engine` on a file with SQLAlchemy 2.0 makes a `QueuePool`
  of five connections and ten more, with a timeout of 30 seconds. A session
  releases its connection at the commit and takes one again for the next
  statement. The timeout can run out whenever no connection is free.
  FastAPI leaves a dependency with `yield` after the answer, through the loop. A
  handler or an exit that has been dispatched gets a worker thread: FastAPI runs
  exits under a limit of their own, apart from the threads that handlers wait in.
- *Texts.* A note is a sequence of words, set phrases and stops. What the
  patterns look for inside a word is the word's content: weekdays, an ISO date,
  a cue, an account's name. `&` in lists of names, line breaks and the spelling
  of the company are left out.
- *Chroma.* An upsert is one step that happens or raises. A query under an
  account returns some of the documents under it, at least one if there is any.
- *Python threads.* One operation on a dict, list or attribute is one step; a
  comprehension over the window or the failures counts as one step too (finer
  interleavings only read a list that appends grow).
- *The process.* One process, one event loop, as `uvicorn app.main:app` starts
  it (`main.py:3`). A stop loses the memory and rolls back open
  transactions.
- *The browser.* A page that is unmounted drops its state; its pending handlers
  still run but set nothing. Two clicks are separated by a render, so a button
  disabled by the first is disabled for the second. StrictMode's double effects
  exist in development only and are left out.

## Fairness

Only `FairPoolSpec` of `ConnectionPool` assumes any, for each slot `r`:

- `ThreadFair(r)`, weak fairness of `Run(r)`: a handler that has been dispatched
  and can take its next step takes it, since threads are scheduled; where it
  waits for the write lock it gets the lock or `busy_timeout` ends the wait,
  where it waits for a connection it gets one or the pool's timeout does.
- `LoopFair`, weak fairness of `LoopRun`: the loop's thread is scheduled as the
  workers are, and goes on with the capture that occupies the loop.
- `CloseFair(r)` and `ExitFair(r)`, strong fairness of `PoolDispatchClose(r)` and
  `DispatchExit(r)`: the end of a session needs a moment in which the loop is
  free; such moments recur, and asyncio's ready queue is first in, first out, so
  the callback runs at the next one that is its turn and is not passed over for
  ever by new captures.

Clients are never obliged to send anything. An upsert may fail at any time
(`Faults`). Restarts are left out there; `capture_safety` has them.

## Proofs

All theorems are of the form "for every value of the constants that satisfies the
module's ASSUME". Assumptions: `SentinelsAreFresh` (the null values are not ids),
`PoolAssumption` (a pool of at least one connection, finitely many requests),
`HintIsFresh`, `SessionAssumption`, `LockoutAssumption`, `LimiterAssumption`,
`CalendarAssumption`, `ExtractionAssumption` and `TabAssumption` (null values again), and
`NotesAssumption`: a note is a sequence of words, and an account's name occurs in
the word that is the name.

**`CaptureServiceProofs`** (any number of requests, notes, commitments, accounts):

- `TypeCorrect`. The types alone are not inductive, as a resolution writes its
  local account into the stores; `ChosenAccount` adds that it is an account.
- `NullExactlyWhenUnmatched`, `ChunksAreBacked` from the inductive invariant
  `IInv`. The two facts depend on what requests hold locally, so `IInv` adds:
  a request is inside a write transaction if and only if it holds the lock
  (`LockOwned`), and at a step on the loop if and only if it occupies the loop
  (`LoopOwned`); a note being captured belongs to one request, and is in the
  table from the commit on and not before (`NotesOwned`); a capture about to
  index holds the account of the row, and a resolution that has loaded its
  thread will move every commitment that has no account (`LocalsRight`). The
  last is the heart: a
  thread whose note is unmatched is moved whole, so NULL goes away in the note
  and the commitments in one step, even by a stale resolution.
- `StatusesAdvanceOnly`, `ThreadsLandWhole`: action properties from `IInv`.
- `ImplementsLog`: each step is a step of `InteractionLog` on the three stores
  or a stutter. `Attach` of the log moves any subset of the thread that contains
  all commitments without an account: exactly as much as the code guarantees.
- `OnlyThreeSplit`: `ThreadAgreement` holds for any number of requests as long as
  no three have found the same note unmatched (`NoThreeUnderway`), of which
  `TwoRequestsAgree` is a case. `PairInv`: a note that has been attached is
  being attached by at most one request more (`LastUnderway`), and what a
  resolution leaves alone is already under its account (`LeftAlone`). The first
  commit of two finds all commitments without an account and moves them; the
  second has nobody left to change what it loaded. `thread_split` has the third
  request. `ResolvedOnceUnlessOverlapped` is the same question for two. Both
  hypotheses are about requests only, and any state with that few resolutions at
  a time satisfies them.
- `CapturesDoNotContend`, `OvertakingCapturesFail` from `LockOwned` and
  `LoopOwned`: whoever holds the lock while a capture occupies the loop is at a
  step that is not on the loop.

**`ConnectionPoolProofs`** (any number of requests, any size of the pool):

- `PoolImplementsHandlers`: with the pool around them the handlers are still
  `CaptureService`, so all theorems above hold of the composition, and `IInv` is
  at hand for all that follows.
- `PoolNeverOverdrawn`: a step takes at most one connection and only when one is
  available (`OneTakes`, one lemma per action), so the count of those that hold
  one never passes the size. A slot's session and its handler never hold a
  connection each (`Slots`).
- `IndexFollows`, from `LoopOwned`: a resolution that finds no chunk cannot stand
  beside a capture that is about to write it.
- `OnlyCapturesDeadlock`. Whoever cannot go on without a timeout wants a
  connection and has none, wants the lock and has a connection, or waits for the
  loop and has a connection (`WaitKinds`). If nobody goes on, the pool is
  exhausted or the loop is waited for, so a connection is out in any case; its
  holder waits for the loop, or for the lock, whose holder can only be waiting for
  the loop (`LockHolderWaits`).
- `LockedOutCapturesFail`: whoever has a connection waits for the loop and has no
  step (`AwaitingDoesNotRun`); whoever has none cannot get one and cannot free the
  loop, which is not its own (`LockedOutByOthers`); the capture itself can only run
  into its timeout (`LockedOutRunsDry`).
- `GuardsStayOpen`, `NoThreadGetsStuck`. The provers know nothing of `ENABLED`, so
  `NoThreadStuck` is taken apart. `HasStep` lists the guards of the actions of
  `Run`. Proved: at every place a handler and its session can be at, one of them is
  open, or the loop is waited for (`ThreadsHaveStep`); what occupies the loop never
  waits for it (`LoopHasStep`); so `GuardsOpen` is an invariant. Not proved: that an
  action whose guard is open can be taken (`GuardsEnable`), which is a fact about
  each action by itself and no longer about reachable states. Given the proved part
  the two are equivalent, so `connection_pool`, which checks `NoThreadStuck`, checks
  `GuardsEnable` as well.
- `EverySessionDoesEnd`, `SharedThingsComeBack`: liveness from the fairness above.
  `StepsLeft` ranks the places of a handler: each step of its own goes down
  (`RunForward`), no step of another changes its slot (`SlotKept`), and an answer
  with an exit outstanding is the last place. What occupies the loop goes down
  the rank until the loop is free (`LoopIsFreed`), so the loop is free again and
  again (`[]<>LoopFree`), so strong fairness dispatches the exits that wait for it
  (`ExitIsDispatched`), so a session goes down the rank to its end
  (`SessionAdvances`). The one hypothesis is `[]GuardsEnable`.

**`ReadModelsProofs`** (any number of readers and writers, failures, restarts):
`AnswersKeepToAccount`, `UnmatchedListedWhole` and `SplitTakesTwoResolutions`, on
top of `CaptureServiceProofs`. A read takes several statements and the rows change
between them, so the invariant is about history: where a row, a chunk, a
commitment or a pending re-filing names an account, its note has been under
that account (`Filed`), and so has what a reader holds (`RInv`). A note that
shows two accounts has been under both, whoever looks and whatever failed.

**`SessionsProofs`** (any timeouts, any number of overlapping requests):
`EndIsFinal` and `IdleTimeoutHolds` from one invariant,
and `SessionsInUseStay`.
`Times` relates the stored times to the history: `last_seen` never passes
`used_at`, although an overlapping request may set it back, so the idle timeout
errs on the early side only. How early is the content of `NotSetBack`: never
behind `alone_at`, as a request that is alone reads the clock after all that were
let in before, and whoever is let in later reads it after that.

**`RateLimiterProofs`, `LoginLockoutProofs`** (any limits, any number of handlers):

- `EntriesAreReal` in both, whatever overlaps: nobody is refused for requests or
  failures that did not happen. What a thread holds is a copy that may be
  written back late, so the invariant speaks of copies as well; in the lockout
  a copy counts only while its state object is the one in use
  (`CopiesAreFailures`).
- `LimitHolds`, `RefusalsAreDue`, `LockoutComesInTime`, `RefusalsAreTimely`: of a
  request that is alone, whatever overlaps before and after. Two that are inside
  together have met (`Apart`), so while a handler holds a copy, no request that is
  alone adds to the history; a copy, when taken, misses no such entry of its
  window, hence none when it is written back (`Faithful`, `CopiesAreComplete`),
  and the window never loses one before its time (`AllListed`). In the lockout a
  copy of a forgiven state object may be bound late; all entries are forgiven
  then. The limit for every minute follows by counting: a minute that contains
  the new entry holds nothing beside it, of those that were alone, but entries of
  the list that was found short of the limit (`AdmitCounts`).

**`DueCommitmentsProofs`** (any notes of any length, any calendar and window):

- `MatchedOnlyByName`; `AsksAreKept` (each position outside the stops lies in
  exactly one clause: `ClauseAround`, `ClausesDisjoint`); `OnlyMetAreListed`,
  `EveryoneIsListed` (in the plain form the separators are exactly the `and`s,
  and no company is found before the last name: `PlainNamesEnd`).
- `NamedDaysAreListed` (window of a week or more), `WeekdaysAreNext`,
  `ListedStays`. `DaysAhead` lies in `1..7` and hits the weekday, and no day in
  between does.
- Least elements of sets of numbers come from the well-foundedness of `<` on the
  naturals (`MinIsLeast`, `MaxExists`).

**`WebClientProofs`** (any sessions, items and number of calls, any length of a
conversation): `StaysSignedIn`, `SettledStayOff`, `TurnsStayPaired`,
`NothingEverHangs`.

- The bag of calls has no bound here, so the lemmas say what sending, answering
  and leaving a page do to it (`Added`, `Removed`, `Unmounted`, `Started`).
  `Left` adds up the copies of calls that become equal; the invariant counts
  only the calls of the page on screen, so that sum is never needed.
- `PageRight`: the calls of a page are ones it sends itself. `ItemsRight`: an
  answer on its way agrees with the server on what is closed, and a list on its
  way shows something settled only if it was out when the page was told.
  `ChatRight`: on a page with a conversation at most one question is out, a single
  copy of it, and it is the last turn.
- `StaysSignedIn` from `RefusedRight`: the session of a call that got a 401 is
  not accepted and never will be, as tokens are not handed out twice.

Every property of a passing run is stated by a theorem. Model-checked only is
`GuardsEnable`, the hypothesis of three theorems about the pool, which speaks of
`ENABLED`: TLC checks it on the instance of `connection_pool`, and with it that
`EverySessionEnds` needs no hypothesis there. What TLC alone shows beyond that is
that the documented sentences of the four violated runs fail, and that every slip
below is noticed.

## Slips

Each property is checked to be one the code could break. A definition `X_Slip`
stands beside `X` and is what a plausible slip would have made of it; with it in
the place of `X`, TLC finds the property violated under the same configuration.

| Run | Property | Slip |
|---|---|---|
| `capture_safety` | `TypeOK` | `ChunkAccount_None` (CaptureService) |
| `capture_safety` | `NullIffUnmatched` | `Moved_Not` (CaptureService) |
| `capture_safety` | `NoOrphanChunk` | `CaptureFlush_IndexFirst` (CaptureService) |
| `capture_safety` | `ThreadAgreement` | `Dirtied_OpenOnly` (CaptureService) |
| `capture_safety` | `StatusesOnlyAdvance` | `Moved_WholeRow` (CaptureService) |
| `capture_safety` | `ThreadLandsWhole` | `CaptureRefresh_LateThread` (CaptureService) |
| `capture_safety` | `InteractionLogSpec` | `Dirtied_OpenOnly` (CaptureService) |
| `capture_safety` | `CapturesNeverContend` | `LoopFree_Threaded` (CaptureService) |
| `capture_safety` | `OvertakingFails` | `LoopFree_Threaded` (CaptureService) |
| `connection_pool` | `PoolTypeOK` | `Available_Unbounded` (ConnectionPool) |
| `connection_pool` | `IndexFollowsResolution` | `LoopFree_Threaded` (CaptureService) |
| `connection_pool` | `EverySessionEnds` | `PoolTimesOut_Never` (ConnectionPool) |
| `connection_pool` | `NoThreadStuck` | `TimesOut_Never` (CaptureService) |
| `connection_pool` | `OnlyTheLoopDeadlocks` | `Rollback_Not` (CaptureService) |
| `connection_pool` | `LockedOutFails` | `DispatchExit_ByWorker` (ConnectionPool) |
| `rate_limiter` | `WithinLimitAlone` | `Full_OneMore` (RateLimiter) |
| `rate_limiter` | `RefusedOnlyWhenSpent` | `Recent_Inclusive` (RateLimiter) |
| `rate_limiter` | `EntriesAreAdmissions` | `WriteWindow_AppendFirst` (RateLimiter) |
| `login_lockout` | `SpentMeansLockedAlone` | `Recent_Exclusive` (LoginLockout) |
| `login_lockout` | `RefusedWhenDue` | `Spent_OneEarly` (LoginLockout) |
| `login_lockout` | `EntriesAreFailures` | `CompareRight_KeepsState` (LoginLockout) |
| `sessions` | `ActiveStays` | `Expired_OneEarly` (Sessions) |
| `sessions` | `EndedStaysEnded` | `Touch_WriteBack` (Sessions) |
| `sessions` | `IdleLimit` | `Expired_Absolute` (Sessions) |
| `due_commitments` | `NamedDayListed` | `DueSoon_WindowExclusive` (DueCommitments) |
| `due_commitments` | `WeekdayIsNext` | `DaysAhead_SameDay` (NoteExtraction) |
| `due_commitments` | `MatchedByName` | `FindAccount_First` (NoteExtraction) |
| `due_commitments` | `EveryAskKept` | `Asks_FirstOnly` (NoteExtraction) |
| `due_commitments` | `AttendeesWereMet` | `ClauseEnd_OfNote` (NoteExtraction) |
| `due_commitments` | `EveryoneMetIsListed` | `NamesEnd_WithCompany` (NoteExtraction) |
| `due_commitments` | `ListedUntilComplete` | `DueSoon_AfterToday` (DueCommitments) |
| `read_models` | `OwnHistoryOnly` | `Tagged_Anywhere` (ReadModels) |
| `read_models` | `UnmatchedShownWhole` | `CaptureRefresh_LateThread` (CaptureService) |
| `read_models` | `SplitOnlyIfResolvedTwice` | `Dirtied_OpenOnly` (CaptureService) |
| `web_client` | `SettledStaysOff` | `Without_Nothing` (WebClient) |
| `web_client` | `TurnsPaired` | `FormFree_Always` (WebClient) |
| `web_client` | `NothingHangs` | `Failed_NoFinally` (WebClient) |
| `web_client` | `KeptSignedIn` | `SignsOut_OnAnyError` (WebClient) |

## What is not modelled

- The Bedrock client's prompts and parsing, and the pseudo-embedding: text
  processing without state. That an extraction may raise after the flush is
  modelled.
- In notes: `&` as a separator of names, line breaks, the spelling of the
  company, and the spelling of words altogether.
- Attendees beside the writers of `CaptureService`: written once with their note,
  never changed. Who they are is in `DueCommitments`.
- Stakeholders of a brief and the wording of answers.
- Growth of the in-memory dicts: nothing in the code bounds it.
- Creating the Chroma client twice from two threads: what two clients of one
  directory do is the library's business.
- `GET /accounts`, wiring, schemas, settings, the seed script, rendering.

## Plan

Done in this order, because the writes carry the system's state: `CaptureService`
with `InteractionLog`, then `Sessions`, `LoginLockout`, `RateLimiter`,
`DueCommitments`, then `ReadModels` and `WebClient`, then `ConnectionPool` around
`CaptureService`, and `NoteExtraction` under `DueCommitments`.

What could follow:

1. The sentence of `AuthContext.tsx:8` as a run of its own over `WebClient`.
2. `ResolvedOnce` and `ThreadAgreement` for a corrected `resolve_customer`
   (a conditional UPDATE), to show that one change repairs both.
