----------------------------- MODULE WebClient -----------------------------
(***************************************************************************)
(* One browser tab of the web client, its calls in flight, and what the    *)
(* server knows of its sessions and lists (frontend/src/auth,              *)
(* frontend/src/api/client.ts, frontend/src/features).                     *)
(*                                                                         *)
(* A call is served at any moment after it was sent and its answer is      *)
(* processed at any moment after that, or it fails: calls overtake each    *)
(* other.  A page that is left forgets its state and ignores the answers   *)
(* to its calls, except that a 401 still reaches handleUnauthenticated.    *)
(***************************************************************************)
EXTENDS Naturals, Sequences, Bags

CONSTANTS
    Tokens,       \* session tokens create_session hands out
    NoToken,      \* the browser holds no cookie
    Commitments,  \* what the due list shows while it is open
    Notes,        \* what the unmatched list shows while it is open
    NoItem,       \* the call is about no listed item
    MaxCalls,     \* bound: the user starts nothing while so many calls are out
    MaxTurns      \* bound: length of a conversation on a page

ASSUME TabAssumption ==
    /\ NoToken \notin Tokens
    /\ NoItem \notin Commitments \cup Notes
    /\ MaxCalls \in Nat /\ MaxTurns \in Nat

VARIABLES
    isAuthenticated,  \* the tab's belief
    cookie,           \* the session cookie the browser sends
    sessions,         \* tokens the server accepts
    open,             \* open commitments and unmatched notes on the server
    closed,           \* completed commitments and matched notes
    view,             \* the page on screen and its state
    calls,            \* bag of the calls in flight
    settled,          \* history: items this tab was told are closed
    raced             \* history: those of them told while a load was out

vars == <<isAuthenticated, cookie, sessions, open, closed, view, calls,
          settled, raced>>

server == <<sessions, open, closed>>

-----------------------------------------------------------------------------
(* Pages and calls                                                         *)

Pages == {"home", "capture", "unmatched", "ask", "briefs", "commitments"}

LoadOf == [home |-> {"due"}, commitments |-> {"due"}, unmatched |-> {"unmatched"}]

\* The calls a page sends when it is mounted.
MountCalls(p) == (IF p \in DOMAIN LoadOf THEN LoadOf[p] ELSE {})
                 \cup (IF p \in {"home", "unmatched", "result"} THEN {"accounts"} ELSE {})

\* What the form of a page sends.
Sends(p) == CASE p = "login" -> {"login"}
              [] p = "home" -> {"ask", "note"}
              [] p = "ask" -> {"ask"}
              [] p = "briefs" -> {"brief"}
              [] p = "capture" -> {"note"}
              [] p = "result" -> {"resolve"}
              [] OTHER -> {}

\* The calls made through useAuthAwareCall; useAccounts does without.
Aware == {"due", "unmatched", "complete", "resolve", "ask", "note", "brief"}

Opened(p) == [page |-> p, shown |-> {}, loading |-> p \in DOMAIN LoadOf,
              banner |-> FALSE, picker |-> "loading", turns |-> <<>>, asking |-> FALSE]

CallBy(token, op, item, n) ==
    [op |-> op, item |-> item, turn |-> n, token |-> token, mounted |-> TRUE,
     status |-> "sent", list |-> {}]

Call(op, item) == SetToBag({CallBy(cookie, op, item, 0)})

InFlight == BagToSet(calls)

Waiting(ops) == \E c \in InFlight : c.mounted /\ c.op \in ops

Room == BagCardinality(calls) < MaxCalls

Left(bag) == BagOfAll(LAMBDA c : [c EXCEPT !.mounted = FALSE], bag)

\* The page p comes on screen; "rest" are the calls still out.
Mount(p, rest, token, ops) ==
    /\ view' = [Opened(p) EXCEPT !.asking = ops \cap Sends(p) # {}]
    /\ calls' = Left(rest) (+) SetToBag({CallBy(token, op, NoItem, 0) : op \in ops})
    /\ raced' = {}

Init ==
    /\ isAuthenticated = FALSE
    /\ cookie \in {NoToken} \cup Tokens
    /\ sessions \in SUBSET ({cookie} \ {NoToken})
    /\ open = {} /\ closed = {}
    /\ view = Opened("login")
    /\ calls = EmptyBag
    /\ settled = {} /\ raced = {}

-----------------------------------------------------------------------------
(* What the user does                                                      *)

Unmoved == UNCHANGED <<isAuthenticated, cookie, server, settled>>

\* A form's button is disabled while its call is out.
FormFree_Always == TRUE
FormFree == ~view.asking

\* LoginPage.handleSubmit, QAChatPage.ask, HomePage.send, BriefPage.runBrief,
\* CapturePage.submitTyped and submitCard.
Submit ==
    /\ FormFree
    /\ Room
    /\ Len(view.turns) < MaxTurns
    /\ \E op \in Sends(view.page) \ {"resolve"} :
          LET n == Len(view.turns) + 1
              chats == view.page \in {"home", "ask"}
          IN  /\ view' = [view EXCEPT !.asking = TRUE,
                     !.turns = IF chats THEN Append(@, <<"rep", n>>) ELSE @]
              /\ calls' = calls (+) SetToBag({CallBy(cookie, op, NoItem, n)})
    /\ UNCHANGED raced
    /\ Unmoved

\* A navigation link, a card of the to-do list, "Capture another".
Visit(p) ==
    /\ isAuthenticated
    /\ view.page # p
    /\ Room
    /\ \/ Mount(p, calls, cookie, MountCalls(p))
       \/ /\ p = "briefs" /\ view.page = "home"
          /\ view.shown # {} /\ view.picker = "ready"
          /\ Mount(p, calls, cookie, {"brief"})
    /\ Unmoved

\* The Retry of the error banner is load(); only CommitmentsDuePage hides its
\* list meanwhile.
Retry ==
    /\ view.banner
    /\ Room
    /\ \E op \in LoadOf[view.page] : calls' = calls (+) Call(op, NoItem)
    /\ view' = [view EXCEPT !.banner = FALSE,
                            !.loading = @ \/ view.page = "commitments"]
    /\ UNCHANGED raced
    /\ Unmoved

RetryAccounts ==
    /\ view.picker = "failed"
    /\ view.page = "unmatched" \/ (view.page = "result" /\ view.shown # {})
    /\ Room
    /\ calls' = calls (+) Call("accounts", NoItem)
    /\ view' = [view EXCEPT !.picker = "loading"]
    /\ UNCHANGED raced
    /\ Unmoved

\* "Mark complete", or the choice of a customer for an unmatched note.
Settle ==
    /\ ~view.loading
    /\ Room
    /\ \E i \in view.shown :
          \/ /\ view.page = "commitments"
             /\ calls' = calls (+) Call("complete", i)
             /\ UNCHANGED view
          \/ /\ view.page \in {"unmatched", "result"} /\ view.picker = "ready"
             /\ view.page = "result" => FormFree
             /\ calls' = calls (+) Call("resolve", i)
             /\ view' = [view EXCEPT !.asking = view.page = "result"]
    /\ UNCHANGED raced
    /\ Unmoved

SignOut ==
    /\ isAuthenticated
    /\ Room
    /\ calls' = calls (+) Call("logout", NoItem)
    /\ UNCHANGED <<view, raced>>
    /\ Unmoved

-----------------------------------------------------------------------------
(* What the server does                                                    *)

Become(c, d) == calls' = (calls (-) SetToBag({c})) (+) SetToBag({d})

FreshTokens == Tokens \ (sessions \cup {cookie} \cup {c.token : c \in InFlight})

Unborn == (Commitments \cup Notes) \ (open \cup closed)

\* require_session, then the operation.
Serve(c) ==
    /\ c.status = "sent"
    /\ \/ /\ c.op = "login"
          /\ \/ \E t \in FreshTokens :
                   /\ sessions' = sessions \cup {t}
                   /\ Become(c, [c EXCEPT !.status = "ok", !.token = t])
             \/ Become(c, [c EXCEPT !.status = "refused"]) /\ UNCHANGED sessions
          /\ UNCHANGED <<open, closed>>
       \/ /\ c.op # "login" /\ c.token \notin sessions
          /\ Become(c, [c EXCEPT !.status = "401"])
          /\ UNCHANGED server
       \/ /\ c.op = "logout" /\ c.token \in sessions
          /\ sessions' = sessions \ {c.token}
          /\ Become(c, [c EXCEPT !.status = "ok"])
          /\ UNCHANGED <<open, closed>>
       \/ /\ c.op \in {"due", "unmatched"} /\ c.token \in sessions
          /\ Become(c, [c EXCEPT !.status = "ok", !.list = open \cap
                           (IF c.op = "due" THEN Commitments ELSE Notes)])
          /\ UNCHANGED server
       \/ /\ c.op \in {"complete", "resolve"} /\ c.token \in sessions
          /\ open' = open \ {c.item} /\ closed' = closed \cup {c.item}
          /\ \/ Become(c, [c EXCEPT !.status = "ok"])
             \/ /\ c.op = "resolve" /\ c.item \in closed
                /\ Become(c, [c EXCEPT !.status = "refused"])
          /\ UNCHANGED sessions
       \/ /\ c.op = "note" /\ c.token \in sessions
          /\ \E found \in SUBSET (Unborn \cap Commitments),
                i \in (Unborn \cap Notes) \cup {NoItem} :
                /\ open' = open \cup found \cup ({i} \ {NoItem})
                /\ Become(c, [c EXCEPT !.status = "ok", !.item = i])
          /\ UNCHANGED <<sessions, closed>>
       \/ /\ c.op \in {"accounts", "ask", "brief"} /\ c.token \in sessions
          /\ Become(c, [c EXCEPT !.status = "ok"])
          /\ UNCHANGED server
    /\ UNCHANGED <<isAuthenticated, cookie, view, settled, raced>>

\* The network fails before or after the call is served, or the server
\* answers 429 or 503.
Fail(c) ==
    /\ c.status # "failed"
    /\ Become(c, [c EXCEPT !.status = "failed"])
    /\ UNCHANGED <<isAuthenticated, cookie, server, view, settled, raced>>

\* A session times out or the server restarts; other clients capture,
\* complete and resolve.
Elsewhere ==
    /\ \/ \E t \in sessions : sessions' = sessions \ {t} /\ UNCHANGED <<open, closed>>
       \/ \E i \in Unborn : open' = open \cup {i} /\ UNCHANGED <<sessions, closed>>
       \/ \E i \in open : /\ open' = open \ {i} /\ closed' = closed \cup {i}
                          /\ UNCHANGED sessions
    /\ UNCHANGED <<isAuthenticated, cookie, view, calls, settled, raced>>

-----------------------------------------------------------------------------
(* What the tab does with an answer                                        *)

\* useAuthAwareCall, and the finally clause of logout.
SignsOut_OnAnyError(c) == c.op = "logout" \/ (c.op \in Aware /\ c.status # "ok")
SignsOut(c) == c.op = "logout" \/ (c.op \in Aware /\ c.status = "401")

\* The page leaves out what it has settled.
Without_Nothing(shown, i) == shown
Without(shown, i) == shown \ {i}

\* A page's state after the success of its call.
Succeeded(c) ==
    CASE c.op \in {"due", "unmatched"} ->
            [view EXCEPT !.shown = c.list, !.loading = FALSE]
      [] c.op \in {"complete", "resolve"} ->
            [view EXCEPT !.shown = Without(@, c.item), !.asking = FALSE]
      [] c.op = "accounts" -> [view EXCEPT !.picker = "ready"]
      [] c.op \in {"ask", "note"} ->
            [view EXCEPT !.asking = FALSE, !.turns = Append(@, <<"system", c.turn>>),
                         !.banner = @ /\ c.op = "ask"]
      [] OTHER -> [view EXCEPT !.asking = FALSE]

\* And after its failure: an error message, with a Retry that loads on the
\* pages that have a list.
Failed_NoFinally(c) == [view EXCEPT !.banner = view.page \in DOMAIN LoadOf]
Failed(c) ==
    CASE c.op \in {"due", "unmatched"} ->
            [view EXCEPT !.banner = TRUE, !.loading = view.page = "unmatched" /\ @]
      [] c.op \in {"complete", "resolve"} ->
            [view EXCEPT !.banner = view.page # "result", !.asking = FALSE]
      [] c.op = "accounts" -> [view EXCEPT !.picker = "failed"]
      [] c.op \in {"ask", "note"} /\ view.turns # <<>> ->
            [view EXCEPT !.asking = FALSE, !.turns = SubSeq(@, 1, Len(@) - 1)]
      [] OTHER -> [view EXCEPT !.asking = FALSE]

\* The list is loaded again (load() clears its error) after a note was
\* captured on the home page, and the result page follows one captured on the
\* capture page.
Follow(c, rest) ==
    IF c.op = "note" /\ c.status = "ok" /\ view.page = "capture"
    THEN /\ view' = [Opened("result") EXCEPT !.shown = {c.item} \ {NoItem}]
         /\ calls' = Left(rest) (+) Call("accounts", NoItem)
         /\ raced' = {}
    ELSE /\ view' = IF c.status = "ok" THEN Succeeded(c) ELSE Failed(c)
         /\ calls' = IF c.op = "note" /\ c.status = "ok"
                     THEN rest (+) Call("due", NoItem) ELSE rest
         /\ raced' = IF /\ c.op \in {"complete", "resolve"} /\ c.status = "ok"
                        /\ Waiting({"due", "unmatched"})
                     THEN raced \cup {c.item} ELSE raced

Receive(c) ==
    LET rest == calls (-) SetToBag({c})
        entered == c.op = "login" /\ c.status = "ok"
    IN  /\ c.status # "sent"
        /\ cookie' = CASE entered -> c.token
                       [] c.op = "logout" /\ c.status = "ok" -> NoToken
                       [] OTHER -> cookie
        /\ isAuthenticated' = (entered \/ (isAuthenticated /\ ~SignsOut(c)))
        /\ settled' = IF /\ c.mounted /\ c.status = "ok"
                         /\ c.op \in {"complete", "resolve"}
                      THEN settled \cup {c.item} ELSE settled
        /\ IF entered THEN Mount("home", rest, c.token, MountCalls("home"))
           ELSE IF isAuthenticated /\ SignsOut(c) THEN Mount("login", rest, cookie, {})
           ELSE IF c.mounted THEN Follow(c, rest)
           ELSE calls' = rest /\ UNCHANGED <<view, raced>>
        /\ UNCHANGED server

Next ==
    \/ Submit \/ Retry \/ RetryAccounts \/ Settle \/ SignOut \/ Elsewhere
    \/ \E p \in Pages : Visit(p)
    \/ \E c \in InFlight : Serve(c) \/ Fail(c) \/ Receive(c)

Spec == Init /\ [][Next]_vars

-----------------------------------------------------------------------------
(* Properties                                                              *)

\* What the page was told is completed or resolved does not come back on the
\* screen, however calls overtake each other and pages change, unless a load
\* of the same page was out when the page was told.
SettledStaysOff == view.shown \cap settled \subseteq raced

\* A tab whose session the server still accepts is signed out by nothing but
\* the user's own sign-out or an answer to a call of an earlier session: not
\* by a failure, and not by a call that is only slow (AuthContext.tsx:14-21).
KeptSignedIn ==
    [][\A c \in InFlight :
          (Receive(c) /\ isAuthenticated /\ ~isAuthenticated' /\ cookie \in sessions)
              => c.op = "logout" \/ c.token # cookie]_vars

\* Every answer in a conversation stands under its own question, and the only
\* question without an answer is the one being asked: a failed call takes back
\* its own text and no other's.
TurnsPaired ==
    \A j \in DOMAIN view.turns :
        LET turn == view.turns[j]
        IN  \/ turn[1] = "rep" /\ j = Len(view.turns) /\ view.asking
            \/ turn[1] = "rep" /\ j < Len(view.turns)
                  /\ view.turns[j + 1] = <<"system", turn[2]>>
            \/ turn[1] = "system" /\ j > 1 /\ view.turns[j - 1] = <<"rep", turn[2]>>

\* "Loading" and a disabled form are on the screen only while a call of this
\* page is out, or where the page offers a Retry.
NothingHangs ==
    /\ (view.loading /\ ~view.banner) => Waiting(LoadOf[view.page])
    /\ (view.page \in {"home", "unmatched", "result"} /\ view.picker = "loading")
          => Waiting({"accounts"})
    /\ view.asking => Waiting(Sends(view.page))
=============================================================================
