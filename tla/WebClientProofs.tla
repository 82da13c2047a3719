--------------------------- MODULE WebClientProofs ---------------------------
(***************************************************************************)
(* Theorems about WebClient, for every set of session tokens and of items  *)
(* and every number of calls in flight.                                    *)
(***************************************************************************)
EXTENDS WebClient, TLAPS

USE TabAssumption

Items == Commitments \cup Notes

Ops == {"login", "logout", "due", "unmatched", "accounts", "complete",
        "resolve", "ask", "note", "brief"}

CallRecords == [op : Ops, item : Items \cup {NoItem}, turn : Nat,
                token : Tokens \cup {NoToken}, mounted : BOOLEAN,
                status : {"sent", "ok", "refused", "401", "failed"},
                list : SUBSET Items]

CallType == {c \in CallRecords : c.op \in {"complete", "resolve"} => c.item \in Items}

ViewType == [page : Pages \cup {"login", "result"}, shown : SUBSET Items,
             loading : BOOLEAN, banner : BOOLEAN,
             picker : {"loading", "ready", "failed"},
             turns : Seq({"rep", "system"} \X Nat), asking : BOOLEAN]

\* Only calls of the page on screen are counted: Left keeps the number of the
\* others, but nothing here depends on it.
Counted(bag) ==
    /\ BagToSet(bag) \subseteq CallType
    /\ \A c \in BagToSet(bag) : c.mounted => bag[c] \in Nat \ {0}

TypeInv ==
    /\ isAuthenticated \in BOOLEAN
    /\ cookie \in Tokens \cup {NoToken}
    /\ open \subseteq Items /\ closed \subseteq Items
    /\ view \in ViewType
    /\ Counted(calls)

Mounted == {c \in InFlight : c.mounted}

\* A page has no calls out but those it sends itself.
PageOps(p) == MountCalls(p) \cup Sends(p) \cup {"logout"}
              \cup (IF p = "commitments" THEN {"complete"} ELSE {})
              \cup (IF p = "unmatched" THEN {"resolve"} ELSE {})

PageRight ==
    /\ \A c \in Mounted : c.op \in PageOps(view.page)
    /\ view.banner \/ view.loading => view.page \in DOMAIN LoadOf
    /\ view.page # "login" => isAuthenticated

\* What an answer on its way says of an item agrees with the server.
AnswerRight(c) ==
    /\ c.op \in {"complete", "resolve"} /\ c.status = "ok" => c.item \in closed
    /\ c.op \in {"due", "unmatched"} => c.list \cap settled \subseteq raced
    /\ c.op = "note" /\ c.status = "ok" => c.item \notin settled

ItemsRight ==
    /\ open \cap closed = {}
    /\ settled \subseteq closed
    /\ \A c \in Mounted : AnswerRight(c)

\* One question at a time, and it is the last turn.
Chats == {"home", "ask"}
Question(c) == c.op \in {"ask", "note"}

ChatRight ==
    /\ view.turns # <<>> => view.page \in Chats
    /\ view.page \in Chats =>
          /\ view.asking => /\ view.turns # <<>>
                            /\ view.turns[Len(view.turns)] = <<"rep", Len(view.turns)>>
          /\ \A c \in Mounted : Question(c) =>
                /\ view.asking
                /\ c.turn = Len(view.turns)
                /\ calls[c] = 1
                /\ \A d \in Mounted : Question(d) => d = c

IInv == /\ TypeInv
        /\ PageRight
        /\ ItemsRight
        /\ SettledStaysOff
        /\ NothingHangs
        /\ ChatRight
        /\ TurnsPaired

-----------------------------------------------------------------------------
(* Bags of calls                                                           *)

LEMMA Added ==
    ASSUME NEW bag, Counted(bag), NEW d \in CallType
    PROVE  LET more == bag (+) SetToBag({d})
           IN  /\ Counted(more)
               /\ BagToSet(more) = BagToSet(bag) \cup {d}
               /\ \A c \in BagToSet(bag) : c # d /\ c.mounted => more[c] = bag[c]
               /\ d \notin BagToSet(bag) => more[d] = 1
<1> DEFINE more == bag (+) SetToBag({d})
<1>1. BagToSet(more) = BagToSet(bag) \cup {d}
  BY DEF BagToSet, SetToBag, (+)
<1>2. \A c \in BagToSet(bag) : c # d /\ c.mounted => more[c] = bag[c]
  BY DEF BagToSet, SetToBag, (+), Counted
<1>3. d \notin BagToSet(bag) => more[d] = 1
  BY DEF BagToSet, SetToBag, (+)
<1>4. d \in BagToSet(bag) => more[d] = bag[d] + 1
  BY DEF BagToSet, SetToBag, (+)
<1> HIDE DEF more
<1>5. Counted(more)
  <2>1. BagToSet(more) \subseteq CallType
    BY <1>1 DEF Counted
  <2>2. ASSUME NEW c \in BagToSet(more), c.mounted
        PROVE  more[c] \in Nat \ {0}
    <3>1. CASE c \in BagToSet(bag) /\ c # d
      BY <3>1, <2>2, <1>2 DEF Counted
    <3>2. CASE c = d /\ d \in BagToSet(bag)
      BY <3>2, <2>2, <1>4 DEF Counted
    <3>3. CASE c = d /\ d \notin BagToSet(bag)
      BY <3>3, <1>3
    <3> QED BY <1>1, <3>1, <3>2, <3>3
  <2> QED BY <2>1, <2>2 DEF Counted
<1> QED BY <1>1, <1>2, <1>3, <1>5 DEF more

LEMMA Removed ==
    ASSUME NEW bag, Counted(bag), NEW c \in BagToSet(bag)
    PROVE  LET rest == bag (-) SetToBag({c})
           IN  /\ Counted(rest)
               /\ BagToSet(rest) \subseteq BagToSet(bag)
               /\ \A d \in BagToSet(bag) : d # c /\ d.mounted =>
                     d \in BagToSet(rest) /\ rest[d] = bag[d]
               /\ c.mounted /\ bag[c] = 1 => c \notin BagToSet(rest)
<1> DEFINE rest == bag (-) SetToBag({c})
<1>1. BagToSet(rest) = {d \in BagToSet(bag) :
                          (IF d \in {c} THEN bag[d] - 1 ELSE bag[d]) > 0}
  BY DEF BagToSet, SetToBag, (-)
<1>2. \A d \in BagToSet(rest) : rest[d] = IF d \in {c} THEN bag[d] - 1 ELSE bag[d]
  BY DEF BagToSet, SetToBag, (-)
<1> HIDE DEF rest
<1>3. \A d \in BagToSet(bag) : d # c /\ d.mounted =>
         d \in BagToSet(rest) /\ rest[d] = bag[d]
  BY <1>1, <1>2 DEF Counted
<1>4. c.mounted /\ bag[c] = 1 => c \notin BagToSet(rest)
  BY <1>1
<1>5. Counted(rest)
  BY <1>1, <1>2 DEF Counted
<1> QED BY <1>1, <1>3, <1>4, <1>5 DEF rest

\* A page that is left has no mounted call.
LEMMA Unmounted ==
    ASSUME NEW bag, BagToSet(bag) \subseteq CallType
    PROVE  /\ Counted(Left(bag))
           /\ \A c \in BagToSet(Left(bag)) : ~c.mounted
<1>1. BagToSet(Left(bag)) = {[c EXCEPT !.mounted = FALSE] : c \in BagToSet(bag)}
  BY DEF Left, BagOfAll, BagToSet
<1>2. \A c \in CallType : /\ [c EXCEPT !.mounted = FALSE] \in CallType
                          /\ ~[c EXCEPT !.mounted = FALSE].mounted
  BY DEF CallType, CallRecords
<1> QED BY <1>1, <1>2 DEF Counted

LEMMA Started ==
    ASSUME NEW bag, Counted(bag), \A c \in BagToSet(bag) : ~c.mounted,
           NEW fresh \in SUBSET CallType, \A c \in fresh : c.mounted
    PROVE  LET more == bag (+) SetToBag(fresh)
           IN  /\ Counted(more)
               /\ {c \in BagToSet(more) : c.mounted} = fresh
               /\ \A c \in fresh : more[c] = 1
<1> DEFINE more == bag (+) SetToBag(fresh)
<1>1. BagToSet(more) = BagToSet(bag) \cup fresh
  BY DEF BagToSet, SetToBag, (+)
<1>2. \A c \in fresh : more[c] = 1
  <2> TAKE c \in fresh
  <2>1. c \notin BagToSet(bag)
    OBVIOUS
  <2>2. more[c] = 0 + 1
    BY <2>1 DEF BagToSet, SetToBag, (+)
  <2> QED BY <2>2
<1>3. Counted(more)
  BY <1>1, <1>2 DEF Counted
<1> QED BY <1>1, <1>2, <1>3

-----------------------------------------------------------------------------
(* The steps that send one call                                            *)

\* A call on its way out says nothing of an item, so it disturbs only what
\* its page shows of it.
LEMMA SendKeeps ==
    ASSUME IInv, NEW d \in CallType,
           d.mounted, d.status = "sent", d.list = {}, d.op \in PageOps(view.page),
           calls' = calls (+) SetToBag({d}), Unmoved, raced' = raced,
           view' \in ViewType, view'.shown = view.shown, view'.page = view.page,
           view'.banner \/ view'.loading => view.page \in DOMAIN LoadOf
    PROVE  /\ TypeInv' /\ PageRight' /\ ItemsRight' /\ SettledStaysOff'
           /\ Mounted' = Mounted \cup {d}
           /\ \A c \in Mounted : c # d => calls'[c] = calls[c]
           /\ d \notin Mounted => calls'[d] = 1
           /\ \A ops : Waiting(ops) \/ d.op \in ops => Waiting(ops)'
<1>1. /\ Counted(calls')
      /\ BagToSet(calls') = BagToSet(calls) \cup {d}
      /\ \A c \in BagToSet(calls) : c # d /\ c.mounted => calls'[c] = calls[c]
      /\ d \notin BagToSet(calls) => calls'[d] = 1
  <2>1. Counted(calls)
    BY DEF IInv, TypeInv
  <2> QED BY <2>1, Added
<1>2. Mounted' = Mounted \cup {d}
  BY <1>1 DEF Mounted, InFlight
<1>3. TypeInv'
  BY <1>1 DEF IInv, TypeInv, Counted, Unmoved, server
<1>4. PageRight'
  BY <1>2 DEF IInv, PageRight, Unmoved
<1>5. ItemsRight'
  BY <1>2 DEF IInv, ItemsRight, AnswerRight, Unmoved, server
<1>6. SettledStaysOff'
  BY DEF IInv, SettledStaysOff, Unmoved
<1>7. \A ops : Waiting(ops) \/ d.op \in ops => Waiting(ops)'
  BY <1>2 DEF Waiting, Mounted
<1> QED BY <1>1, <1>2, <1>3, <1>4, <1>5, <1>6, <1>7 DEF Mounted, InFlight

\* The conversation does not change when no question is asked.
LEMMA NoQuestionKeeps ==
    ASSUME IInv,
           \A c \in Mounted' : Question(c) => c \in Mounted /\ calls'[c] = calls[c],
           view'.turns = view.turns, view'.page = view.page,
           view.page \in Chats => view'.asking = view.asking
    PROVE  ChatRight' /\ TurnsPaired'
<1>1. ChatRight'
  BY DEF IInv, ChatRight
<1>2. TurnsPaired'
  BY DEF IInv, ChatRight, TurnsPaired
<1> QED BY <1>1, <1>2

LEMMA RetryKeeps ==
    ASSUME IInv, Retry
    PROVE  IInv'
<1>1. PICK op \in LoadOf[view.page] : calls' = calls (+) Call(op, NoItem)
  BY DEF Retry
<1> DEFINE d == CallBy(cookie, op, NoItem, 0)
<1>2. view.page \in DOMAIN LoadOf /\ view \in ViewType
  BY DEF Retry, IInv, TypeInv, PageRight
<1>3. op \in {"due", "unmatched"} /\ op \in PageOps(view.page)
  BY <1>2 DEF LoadOf, PageOps, MountCalls
<1>4. d \in CallType /\ d.mounted /\ d.status = "sent" /\ d.list = {} /\ d.op = op
  BY <1>3 DEF CallBy, CallType, CallRecords, Ops, IInv, TypeInv
<1>5. /\ view' \in ViewType /\ view'.shown = view.shown /\ view'.page = view.page
      /\ view'.banner = FALSE
      /\ view'.loading = (view.loading \/ view.page = "commitments")
      /\ view'.turns = view.turns /\ view'.asking = view.asking
      /\ view'.picker = view.picker
  BY <1>2 DEF Retry, ViewType
<1>6. Unmoved /\ raced' = raced /\ calls' = calls (+) SetToBag({d})
  BY <1>1 DEF Retry, Call
<1> HIDE DEF d
<1>7. /\ TypeInv' /\ PageRight' /\ ItemsRight' /\ SettledStaysOff'
      /\ Mounted' = Mounted \cup {d}
      /\ \A c \in Mounted : c # d => calls'[c] = calls[c]
      /\ \A ops : Waiting(ops) \/ op \in ops => Waiting(ops)'
  BY <1>2, <1>3, <1>4, <1>5, <1>6, SendKeeps
<1>8. ChatRight' /\ TurnsPaired'
  BY <1>3, <1>4, <1>5, <1>7, NoQuestionKeeps DEF Question
<1>9. NothingHangs'
  BY <1>1, <1>5, <1>7 DEF IInv, NothingHangs
<1> QED BY <1>7, <1>8, <1>9 DEF IInv

LEMMA RetryAccountsKeeps ==
    ASSUME IInv, RetryAccounts
    PROVE  IInv'
<1> DEFINE d == CallBy(cookie, "accounts", NoItem, 0)
<1>1. d \in CallType /\ d.mounted /\ d.status = "sent" /\ d.list = {} /\ d.op = "accounts"
  BY DEF CallBy, CallType, CallRecords, Ops, IInv, TypeInv
<1>2. /\ view' \in ViewType /\ view'.shown = view.shown /\ view'.page = view.page
      /\ view'.banner = view.banner /\ view'.loading = view.loading
      /\ view'.turns = view.turns /\ view'.asking = view.asking
      /\ "accounts" \in PageOps(view.page)
  BY DEF RetryAccounts, ViewType, IInv, TypeInv, PageOps, MountCalls
<1>3. Unmoved /\ raced' = raced /\ calls' = calls (+) SetToBag({d})
  BY DEF RetryAccounts, Call
<1> HIDE DEF d
<1>4. /\ TypeInv' /\ PageRight' /\ ItemsRight' /\ SettledStaysOff'
      /\ Mounted' = Mounted \cup {d}
      /\ \A c \in Mounted : c # d => calls'[c] = calls[c]
      /\ \A ops : Waiting(ops) \/ "accounts" \in ops => Waiting(ops)'
  BY <1>1, <1>2, <1>3, SendKeeps DEF IInv, PageRight
<1>5. ChatRight' /\ TurnsPaired'
  BY <1>1, <1>2, <1>4, NoQuestionKeeps DEF Question
<1>6. NothingHangs'
  BY <1>2, <1>4 DEF IInv, NothingHangs
<1> QED BY <1>4, <1>5, <1>6 DEF IInv

LEMMA SettleKeeps ==
    ASSUME IInv, Settle
    PROVE  IInv'
<1>1. PICK i \in view.shown :
         \/ /\ view.page = "commitments"
            /\ calls' = calls (+) Call("complete", i)
            /\ UNCHANGED view
         \/ /\ view.page \in {"unmatched", "result"} /\ view.picker = "ready"
            /\ view.page = "result" => FormFree
            /\ calls' = calls (+) Call("resolve", i)
            /\ view' = [view EXCEPT !.asking = view.page = "result"]
  BY DEF Settle
<1>2. PICK op \in {"complete", "resolve"} :
         /\ op = "complete" => view.page = "commitments" /\ view' = view
         /\ op = "resolve" => /\ view.page \in {"unmatched", "result"}
                              /\ view' = [view EXCEPT !.asking = view.page = "result"]
         /\ calls' = calls (+) Call(op, i)
  BY <1>1
<1> DEFINE d == CallBy(cookie, op, i, 0)
<1>3. view \in ViewType /\ i \in Items
  BY DEF IInv, TypeInv, ViewType
<1>4. d \in CallType /\ d.mounted /\ d.status = "sent" /\ d.list = {} /\ d.op = op
  BY <1>3 DEF CallBy, CallType, CallRecords, Ops, IInv, TypeInv
<1>5. /\ view' \in ViewType /\ view'.shown = view.shown /\ view'.page = view.page
      /\ view'.banner = view.banner /\ view'.loading = view.loading
      /\ view'.turns = view.turns /\ view'.picker = view.picker
      /\ view.page \in Chats => view'.asking = view.asking
      /\ view'.asking => view.asking \/ (view.page = "result" /\ op = "resolve")
      /\ op \in PageOps(view.page)
  BY <1>2, <1>3 DEF ViewType, PageOps, Sends, Chats
<1>6. Unmoved /\ raced' = raced /\ calls' = calls (+) SetToBag({d})
  BY <1>2 DEF Settle, Call
<1> HIDE DEF d
<1>7. /\ TypeInv' /\ PageRight' /\ ItemsRight' /\ SettledStaysOff'
      /\ Mounted' = Mounted \cup {d}
      /\ \A c \in Mounted : c # d => calls'[c] = calls[c]
      /\ \A ops : Waiting(ops) \/ op \in ops => Waiting(ops)'
  BY <1>4, <1>5, <1>6, SendKeeps DEF IInv, PageRight
<1>8. ChatRight' /\ TurnsPaired'
  BY <1>4, <1>5, <1>7, NoQuestionKeeps DEF Question
<1>9. NothingHangs'
  <2>1. "resolve" \in Sends("result")
    BY DEF Sends
  <2> QED BY <2>1, <1>5, <1>7 DEF IInv, NothingHangs
<1> QED BY <1>7, <1>8, <1>9 DEF IInv

LEMMA SignOutKeeps ==
    ASSUME IInv, SignOut
    PROVE  IInv'
<1> DEFINE d == CallBy(cookie, "logout", NoItem, 0)
<1>1. d \in CallType /\ d.mounted /\ d.status = "sent" /\ d.list = {} /\ d.op = "logout"
  BY DEF CallBy, CallType, CallRecords, Ops, IInv, TypeInv
<1>2. view' = view /\ view \in ViewType /\ "logout" \in PageOps(view.page)
  BY DEF SignOut, IInv, TypeInv, PageOps
<1>3. Unmoved /\ raced' = raced /\ calls' = calls (+) SetToBag({d})
  BY DEF SignOut, Call
<1> HIDE DEF d
<1>4. /\ TypeInv' /\ PageRight' /\ ItemsRight' /\ SettledStaysOff'
      /\ Mounted' = Mounted \cup {d}
      /\ \A c \in Mounted : c # d => calls'[c] = calls[c]
      /\ \A ops : Waiting(ops) \/ "logout" \in ops => Waiting(ops)'
  BY <1>1, <1>2, <1>3, SendKeeps DEF IInv, PageRight
<1>5. ChatRight' /\ TurnsPaired'
  BY <1>1, <1>2, <1>4, NoQuestionKeeps DEF Question
<1>6. NothingHangs'
  BY <1>2, <1>4 DEF IInv, NothingHangs
<1> QED BY <1>4, <1>5, <1>6 DEF IInv

\* The last turn of a conversation in which nothing is asked is an answer.
LEMMA SubmitKeeps ==
    ASSUME IInv, Submit
    PROVE  IInv'
<1> DEFINE n == Len(view.turns) + 1
           chats == view.page \in {"home", "ask"}
<1>1. PICK op \in Sends(view.page) \ {"resolve"} :
         /\ view' = [view EXCEPT !.asking = TRUE,
               !.turns = IF chats THEN Append(@, <<"rep", n>>) ELSE @]
         /\ calls' = calls (+) SetToBag({CallBy(cookie, op, NoItem, n)})
  BY DEF Submit
<1> DEFINE d == CallBy(cookie, op, NoItem, n)
<1>2. view \in ViewType /\ view.turns \in Seq({"rep", "system"} \X Nat) /\ n \in Nat
  BY DEF IInv, TypeInv, ViewType
<1>3. /\ op \in Ops /\ op \in PageOps(view.page) /\ op \notin {"complete", "resolve"}
      /\ view.page \in Chats => op \in {"ask", "note"}
  BY <1>1, <1>2 DEF Sends, Ops, PageOps, ViewType, Pages, Chats
<1>4. /\ d \in CallType /\ d.mounted /\ d.status = "sent" /\ d.list = {}
      /\ d.op = op /\ d.turn = n
  BY <1>2, <1>3 DEF CallBy, CallType, CallRecords, IInv, TypeInv
<1>5. /\ view'.shown = view.shown /\ view'.page = view.page
      /\ view'.banner = view.banner /\ view'.loading = view.loading
      /\ view'.picker = view.picker /\ view'.asking = TRUE
      /\ view'.turns = IF chats THEN Append(view.turns, <<"rep", n>>) ELSE view.turns
  BY <1>1, <1>2 DEF ViewType
<1>6. view' \in ViewType
  <2>1. Append(view.turns, <<"rep", n>>) \in Seq({"rep", "system"} \X Nat)
    BY <1>2
  <2> QED BY <1>1, <1>2, <2>1 DEF ViewType
<1>7. Unmoved /\ raced' = raced /\ calls' = calls (+) SetToBag({d}) /\ ~view.asking
  BY <1>1 DEF Submit, FormFree
<1> HIDE DEF d
<1>8. /\ TypeInv' /\ PageRight' /\ ItemsRight' /\ SettledStaysOff'
      /\ Mounted' = Mounted \cup {d}
      /\ \A c \in Mounted : c # d => calls'[c] = calls[c]
      /\ d \notin Mounted => calls'[d] = 1
      /\ \A ops : Waiting(ops) \/ op \in ops => Waiting(ops)'
  BY <1>3, <1>4, <1>5, <1>6, <1>7, SendKeeps DEF IInv, PageRight
<1>9. NothingHangs'
  BY <1>1, <1>5, <1>8 DEF IInv, NothingHangs
<1>10. ChatRight' /\ TurnsPaired'
  <2>1. CASE view.page \notin Chats
    <3>1. view'.turns = <<>> /\ view'.page \notin Chats
      BY <2>1, <1>5 DEF IInv, ChatRight, Chats
    <3> QED BY <3>1 DEF ChatRight, TurnsPaired
  <2>2. CASE view.page \in Chats
    <3>1. \A c \in Mounted : ~Question(c)
      BY <2>2, <1>7 DEF IInv, ChatRight
    <3>2. d \notin Mounted
      BY <3>1, <2>2, <1>3, <1>4 DEF Question
    <3>3. /\ view'.turns = Append(view.turns, <<"rep", n>>)
          /\ Len(view'.turns) = n /\ view'.turns[n] = <<"rep", n>>
          /\ \A j \in DOMAIN view.turns : view'.turns[j] = view.turns[j]
          /\ DOMAIN view.turns = 1 .. (n - 1) /\ DOMAIN view'.turns = 1 .. n
      BY <2>2, <1>2, <1>5 DEF Chats
    <3>4. ChatRight'
      <4>1. view'.turns # <<>>
        BY <3>3, <1>2
      <4>2. \A c \in Mounted' : Question(c) => c = d
        BY <3>1, <1>8
      <4> QED BY <4>1, <4>2, <3>2, <3>3, <2>2, <1>4, <1>5, <1>8 DEF ChatRight
    <3>5. TurnsPaired'
      <4> SUFFICES ASSUME NEW j \in 1 .. n
                   PROVE
             LET turn == view'.turns[j]
             IN  \/ turn[1] = "rep" /\ j = Len(view'.turns) /\ view'.asking
                 \/ turn[1] = "rep" /\ j < Len(view'.turns)
                       /\ view'.turns[j + 1] = <<"system", turn[2]>>
                 \/ turn[1] = "system" /\ j > 1 /\ view'.turns[j - 1] = <<"rep", turn[2]>>
        BY <3>3 DEF TurnsPaired
      <4>1. CASE j = n
        BY <4>1, <3>3, <1>5
      <4>2. CASE j # n
        <5>1. j \in 1 .. (n - 1) /\ j \in DOMAIN view.turns
          BY <4>2, <3>3, <1>2
        <5>2. \/ /\ view.turns[j][1] = "rep" /\ j < n - 1
                 /\ view.turns[j + 1] = <<"system", view.turns[j][2]>>
              \/ /\ view.turns[j][1] = "system" /\ j > 1
                 /\ view.turns[j - 1] = <<"rep", view.turns[j][2]>>
          BY <5>1, <1>2, <1>7 DEF IInv, TurnsPaired
        <5>3. view'.turns[j] = view.turns[j]
          BY <5>1, <3>3
        <5>4. /\ j < n - 1 => view'.turns[j + 1] = view.turns[j + 1]
              /\ j > 1 => view'.turns[j - 1] = view.turns[j - 1]
          <6>1. /\ j < n - 1 => j + 1 \in DOMAIN view.turns
                /\ j > 1 => j - 1 \in DOMAIN view.turns
            BY <5>1, <3>3, <1>2
          <6> QED BY <6>1, <3>3
        <5>5. j < n - 1 => j < Len(view'.turns)
          BY <5>1, <3>3, <1>2
        <5> QED BY <5>2, <5>3, <5>4, <5>5
      <4> QED BY <4>1, <4>2
    <3> QED BY <3>4, <3>5
  <2> QED BY <2>1, <2>2
<1> QED BY <1>8, <1>9, <1>10 DEF IInv

-----------------------------------------------------------------------------
(* The steps in which a call changes on its way                            *)

\* The tab sees nothing of it: its page waits for the same calls.
LEMMA BecomeKeeps ==
    ASSUME IInv, NEW c \in InFlight, NEW d \in CallType,
           d.op = c.op, d.mounted = c.mounted, d.turn = c.turn, d.status # c.status,
           Become(c, d),
           UNCHANGED <<isAuthenticated, cookie, view, settled, raced>>
    PROVE  /\ Counted(calls') /\ PageRight' /\ NothingHangs' /\ ChatRight' /\ TurnsPaired'
           /\ \A e \in Mounted' : e \in Mounted \/ e = d
<1> DEFINE rest == calls (-) SetToBag({c})
<1>1. /\ Counted(rest)
      /\ BagToSet(rest) \subseteq InFlight
      /\ \A e \in InFlight : e # c /\ e.mounted => e \in BagToSet(rest) /\ rest[e] = calls[e]
      /\ c.mounted /\ calls[c] = 1 => c \notin BagToSet(rest)
  <2>1. Counted(calls)
    BY DEF IInv, TypeInv
  <2> QED BY <2>1, Removed DEF InFlight
<1> HIDE DEF rest
<1>2. /\ Counted(calls')
      /\ InFlight' = BagToSet(rest) \cup {d}
      /\ \A e \in BagToSet(rest) : e # d /\ e.mounted => calls'[e] = rest[e]
      /\ d \notin BagToSet(rest) => calls'[d] = 1
  <2>1. calls' = rest (+) SetToBag({d})
    BY DEF Become, rest
  <2>2. Counted(rest)
    BY <1>1
  <2>3. /\ Counted(calls')
        /\ BagToSet(calls') = BagToSet(rest) \cup {d}
        /\ \A e \in BagToSet(rest) : e # d /\ e.mounted => calls'[e] = rest[e]
        /\ d \notin BagToSet(rest) => calls'[d] = 1
    <3> DEFINE more == rest (+) SetToBag({d})
    <3>1. /\ Counted(more)
          /\ BagToSet(more) = BagToSet(rest) \cup {d}
          /\ \A e \in BagToSet(rest) : e # d /\ e.mounted => more[e] = rest[e]
          /\ d \notin BagToSet(rest) => more[d] = 1
      BY <2>2, Added
    <3> QED BY <2>1, <3>1
  <2> QED BY <2>3 DEF InFlight
<1>3. \A e \in Mounted' : e \in Mounted \/ e = d
  BY <1>1, <1>2 DEF Mounted
<1>4. PageRight'
  <2>1. d \in Mounted' => c \in Mounted
    BY DEF Mounted
  <2> QED BY <2>1, <1>3 DEF IInv, PageRight, Mounted
<1>5. NothingHangs'
  <2>1. \A ops : Waiting(ops) => Waiting(ops)'
    <3> SUFFICES ASSUME NEW ops, NEW e \in InFlight, e.mounted, e.op \in ops
                 PROVE  Waiting(ops)'
      BY DEF Waiting
    <3>1. CASE e = c
      BY <3>1, <1>2 DEF Waiting
    <3>2. CASE e # c
      BY <3>2, <1>1, <1>2 DEF Waiting
    <3> QED BY <3>1, <3>2
  <2> QED BY <2>1 DEF IInv, NothingHangs
<1>6. ChatRight'
  <2> SUFFICES ASSUME view.page \in Chats, NEW e \in Mounted', Question(e)
               PROVE  /\ view.asking /\ e.turn = Len(view.turns) /\ calls'[e] = 1
                      /\ \A f \in Mounted' : Question(f) => f = e
    BY DEF IInv, ChatRight
  <2>1. PICK e0 \in Mounted : /\ Question(e0) /\ e0.turn = e.turn
                              /\ e0 = e \/ (e0 = c /\ e = d)
    <3>1. e = d => c \in Mounted /\ Question(c)
      BY DEF Mounted, Question
    <3> QED BY <3>1, <1>3
  <2>2. /\ view.asking /\ e0.turn = Len(view.turns) /\ calls[e0] = 1
        /\ \A f \in Mounted : Question(f) => f = e0
    BY <2>1 DEF IInv, ChatRight
  <2>3. CASE e0 = c
    <3>1. c \notin BagToSet(rest)
      BY <2>2, <2>3, <1>1 DEF Mounted
    <3>2. \A f \in BagToSet(rest) : f.mounted => ~Question(f)
      BY <3>1, <2>2, <2>3, <1>1 DEF Mounted
    <3>3. \A f \in Mounted' : Question(f) => f = d
      BY <3>2, <1>2 DEF Mounted
    <3>4. d \notin BagToSet(rest)
      BY <3>2, <2>1, <2>3 DEF Mounted, Question
    <3> QED BY <3>3, <3>4, <2>1, <2>2, <1>2
  <2>4. CASE e0 # c
    <3>1. e = e0 /\ ~(c.mounted /\ Question(c))
      BY <2>1, <2>2, <2>4 DEF Mounted
    <3>2. ~(d.mounted /\ Question(d)) /\ e # d
      BY <3>1, <2>1 DEF Question, Mounted
    <3>3. e \in BagToSet(rest) /\ rest[e] = calls[e]
      BY <3>1, <2>4, <1>1 DEF Mounted
    <3>4. calls'[e] = 1
      BY <3>1, <3>2, <3>3, <2>1, <2>2, <1>2 DEF Mounted
    <3>5. \A f \in Mounted' : Question(f) => f = e
      BY <3>1, <3>2, <2>2, <1>3 DEF Mounted
    <3> QED BY <3>1, <3>4, <3>5, <2>2
  <2> QED BY <2>3, <2>4
<1>7. TurnsPaired'
  BY DEF IInv, TurnsPaired
<1> QED BY <1>2, <1>3, <1>4, <1>5, <1>6, <1>7

\* And neither do the items settled: what is closed stays closed.
LEMMA AnsweredKeeps ==
    ASSUME IInv, NEW c \in InFlight, NEW d \in CallType,
           d.op = c.op, d.mounted = c.mounted, d.turn = c.turn, d.status # c.status,
           Become(c, d),
           UNCHANGED <<isAuthenticated, cookie, view, settled, raced>>,
           d.mounted => AnswerRight(d)',
           closed \subseteq closed', open' \cap closed' = {},
           open' \subseteq Items, closed' \subseteq Items
    PROVE  IInv'
<1>1. /\ Counted(calls') /\ PageRight' /\ NothingHangs' /\ ChatRight' /\ TurnsPaired'
      /\ \A e \in Mounted' : e \in Mounted \/ e = d
  BY BecomeKeeps
<1>2. TypeInv'
  BY <1>1 DEF IInv, TypeInv, Counted
<1>3. ItemsRight'
  <2>1. \A e \in Mounted' : AnswerRight(e)'
    BY <1>1 DEF IInv, ItemsRight, AnswerRight, Mounted
  <2> QED BY <2>1 DEF IInv, ItemsRight
<1>4. SettledStaysOff'
  BY DEF IInv, SettledStaysOff
<1> QED BY <1>1, <1>2, <1>3, <1>4 DEF IInv

LEMMA FailKeeps ==
    ASSUME IInv, NEW c \in InFlight, Fail(c)
    PROVE  IInv'
<1> DEFINE d == [c EXCEPT !.status = "failed"]
<1>1. c \in CallType
  BY DEF IInv, TypeInv, Counted, InFlight
<1>2. /\ d \in CallType /\ d.op = c.op /\ d.mounted = c.mounted /\ d.turn = c.turn
      /\ d.list = c.list /\ d.status = "failed"
  BY <1>1 DEF CallType, CallRecords
<1>3. /\ Become(c, d) /\ d.status # c.status
      /\ UNCHANGED <<isAuthenticated, cookie, server, view, settled, raced>>
  BY <1>2 DEF Fail
<1> HIDE DEF d
<1>4. d.mounted => AnswerRight(d)'
  <2>1. d.mounted => AnswerRight(c)
    BY <1>2 DEF Mounted, IInv, ItemsRight
  <2> QED BY <2>1, <1>2, <1>3 DEF AnswerRight
<1>5. closed \subseteq closed' /\ open' \cap closed' = {} /\ open' \subseteq Items
      /\ closed' \subseteq Items
  BY <1>3 DEF IInv, TypeInv, ItemsRight, server
<1> QED BY <1>2, <1>3, <1>4, <1>5, AnsweredKeeps

\* require_session and the operation: a settled item stays closed, and a list
\* or a new note shows nothing that was settled before.
LEMMA ServeKeeps ==
    ASSUME IInv, NEW c \in InFlight, Serve(c)
    PROVE  IInv'
<1>1. /\ c \in CallType /\ c.status = "sent"
      /\ open \subseteq Items /\ closed \subseteq Items /\ open \cap closed = {}
      /\ settled \subseteq closed
      /\ c.mounted => AnswerRight(c)
      /\ UNCHANGED <<isAuthenticated, cookie, view, settled, raced>>
  BY DEF Serve, IInv, TypeInv, Counted, InFlight, ItemsRight, Mounted
<1> DEFINE Answers(d) == /\ d \in CallType /\ d.op = c.op /\ d.mounted = c.mounted
                         /\ d.turn = c.turn /\ d.status # "sent"
           Moves == /\ closed \subseteq closed' /\ open' \cap closed' = {}
                    /\ open' \subseteq Items /\ closed' \subseteq Items
<1>2. ASSUME NEW d, Answers(d), Become(c, d), Moves, d.mounted => AnswerRight(d)'
      PROVE  IInv'
  BY <1>1, <1>2, AnsweredKeeps
<1>3. ASSUME NEW s \in {"ok", "refused", "401"}, Become(c, [c EXCEPT !.status = s]), Moves,
             c.op \in {"complete", "resolve"} => s # "ok" \/ c.item \in closed',
             c.op # "note"
      PROVE  IInv'
  <2> DEFINE d == [c EXCEPT !.status = s]
  <2>1. Answers(d) /\ d.list = c.list /\ d.item = c.item /\ d.status = s
    BY <1>1, <1>3 DEF CallType, CallRecords
  <2>2. d.mounted => AnswerRight(d)'
    BY <2>1, <1>1, <1>3 DEF AnswerRight
  <2> HIDE DEF d
  <2>3. Become(c, d)
    BY <1>3 DEF d
  <2> QED BY <2>1, <2>2, <2>3, <1>2, <1>3
<1>4. CASE c.op = "login"
  <2>1. Moves
    BY <1>4, <1>1 DEF Serve
  <2>2. CASE \E t \in FreshTokens : Become(c, [c EXCEPT !.status = "ok", !.token = t])
    <3>1. PICK t \in FreshTokens : Become(c, [c EXCEPT !.status = "ok", !.token = t])
      BY <2>2
    <3> DEFINE d == [c EXCEPT !.status = "ok", !.token = t]
    <3>2. t \in Tokens
      BY DEF FreshTokens
    <3>3. Answers(d)
      BY <3>2, <1>1 DEF CallType, CallRecords
    <3>4. d.mounted => AnswerRight(d)'
      BY <3>3, <1>4 DEF AnswerRight
    <3> HIDE DEF d
    <3>5. Become(c, d)
      BY <3>1 DEF d
    <3> QED BY <3>3, <3>4, <3>5, <2>1, <1>2
  <2>3. CASE Become(c, [c EXCEPT !.status = "refused"])
    BY <2>1, <2>3, <1>3, <1>4
  <2> QED BY <2>2, <2>3, <1>4 DEF Serve
<1>5. CASE Become(c, [c EXCEPT !.status = "401"]) /\ UNCHANGED server
  <2> DEFINE d == [c EXCEPT !.status = "401"]
  <2>1. Answers(d) /\ d.list = c.list /\ d.status = "401"
    BY <1>1 DEF CallType, CallRecords
  <2>2. d.mounted => AnswerRight(d)'
    BY <2>1, <1>1 DEF AnswerRight
  <2>3. Moves
    BY <1>5, <1>1 DEF server
  <2> HIDE DEF d
  <2>4. Become(c, d)
    BY <1>5 DEF d
  <2> QED BY <2>1, <2>2, <2>3, <2>4, <1>2
<1>6. CASE c.op = "logout" /\ Become(c, [c EXCEPT !.status = "ok"])
           /\ UNCHANGED <<open, closed>>
  <2>1. Moves
    BY <1>1, <1>6
  <2> QED BY <2>1, <1>3, <1>6
<1>7. CASE /\ c.op \in {"due", "unmatched"}
           /\ Become(c, [c EXCEPT !.status = "ok", !.list = open \cap
                           (IF c.op = "due" THEN Commitments ELSE Notes)])
           /\ UNCHANGED server
  <2>1. PICK list : list = open \cap (IF c.op = "due" THEN Commitments ELSE Notes)
    OBVIOUS
  <2>2. list \subseteq Items /\ list \cap settled = {}
    BY <2>1, <1>1 DEF Items
  <2> DEFINE d == [c EXCEPT !.status = "ok", !.list = list]
  <2>3. Answers(d) /\ d.list = list
    BY <2>2, <1>1 DEF CallType, CallRecords
  <2>4. d.mounted => AnswerRight(d)'
    BY <2>2, <2>3, <1>1, <1>7 DEF AnswerRight
  <2>5. Moves
    BY <1>7, <1>1 DEF server
  <2> HIDE DEF d
  <2>6. Become(c, d)
    BY <2>1, <1>7 DEF d
  <2> QED BY <2>3, <2>4, <2>5, <2>6, <1>2
<1>8. CASE /\ c.op \in {"complete", "resolve"}
           /\ open' = open \ {c.item} /\ closed' = closed \cup {c.item}
           /\ \/ Become(c, [c EXCEPT !.status = "ok"])
              \/ Become(c, [c EXCEPT !.status = "refused"])
  <2>1. PICK s \in {"ok", "refused"} : Become(c, [c EXCEPT !.status = s])
    BY <1>8
  <2>2. c.item \in Items
    BY <1>1, <1>8 DEF CallType, CallRecords
  <2>3. Moves
    BY <1>1, <1>8, <2>2
  <2> QED BY <2>1, <2>3, <1>3, <1>8
<1>9. CASE /\ c.op = "note"
           /\ \E found \in SUBSET (Unborn \cap Commitments),
                 i \in (Unborn \cap Notes) \cup {NoItem} :
                 /\ open' = open \cup found \cup ({i} \ {NoItem})
                 /\ Become(c, [c EXCEPT !.status = "ok", !.item = i])
           /\ closed' = closed
  <2>1. PICK found \in SUBSET (Unborn \cap Commitments),
             i \in (Unborn \cap Notes) \cup {NoItem} :
                 /\ open' = open \cup found \cup ({i} \ {NoItem})
                 /\ Become(c, [c EXCEPT !.status = "ok", !.item = i])
    BY <1>9
  <2> DEFINE d == [c EXCEPT !.status = "ok", !.item = i]
  <2>2. i \in Items \cup {NoItem} /\ i \notin settled
    BY <1>1 DEF Unborn, Items
  <2>3. Answers(d) /\ d.item = i
    BY <2>2, <1>1, <1>9 DEF CallType, CallRecords
  <2>4. d.mounted => AnswerRight(d)'
    BY <2>2, <2>3, <1>1, <1>9 DEF AnswerRight
  <2>5. Moves
    BY <2>1, <1>1, <1>9 DEF Unborn, Items
  <2> HIDE DEF d
  <2>6. Become(c, d)
    BY <2>1 DEF d
  <2> QED BY <2>3, <2>4, <2>5, <2>6, <1>2
<1>10. CASE /\ c.op \in {"accounts", "ask", "brief"}
            /\ Become(c, [c EXCEPT !.status = "ok"])
            /\ UNCHANGED server
  <2>1. Moves
    BY <1>1, <1>10 DEF server
  <2> QED BY <2>1, <1>3, <1>10
<1> QED BY <1>4, <1>5, <1>6, <1>7, <1>8, <1>9, <1>10 DEF Serve

LEMMA ElsewhereKeeps ==
    ASSUME IInv, Elsewhere
    PROVE  IInv'
<1>1. /\ closed \subseteq closed' /\ open' \cap closed' = {}
      /\ open' \subseteq Items /\ closed' \subseteq Items
      /\ UNCHANGED <<isAuthenticated, cookie, view, calls, settled, raced>>
  BY DEF Elsewhere, IInv, TypeInv, ItemsRight, Unborn, Items
<1>2. InFlight' = InFlight /\ Mounted' = Mounted
  BY <1>1 DEF InFlight, Mounted
<1>3. TypeInv'
  BY <1>1 DEF IInv, TypeInv, Counted
<1>4. PageRight' /\ ItemsRight'
  BY <1>1, <1>2 DEF IInv, PageRight, ItemsRight, AnswerRight
<1>5. SettledStaysOff' /\ NothingHangs' /\ ChatRight' /\ TurnsPaired'
  BY <1>1, <1>2 DEF IInv, SettledStaysOff, NothingHangs, Waiting, ChatRight, TurnsPaired
<1> QED BY <1>3, <1>4, <1>5 DEF IInv

-----------------------------------------------------------------------------
(* The steps that open a page                                              *)

Fresh(token, ops) == {CallBy(token, op, NoItem, 0) : op \in ops}

OpenedWith(p, shown, ops) ==
    [page |-> p, shown |-> shown, loading |-> p \in DOMAIN LoadOf,
     banner |-> FALSE, picker |-> "loading", turns |-> <<>>,
     asking |-> ops \cap Sends(p) # {}]

\* A page starts with its own calls out, no conversation, and nothing on
\* screen but perhaps the note just captured.
LEMMA OpenKeeps ==
    ASSUME IInv,
           NEW p \in Pages \cup {"login", "result"}, p # "login" => isAuthenticated',
           NEW shown \in SUBSET Items, shown \cap settled = {},
           NEW rest, BagToSet(rest) \subseteq CallType,
           NEW token \in Tokens \cup {NoToken},
           NEW ops, MountCalls(p) \subseteq ops,
           ops \subseteq MountCalls(p) \cup (IF p = "briefs" THEN {"brief"} ELSE {}),
           view' = OpenedWith(p, shown, ops),
           calls' = Left(rest) (+) SetToBag(Fresh(token, ops)),
           raced' = {}, settled' = settled, UNCHANGED server,
           isAuthenticated' \in BOOLEAN, cookie' \in Tokens \cup {NoToken}
    PROVE  IInv'
<1> DEFINE fresh == Fresh(token, ops)
<1>1. ops \subseteq {"due", "unmatched", "accounts", "brief"} /\ ops \subseteq PageOps(p)
  BY DEF MountCalls, LoadOf, PageOps, Sends
<1>2. \A op \in ops : LET d == CallBy(token, op, NoItem, 0)
                      IN  /\ d \in CallType /\ d.mounted /\ d.op = op
                          /\ d.status = "sent" /\ d.list = {}
  BY <1>1 DEF CallBy, CallType, CallRecords, Ops
<1>3. fresh \subseteq CallType /\ \A c \in fresh : c.mounted
  BY <1>2 DEF Fresh
<1>4. /\ \A c \in fresh : c.op \in ops /\ c.status = "sent" /\ c.list = {}
      /\ \A op \in ops : \E c \in fresh : c.op = op
  BY <1>2 DEF Fresh
<1> HIDE DEF fresh
<1>5. Counted(calls') /\ Mounted' = fresh
  <2>1. calls' = Left(rest) (+) SetToBag(fresh)
    BY DEF fresh
  <2>2. Counted(Left(rest)) /\ \A c \in BagToSet(Left(rest)) : ~c.mounted
    BY Unmounted
  <2> DEFINE more == Left(rest) (+) SetToBag(fresh)
  <2>3. Counted(more) /\ {c \in BagToSet(more) : c.mounted} = fresh
    BY <2>2, <1>3, Started
  <2> QED BY <2>1, <2>3 DEF Mounted, InFlight
<1>6. /\ view' \in ViewType /\ view'.page = p /\ view'.shown = shown
      /\ view'.loading = (p \in DOMAIN LoadOf) /\ view'.banner = FALSE
      /\ view'.turns = <<>> /\ view'.asking = (ops \cap Sends(p) # {})
  <2>1. <<>> \in Seq({"rep", "system"} \X Nat)
    OBVIOUS
  <2>2. (p \in DOMAIN LoadOf) \in BOOLEAN /\ (ops \cap Sends(p) # {}) \in BOOLEAN
    OBVIOUS
  <2>3. view' \in ViewType
    BY <2>1, <2>2 DEF ViewType, OpenedWith
  <2> QED BY <2>3 DEF OpenedWith
<1>7. TypeInv'
  BY <1>5, <1>6 DEF IInv, TypeInv, server, Counted
<1>8. PageRight'
  BY <1>1, <1>4, <1>5, <1>6 DEF PageRight
<1>9. ItemsRight'
  <2>1. \A c \in Mounted' : AnswerRight(c)'
    BY <1>4, <1>5 DEF AnswerRight
  <2> QED BY <2>1 DEF IInv, ItemsRight, server
<1>10. SettledStaysOff'
  BY <1>6 DEF SettledStaysOff
<1>11. NothingHangs'
  <2>1. \A own : own \cap ops # {} => Waiting(own)'
    BY <1>4, <1>5 DEF Waiting, Mounted
  <2>2. p \in DOMAIN LoadOf => LoadOf[p] \cap ops # {}
    BY DEF MountCalls, LoadOf
  <2>3. p \in {"home", "unmatched", "result"} => {"accounts"} \cap ops # {}
    BY DEF MountCalls
  <2> QED BY <2>1, <2>2, <2>3, <1>6 DEF NothingHangs
<1>12. ChatRight'
  <2>1. p \in Chats => ops \cap Sends(p) = {} /\ \A c \in fresh : ~Question(c)
    BY <1>1, <1>4 DEF Chats, Sends, Question
  <2> QED BY <2>1, <1>5, <1>6 DEF ChatRight
<1>13. TurnsPaired'
  BY <1>6 DEF TurnsPaired
<1> QED BY <1>7, <1>8, <1>9, <1>10, <1>11, <1>12, <1>13 DEF IInv

LEMMA MountKeeps ==
    ASSUME IInv,
           NEW p \in Pages \cup {"login"}, p # "login" => isAuthenticated',
           NEW rest, BagToSet(rest) \subseteq CallType,
           NEW token \in Tokens \cup {NoToken},
           NEW ops, MountCalls(p) \subseteq ops,
           ops \subseteq MountCalls(p) \cup (IF p = "briefs" THEN {"brief"} ELSE {}),
           Mount(p, rest, token, ops),
           settled' = settled, UNCHANGED server,
           isAuthenticated' \in BOOLEAN, cookie' \in Tokens \cup {NoToken}
    PROVE  IInv'
<1>1. PICK none \in SUBSET Items : none = {}
  OBVIOUS
<1>2. view' = OpenedWith(p, none, ops)
  BY <1>1 DEF Mount, Opened, OpenedWith
<1>3. calls' = Left(rest) (+) SetToBag(Fresh(token, ops)) /\ raced' = {}
  BY DEF Mount, Fresh
<1>4. p \in Pages \cup {"login", "result"} /\ none \cap settled = {}
  BY <1>1
<1> QED BY <1>2, <1>3, <1>4, OpenKeeps

LEMMA VisitKeeps ==
    ASSUME IInv, NEW p \in Pages, Visit(p)
    PROVE  IInv'
<1>1. PICK ops : /\ MountCalls(p) \subseteq ops
                 /\ ops \subseteq MountCalls(p) \cup (IF p = "briefs" THEN {"brief"} ELSE {})
                 /\ Mount(p, calls, cookie, ops)
  BY DEF Visit, MountCalls, LoadOf
<1>2. /\ isAuthenticated' = TRUE /\ cookie' = cookie /\ settled' = settled
      /\ UNCHANGED server
  BY DEF Visit, Unmoved, IInv, TypeInv
<1>3. BagToSet(calls) \subseteq CallType /\ cookie \in Tokens \cup {NoToken}
  BY DEF IInv, TypeInv, Counted
<1> QED BY <1>1, <1>2, <1>3, MountKeeps

-----------------------------------------------------------------------------
(* The steps in which the tab takes an answer                              *)

\* What the calls still out are after the page took the answer to c: the
\* others, and perhaps the load that follows a note.
LEMMA TakenKeeps ==
    ASSUME IInv, NEW c \in InFlight, NEW more,
           \/ calls' = calls (-) SetToBag({c}) /\ more = {}
           \/ /\ calls' = (calls (-) SetToBag({c})) (+) Call("due", NoItem)
              /\ more = {CallBy(cookie, "due", NoItem, 0)}
    PROVE  /\ Counted(calls')
           /\ \A e \in Mounted' : e \in Mounted \/ e \in more
           /\ \A e \in Mounted : e # c => /\ e \in Mounted'
                                          /\ e \notin more => calls'[e] = calls[e]
           /\ more \subseteq Mounted'
           /\ \A ops : Waiting(ops) /\ c.op \notin ops => Waiting(ops)'
           /\ c.mounted /\ calls[c] = 1 /\ c \notin more => c \notin Mounted'
<1> DEFINE rest == calls (-) SetToBag({c})
           d == CallBy(cookie, "due", NoItem, 0)
<1>1. /\ Counted(rest)
      /\ BagToSet(rest) \subseteq InFlight
      /\ \A e \in InFlight : e # c /\ e.mounted => e \in BagToSet(rest) /\ rest[e] = calls[e]
      /\ c.mounted /\ calls[c] = 1 => c \notin BagToSet(rest)
  <2>1. Counted(calls)
    BY DEF IInv, TypeInv
  <2> QED BY <2>1, Removed DEF InFlight
<1>2. d \in CallType /\ d.mounted
  BY DEF CallBy, CallType, CallRecords, Ops, IInv, TypeInv
<1>3. \/ calls' = rest /\ more = {}
      \/ calls' = rest (+) SetToBag({d}) /\ more = {d}
  BY DEF Call
<1> HIDE DEF rest, d
<1> DEFINE both == rest (+) SetToBag({d})
<1>4. /\ Counted(both)
      /\ BagToSet(both) = BagToSet(rest) \cup {d}
      /\ \A e \in BagToSet(rest) : e # d /\ e.mounted => both[e] = rest[e]
  <2>1. Counted(rest)
    BY <1>1
  <2> QED BY <2>1, <1>2, Added
<1>5. /\ Counted(calls')
      /\ InFlight' = BagToSet(rest) \cup more
      /\ \A e \in BagToSet(rest) : e \notin more /\ e.mounted => calls'[e] = rest[e]
      /\ \A e \in more : e.mounted
  <2>1. CASE calls' = rest /\ more = {}
    BY <2>1, <1>1 DEF InFlight
  <2>2. CASE calls' = both /\ more = {d}
    BY <2>2, <1>2, <1>4 DEF InFlight
  <2> QED BY <2>1, <2>2, <1>3
<1>6. /\ \A e \in Mounted' : e \in Mounted \/ e \in more
      /\ \A e \in Mounted : e # c => /\ e \in Mounted'
                                     /\ e \notin more => calls'[e] = calls[e]
      /\ more \subseteq Mounted'
      /\ c.mounted /\ calls[c] = 1 /\ c \notin more => c \notin Mounted'
  BY <1>1, <1>5 DEF Mounted
<1>7. \A ops : Waiting(ops) /\ c.op \notin ops => Waiting(ops)'
  BY <1>6 DEF Waiting, Mounted
<1> QED BY <1>5, <1>6, <1>7 DEF d

\* An answer to a page that was left, with no effect on who is signed in.
LEMMA IgnoredKeeps ==
    ASSUME IInv, NEW c \in InFlight, ~c.mounted,
           calls' = calls (-) SetToBag({c}),
           UNCHANGED <<view, raced, settled, server>>,
           isAuthenticated' = isAuthenticated, cookie' \in Tokens \cup {NoToken}
    PROVE  IInv'
<1>1. /\ Counted(calls')
      /\ \A e \in Mounted' : e \in Mounted
      /\ \A e \in Mounted : e # c => e \in Mounted' /\ calls'[e] = calls[e]
  <2>1. PICK more : more = {}
    OBVIOUS
  <2> QED BY <2>1, TakenKeeps
<1>2. Mounted' = Mounted /\ \A e \in Mounted : calls'[e] = calls[e]
  BY <1>1 DEF Mounted
<1>3. TypeInv'
  BY <1>1 DEF IInv, TypeInv, server, Counted
<1>4. PageRight' /\ ItemsRight' /\ SettledStaysOff'
  BY <1>2 DEF IInv, PageRight, ItemsRight, AnswerRight, SettledStaysOff, server
<1>5. NothingHangs'
  <2>1. \A ops : Waiting(ops) => Waiting(ops)'
    BY <1>2 DEF Waiting, Mounted
  <2> QED BY <2>1 DEF IInv, NothingHangs
<1>6. ChatRight' /\ TurnsPaired'
  BY <1>2 DEF IInv, ChatRight, TurnsPaired
<1> QED BY <1>3, <1>4, <1>5, <1>6 DEF IInv

\* The answer to a question closes its turn, and a failure takes it back.
LEMMA TurnCloses ==
    ASSUME IInv, view.page \in Chats, view.asking,
           \/ view'.turns = Append(view.turns, <<"system", Len(view.turns)>>)
           \/ view'.turns = SubSeq(view.turns, 1, Len(view.turns) - 1)
    PROVE  view'.turns \in Seq({"rep", "system"} \X Nat) /\ TurnsPaired'
<1> DEFINE n == Len(view.turns)
<1>1. /\ view.turns \in Seq({"rep", "system"} \X Nat) /\ n \in Nat \ {0}
      /\ n = Len(view.turns) /\ view.turns[n] = <<"rep", n>> /\ DOMAIN view.turns = 1 .. n
  <2>1. /\ view.turns \in Seq({"rep", "system"} \X Nat)
        /\ view.turns # <<>> /\ view.turns[n] = <<"rep", n>>
    BY DEF IInv, TypeInv, ViewType, ChatRight
  <2> QED BY <2>1
<1> HIDE DEF n
<1>2. ASSUME NEW j \in 1 .. (n - 1)
      PROVE  \/ /\ view.turns[j][1] = "rep" /\ j < n - 1
                /\ view.turns[j + 1] = <<"system", view.turns[j][2]>>
             \/ /\ view.turns[j][1] = "system" /\ j > 1
                /\ view.turns[j - 1] = <<"rep", view.turns[j][2]>>
  <2>1. j \in DOMAIN view.turns /\ j < n
    BY <1>1
  <2>2. \/ /\ view.turns[j][1] = "rep"
           /\ view.turns[j + 1] = <<"system", view.turns[j][2]>>
        \/ /\ view.turns[j][1] = "system" /\ j > 1
           /\ view.turns[j - 1] = <<"rep", view.turns[j][2]>>
    BY <2>1, <1>1 DEF IInv, TurnsPaired
  <2>3. j = n - 1 => view.turns[j + 1] = <<"rep", n>>
    BY <1>1
  <2>4. <<"rep", n>> # <<"system", view.turns[j][2]>>
    OBVIOUS
  <2>5. j < n - 1 \/ j = n - 1
    BY <2>1, <1>1
  <2>6. j = n - 1 => view.turns[j + 1] # <<"system", view.turns[j][2]>>
    BY <2>3, <2>4
  <2> QED BY <2>2, <2>5, <2>6
<1>3. CASE view'.turns = Append(view.turns, <<"system", n>>)
  <2>1. /\ view'.turns \in Seq({"rep", "system"} \X Nat)
        /\ Len(view'.turns) = n + 1 /\ DOMAIN view'.turns = 1 .. (n + 1)
        /\ view'.turns[n + 1] = <<"system", n>>
        /\ \A j \in 1 .. n : view'.turns[j] = view.turns[j]
    BY <1>1, <1>3
  <2>2. ASSUME NEW j \in 1 .. (n + 1)
        PROVE
             LET turn == view'.turns[j]
             IN  \/ turn[1] = "rep" /\ j = Len(view'.turns) /\ view'.asking
                 \/ turn[1] = "rep" /\ j < Len(view'.turns)
                       /\ view'.turns[j + 1] = <<"system", turn[2]>>
                 \/ turn[1] = "system" /\ j > 1 /\ view'.turns[j - 1] = <<"rep", turn[2]>>
    <3>1. CASE j = n + 1
      <4>1. j - 1 = n /\ j > 1 /\ n \in 1 .. n
        BY <3>1, <1>1
      <4>2. view'.turns[j - 1] = <<"rep", n>>
        BY <4>1, <2>1, <1>1
      <4>3. view'.turns[j] = <<"system", n>>
        BY <3>1, <2>1
      <4> QED BY <4>1, <4>2, <4>3
    <3>2. CASE j = n
      <4>1. n \in 1 .. n /\ n < n + 1
        BY <1>1
      <4>2. view'.turns[n] = <<"rep", n>>
        BY <4>1, <2>1, <1>1
      <4> QED BY <4>1, <4>2, <3>2, <2>1
    <3>3. CASE j \in 1 .. (n - 1)
      <4>1. /\ view'.turns[j] = view.turns[j] /\ view'.turns[j + 1] = view.turns[j + 1]
            /\ j > 1 => view'.turns[j - 1] = view.turns[j - 1]
            /\ j < Len(view'.turns)
        <5>1. j \in 1 .. n /\ j + 1 \in 1 .. n /\ (j > 1 => j - 1 \in 1 .. n) /\ j < n + 1
          BY <3>3, <1>1
        <5> QED BY <5>1, <2>1
      <4> QED BY <4>1, <3>3, <1>2
    <3>4. j = n + 1 \/ j = n \/ j \in 1 .. (n - 1)
      BY <1>1
    <3> QED BY <3>1, <3>2, <3>3, <3>4
  <2> QED BY <2>1, <2>2 DEF TurnsPaired
<1>4. CASE view'.turns = SubSeq(view.turns, 1, n - 1)
  <2>1. /\ view'.turns \in Seq({"rep", "system"} \X Nat)
        /\ Len(view'.turns) = n - 1 /\ DOMAIN view'.turns = 1 .. (n - 1)
        /\ \A j \in 1 .. (n - 1) : view'.turns[j] = view.turns[j]
    BY <1>1, <1>4
  <2>2. ASSUME NEW j \in 1 .. (n - 1)
        PROVE
             LET turn == view'.turns[j]
             IN  \/ turn[1] = "rep" /\ j = Len(view'.turns) /\ view'.asking
                 \/ turn[1] = "rep" /\ j < Len(view'.turns)
                       /\ view'.turns[j + 1] = <<"system", turn[2]>>
                 \/ turn[1] = "system" /\ j > 1 /\ view'.turns[j - 1] = <<"rep", turn[2]>>
    <3>1. /\ view'.turns[j] = view.turns[j]
          /\ j < n - 1 => view'.turns[j + 1] = view.turns[j + 1]
          /\ j > 1 => view'.turns[j - 1] = view.turns[j - 1]
      <4>1. /\ j < n - 1 => j + 1 \in 1 .. (n - 1)
            /\ j > 1 => j - 1 \in 1 .. (n - 1)
        BY <1>1
      <4> QED BY <4>1, <2>1
    <3> QED BY <3>1, <2>1, <1>2
  <2> QED BY <2>1, <2>2 DEF TurnsPaired
<1> QED BY <1>3, <1>4 DEF n

LEMMA OpsOfPages ==
    ASSUME NEW p \in Pages \cup {"login", "result"}
    PROVE  /\ \A op \in PageOps(p) :
                 /\ op = "complete" => p = "commitments"
                 /\ op = "resolve" => p \in {"unmatched", "result"}
                 /\ op = "note" => p \in {"home", "capture"}
                 /\ op = "ask" => p \in Chats
                 /\ op = "due" => p \in {"home", "commitments"}
                 /\ op = "unmatched" => p = "unmatched"
                 /\ op = "brief" => p = "briefs"
                 /\ op = "login" => p = "login"
           /\ Sends(p) \cap {"due", "unmatched", "accounts", "complete"} = {}
           /\ p \in DOMAIN LoadOf => LoadOf[p] \subseteq {"due", "unmatched"}
           /\ DOMAIN LoadOf = {"home", "commitments", "unmatched"}
           /\ LoadOf["home"] = {"due"}
BY DEF Pages, PageOps, MountCalls, LoadOf, Sends, Chats

\* The page takes the answer and stays on screen.
LEMMA StayKeeps ==
    ASSUME IInv, NEW c \in InFlight, c.mounted, c.status # "sent",
           ~(isAuthenticated /\ SignsOut(c)),
           ~(c.op = "note" /\ c.status = "ok" /\ view.page = "capture"),
           view' = IF c.status = "ok" THEN Succeeded(c) ELSE Failed(c),
           NEW more,
           more = IF c.op = "note" /\ c.status = "ok"
                  THEN {CallBy(cookie, "due", NoItem, 0)} ELSE {},
           \/ calls' = calls (-) SetToBag({c}) /\ more = {}
           \/ /\ calls' = (calls (-) SetToBag({c})) (+) Call("due", NoItem)
              /\ more = {CallBy(cookie, "due", NoItem, 0)},
           raced' = IF /\ c.op \in {"complete", "resolve"} /\ c.status = "ok"
                       /\ Waiting({"due", "unmatched"})
                    THEN raced \cup {c.item} ELSE raced,
           settled' = IF c.status = "ok" /\ c.op \in {"complete", "resolve"}
                      THEN settled \cup {c.item} ELSE settled,
           UNCHANGED server, isAuthenticated' = isAuthenticated,
           cookie' \in Tokens \cup {NoToken}
    PROVE  IInv'
<1>1. /\ c \in CallType /\ c \in Mounted /\ c.op \in PageOps(view.page)
      /\ view \in ViewType /\ view.page \in Pages \cup {"login", "result"}
      /\ AnswerRight(c)
  BY DEF IInv, TypeInv, Counted, InFlight, Mounted, PageRight, ItemsRight, ViewType
<1>2. /\ Counted(calls')
      /\ \A e \in Mounted' : e \in Mounted \/ e \in more
      /\ \A e \in Mounted : e # c => /\ e \in Mounted'
                                     /\ e \notin more => calls'[e] = calls[e]
      /\ more \subseteq Mounted'
      /\ \A ops : Waiting(ops) /\ c.op \notin ops => Waiting(ops)'
      /\ c.mounted /\ calls[c] = 1 /\ c \notin more => c \notin Mounted'
  BY TakenKeeps
<1>3. \A e \in more : /\ e.op = "due" /\ e.status = "sent" /\ e.list = {}
                      /\ c.op = "note" /\ c.status = "ok"
  BY DEF CallBy
<1>4. /\ \A op \in PageOps(view.page) :
            /\ op = "complete" => view.page = "commitments"
            /\ op = "resolve" => view.page \in {"unmatched", "result"}
            /\ op = "note" => view.page \in {"home", "capture"}
            /\ op = "ask" => view.page \in Chats
            /\ op = "due" => view.page \in {"home", "commitments"}
            /\ op = "unmatched" => view.page = "unmatched"
            /\ op = "brief" => view.page = "briefs"
            /\ op = "login" => view.page = "login"
      /\ Sends(view.page) \cap {"due", "unmatched", "accounts", "complete"} = {}
      /\ view.page \in DOMAIN LoadOf => LoadOf[view.page] \subseteq {"due", "unmatched"}
      /\ DOMAIN LoadOf = {"home", "commitments", "unmatched"}
      /\ LoadOf["home"] = {"due"}
  BY <1>1, OpsOfPages
<1>5. ItemsRight'
  <2>1. settled' \subseteq closed' /\ open' \cap closed' = {}
    BY <1>1 DEF IInv, ItemsRight, AnswerRight, server
  <2>2. ASSUME NEW e \in Mounted
        PROVE  AnswerRight(e)'
    <3>1. AnswerRight(e) /\ e.op \in PageOps(view.page)
      BY DEF IInv, ItemsRight, PageRight
    <3>2. e.op \in {"due", "unmatched"} => Waiting({"due", "unmatched"})
      BY DEF Waiting, Mounted
    <3>3. e.op = "note" => settled' = settled
      BY <3>1, <1>1, <1>4
    <3> QED BY <3>1, <3>2, <3>3 DEF AnswerRight, server
  <2>3. \A e \in more : AnswerRight(e)'
    BY <1>3 DEF AnswerRight
  <2> QED BY <2>1, <2>2, <2>3, <1>2 DEF ItemsRight
<1>6. ASSUME view' \in ViewType, view'.page = view.page,
             view'.banner \/ view'.loading => view.page \in DOMAIN LoadOf,
             SettledStaysOff', NothingHangs', ChatRight', TurnsPaired'
      PROVE  IInv'
  <2>1. TypeInv'
    BY <1>2, <1>6 DEF IInv, TypeInv, server
  <2>2. PageRight'
    <3>1. \A e \in more : e.op \in PageOps(view.page)
      BY <1>1, <1>3, <1>4 DEF PageOps, MountCalls
    <3> QED BY <3>1, <1>2, <1>6 DEF IInv, PageRight
  <2> QED BY <2>1, <2>2, <1>5, <1>6 DEF IInv
<1>7. ASSUME ~Question(c), view'.turns = view.turns, view'.page = view.page,
             view.page \in Chats => view'.asking = view.asking
      PROVE  ChatRight' /\ TurnsPaired'
  <2>1. \A e \in Mounted' : Question(e) => e \in Mounted /\ calls'[e] = calls[e]
    BY <1>2, <1>3, <1>7 DEF Question
  <2> QED BY <2>1, <1>7, NoQuestionKeeps
<1>8. CASE c.op \in {"due", "unmatched"}
  <2>1. c.list \subseteq Items /\ view.page \in DOMAIN LoadOf
    BY <1>1, <1>4, <1>8 DEF CallType, CallRecords
  <2>2. view' = IF c.status = "ok"
                THEN [view EXCEPT !.shown = c.list, !.loading = FALSE]
                ELSE [view EXCEPT !.banner = TRUE, !.loading = view.page = "unmatched" /\ @]
    BY <1>8 DEF Succeeded, Failed
  <2>3. /\ view' \in ViewType /\ view'.page = view.page
        /\ view'.turns = view.turns /\ view'.asking = view.asking
        /\ view'.picker = view.picker /\ ~(view'.loading /\ ~view'.banner)
        /\ view'.shown = IF c.status = "ok" THEN c.list ELSE view.shown
    <3>1. CASE c.status = "ok"
      BY <3>1, <2>1, <2>2, <1>1 DEF ViewType
    <3>2. CASE c.status # "ok"
      <4>1. PICK b \in BOOLEAN : b = (view.page = "unmatched" /\ view.loading)
        OBVIOUS
      <4>2. view' = [view EXCEPT !.banner = TRUE, !.loading = b]
        BY <4>1, <3>2, <2>2
      <4> QED BY <4>2, <3>2, <1>1 DEF ViewType
    <3> QED BY <3>1, <3>2
  <2>4. SettledStaysOff'
    BY <2>3, <1>1, <1>8 DEF IInv, SettledStaysOff, AnswerRight
  <2>5. NothingHangs'
    BY <2>3, <1>2, <1>4, <1>8 DEF IInv, NothingHangs
  <2>6. ChatRight' /\ TurnsPaired'
    BY <2>3, <1>7, <1>8 DEF Question
  <2> QED BY <2>1, <2>3, <2>4, <2>5, <2>6, <1>6
<1>9. CASE c.op \in {"complete", "resolve"}
  <2>1. view.page \in {"commitments", "unmatched", "result"}
    BY <1>1, <1>4, <1>9
  <2>2. view' = IF c.status = "ok"
                THEN [view EXCEPT !.shown = @ \ {c.item}, !.asking = FALSE]
                ELSE [view EXCEPT !.banner = view.page # "result", !.asking = FALSE]
    BY <1>9 DEF Succeeded, Failed, Without
  <2>3. /\ view' \in ViewType /\ view'.page = view.page
        /\ view'.turns = view.turns /\ view'.asking = FALSE
        /\ view'.picker = view.picker /\ view'.loading = view.loading
        /\ view'.banner = IF c.status = "ok" THEN view.banner ELSE view.page # "result"
        /\ view'.shown = IF c.status = "ok" THEN view.shown \ {c.item} ELSE view.shown
    <3>1. CASE c.status = "ok"
      <4>1. view' = [view EXCEPT !.shown = @ \ {c.item}, !.asking = FALSE]
        BY <3>1, <2>2
      <4> QED BY <4>1, <3>1, <1>1 DEF ViewType
    <3>2. CASE c.status # "ok"
      <4>1. PICK b \in BOOLEAN : b = (view.page # "result")
        OBVIOUS
      <4>2. view' = [view EXCEPT !.banner = b, !.asking = FALSE]
        BY <4>1, <3>2, <2>2
      <4> QED BY <4>1, <4>2, <3>2, <1>1 DEF ViewType
    <3> QED BY <3>1, <3>2
  <2>4. SettledStaysOff'
    BY <2>3, <1>9 DEF IInv, SettledStaysOff
  <2>5. NothingHangs'
    BY <2>1, <2>3, <1>2, <1>4, <1>9 DEF IInv, NothingHangs, PageRight
  <2>6. ChatRight' /\ TurnsPaired'
    BY <2>1, <2>3, <1>7, <1>9 DEF Question, Chats
  <2>7. view'.banner \/ view'.loading => view.page \in DOMAIN LoadOf
    BY <2>1, <2>3, <1>4 DEF IInv, PageRight
  <2> QED BY <2>3, <2>4, <2>5, <2>6, <2>7, <1>6
<1>10. CASE c.op = "accounts"
  <2>1. PICK picker \in {"ready", "failed"} : view' = [view EXCEPT !.picker = picker]
    <3>1. view' = [view EXCEPT !.picker = "ready"] \/ view' = [view EXCEPT !.picker = "failed"]
      BY <1>10 DEF Succeeded, Failed
    <3> QED BY <3>1
  <2>2. /\ view' \in ViewType /\ view'.page = view.page
        /\ view'.turns = view.turns /\ view'.asking = view.asking
        /\ view'.picker # "loading" /\ view'.loading = view.loading
        /\ view'.banner = view.banner /\ view'.shown = view.shown
    BY <2>1, <1>1 DEF ViewType
  <2>3. SettledStaysOff' /\ NothingHangs'
    BY <2>2, <1>2, <1>4, <1>10 DEF IInv, SettledStaysOff, NothingHangs, PageRight
  <2>4. ChatRight' /\ TurnsPaired'
    BY <2>2, <1>7, <1>10 DEF Question
  <2> QED BY <2>2, <2>3, <2>4, <1>6 DEF IInv, PageRight
<1>11. CASE c.op \in {"login", "logout", "brief"}
  <2>1. view.page \notin Chats
    BY <1>1, <1>4, <1>11 DEF Chats, SignsOut, IInv, PageRight
  <2>2. view' = [view EXCEPT !.asking = FALSE]
    BY <1>11 DEF Succeeded, Failed
  <2>3. /\ view' \in ViewType /\ view'.page = view.page
        /\ view'.turns = view.turns /\ view'.asking = FALSE
        /\ view'.picker = view.picker /\ view'.loading = view.loading
        /\ view'.banner = view.banner /\ view'.shown = view.shown
    BY <2>2, <1>1 DEF ViewType
  <2>4. SettledStaysOff' /\ NothingHangs'
    BY <2>3, <1>2, <1>4, <1>11 DEF IInv, SettledStaysOff, NothingHangs, PageRight
  <2>5. ChatRight' /\ TurnsPaired'
    BY <2>1, <2>3, <1>7, <1>11 DEF Question
  <2> QED BY <2>3, <2>4, <2>5, <1>6 DEF IInv, PageRight
<1>12. CASE c.op \in {"ask", "note"} /\ view.page \in Chats
  <2>1. /\ view.asking /\ c.turn = Len(view.turns) /\ calls[c] = 1 /\ view.turns # <<>>
        /\ \A d \in Mounted : Question(d) => d = c
    BY <1>1, <1>12 DEF IInv, ChatRight, Question
  <2>2. view' = IF c.status = "ok"
                THEN [view EXCEPT !.asking = FALSE, !.turns = Append(@, <<"system", c.turn>>),
                                  !.banner = @ /\ c.op = "ask"]
                ELSE [view EXCEPT !.asking = FALSE, !.turns = SubSeq(@, 1, Len(@) - 1)]
    BY <2>1, <1>12 DEF Succeeded, Failed
  <2>3. /\ view'.turns = IF c.status = "ok"
                         THEN Append(view.turns, <<"system", c.turn>>)
                         ELSE SubSeq(view.turns, 1, Len(view.turns) - 1)
        /\ view'.page = view.page /\ view'.asking = FALSE
        /\ view'.picker = view.picker /\ view'.loading = view.loading
        /\ view'.banner = (view.banner /\ ~(c.op = "note" /\ c.status = "ok"))
        /\ view'.shown = view.shown
    BY <2>2, <1>1, <1>12 DEF ViewType
  <2>4. view'.turns \in Seq({"rep", "system"} \X Nat) /\ TurnsPaired'
    BY <2>1, <2>3, <1>12, TurnCloses
  <2>5. view' \in ViewType
    BY <2>2, <2>3, <2>4, <1>1, <1>12 DEF ViewType
  <2>6. SettledStaysOff'
    BY <2>3, <1>12 DEF IInv, SettledStaysOff
  <2>7. NothingHangs'
    <3>1. c.op = "note" /\ c.status = "ok" => Waiting({"due"})' /\ view.page = "home"
      BY <1>1, <1>2, <1>3, <1>4, <1>12 DEF Waiting, Mounted, CallBy, Chats
    <3>2. view.loading => view.page \in DOMAIN LoadOf /\ c.op \notin LoadOf[view.page]
      BY <1>4, <1>12 DEF IInv, PageRight
    <3>3. (view'.loading /\ ~view'.banner) => Waiting(LoadOf[view.page])'
      <4>1. CASE c.op = "note" /\ c.status = "ok"
        BY <4>1, <3>1, <2>3, <1>4
      <4>2. CASE ~(c.op = "note" /\ c.status = "ok")
        BY <4>2, <3>2, <2>3, <1>2 DEF IInv, NothingHangs
      <4> QED BY <4>1, <4>2
    <3>4. (view.page \in {"home", "unmatched", "result"} /\ view'.picker = "loading")
             => Waiting({"accounts"})'
      BY <2>3, <1>2, <1>12 DEF IInv, NothingHangs
    <3> QED BY <3>3, <3>4, <2>3 DEF NothingHangs
  <2>8. ChatRight'
    <3>1. c \notin more
      BY <1>3, <1>12
    <3>2. \A e \in Mounted' : ~Question(e)
      BY <3>1, <2>1, <1>1, <1>2, <1>3, <1>12 DEF Question
    <3> QED BY <3>2, <2>3, <1>12 DEF ChatRight
  <2> QED BY <2>3, <2>4, <2>5, <2>6, <2>7, <2>8, <1>6 DEF IInv, PageRight
<1>13. CASE c.op = "note" /\ view.page = "capture"
  <2>1. c.status # "ok" /\ view.turns = <<>> /\ view.page \notin Chats
    BY <1>13 DEF IInv, ChatRight, Chats
  <2>2. view' = [view EXCEPT !.asking = FALSE]
    BY <2>1, <1>13 DEF Failed
  <2>3. /\ view' \in ViewType /\ view'.page = view.page
        /\ view'.turns = <<>> /\ view'.asking = FALSE
        /\ view'.picker = view.picker /\ view'.loading = view.loading
        /\ view'.banner = view.banner /\ view'.shown = view.shown
    BY <2>1, <2>2, <1>1 DEF ViewType
  <2>4. SettledStaysOff' /\ NothingHangs'
    BY <2>3, <1>2, <1>4, <1>13 DEF IInv, SettledStaysOff, NothingHangs, PageRight
  <2>5. ChatRight' /\ TurnsPaired'
    BY <2>1, <2>3 DEF ChatRight, TurnsPaired
  <2> QED BY <2>3, <2>4, <2>5, <1>6 DEF IInv, PageRight
<1> QED
  <2>1. \/ c.op \in {"due", "unmatched"} \/ c.op \in {"complete", "resolve"}
        \/ c.op = "accounts" \/ c.op \in {"login", "logout", "brief"}
        \/ c.op \in {"ask", "note"}
    BY <1>1 DEF CallType, CallRecords, Ops
  <2>2. c.op \in {"ask", "note"} => view.page \in Chats \/ (c.op = "note" /\ view.page = "capture")
    BY <1>1, <1>4 DEF Chats
  <2> QED BY <2>1, <2>2, <1>8, <1>9, <1>10, <1>11, <1>12, <1>13

\* A note captured on the capture page opens the result page with it.
LEMMA ResultKeeps ==
    ASSUME IInv, NEW c \in InFlight, c.mounted, ~(isAuthenticated /\ SignsOut(c)),
           c.op = "note" /\ c.status = "ok" /\ view.page = "capture",
           Follow(c, calls (-) SetToBag({c})),
           settled' = settled, UNCHANGED server,
           isAuthenticated' = (isAuthenticated /\ ~SignsOut(c)),
           cookie' \in Tokens \cup {NoToken}
    PROVE  IInv'
<1> DEFINE left == calls (-) SetToBag({c})
<1>1. BagToSet(left) \subseteq CallType
  <2>1. Counted(calls) /\ c \in BagToSet(calls)
    BY DEF IInv, TypeInv, InFlight
  <2> QED BY <2>1, Removed DEF Counted
<1>2. PICK rest : rest = left
  OBVIOUS
<1>3. PICK shown : shown = {c.item} \ {NoItem}
  OBVIOUS
<1>4. PICK ops : ops = {"accounts"}
  OBVIOUS
<1>5. PICK token : token = cookie
  OBVIOUS
<1>6. c \in CallType /\ AnswerRight(c)
  BY DEF IInv, TypeInv, Counted, InFlight, ItemsRight, Mounted
<1>7. shown \in SUBSET Items /\ shown \cap settled = {}
  BY <1>3, <1>6 DEF AnswerRight, CallType, CallRecords
<1>8. isAuthenticated' = TRUE
  BY DEF IInv, PageRight, TypeInv
<1>9. /\ "result" \notin DOMAIN LoadOf
      /\ ops \cap Sends("result") = {} /\ MountCalls("result") = ops
  BY <1>4 DEF LoadOf, Sends, MountCalls
<1>10. view' = OpenedWith("result", shown, ops)
  BY <1>3, <1>9 DEF Follow, Opened, OpenedWith
<1>11. calls' = Left(rest) (+) SetToBag(Fresh(token, ops)) /\ raced' = {}
  <2>1. Fresh(token, ops) = {CallBy(cookie, "accounts", NoItem, 0)}
    BY <1>4, <1>5 DEF Fresh
  <2> QED BY <2>1, <1>2 DEF Follow, Call
<1>12. BagToSet(rest) \subseteq CallType /\ token \in Tokens \cup {NoToken}
  BY <1>1, <1>2, <1>5 DEF IInv, TypeInv
<1> QED BY <1>7, <1>8, <1>9, <1>10, <1>11, <1>12, OpenKeeps

LEMMA ReceiveKeeps ==
    ASSUME IInv, NEW c \in InFlight, Receive(c)
    PROVE  IInv'
<1> DEFINE rest == calls (-) SetToBag({c})
           entered == c.op = "login" /\ c.status = "ok"
<1>1. /\ c.status # "sent"
      /\ cookie' = CASE entered -> c.token
                     [] c.op = "logout" /\ c.status = "ok" -> NoToken
                     [] OTHER -> cookie
      /\ isAuthenticated' = (entered \/ (isAuthenticated /\ ~SignsOut(c)))
      /\ settled' = IF /\ c.mounted /\ c.status = "ok"
                       /\ c.op \in {"complete", "resolve"}
                    THEN settled \cup {c.item} ELSE settled
      /\ UNCHANGED server
  BY DEF Receive
<1>2. IF entered THEN Mount("home", rest, c.token, MountCalls("home"))
      ELSE IF isAuthenticated /\ SignsOut(c) THEN Mount("login", rest, cookie, {})
      ELSE IF c.mounted THEN Follow(c, rest)
      ELSE calls' = rest /\ UNCHANGED <<view, raced>>
  BY DEF Receive
<1>3. /\ c \in CallType /\ c.token \in Tokens \cup {NoToken}
      /\ cookie \in Tokens \cup {NoToken} /\ isAuthenticated \in BOOLEAN
  BY DEF IInv, TypeInv, Counted, InFlight, CallType, CallRecords
<1>4. cookie' \in Tokens \cup {NoToken} /\ isAuthenticated' \in BOOLEAN
  BY <1>1, <1>3
<1>5. BagToSet(rest) \subseteq CallType
  <2>1. Counted(calls) /\ c \in BagToSet(calls)
    BY DEF IInv, TypeInv, InFlight
  <2> QED BY <2>1, Removed DEF Counted
<1>6. CASE entered
  <2>1. settled' = settled /\ isAuthenticated' = TRUE
    BY <1>1, <1>6
  <2>2. "home" \in Pages \cup {"login"}
    BY DEF Pages
  <2>3. Mount("home", rest, c.token, MountCalls("home"))
    BY <1>2, <1>6
  <2> HIDE DEF rest
  <2> QED BY <2>1, <2>2, <2>3, <1>1, <1>3, <1>4, <1>5, MountKeeps
<1>7. CASE ~entered /\ isAuthenticated /\ SignsOut(c)
  <2>1. settled' = settled
    BY <1>1, <1>7 DEF SignsOut
  <2>2. Mount("login", rest, cookie, {}) /\ MountCalls("login") = {}
    BY <1>2, <1>7 DEF MountCalls, LoadOf
  <2>3. PICK ops : ops = {}
    OBVIOUS
  <2>4. Mount("login", rest, cookie, ops) /\ MountCalls("login") = ops
    BY <2>2, <2>3
  <2> HIDE DEF rest
  <2> QED BY <2>1, <2>4, <1>1, <1>3, <1>4, <1>5, MountKeeps
<1>8. CASE ~entered /\ ~(isAuthenticated /\ SignsOut(c)) /\ ~c.mounted
  <2>1. /\ settled' = settled /\ isAuthenticated' = isAuthenticated
        /\ calls' = rest /\ UNCHANGED <<view, raced>>
    BY <1>1, <1>2, <1>3, <1>8
  <2> QED BY <2>1, <1>1, <1>4, <1>8, IgnoredKeeps
<1>9. CASE ~entered /\ ~(isAuthenticated /\ SignsOut(c)) /\ c.mounted
  <2>1. Follow(c, rest) /\ isAuthenticated' = isAuthenticated
    BY <1>1, <1>2, <1>3, <1>9
  <2>2. CASE c.op = "note" /\ c.status = "ok" /\ view.page = "capture"
    <3>1. settled' = settled /\ isAuthenticated' = (isAuthenticated /\ ~SignsOut(c))
      BY <2>2, <1>1, <1>9
    <3> QED BY <2>1, <2>2, <3>1, <1>1, <1>4, <1>9, ResultKeeps
  <2>3. CASE ~(c.op = "note" /\ c.status = "ok" /\ view.page = "capture")
    <3>1. PICK more : more = IF c.op = "note" /\ c.status = "ok"
                             THEN {CallBy(cookie, "due", NoItem, 0)} ELSE {}
      OBVIOUS
    <3>2. /\ view' = IF c.status = "ok" THEN Succeeded(c) ELSE Failed(c)
          /\ calls' = IF c.op = "note" /\ c.status = "ok"
                      THEN rest (+) Call("due", NoItem) ELSE rest
          /\ raced' = IF /\ c.op \in {"complete", "resolve"} /\ c.status = "ok"
                         /\ Waiting({"due", "unmatched"})
                      THEN raced \cup {c.item} ELSE raced
      BY <2>1, <2>3 DEF Follow
    <3>3. \/ calls' = rest /\ more = {}
          \/ /\ calls' = rest (+) Call("due", NoItem)
             /\ more = {CallBy(cookie, "due", NoItem, 0)}
      BY <3>1, <3>2
    <3>4. settled' = IF c.status = "ok" /\ c.op \in {"complete", "resolve"}
                     THEN settled \cup {c.item} ELSE settled
      BY <1>1, <1>9
    <3> QED BY <2>1, <2>3, <3>1, <3>2, <3>3, <3>4, <1>1, <1>4, <1>9, StayKeeps
  <2> QED BY <2>2, <2>3
<1> QED BY <1>6, <1>7, <1>8, <1>9

-----------------------------------------------------------------------------
(* Who is signed in                                                        *)

\* A session that refused a call is gone for good: tokens are not used twice.
RefusedRight == \A c \in InFlight : c.status = "401" => c.token \notin sessions

LEMMA Elements ==
    ASSUME NEW bag, NEW more
    PROVE  /\ BagToSet(bag (+) SetToBag(more)) = BagToSet(bag) \cup more
           /\ BagToSet(bag (-) SetToBag(more)) \subseteq BagToSet(bag)
           /\ BagToSet(Left(bag)) = {[c EXCEPT !.mounted = FALSE] : c \in BagToSet(bag)}
BY DEF BagToSet, SetToBag, (+), (-), Left, BagOfAll

LEMMA SentIsNotRefused ==
    ASSUME RefusedRight, sessions' = sessions,
           \A e \in InFlight' : e.status # "401" \/ \E c \in InFlight :
                c.status = e.status /\ c.token = e.token
    PROVE  RefusedRight'
BY DEF RefusedRight

LEMMA OpenedIsNotRefused ==
    ASSUME TypeInv, RefusedRight, sessions' = sessions,
           NEW rest, BagToSet(rest) \subseteq InFlight, NEW fresh,
           \A e \in fresh : e.status = "sent",
           calls' = Left(rest) (+) SetToBag(fresh)
    PROVE  RefusedRight'
<1>1. InFlight' = {[c EXCEPT !.mounted = FALSE] : c \in BagToSet(rest)} \cup fresh
  BY Elements DEF InFlight
<1>2. ASSUME NEW c \in BagToSet(rest)
      PROVE  /\ [c EXCEPT !.mounted = FALSE].status = c.status
             /\ [c EXCEPT !.mounted = FALSE].token = c.token
  BY DEF TypeInv, Counted, InFlight, CallType, CallRecords
<1>3. ASSUME NEW e \in InFlight', e.status = "401"
      PROVE  \E c \in InFlight : c.status = e.status /\ c.token = e.token
  <2>1. PICK c \in BagToSet(rest) : e = [c EXCEPT !.mounted = FALSE]
    BY <1>1, <1>3
  <2> QED BY <2>1, <1>2
<1> QED BY <1>3, SentIsNotRefused

LEMMA RefusedStaysRight ==
    ASSUME TypeInv, RefusedRight, [Next]_vars
    PROVE  RefusedRight'
<1>1. ASSUME NEW d, d.status = "sent", calls' = calls (+) SetToBag({d}), Unmoved
      PROVE  RefusedRight'
  <2>1. InFlight' = InFlight \cup {d}
    BY <1>1, Elements DEF InFlight
  <2> QED BY <2>1, <1>1, SentIsNotRefused DEF Unmoved, server
<1>2. \A token, op, item, n : CallBy(token, op, item, n).status = "sent"
  BY DEF CallBy
<1>3. CASE Submit
  BY <1>1, <1>2, <1>3 DEF Submit
<1>4. CASE Retry
  BY <1>1, <1>2, <1>4 DEF Retry, Call
<1>5. CASE RetryAccounts
  BY <1>1, <1>2, <1>5 DEF RetryAccounts, Call
<1>6. CASE Settle
  BY <1>1, <1>2, <1>6 DEF Settle, Call
<1>7. CASE SignOut
  BY <1>1, <1>2, <1>7 DEF SignOut, Call
<1>8. ASSUME NEW p, NEW rest, BagToSet(rest) \subseteq InFlight, NEW token, NEW ops,
             Mount(p, rest, token, ops), sessions' = sessions
      PROVE  RefusedRight'
  BY <1>2, <1>8, OpenedIsNotRefused DEF Mount
<1>9. CASE \E p \in Pages : Visit(p)
  <2>1. BagToSet(calls) \subseteq InFlight
    BY DEF InFlight
  <2> QED BY <2>1, <1>8, <1>9 DEF Visit, Unmoved, server
<1>10. CASE Elsewhere
  <2>1. sessions' \subseteq sessions /\ InFlight' = InFlight
    BY <1>10 DEF Elsewhere, InFlight
  <2> QED BY <2>1 DEF RefusedRight
<1>11. ASSUME NEW c \in InFlight, Serve(c)
       PROVE  RefusedRight'
  <2>1. c \in CallType
    BY DEF TypeInv, Counted, InFlight
  <2>2. ASSUME NEW d, Become(c, d)
        PROVE  InFlight' \subseteq InFlight \cup {d}
    BY <2>2, Elements DEF Become, InFlight
  <2>3. CASE c.op = "login"
    <3>1. ASSUME NEW t \in FreshTokens, sessions' = sessions \cup {t},
                 Become(c, [c EXCEPT !.status = "ok", !.token = t])
          PROVE  RefusedRight'
      <4>1. [c EXCEPT !.status = "ok", !.token = t].status = "ok"
        BY <2>1 DEF CallType, CallRecords
      <4>2. \A e \in InFlight : e.token # t
        BY DEF FreshTokens
      <4>3. PICK d : Become(c, d) /\ d.status = "ok"
        BY <4>1, <3>1
      <4>4. InFlight' \subseteq InFlight \cup {d}
        BY <4>3, <2>2
      <4> QED BY <4>2, <4>3, <4>4, <3>1 DEF RefusedRight
    <3>2. CASE Become(c, [c EXCEPT !.status = "refused"]) /\ UNCHANGED sessions
      <4>1. [c EXCEPT !.status = "refused"].status = "refused"
        BY <2>1 DEF CallType, CallRecords
      <4> QED BY <4>1, <3>2, <2>2 DEF RefusedRight
    <3> QED BY <3>1, <3>2, <2>3, <1>11 DEF Serve
  <2>4. CASE c.op # "login"
    <3>1. sessions' \subseteq sessions
      BY <2>4, <1>11 DEF Serve, server
    <3>2. \E d : Become(c, d) /\ (d.status = "401" => d.token \notin sessions)
      <4>1. CASE c.token \notin sessions
        <5>1. [c EXCEPT !.status = "401"].token = c.token
          BY <2>1 DEF CallType, CallRecords
        <5> QED BY <5>1, <4>1, <2>4, <1>11 DEF Serve
      <4>2. CASE c.token \in sessions
        <5>1. \A item, list :
                 /\ [c EXCEPT !.status = "ok"].status = "ok"
                 /\ [c EXCEPT !.status = "refused"].status = "refused"
                 /\ [c EXCEPT !.status = "ok", !.list = list].status = "ok"
                 /\ [c EXCEPT !.status = "ok", !.item = item].status = "ok"
          BY <2>1 DEF CallType, CallRecords
        <5> QED BY <5>1, <4>2, <2>4, <1>11 DEF Serve
      <4> QED BY <4>1, <4>2
    <3> QED BY <3>1, <3>2, <2>2 DEF RefusedRight
  <2> QED BY <2>3, <2>4
<1>12. ASSUME NEW c \in InFlight, Fail(c)
       PROVE  RefusedRight'
  <2>1. [c EXCEPT !.status = "failed"].status = "failed"
    BY DEF TypeInv, Counted, InFlight, CallType, CallRecords
  <2>2. InFlight' \subseteq InFlight \cup {[c EXCEPT !.status = "failed"]}
    BY <1>12, Elements DEF Fail, Become, InFlight
  <2> QED BY <2>1, <2>2, <1>12 DEF Fail, server, RefusedRight
<1>13. ASSUME NEW c \in InFlight, Receive(c)
       PROVE  RefusedRight'
  <2> DEFINE left == calls (-) SetToBag({c})
  <2>1. BagToSet(left) \subseteq InFlight /\ sessions' = sessions
    BY <1>13, Elements DEF InFlight, Receive, server
  <2>2. PICK rest : rest = left
    OBVIOUS
  <2>3. \/ \E p, token, ops : Mount(p, rest, token, ops)
        \/ calls' = rest
        \/ calls' = rest (+) Call("due", NoItem)
        \/ calls' = Left(rest) (+) Call("accounts", NoItem)
    BY <1>13, <2>2 DEF Receive, Follow
  <2>4. CASE \E p, token, ops : Mount(p, rest, token, ops)
    BY <2>1, <2>2, <2>4, <1>8
  <2>5. CASE calls' = rest
    BY <2>1, <2>2, <2>5 DEF RefusedRight, InFlight
  <2>6. CASE calls' = rest (+) Call("due", NoItem)
    <3>1. InFlight' = BagToSet(rest) \cup {CallBy(cookie, "due", NoItem, 0)}
      BY <2>6, Elements DEF InFlight, Call
    <3> QED BY <3>1, <2>1, <2>2, <1>2 DEF RefusedRight
  <2>7. CASE calls' = Left(rest) (+) Call("accounts", NoItem)
    BY <2>1, <2>2, <2>7, <1>2, OpenedIsNotRefused DEF Call
  <2> QED BY <2>3, <2>4, <2>5, <2>6, <2>7
<1>14. CASE UNCHANGED vars
  BY <1>14 DEF vars, RefusedRight, InFlight
<1> QED BY <1>3, <1>4, <1>5, <1>6, <1>7, <1>9, <1>10, <1>11, <1>12, <1>13, <1>14 DEF Next

-----------------------------------------------------------------------------
(* The theorems                                                            *)

LEMMA InitHolds == Init => IInv
<1> SUFFICES ASSUME Init PROVE IInv
  OBVIOUS
<1>1. InFlight = {} /\ Mounted = {} /\ Counted(calls)
  BY DEF Init, InFlight, Mounted, Counted, BagToSet, SetToBag, EmptyBag
<1>2. /\ view.page = "login" /\ view.shown = {} /\ view.loading = FALSE
      /\ view.banner = FALSE /\ view.turns = <<>> /\ view.asking = FALSE
      /\ view \in ViewType
  <2>1. <<>> \in Seq({"rep", "system"} \X Nat) /\ "login" \notin DOMAIN LoadOf
    BY DEF LoadOf
  <2>2. view = [page |-> "login", shown |-> {}, loading |-> FALSE, banner |-> FALSE,
                picker |-> "loading", turns |-> <<>>, asking |-> FALSE]
    <3>1. ("login" \in DOMAIN LoadOf) = FALSE
      BY <2>1
    <3> QED BY <3>1 DEF Init, Opened
  <2> QED BY <2>1, <2>2 DEF ViewType
<1>3. TypeInv
  BY <1>1, <1>2 DEF Init, TypeInv
<1>4. PageRight /\ ItemsRight /\ SettledStaysOff
  BY <1>1, <1>2 DEF Init, PageRight, ItemsRight, SettledStaysOff
<1>5. NothingHangs /\ ChatRight /\ TurnsPaired
  BY <1>1, <1>2 DEF NothingHangs, ChatRight, TurnsPaired
<1> QED BY <1>3, <1>4, <1>5 DEF IInv

LEMMA NextKeeps == IInv /\ [Next]_vars => IInv'
<1> SUFFICES ASSUME IInv, [Next]_vars PROVE IInv'
  OBVIOUS
<1>1. CASE Submit
  BY <1>1, SubmitKeeps
<1>2. CASE Retry
  BY <1>2, RetryKeeps
<1>3. CASE RetryAccounts
  BY <1>3, RetryAccountsKeeps
<1>4. CASE Settle
  BY <1>4, SettleKeeps
<1>5. CASE SignOut
  BY <1>5, SignOutKeeps
<1>6. CASE Elsewhere
  BY <1>6, ElsewhereKeeps
<1>7. CASE \E p \in Pages : Visit(p)
  BY <1>7, VisitKeeps
<1>8. CASE \E c \in InFlight : Serve(c) \/ Fail(c) \/ Receive(c)
  BY <1>8, ServeKeeps, FailKeeps, ReceiveKeeps
<1>9. CASE UNCHANGED vars
  <2>1. InFlight' = InFlight /\ Mounted' = Mounted
    BY <1>9 DEF vars, InFlight, Mounted
  <2>2. TypeInv' /\ PageRight' /\ ItemsRight'
    BY <2>1, <1>9 DEF vars, IInv, TypeInv, Counted, PageRight, ItemsRight, AnswerRight
  <2>3. SettledStaysOff' /\ NothingHangs' /\ ChatRight' /\ TurnsPaired'
    BY <2>1, <1>9 DEF vars, IInv, SettledStaysOff, NothingHangs, Waiting, ChatRight, TurnsPaired
  <2> QED BY <2>2, <2>3 DEF IInv
<1> QED BY <1>1, <1>2, <1>3, <1>4, <1>5, <1>6, <1>7, <1>8, <1>9 DEF Next

LEMMA Invariance == Spec => []IInv
BY InitHolds, NextKeeps, PTL DEF Spec

\* What the page was told is closed stays off the screen, whatever the order
\* of the answers, unless a load was out when it was told
\* (CommitmentsDuePage.tsx, UnmatchedReviewPage.tsx).
THEOREM SettledStayOff == Spec => []SettledStaysOff
<1>1. IInv => SettledStaysOff
  BY DEF IInv
<1> QED BY <1>1, Invariance, PTL

\* Answers stand under their own questions (HomePage.tsx, QAChatPage.tsx).
THEOREM TurnsStayPaired == Spec => []TurnsPaired
<1>1. IInv => TurnsPaired
  BY DEF IInv
<1> QED BY <1>1, Invariance, PTL

\* No page shows "loading", and no form is disabled, without a call out that
\* ends it (the finally clauses and the banners of the pages).
THEOREM NothingEverHangs == Spec => []NothingHangs
<1>1. IInv => NothingHangs
  BY DEF IInv
<1> QED BY <1>1, Invariance, PTL

\* A tab whose session is still accepted is not signed out by a failure or by
\* a slow call (AuthContext.tsx, handleUnauthenticated).
THEOREM StaysSignedIn == Spec => KeptSignedIn
<1> DEFINE Kept == \A c \in InFlight :
             (Receive(c) /\ isAuthenticated /\ ~isAuthenticated' /\ cookie \in sessions)
                 => c.op = "logout" \/ c.token # cookie
<1>1. Init => RefusedRight
  BY DEF Init, RefusedRight, InFlight, BagToSet, SetToBag, EmptyBag
<1>2. IInv /\ RefusedRight /\ [Next]_vars => RefusedRight'
  BY RefusedStaysRight DEF IInv
<1>3. RefusedRight => Kept
  BY DEF RefusedRight, Receive, SignsOut
<1>4. Spec => []RefusedRight
  BY <1>1, <1>2, Invariance, PTL DEF Spec
<1>5. RefusedRight /\ [Next]_vars => [Kept]_vars
  BY <1>3
<1> QED BY <1>4, <1>5, PTL DEF Spec, KeptSignedIn
=============================================================================
