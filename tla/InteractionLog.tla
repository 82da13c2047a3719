---------------------------- MODULE InteractionLog ----------------------------
(***************************************************************************)
(* What the write side promises to everything that reads the stores: the   *)
(* two tables and the index as a log of whole steps, with no requests,     *)
(* locks or threads.  A note appears together with all its commitments;    *)
(* an account, once attached, may be replaced but never taken away;        *)
(* a completed commitment stays completed; the index only ever speaks of   *)
(* notes that exist, and names an account only for a note that has one.    *)
(*                                                                         *)
(* CaptureService implements this specification (InteractionLogSpec).      *)
(***************************************************************************)

CONSTANTS Interactions, Commitments, Accounts,
          NoAccount, Unassigned, NoChunk, NoNote

VARIABLES interactions, commitments, chunks

logVars == <<interactions, commitments, chunks>>

Noted(i) == interactions[i].match_status # "absent"

Thread(i) == {c \in Commitments : /\ commitments[c].status # "absent"
                                  /\ commitments[c].interaction_id = i}

Init ==
    /\ interactions = [i \in Interactions |->
           [match_status |-> "absent", account_id |-> NoAccount]]
    /\ commitments = [c \in Commitments |->
           [status |-> "absent", account_id |-> NoAccount, interaction_id |-> NoNote]]
    /\ chunks = [i \in Interactions |-> NoChunk]

\* A new note, matched to a or to nothing, and its open commitments.
Capture(i, a) ==
    /\ ~Noted(i)
    /\ interactions' = [interactions EXCEPT ![i] =
           [match_status |-> IF a = NoAccount THEN "unmatched" ELSE "matched",
            account_id   |-> a]]
    /\ \E found \in SUBSET {c \in Commitments : commitments[c].status = "absent"} :
          commitments' = [c \in Commitments |->
              IF c \in found
              THEN [status |-> "open", account_id |-> a, interaction_id |-> i]
              ELSE commitments[c]]
    /\ UNCHANGED chunks

\* The note goes to account a.  Every commitment of its thread that had no
\* account gets a; one that another resolution has given an account may keep it.
Attach(i, a) ==
    /\ Noted(i)
    /\ interactions' = [interactions EXCEPT ![i] =
           [match_status |-> "matched", account_id |-> a]]
    /\ \E moved \in SUBSET Thread(i) :
          /\ \A c \in Thread(i) : commitments[c].account_id = NoAccount => c \in moved
          /\ commitments' = [c \in Commitments |->
                 IF c \in moved THEN [commitments[c] EXCEPT !.account_id = a]
                                ELSE commitments[c]]
    /\ UNCHANGED chunks

Complete(c) ==
    /\ commitments[c].status = "open"
    /\ commitments' = [commitments EXCEPT ![c] = [@ EXCEPT !.status = "complete"]]
    /\ UNCHANGED <<interactions, chunks>>

\* The index is written, under an account or under the sentinel.
Index(i, x) ==
    /\ Noted(i)
    /\ x \in Accounts => interactions[i].match_status = "matched"
    /\ chunks' = [chunks EXCEPT ![i] = x]
    /\ UNCHANGED <<interactions, commitments>>

Next ==
    \/ \E i \in Interactions :
          \/ \E a \in Accounts \cup {NoAccount} : Capture(i, a)
          \/ \E a \in Accounts : Attach(i, a)
          \/ \E x \in Accounts \cup {Unassigned} : Index(i, x)
    \/ \E c \in Commitments : Complete(c)

Spec == Init /\ [][Next]_logVars
=============================================================================
