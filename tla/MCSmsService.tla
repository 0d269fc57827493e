---------------------------- MODULE MCSmsService ----------------------------
(***************************************************************************)
(* The SMS service for TLC, with the history of the order in which requests *)
(* were made and of the status queries of each message.                     *)
(***************************************************************************)
EXTENDS SmsService

VARIABLES
    fresh,      \* the requests that wait, made since the last reply arrived
    ahead,      \* <<a, b>>: both wait, a was made first, no reply in between
    queries     \* the status queries sent for each call

mcVars == <<vars, fresh, ahead, queries>>

MCInit ==
    /\ Init
    /\ fresh = {}
    /\ ahead = {}
    /\ queries = [c \in Calls |-> 0]

Waiting == {c \in Calls : place[c] = "timer"}

MCNext ==
    /\ Next
    /\ LET new == Waiting' \ Waiting
           replied == reuestsCount' < reuestsCount
       IN  /\ fresh' = IF replied THEN {} ELSE (fresh \cup new) \cap Waiting'
           /\ ahead' = (ahead \cup (fresh \X new)) \cap (Waiting' \X Waiting')
           /\ queries' = [c \in Calls |->
                            IF c \in new /\ IdSms[c] THEN queries[c] + 1 ELSE queries[c]]

MCSpec == MCInit /\ [][MCNext]_mcVars

MCFairSpec == MCSpec /\ Fairness

-----------------------------------------------------------------------------
\* Of two messages that wait, the one asked for first is sent first, unless a reply
\* to another one arrived in between: the escalation's call goes out before the
\* cancellation of it.
OrderKept == \A a, b \in Calls : <<a, b>> \in ahead => left[a] < left[b]

\* A message is queried at most four times, however the gateway answers.
QueriesBounded == \A c \in Calls : queries[c] <= 4
=============================================================================
