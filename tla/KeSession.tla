----------------------------- MODULE KeSession -----------------------------
(***************************************************************************)
(* What a KeTcpObject promises to the code that listens to its signals:    *)
(* connections come and go, each one is announced by ready() at most once  *)
(* and only while it lasts, codes are reported only by a connection that   *)
(* is up, and a code does not outlive the connection that reported it.     *)
(***************************************************************************)
CONSTANTS
    Codes,      \* the input codes
    NoCode      \* the code of no input at all, which is never recorded

VARIABLES
    up,         \* the device is connected
    announced,  \* ready() was emitted since it is
    code,       \* the code last reported
    waiting     \* a reported code still has to prove stable

vars == <<up, announced, code, waiting>>

Init == ~up /\ ~announced /\ code = NoCode /\ ~waiting

Connect == ~up /\ up' /\ UNCHANGED <<announced, code, waiting>>

Announce == up /\ ~announced /\ announced' /\ UNCHANGED <<up, code, waiting>>

Report == /\ up
          /\ code' \in Codes
          /\ waiting'
          /\ UNCHANGED <<up, announced>>

Emit == waiting /\ ~waiting' /\ UNCHANGED <<up, announced, code>>

Lose == up /\ ~up' /\ ~announced' /\ code' = NoCode /\ UNCHANGED waiting

Next == Connect \/ Announce \/ Report \/ Emit \/ Lose

Spec == Init /\ [][Next]_vars
=============================================================================
