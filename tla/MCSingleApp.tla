---------------------------- MODULE MCSingleApp ----------------------------
(***************************************************************************)
(* The single-instance guard for TLC, with the history that says when two  *)
(* instances may come about.                                               *)
(***************************************************************************)
EXTENDS SingleApp

VARIABLE overlap    \* two processes were deciding about an instance at once, or
                    \* one ended after it stored its pid and before it killed

mcVars == <<vars, overlap>>

Deciders == {p \in Procs : pc[p] \in {"deciding", "killing"}}
Overlapping == \E p, q \in Deciders : p # q

MCInit == Init /\ overlap = FALSE

MCNext ==
    /\ Next
    /\ overlap' = (\/ overlap
                   \/ Overlapping'
                   \/ \E p \in Procs : pc[p] = "killing" /\ pc'[p] = "ended")

MCSpec == MCInit /\ [][MCNext]_mcVars

MCFair == MCSpec /\ Fairness

-----------------------------------------------------------------------------
\* Two instances stay side by side only when two starts decided about an instance
\* at the same time, or one ended between storing its pid and killing.
OneUnlessOverlap == ~overlap => AtMostOne
=============================================================================
