------------------------------- MODULE Mirror -------------------------------
(***************************************************************************)
(* What a cache promises: it shows one moment of the server's past, the    *)
(* whole of it, and never goes back to an earlier one.                     *)
(***************************************************************************)
EXTENDS Naturals, Sequences

VARIABLES
    past,      \* sequence of what there was to see, one entry for each version
    view,      \* what the cache shows
    position   \* the moment it shows, 0 before the first

vars == <<past, view, position>>

Init == Len(past) >= 1 /\ position = 0 /\ view = {}

Happen ==
    /\ Len(past') = Len(past) + 1
    /\ SubSeq(past', 1, Len(past)) = past
    /\ UNCHANGED <<view, position>>

Advance ==
    /\ position' \in position .. Len(past) /\ position' >= 1
    /\ view' = past[position']
    /\ UNCHANGED past

Next == Happen \/ Advance

Spec == Init /\ [][Next]_vars
=============================================================================
