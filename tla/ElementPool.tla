----------------------------- MODULE ElementPool -----------------------------
(***************************************************************************)
(* What an allocator of equal elements promises its callers: an element    *)
(* that is handed out is not handed out again before it is given back.     *)
(***************************************************************************)
VARIABLE out    \* the elements handed out

Init == out = {}

Take == \E e \in out' : e \notin out /\ out' = out \cup {e}

GiveBack == \E e \in out : out' = out \ {e}

\* The whole pool goes away at once.
Close == out' = {}

Next == Take \/ GiveBack \/ Close

Spec == Init /\ [][Next]_out
=============================================================================
