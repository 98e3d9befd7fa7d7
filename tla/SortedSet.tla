------------------------------ MODULE SortedSet ------------------------------
(***************************************************************************)
(* What a search tree promises its caller: a set of keys.  last is the     *)
(* call that was made last.                                                *)
(***************************************************************************)
CONSTANT Keys

VARIABLES set, last

Init == set = {} /\ last = <<"none">>

Insert(k) == k \notin set /\ set' = set \cup {k} /\ last' = <<"insert", k>>

Delete(k) == k \in set /\ set' = set \ {k} /\ last' = <<"delete", k>>

Next == \E k \in Keys : Insert(k) \/ Delete(k)

Spec == Init /\ [][Next]_<<set, last>>
=============================================================================
