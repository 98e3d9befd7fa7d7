------------------------------- MODULE DictMap -------------------------------
(* What a dictionary promises: a map from keys to values. *)
CONSTANTS Keys, Vals, Defaults, Null

VARIABLES
    content,    \* the entries, one for each key
    ret         \* the default passed to the last dict_get, and what it returned

Init == content = {} /\ ret = [def |-> Null, val |-> Null]

Without(k) == {e \in content : e.key # k}

Put(k, v) ==
    /\ content' = Without(k) \cup {[key |-> k, val |-> v]}
    /\ UNCHANGED ret

Remove(k) ==
    /\ content' = Without(k)
    /\ UNCHANGED ret

\* The header promises the default for a key that is not there; the map leaves
\* it open whether a caller gets that or NULL.
Get(k, d) ==
    /\ \/ \E e \in content : e.key = k /\ ret' = [def |-> d, val |-> e.val]
       \/ content = Without(k) /\ \E r \in {d, Null} : ret' = [def |-> d, val |-> r]
    /\ UNCHANGED content

Next ==
    \E k \in Keys :
        \/ Remove(k)
        \/ \E v \in Vals : Put(k, v)
        \/ content = Without(k) /\ Put(k, Null)
        \/ \E d \in Defaults : Get(k, d)

Spec == Init /\ [][Next]_<<content, ret>>
=============================================================================
