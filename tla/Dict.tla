-------------------------------- MODULE Dict ---------------------------------
(***************************************************************************)
(* The dictionary of lsd/dict.c: an open hash table after the one of       *)
(* Python, with lazy deletion.  One caller at a time.  A call is one step, *)
(* but for the reinsertion loop of dict_resize, which goes slot by slot.   *)
(*                                                                         *)
(* A slot is Null (key is NULL), Dummy (key is DUMMY_PTR, val is NULL) or  *)
(* an entry.  used is unsigned in the code: -n stands for 2^32 - n.        *)
(* Memory is never short.                                                  *)
(***************************************************************************)
EXTENDS Integers, FiniteSets

CONSTANTS
    Keys, Vals,
    Defaults,       \* what callers of dict_get pass as defval
    Hash,           \* dict_hash of each key
    MinSize,        \* DICT_MIN_SZ
    BigSize,        \* DICT_BIGSZ
    Null, Dummy,
    Sizes,          \* bound: the table sizes there are
    MaxFill,        \* bound on fill
    MaxMissing      \* bound on how far used falls below zero

\* perturb is zero after seven probes; the next sz ones visit every slot.
Probes(sz) == 0 .. sz + 6

\* perturb after n shifts by PERTURB_SHIFT; 32^7 is more than any hash.
Perturb(h, n) == IF n > 6 THEN 0 ELSE h \div 32^n

\* The slots a lookup of a key visits in a table of a size.
Probe ==
    [k \in Keys |-> [sz \in Sizes |->
        LET i[n \in Probes(sz)] ==
                IF n = 0 THEN Hash[k] % sz
                ELSE (5 * i[n - 1] + Perturb(Hash[k], n - 1) + 1) % sz
        IN  [n \in Probes(sz) |-> i[n]]]]

ASSUME SizesAssumption ==
    /\ Sizes \subseteq Nat \ {0, 1} /\ MinSize \in Sizes
    /\ \A a, b \in Sizes : a < b => 2 * a <= b
ASSUME ProbeAssumption ==
    \A k \in Keys : \A sz \in Sizes :
        /\ \A n \in Probes(sz) : Probe[k][sz][n] \in 0 .. sz - 1
        /\ \A s \in 0 .. sz - 1 : \E n \in Probes(sz) : Probe[k][sz][n] = s
ASSUME BoundsAssumption == MaxFill \in Nat /\ MaxMissing \in Nat /\ BigSize \in Nat
ASSUME ValuesAssumption == Null # Dummy /\ Null \notin Vals

\* A key may have no value: conf.c adds one for a line without "=".
Entry == [key : Keys, val : Vals \cup {Null}]
ASSUME SlotsAssumption == Null \notin Entry /\ Dummy \notin Entry

VARIABLES
    table, size, used, fill,
    old, at,    \* the table dict_resize copies from, and its index i
    ret,        \* the default passed to the last dict_get, and what it returned
    hung,       \* a call does not return
    deleted     \* history: dict_del has been called

vars == <<table, size, used, fill, old, at, ret, hung, deleted>>

NoTable == [s \in {} |-> Null]

Resizing == at \in DOMAIN old
Idle == ~hung /\ ~Resizing

Live(t, s) == t[s] \notin {Null, Dummy}

-----------------------------------------------------------------------------
(* dict_lookup *)

Slot(k, n) == Probe[k][size][n]

\* Mutant: a deleted slot ends the search.
StopsAtDummy(k, n) ==
    \/ ~Live(table, Slot(k, n))
    \/ table[Slot(k, n)].key = k

Stops(k, n) ==
    \/ table[Slot(k, n)] = Null
    \/ Live(table, Slot(k, n)) /\ table[Slot(k, n)].key = k

\* The probe that ends a search.
Ends(k) == {n \in Probes(size) : Stops(k, n) /\ \A j \in 0 .. n - 1 : ~Stops(k, j)}

\* A search that ends at an empty slot returns the first deleted one it met.
Returned(k, n) ==
    IF table[Slot(k, n)] = Null /\ \E j \in 0 .. n - 1 : table[Slot(k, j)] = Dummy
    THEN {m \in 0 .. n - 1 : /\ table[Slot(k, m)] = Dummy
                             /\ \A j \in 0 .. m - 1 : table[Slot(k, j)] # Dummy}
    ELSE {n}

\* The slot for a key; none when the search does not end.
Lookup(k) == {Slot(k, m) : m \in UNION {Returned(k, n) : n \in Ends(k)}}

Hangs(k) == \A n \in Probes(size) : ~Stops(k, n)

-----------------------------------------------------------------------------
Init ==
    /\ size = MinSize
    /\ table = [s \in 0 .. MinSize - 1 |-> Null]
    /\ used = 0 /\ fill = 0
    /\ old = NoTable /\ at = 0
    /\ ret = [def |-> Null, val |-> Null]
    /\ hung = FALSE /\ deleted = FALSE

\* The table gets too small for u keys: factor * used slots at least, in a
\* number that is a doubling of size.
NewSize(u, sz) ==
    LET factor == IF size > BigSize THEN 2 ELSE 4 IN
    /\ size <= factor * u
    /\ sz \in Sizes /\ sz > factor * u /\ sz <= 2 * factor * u

EnoughRoom(u) == size > (IF size > BigSize THEN 2 ELSE 4) * u

\* Mutant: the threshold is that of a full table.
CrowdedLate(f) == f > size + 1

Crowded(f) == 3 * f >= 2 * size

\* Mutant: fill and used go on from the old table.
GrowKeepsCounters(t, u, f) ==
    /\ Crowded(f) /\ u >= 0
    /\ \E sz \in Sizes :
          /\ NewSize(u, sz)
          /\ size' = sz
          /\ table' = [s \in 0 .. sz - 1 |-> Null]
    /\ used' = u /\ fill' = f
    /\ old' = t /\ at' = 0
    /\ UNCHANGED hung

\* dict_resize up to its loop
Grow(t, u, f) ==
    /\ Crowded(f) /\ u >= 0
    /\ \E sz \in Sizes :
          /\ NewSize(u, sz)
          /\ size' = sz
          /\ table' = [s \in 0 .. sz - 1 |-> Null]
    /\ used' = 0 /\ fill' = 0
    /\ old' = t /\ at' = 0
    /\ UNCHANGED hung

\* No call of dict_resize, or its early exit.  For a used below zero the
\* search for a size does not end: newsize becomes 0 and stays.
Stay(t, u, f) ==
    /\ ~Crowded(f) \/ u < 0 \/ EnoughRoom(u)
    /\ f <= MaxFill
    /\ table' = t /\ used' = u /\ fill' = f
    /\ hung' = (Crowded(f) /\ u < 0)
    /\ UNCHANGED <<size, old, at>>

\* A value of NULL leaves the one in the slot, which is NULL if the key is new.
Stored(s, v) == IF v = Null /\ Live(table, s) THEN table[s].val ELSE v

\* dict_add_p with copy: used and fill count every call, also one that
\* replaces a value.
dict_add(k, v) ==
    /\ Idle
    /\ \E s \in Lookup(k) :
          LET t == [table EXCEPT ![s] = [key |-> k, val |-> Stored(s, v)]]
          IN  Stay(t, used + 1, fill + 1) \/ Grow(t, used + 1, fill + 1)
    /\ UNCHANGED <<ret, deleted>>

\* dict_lookup always has a slot to return, so a missing key gets the NULL of
\* that slot, whatever default the caller passes.
dict_get(k, defval) ==
    /\ Idle
    /\ \E s \in Lookup(k) :
          ret' = [def |-> defval, val |-> IF Live(table, s) THEN table[s].val ELSE Null]
    /\ UNCHANGED <<table, size, used, fill, old, at, hung, deleted>>

\* The slot becomes Dummy also when the key was not there.
dict_del(k) ==
    /\ Idle /\ used > -MaxMissing
    /\ \E s \in Lookup(k) : table' = [table EXCEPT ![s] = Dummy]
    /\ used' = used - 1
    /\ deleted' = TRUE
    /\ UNCHANGED <<size, fill, old, at, ret, hung>>

\* Any of the three calls, when no slot ends its search.
Hang(k) ==
    /\ Idle /\ Hangs(k)
    /\ hung' = TRUE
    /\ UNCHANGED <<table, size, used, fill, old, at, ret, deleted>>

\* dict_add_p without copy, for slot at of the old table.  It is never deep
\* enough for another dict_resize (NoNestedResize).
Reinsert ==
    LET e == old[at] IN
    IF Live(old, at)
    THEN /\ \E s \in Lookup(e.key) : table' = [table EXCEPT ![s] = e]
         /\ used' = used + 1 /\ fill' = fill + 1
    ELSE UNCHANGED <<table, used, fill>>

\* One round of the loop of dict_resize
CopySlot ==
    /\ ~hung /\ Resizing
    /\ Reinsert
    /\ IF at + 1 \in DOMAIN old
       THEN at' = at + 1 /\ UNCHANGED old
       ELSE at' = 0 /\ old' = NoTable
    /\ UNCHANGED <<size, ret, hung, deleted>>

Next ==
    \/ CopySlot
    \/ \E k \in Keys :
          \/ dict_del(k) \/ Hang(k)
          \/ \E v \in Vals \cup {Null} : dict_add(k, v)
          \/ \E d \in Defaults : dict_get(k, d)

Spec == Init /\ [][Next]_vars

-----------------------------------------------------------------------------
(* Properties *)

\* What ret records of a call.
Results == [def : Defaults \cup {Null}, val : Vals \cup {Null}]

\* The C types, and tables of the size they should have.
TypeOK ==
    /\ size \in Sizes
    /\ table \in [0 .. size - 1 -> Entry \cup {Null, Dummy}]
    /\ used \in Int /\ fill \in Nat /\ at \in Nat
    /\ \E sz \in Sizes \cup {0} : old \in [0 .. sz - 1 -> Entry \cup {Null, Dummy}]
    /\ ret \in Results
    /\ hung \in BOOLEAN /\ deleted \in BOOLEAN

EntriesFrom(t, i) == {t[s] : s \in {x \in DOMAIN t : x >= i /\ Live(t, x)}}

\* The entries of the table, and of the old one those not yet copied.
Content == EntriesFrom(table, 0) \cup EntriesFrom(old, at)

Map == INSTANCE DictMap WITH content <- Content

\* The table is a map: a value that was added is found until it is replaced or
\* deleted, through collisions, deleted slots and resizing.  For a key that is
\* not there a caller gets NULL or its default, and never the value of another.
MapSpec == Map!Spec

\* A dictionary from which nothing is ever deleted always keeps an empty slot,
\* so that every search ends.
NoHangWithoutDelete == hung => deleted

\* Copying never calls dict_resize again, which would copy a half-filled table.
NoNestedResize == [][CopySlot => 3 * fill' < 2 * size]_vars
=============================================================================
