----------------------------- MODULE DictProofs ------------------------------
(***************************************************************************)
(* The hash table is a map, for any keys, hashes and sizes that satisfy    *)
(* the assumptions of Dict.  The inductive invariant says what a search    *)
(* relies on: a key is in one slot only, and no slot that a search for it  *)
(* visits earlier is empty.                                                *)
(***************************************************************************)
EXTENDS Dict, FiniteSetTheorems, TLAPS

SlotValues == Entry \cup {Null, Dummy}

\* A key is in one slot of a table.
KeysOnce(t) ==
    \A r, s \in DOMAIN t : Live(t, r) /\ Live(t, s) /\ t[r].key = t[s].key => r = s

\* A search for the key in slot s gets there.
Reached(t, k, s) ==
    \E n \in Probes(size) :
        /\ Slot(k, n) = s
        /\ \A j \in 0 .. n - 1 : t[Slot(k, j)] # Null

AllReached(t) == \A s \in DOMAIN t : Live(t, s) => Reached(t, t[s].key, s)

\* A key still to be copied is not in the new table.
Apart ==
    \A s \in DOMAIN table : \A r \in DOMAIN old :
        Live(table, s) /\ r >= at /\ Live(old, r) => table[s].key # old[r].key

\* The new table is at least twice the old one, and holds what was copied.
CopyInv ==
    \/ old = NoTable /\ at = 0
    \/ \E sz \in Sizes :
          /\ old \in [0 .. sz - 1 -> SlotValues]
          /\ 2 * sz <= size /\ at \in 0 .. sz - 1 /\ fill <= at

TableInv ==
    KeysOnce(table) /\ KeysOnce(old) /\ Apart /\ AllReached(table)

IInv == TypeOK /\ CopyInv /\ TableInv

-----------------------------------------------------------------------------
(* dict_lookup *)

\* A search that ends has met the key if it is there, and returns a slot that
\* holds the key or nothing and that a later search reaches.
LEMMA LookupFacts ==
    ASSUME IInv, NEW k \in Keys, NEW s \in Lookup(k)
    PROVE  /\ s \in 0 .. size - 1
           /\ Live(table, s) => table[s].key = k
           /\ Reached(table, k, s)
           /\ \A r \in DOMAIN table : Live(table, r) /\ table[r].key = k => r = s
<1>1. PICK n \in Ends(k) : \E m \in Returned(k, n) : s = Slot(k, m)
  BY DEF Lookup
<1>2. PICK m \in Returned(k, n) : s = Slot(k, m)
  BY <1>1
<1>3. /\ n \in Probes(size) /\ Stops(k, n)
      /\ \A j \in 0 .. n - 1 : ~Stops(k, j)
  BY <1>1 DEF Ends
<1>4. size \in Sizes /\ size \in Nat /\ DOMAIN table = 0 .. size - 1
  BY SizesAssumption DEF IInv, TypeOK
<1>5. \A j \in Probes(size) : Slot(k, j) \in 0 .. size - 1
  BY <1>4, ProbeAssumption DEF Slot
<1>6. m \in Probes(size) /\ m <= n /\ n \in Nat /\ m \in Nat
  BY <1>2, <1>3, <1>4 DEF Returned, Probes
<1>7. \A j \in 0 .. n - 1 : table[Slot(k, j)] # Null
  BY <1>3 DEF Stops
<1>8. Reached(table, k, s)
  BY <1>2, <1>6, <1>7 DEF Reached
<1>9. ASSUME NEW r \in DOMAIN table, Live(table, r), table[r].key = k
      PROVE  r = Slot(k, n) /\ table[Slot(k, n)] # Null
  <2>1. PICK p \in Probes(size) : Slot(k, p) = r /\ \A j \in 0 .. p - 1 : table[Slot(k, j)] # Null
    BY <1>9 DEF IInv, TableInv, AllReached, Reached
  <2>2. Stops(k, p)
    BY <1>9, <2>1 DEF Stops
  <2>3. n <= p
    BY <1>3, <1>4, <1>6, <2>1, <2>2 DEF Probes
  <2>4. table[Slot(k, n)] # Null
    <3>1. CASE n = p
      BY <3>1, <2>1, <1>9 DEF Live
    <3>2. CASE n < p
      BY <3>2, <2>1, <1>4, <1>6 DEF Probes
    <3> QED
      BY <2>3, <3>1, <3>2, <1>4, <1>6 DEF Probes
  <2>5. Live(table, Slot(k, n)) /\ table[Slot(k, n)].key = k
    BY <1>3, <2>4 DEF Stops
  <2>6. Slot(k, n) \in DOMAIN table
    BY <1>3, <1>4, <1>5
  <2> QED
    BY <1>9, <2>4, <2>5, <2>6 DEF IInv, TableInv, KeysOnce
<1>10. ASSUME NEW r \in DOMAIN table, Live(table, r), table[r].key = k
       PROVE  r = s
  <2>1. r = Slot(k, n) /\ table[Slot(k, n)] # Null
    BY <1>9, <1>10
  <2>2. Returned(k, n) = {n}
    BY <2>1 DEF Returned
  <2> QED
    BY <1>2, <2>1, <2>2
<1>11. Live(table, s) => table[s].key = k
  <2>1. CASE Returned(k, n) = {n}
    BY <1>2, <1>3, <2>1 DEF Stops, Live
  <2>2. CASE Returned(k, n) # {n}
    <3>1. table[Slot(k, m)] = Dummy
      BY <1>2, <2>2 DEF Returned
    <3> QED
      BY <3>1, <1>2 DEF Live
  <2> QED
    BY <2>1, <2>2
<1>12. s \in 0 .. size - 1
  BY <1>2, <1>5, <1>6
<1> QED
  BY <1>8, <1>10, <1>11, <1>12

\* A value that is no entry leaves a slot dead.
LEMMA SlotKinds ==
    ASSUME NEW t, NEW s \in DOMAIN t, t[s] \in SlotValues
    PROVE  Live(t, s) <=> t[s] \in Entry
  BY SlotsAssumption DEF SlotValues, Live

\* The entries of a table, slot by slot.
LEMMA EntriesOf ==
    ASSUME NEW t, NEW i
    PROVE  \A x : x \in EntriesFrom(t, i) <=> \E r \in DOMAIN t : r >= i /\ Live(t, r) /\ x = t[r]
  BY DEF EntriesFrom

\* All entries of a table.
LEMMA EntriesAll ==
    ASSUME NEW t, NEW N \in Nat, DOMAIN t = 0 .. N - 1
    PROVE  \A x : x \in EntriesFrom(t, 0) <=> \E r \in 0 .. N - 1 : Live(t, r) /\ x = t[r]
<1>1. \A r \in DOMAIN t : r >= 0
  OBVIOUS
<1> QED
  BY <1>1, EntriesOf

\* Storing an entry where its key belongs keeps the table in order and replaces
\* the entry of that key.
LEMMA StoreFacts ==
    ASSUME IInv, NEW e \in Entry, NEW s \in Lookup(e.key), NEW t,
           t = [table EXCEPT ![s] = e]
    PROVE  /\ t \in [0 .. size - 1 -> SlotValues]
           /\ KeysOnce(t) /\ AllReached(t)
           /\ EntriesFrom(t, 0) = {x \in EntriesFrom(table, 0) : x.key # e.key} \cup {e}
<1> DEFINE k == e.key
<1>1. k \in Keys
  BY DEF Entry
<1>2. /\ s \in 0 .. size - 1
      /\ Live(table, s) => table[s].key = k
      /\ Reached(table, k, s)
      /\ \A r \in DOMAIN table : Live(table, r) /\ table[r].key = k => r = s
  BY <1>1, LookupFacts
<1>3. table \in [0 .. size - 1 -> SlotValues]
  BY DEF IInv, TypeOK, SlotValues
<1>4. /\ t \in [0 .. size - 1 -> SlotValues]
      /\ t[s] = e
      /\ \A r \in 0 .. size - 1 : r # s => t[r] = table[r]
  BY <1>2, <1>3 DEF SlotValues
<1>5. Live(t, s)
  BY <1>4, SlotsAssumption DEF Live
<1>6. \A r \in 0 .. size - 1 : r # s => (Live(t, r) <=> Live(table, r))
  BY <1>4 DEF Live
<1>7. \A r \in 0 .. size - 1 : r # s /\ Live(t, r) => t[r].key # k
  BY <1>2, <1>3, <1>4, <1>6
<1>8. KeysOnce(t)
  <2> SUFFICES ASSUME NEW p \in DOMAIN t, NEW q \in DOMAIN t, Live(t, p), Live(t, q),
                      t[p].key = t[q].key
               PROVE  p = q
    BY DEF KeysOnce
  <2>1. p \in 0 .. size - 1 /\ q \in 0 .. size - 1
    BY <1>4
  <2>2. CASE p = s \/ q = s
    BY <2>1, <2>2, <1>4, <1>7
  <2>3. CASE p # s /\ q # s
    BY <2>1, <2>3, <1>3, <1>4, <1>6 DEF IInv, TableInv, KeysOnce
  <2> QED
    BY <2>2, <2>3
<1>9. AllReached(t)
  <2> SUFFICES ASSUME NEW p \in DOMAIN t, Live(t, p)
               PROVE  Reached(t, t[p].key, p)
    BY DEF AllReached
  <2>1. p \in 0 .. size - 1
    BY <1>4
  <2>2. Reached(table, t[p].key, p) /\ t[p].key \in Keys
    <3>1. CASE p = s
      BY <3>1, <1>1, <1>2, <1>4
    <3>2. CASE p # s
      <4>1. table[p] = t[p] /\ Live(table, p)
        BY <2>1, <3>2, <1>4, <1>6
      <4>2. t[p] \in Entry
        BY <1>4, SlotKinds
      <4> QED
        BY <4>1, <4>2, <2>1, <1>3 DEF IInv, TableInv, AllReached, Entry
    <3> QED
      BY <3>1, <3>2
  <2>3. PICK n \in Probes(size) : Slot(t[p].key, n) = p
                                 /\ \A j \in 0 .. n - 1 : table[Slot(t[p].key, j)] # Null
    BY <2>2 DEF Reached
  <2>4. size \in Sizes /\ size \in Nat
    BY SizesAssumption DEF IInv, TypeOK
  <2>5. \A j \in 0 .. n - 1 : Slot(t[p].key, j) \in 0 .. size - 1
    <3>1. \A j \in 0 .. n - 1 : j \in Probes(size)
      BY <2>4 DEF Probes
    <3> QED
      BY <3>1, <2>2, <2>4, ProbeAssumption DEF Slot
  <2>6. \A j \in 0 .. n - 1 : t[Slot(t[p].key, j)] # Null
    BY <2>3, <2>5, <1>4, <1>5 DEF Live
  <2> QED
    BY <2>3, <2>6 DEF Reached
<1>10. DOMAIN t = 0 .. size - 1 /\ DOMAIN table = 0 .. size - 1 /\ size \in Nat
  BY <1>3, <1>4, SizesAssumption DEF IInv, TypeOK
<1>11. \A x : x \in EntriesFrom(t, 0) <=> \E r \in 0 .. size - 1 : Live(t, r) /\ x = t[r]
  BY <1>10, EntriesAll
<1>12. \A x : x \in EntriesFrom(table, 0) <=> \E r \in 0 .. size - 1 : Live(table, r) /\ x = table[r]
  BY <1>10, EntriesAll
<1>13. EntriesFrom(t, 0) = {x \in EntriesFrom(table, 0) : x.key # k} \cup {e}
  <2>1. ASSUME NEW x \in EntriesFrom(t, 0), x # e
        PROVE  x \in EntriesFrom(table, 0) /\ x.key # k
    <3>1. PICK r \in 0 .. size - 1 : Live(t, r) /\ x = t[r]
      BY <1>11
    <3>2. r # s
      BY <2>1, <3>1, <1>4
    <3> QED
      BY <3>1, <3>2, <1>4, <1>6, <1>7, <1>12
  <2>2. e \in EntriesFrom(t, 0)
    BY <1>2, <1>4, <1>5, <1>11
  <2>3. ASSUME NEW x \in EntriesFrom(table, 0), x.key # k
        PROVE  x \in EntriesFrom(t, 0)
    <3>1. PICK r \in 0 .. size - 1 : Live(table, r) /\ x = table[r]
      BY <1>12
    <3>2. r # s
      BY <2>3, <3>1, <1>2
    <3> QED
      BY <3>1, <3>2, <1>4, <1>6, <1>11
  <2> QED
    BY <2>1, <2>2, <2>3
<1> QED
  BY <1>4, <1>8, <1>9, <1>13

\* Deleting keeps the table in order and takes the entry of the key away.
LEMMA ClearFacts ==
    ASSUME IInv, NEW k \in Keys, NEW s \in Lookup(k), NEW t,
           t = [table EXCEPT ![s] = Dummy]
    PROVE  /\ t \in [0 .. size - 1 -> SlotValues]
           /\ KeysOnce(t) /\ AllReached(t)
           /\ EntriesFrom(t, 0) = {x \in EntriesFrom(table, 0) : x.key # k}
<1>2. /\ s \in 0 .. size - 1
      /\ Live(table, s) => table[s].key = k
      /\ \A r \in DOMAIN table : Live(table, r) /\ table[r].key = k => r = s
  BY LookupFacts
<1>3. table \in [0 .. size - 1 -> SlotValues]
  BY DEF IInv, TypeOK, SlotValues
<1>4. /\ t \in [0 .. size - 1 -> SlotValues]
      /\ t[s] = Dummy
      /\ \A r \in 0 .. size - 1 : r # s => t[r] = table[r]
  BY <1>2, <1>3 DEF SlotValues
<1>5. ~Live(t, s)
  BY <1>4 DEF Live
<1>6. \A r \in 0 .. size - 1 : Live(t, r) <=> r # s /\ Live(table, r)
  BY <1>4, <1>5 DEF Live
<1>7. DOMAIN t = 0 .. size - 1 /\ DOMAIN table = 0 .. size - 1 /\ size \in Nat /\ size \in Sizes
  BY <1>3, <1>4, SizesAssumption DEF IInv, TypeOK
<1>8. KeysOnce(t)
  BY <1>4, <1>6, <1>7 DEF IInv, TableInv, KeysOnce
<1>9. AllReached(t)
  <2> SUFFICES ASSUME NEW p \in DOMAIN t, Live(t, p)
               PROVE  Reached(t, t[p].key, p)
    BY DEF AllReached
  <2>1. p \in 0 .. size - 1 /\ t[p] = table[p] /\ Live(table, p)
    BY <1>4, <1>6, <1>7
  <2>2. t[p] \in Entry
    BY <2>1, <1>4, <1>7, SlotKinds
  <2>3. Reached(table, t[p].key, p) /\ t[p].key \in Keys
    BY <2>1, <2>2, <1>7 DEF IInv, TableInv, AllReached, Entry
  <2>4. PICK n \in Probes(size) : Slot(t[p].key, n) = p
                                 /\ \A j \in 0 .. n - 1 : table[Slot(t[p].key, j)] # Null
    BY <2>3 DEF Reached
  <2>5. \A j \in 0 .. n - 1 : Slot(t[p].key, j) \in 0 .. size - 1
    <3>1. \A j \in 0 .. n - 1 : j \in Probes(size)
      BY <1>7 DEF Probes
    <3> QED
      BY <3>1, <2>3, <1>7, ProbeAssumption DEF Slot
  <2>6. \A j \in 0 .. n - 1 : t[Slot(t[p].key, j)] # Null
    BY <2>4, <2>5, <1>4, ValuesAssumption
  <2> QED
    BY <2>4, <2>6 DEF Reached
<1>11. \A x : x \in EntriesFrom(t, 0) <=> \E r \in 0 .. size - 1 : Live(t, r) /\ x = t[r]
  BY <1>7, EntriesAll
<1>12. \A x : x \in EntriesFrom(table, 0) <=> \E r \in 0 .. size - 1 : Live(table, r) /\ x = table[r]
  BY <1>7, EntriesAll
<1>13. EntriesFrom(t, 0) = {x \in EntriesFrom(table, 0) : x.key # k}
  <2>1. ASSUME NEW x \in EntriesFrom(t, 0)
        PROVE  x \in EntriesFrom(table, 0) /\ x.key # k
    <3>1. PICK r \in 0 .. size - 1 : Live(t, r) /\ x = t[r]
      BY <1>11
    <3>2. r # s /\ Live(table, r) /\ x = table[r]
      BY <3>1, <1>4, <1>6
    <3> QED
      BY <3>2, <1>2, <1>7, <1>12
  <2>2. ASSUME NEW x \in EntriesFrom(table, 0), x.key # k
        PROVE  x \in EntriesFrom(t, 0)
    <3>1. PICK r \in 0 .. size - 1 : Live(table, r) /\ x = table[r]
      BY <1>12
    <3>2. r # s
      BY <2>2, <3>1, <1>2
    <3> QED
      BY <3>1, <3>2, <1>4, <1>6, <1>11
  <2> QED
    BY <2>1, <2>2
<1> QED
  BY <1>4, <1>8, <1>9, <1>13

-----------------------------------------------------------------------------
(* The steps *)

\* Nothing is left to copy outside dict_resize.
LEMMA IdleFacts ==
    ASSUME IInv, ~Resizing
    PROVE  /\ old = NoTable /\ at = 0
           /\ EntriesFrom(old, at) = {}
           /\ Content = EntriesFrom(table, 0)
<1>1. old = NoTable /\ at = 0
  BY DEF IInv, CopyInv, Resizing
<1>2. EntriesFrom(old, at) = {}
  BY <1>1 DEF EntriesFrom, NoTable
<1> QED
  BY <1>1, <1>2 DEF Content

\* The first table is in order and empty.
LEMMA InitFacts == Init => IInv /\ Map!Init
<1> SUFFICES ASSUME Init PROVE IInv /\ Map!Init
  OBVIOUS
<1>1. \A s \in DOMAIN table : ~Live(table, s)
  BY DEF Init, Live
<1>2. DOMAIN old = {} /\ old \in [0 .. 0 - 1 -> Entry \cup {Null, Dummy}]
  BY DEF Init, NoTable
<1>3. TypeOK
  <2>1. table \in [0 .. size - 1 -> Entry \cup {Null, Dummy}] /\ size \in Sizes
    BY SizesAssumption DEF Init
  <2>2. \E sz \in Sizes \cup {0} : old \in [0 .. sz - 1 -> Entry \cup {Null, Dummy}]
    BY <1>2
  <2>3. used \in Int /\ fill \in Nat /\ at \in Nat
    BY DEF Init
  <2>4. hung \in BOOLEAN /\ deleted \in BOOLEAN
    BY Zenon DEF Init
  <2>5. ret \in Results
    BY DEF Init, Results
  <2> QED
    BY <2>1, <2>2, <2>3, <2>4, <2>5 DEF TypeOK
<1>4. TableInv
  BY <1>1, <1>2 DEF TableInv, KeysOnce, Apart, AllReached
<1>5. CopyInv
  BY DEF Init, CopyInv
<1>6. EntriesFrom(table, 0) = {} /\ EntriesFrom(old, at) = {}
  BY <1>1, <1>2 DEF EntriesFrom
<1> QED
  BY <1>3, <1>4, <1>5, <1>6 DEF IInv, Init, Map!Init, Content

\* dict_get returns what the map holds.
LEMMA GetStep ==
    ASSUME IInv, NEW k \in Keys, NEW d \in Defaults, dict_get(k, d)
    PROVE  IInv' /\ Map!Get(k, d)
<1>1. PICK s \in Lookup(k) :
        ret' = [def |-> d, val |-> IF Live(table, s) THEN table[s].val ELSE Null]
  BY DEF dict_get
<1>2. /\ s \in 0 .. size - 1
      /\ Live(table, s) => table[s].key = k
      /\ \A r \in DOMAIN table : Live(table, r) /\ table[r].key = k => r = s
  BY LookupFacts
<1>3. table \in [0 .. size - 1 -> SlotValues] /\ DOMAIN table = 0 .. size - 1 /\ size \in Nat
  BY SizesAssumption DEF IInv, TypeOK, SlotValues
<1>4. \A x : x \in EntriesFrom(table, 0) <=> \E r \in 0 .. size - 1 : Live(table, r) /\ x = table[r]
  BY <1>3, EntriesAll
<1>5. Content = EntriesFrom(table, 0)
  BY IdleFacts DEF dict_get, Idle
<1>6. Live(table, s) => table[s] \in Entry
  BY <1>2, <1>3, SlotKinds
<1>7. UNCHANGED <<table, size, used, fill, old, at, hung, deleted>>
  BY DEF dict_get
<1>8. UNCHANGED Content
  BY <1>7 DEF Content, EntriesFrom, Live
<1>9. ASSUME Live(table, s) PROVE Map!Get(k, d)
  <2>1. table[s] \in Content /\ table[s].key = k /\ ret' = [def |-> d, val |-> table[s].val]
    BY <1>1, <1>2, <1>4, <1>5, <1>9
  <2> QED
    BY <2>1, <1>8 DEF Map!Get
<1>10. ASSUME ~Live(table, s) PROVE Map!Get(k, d)
  <2>1. \A x \in Content : x.key # k
    BY <1>2, <1>3, <1>4, <1>5, <1>10
  <2>2. Content = Map!Without(k) /\ ret' = [def |-> d, val |-> Null]
    BY <2>1, <1>1, <1>10 DEF Map!Without
  <2> QED
    BY <2>2, <1>8 DEF Map!Get
<1>11. ret' \in Results
  BY <1>1, <1>6 DEF Entry, Results
<1>12. IInv'
  BY <1>7, <1>11 DEF IInv, TypeOK, CopyInv, TableInv, KeysOnce, Apart, AllReached, Reached,
     Slot, Probes, Live
<1> QED
  BY <1>9, <1>10, <1>12

\* What a table that is in order, in place of the present one, makes of the
\* invariant when nothing is being copied.
LEMMA Replaced ==
    ASSUME IInv, ~Resizing, NEW t,
           t \in [0 .. size - 1 -> SlotValues], KeysOnce(t), AllReached(t),
           table' = t, UNCHANGED <<size, old, at>>,
           used' \in Int, fill' \in Nat, ret' \in Results,
           hung' \in BOOLEAN, deleted' \in BOOLEAN
    PROVE  IInv' /\ Content' = EntriesFrom(t, 0)
<1>1. old = NoTable /\ at = 0
  BY IdleFacts
<1>2. TypeOK'
  BY DEF IInv, TypeOK, SlotValues
<1>3. CopyInv'
  BY <1>1 DEF CopyInv
<1>4. AllReached(t)'
  BY DEF AllReached, Reached, Slot, Probes, Live
<1>5. KeysOnce(table)' /\ KeysOnce(old)' /\ Apart' /\ AllReached(table)'
  <2>1. KeysOnce(table)' /\ AllReached(table)'
    BY <1>4 DEF KeysOnce, Live, AllReached, Reached, Slot, Probes
  <2>2. KeysOnce(old)' /\ Apart'
    BY <1>1 DEF KeysOnce, Apart, NoTable
  <2> QED
    BY <2>1, <2>2
<1>6. EntriesFrom(old, at)' = {}
  BY <1>1 DEF EntriesFrom, NoTable
<1>7. EntriesFrom(table, 0)' = EntriesFrom(t, 0)
  BY DEF EntriesFrom, Live
<1> QED
  BY <1>2, <1>3, <1>5, <1>6, <1>7 DEF IInv, TableInv, Content

\* dict_del removes the key from the map.
LEMMA DelStep ==
    ASSUME IInv, NEW k \in Keys, dict_del(k)
    PROVE  IInv' /\ Map!Remove(k)
<1>1. PICK s \in Lookup(k) : table' = [table EXCEPT ![s] = Dummy]
  BY DEF dict_del
<1> DEFINE t == [table EXCEPT ![s] = Dummy]
<1>2. /\ t \in [0 .. size - 1 -> SlotValues] /\ KeysOnce(t) /\ AllReached(t)
      /\ EntriesFrom(t, 0) = {x \in EntriesFrom(table, 0) : x.key # k}
  BY ClearFacts
<1>3. /\ ~Resizing /\ UNCHANGED <<size, fill, old, at, ret, hung>>
      /\ used' = used - 1 /\ deleted' = TRUE /\ table' = t
  BY <1>1 DEF dict_del, Idle
<1>4. /\ used' \in Int /\ fill' \in Nat /\ ret' \in Results
      /\ hung' \in BOOLEAN /\ deleted' \in BOOLEAN
  BY <1>3 DEF IInv, TypeOK
<1> HIDE DEF t
<1>5. IInv' /\ Content' = EntriesFrom(t, 0)
  BY <1>2, <1>3, <1>4, Replaced
<1>6. Content = EntriesFrom(table, 0)
  BY <1>3, IdleFacts
<1> QED
  BY <1>2, <1>3, <1>5, <1>6 DEF Map!Remove, Map!Without

\* A table taken for the old one, beside an empty new one.
LEMMA Grown ==
    ASSUME IInv, NEW t, NEW u \in Int, NEW f \in Nat,
           t \in [0 .. size - 1 -> SlotValues], KeysOnce(t),
           Grow(t, u, f), ret' \in Results, deleted' \in BOOLEAN
    PROVE  IInv' /\ Content' = EntriesFrom(t, 0)
<1>1. PICK sz \in Sizes : /\ NewSize(u, sz) /\ size' = sz
                         /\ table' = [s \in 0 .. sz - 1 |-> Null]
  BY DEF Grow
<1>2. used' = 0 /\ fill' = 0 /\ old' = t /\ at' = 0 /\ hung' = hung
  BY DEF Grow
<1>3. size \in Sizes /\ size \in Nat \ {0, 1} /\ sz \in Nat
  BY SizesAssumption DEF IInv, TypeOK
<1>4. size < sz
  BY <1>1, <1>3 DEF NewSize
<1>5. 2 * size <= sz
  BY <1>3, <1>4, SizesAssumption
<1>6. TypeOK'
  <2>1. size' \in Sizes /\ table' \in [0 .. size' - 1 -> Entry \cup {Null, Dummy}]
    BY <1>1
  <2>2. old' \in [0 .. size - 1 -> Entry \cup {Null, Dummy}]
    BY <1>2 DEF SlotValues
  <2>3. /\ used' \in Int /\ fill' \in Nat /\ at' \in Nat
        /\ ret' \in Results /\ hung' \in BOOLEAN /\ deleted' \in BOOLEAN
    BY <1>2 DEF IInv, TypeOK
  <2> QED
    BY <2>1, <2>2, <2>3, <1>3 DEF TypeOK
<1>7. CopyInv'
  <2>1. old' \in [0 .. size - 1 -> SlotValues] /\ 2 * size <= size' /\ at' \in 0 .. size - 1 /\ fill' <= at'
    BY <1>1, <1>2, <1>3, <1>5
  <2> QED
    BY <2>1, <1>3 DEF CopyInv
<1>8. \A s \in DOMAIN table' : ~Live(table', s)
  BY <1>1 DEF Live
<1>9. TableInv'
  <2>1. KeysOnce(table)' /\ AllReached(table)' /\ Apart'
    BY <1>8 DEF KeysOnce, AllReached, Apart, Live
  <2>2. KeysOnce(old)'
    BY <1>2 DEF KeysOnce, Live
  <2> QED
    BY <2>1, <2>2 DEF TableInv
<1>10. EntriesFrom(table, 0)' = {}
  BY <1>8 DEF EntriesFrom, Live
<1>11. EntriesFrom(old, at)' = EntriesFrom(t, 0)
  BY <1>2 DEF EntriesFrom, Live
<1> QED
  BY <1>6, <1>7, <1>9, <1>10, <1>11 DEF IInv, Content

\* What dict_add puts into a slot: the value it is given, or the one that the
\* key has.
LEMMA StoredFacts ==
    ASSUME IInv, NEW k \in Keys, NEW v \in Vals \cup {Null}, NEW s \in Lookup(k)
    PROVE  /\ Stored(s, v) \in Vals \cup {Null}
           /\ v # Null => Stored(s, v) = v
           /\ Live(table, s) => s \in DOMAIN table /\ table[s] \in Entry /\ table[s].key = k
           /\ v = Null /\ Live(table, s) => [key |-> k, val |-> Stored(s, v)] = table[s]
           /\ v = Null /\ ~Live(table, s) => Stored(s, v) = Null
<1>1. /\ s \in 0 .. size - 1
      /\ Live(table, s) => table[s].key = k
  BY LookupFacts
<1>2. table \in [0 .. size - 1 -> SlotValues]
  BY DEF IInv, TypeOK, SlotValues
<1>3. Live(table, s) => table[s] \in Entry
  BY <1>1, <1>2, SlotKinds
<1>4. Live(table, s) => table[s].val \in Vals \cup {Null}
  BY <1>3 DEF Entry
<1>5. ASSUME Live(table, s) PROVE table[s] = [key |-> k, val |-> table[s].val]
  BY <1>1, <1>3, <1>5 DEF Entry
<1> QED
  BY <1>1, <1>2, <1>3, <1>4, <1>5 DEF Stored

\* dict_add puts the entry into the map, and leaves the map alone when it has
\* no value for a key that is there.
LEMMA AddStep ==
    ASSUME IInv, NEW k \in Keys, NEW v \in Vals \cup {Null}, dict_add(k, v)
    PROVE  IInv' /\ [Map!Next]_<<Content, ret>>
<1> DEFINE t(s) == [table EXCEPT ![s] = [key |-> k, val |-> Stored(s, v)]]
<1>1. PICK s \in Lookup(k) : Stay(t(s), used + 1, fill + 1) \/ Grow(t(s), used + 1, fill + 1)
  BY DEF dict_add
<1> DEFINE e == [key |-> k, val |-> Stored(s, v)]
<1>2. e \in Entry /\ e.key = k
  BY StoredFacts DEF Entry
<1>3. /\ t(s) \in [0 .. size - 1 -> SlotValues] /\ KeysOnce(t(s)) /\ AllReached(t(s))
      /\ EntriesFrom(t(s), 0) = {x \in EntriesFrom(table, 0) : x.key # k} \cup {e}
  <2>1. t(s) = [table EXCEPT ![s] = e]
    OBVIOUS
  <2> HIDE DEF e, t
  <2>2. s \in Lookup(e.key)
    BY <1>2
  <2> QED
    BY <2>1, <2>2, <1>2, StoreFacts
<1>4. /\ ~Resizing /\ UNCHANGED <<ret, deleted>>
      /\ used + 1 \in Int /\ fill + 1 \in Nat /\ hung \in BOOLEAN
      /\ ret' \in Results /\ deleted' \in BOOLEAN
  BY DEF dict_add, Idle, IInv, TypeOK
<1> HIDE DEF t
<1>5. ASSUME Stay(t(s), used + 1, fill + 1)
      PROVE  IInv' /\ Content' = EntriesFrom(t(s), 0)
  <2>1. /\ table' = t(s) /\ UNCHANGED <<size, old, at>>
        /\ used' \in Int /\ fill' \in Nat /\ hung' \in BOOLEAN
    BY <1>4, <1>5 DEF Stay
  <2> QED
    BY <2>1, <1>3, <1>4, Replaced
<1>6. ASSUME Grow(t(s), used + 1, fill + 1)
      PROVE  IInv' /\ Content' = EntriesFrom(t(s), 0)
  BY <1>3, <1>4, <1>6, Grown
<1>7. IInv' /\ Content' = EntriesFrom(t(s), 0)
  BY <1>1, <1>5, <1>6
<1>8. Content = EntriesFrom(table, 0)
  BY <1>4, IdleFacts
<1>9. Content' = Map!Without(k) \cup {e} /\ ret' = ret
  BY <1>3, <1>4, <1>7, <1>8 DEF Map!Without
<1>10. CASE v # Null
  <2>1. v \in Vals /\ Stored(s, v) = v
    BY <1>10, StoredFacts
  <2>2. Map!Put(k, v)
    BY <2>1, <1>9 DEF Map!Put
  <2> QED
    BY <2>1, <2>2, <1>7 DEF Map!Next
<1>11. CASE v = Null /\ ~Live(table, s)
  <2>1. Stored(s, v) = Null
    BY <1>11, StoredFacts
  <2>2. \A x \in Content : x.key # k
    BY <1>8, <1>11, EntriesOf, LookupFacts
  <2>3. Content = Map!Without(k)
    BY <2>2 DEF Map!Without
  <2>4. Map!Put(k, Null)
    BY <2>1, <1>9 DEF Map!Put
  <2> QED
    BY <2>3, <2>4, <1>7 DEF Map!Next
<1>12. CASE v = Null /\ Live(table, s)
  <2>1. /\ s \in DOMAIN table /\ table[s] = e
    BY <1>12, StoredFacts
  <2>2. size \in Nat /\ DOMAIN table = 0 .. size - 1
    BY SizesAssumption DEF IInv, TypeOK
  <2>3. \A x : x \in Content <=> \E r \in 0 .. size - 1 : Live(table, r) /\ x = table[r]
    BY <2>2, <1>8, EntriesAll
  <2>4. e \in Content
    BY <2>1, <2>2, <2>3, <1>12
  <2>5. \A x \in Content : x.key = k => x = e
    BY <2>1, <2>2, <2>3, LookupFacts
  <2>6. Content' = Content
    BY <2>4, <2>5, <1>9 DEF Map!Without
  <2> QED
    BY <2>6, <1>7, <1>9
<1> QED
  BY <1>10, <1>11, <1>12

\* The bound on fill that keeps the copying from growing the table again.
LEMMA CopyBound ==
    ASSUME IInv, Resizing
    PROVE  /\ \E sz \in Sizes : /\ old \in [0 .. sz - 1 -> SlotValues] /\ 2 * sz <= size
                               /\ at \in 0 .. sz - 1 /\ fill <= at
           /\ 3 * (fill + 1) < 2 * size
<1>1. PICK sz \in Sizes : /\ old \in [0 .. sz - 1 -> SlotValues] /\ 2 * sz <= size
                         /\ at \in 0 .. sz - 1 /\ fill <= at
  BY DEF IInv, CopyInv, Resizing, NoTable
<1>2. fill \in Nat /\ sz \in Nat \ {0, 1} /\ size \in Nat
  BY SizesAssumption DEF IInv, TypeOK
<1> QED
  BY <1>1, <1>2

\* One round moves an entry from what is left of the old table to the new one.
LEMMA Moved ==
    ASSUME IInv, Resizing, NEW t,
           t \in [0 .. size - 1 -> SlotValues], KeysOnce(t), AllReached(t),
           EntriesFrom(t, 0) = EntriesFrom(table, 0)
                               \cup (IF Live(old, at) THEN {old[at]} ELSE {}),
           table' = t, used' \in Int, fill' \in Nat, fill' <= fill + 1,
           IF at + 1 \in DOMAIN old
           THEN at' = at + 1 /\ UNCHANGED old
           ELSE at' = 0 /\ old' = NoTable,
           UNCHANGED <<size, ret, hung, deleted>>
    PROVE  IInv' /\ Content' = Content
<1>1. PICK sz \in Sizes : /\ old \in [0 .. sz - 1 -> SlotValues] /\ 2 * sz <= size
                         /\ at \in 0 .. sz - 1 /\ fill <= at
  BY CopyBound
<1>2. fill \in Nat /\ sz \in Nat \ {0, 1} /\ size \in Nat /\ DOMAIN old = 0 .. sz - 1
  BY <1>1, SizesAssumption DEF IInv, TypeOK
<1> DEFINE left == EntriesFrom(old, at + 1)
<1>3. EntriesFrom(old', at') = left
  <2>1. CASE at + 1 \in DOMAIN old
    BY <2>1
  <2>2. CASE at + 1 \notin DOMAIN old
    <3>1. \A r \in DOMAIN old : ~(r >= at + 1)
      BY <2>2, <1>1, <1>2
    <3>2. left = {}
      BY <3>1 DEF EntriesFrom
    <3>3. EntriesFrom(old', at') = {}
      BY <2>2 DEF EntriesFrom, NoTable
    <3> QED
      BY <3>2, <3>3
  <2> QED
    BY <2>1, <2>2
<1>4. EntriesFrom(old, at) = left \cup (IF Live(old, at) THEN {old[at]} ELSE {})
  <2>1. \A r \in DOMAIN old : r >= at <=> r >= at + 1 \/ r = at
    BY <1>1, <1>2
  <2>2. at \in DOMAIN old /\ at >= at
    BY <1>1, <1>2
  <2> QED
    BY <2>1, <2>2 DEF EntriesFrom
<1>5. Content' = Content
  <2>1. EntriesFrom(table, 0)' = EntriesFrom(t, 0)
    BY DEF EntriesFrom, Live
  <2>2. EntriesFrom(old, at)' = EntriesFrom(old', at')
    BY DEF EntriesFrom, Live
  <2> QED
    BY <2>1, <2>2, <1>3, <1>4 DEF Content
<1>6. CopyInv'
  <2>1. CASE at + 1 \in DOMAIN old
    BY <2>1, <1>1, <1>2 DEF CopyInv
  <2>2. CASE at + 1 \notin DOMAIN old
    BY <2>2 DEF CopyInv
  <2> QED
    BY <2>1, <2>2
<1>7. old' = old \/ old' = NoTable
  OBVIOUS
<1>8. TypeOK'
  <2>1. \E z \in Sizes \cup {0} : old' \in [0 .. z - 1 -> Entry \cup {Null, Dummy}]
    <3>1. CASE old' = old
      BY <3>1, <1>1 DEF SlotValues
    <3>2. CASE old' = NoTable
      <4>1. old' \in [0 .. 0 - 1 -> Entry \cup {Null, Dummy}]
        BY <3>2 DEF NoTable
      <4> QED
        BY <4>1
    <3> QED
      BY <1>7, <3>1, <3>2
  <2>2. at' \in Nat
    BY <1>1, <1>2
  <2> QED
    BY <2>1, <2>2 DEF TypeOK, IInv, SlotValues
<1>9. KeysOnce(table)' /\ AllReached(table)'
  BY DEF KeysOnce, Live, AllReached, Reached, Slot, Probes
<1>10. KeysOnce(old)'
  <2>1. CASE old' = old
    BY <2>1 DEF IInv, TableInv, KeysOnce, Live
  <2>2. CASE old' = NoTable
    BY <2>2 DEF KeysOnce, NoTable
  <2> QED
    BY <1>7, <2>1, <2>2
<1>11. Apart'
  <2> SUFFICES ASSUME NEW s \in DOMAIN t, NEW r \in DOMAIN old', Live(t, s), r >= at', Live(old', r)
               PROVE  t[s].key # old'[r].key
    BY DEF Apart, Live
  <2>1. at + 1 \in DOMAIN old /\ old' = old /\ at' = at + 1
    BY DEF NoTable
  <2>2. r \in DOMAIN old /\ r >= at /\ r # at /\ Live(old, r) /\ at \in DOMAIN old
    BY <2>1, <1>1, <1>2
  <2>3. DOMAIN t = 0 .. size - 1 /\ DOMAIN table = 0 .. size - 1
    BY DEF IInv, TypeOK
  <2>4. t[s] \in EntriesFrom(t, 0)
    BY <2>3, <1>2, EntriesAll
  <2>5. CASE t[s] \in EntriesFrom(table, 0)
    <3>1. PICK p \in 0 .. size - 1 : Live(table, p) /\ t[s] = table[p]
      BY <2>3, <2>5, <1>2, EntriesAll
    <3> QED
      BY <3>1, <2>1, <2>2, <2>3 DEF IInv, TableInv, Apart
  <2>6. CASE Live(old, at) /\ t[s] = old[at]
    BY <2>1, <2>2, <2>6 DEF IInv, TableInv, KeysOnce
  <2> QED
    BY <2>4, <2>5, <2>6
<1> QED
  BY <1>5, <1>6, <1>8, <1>9, <1>10, <1>11 DEF IInv, TableInv

\* Copying a slot changes nothing a caller sees.
LEMMA CopyStep ==
    ASSUME IInv, CopySlot
    PROVE  IInv' /\ UNCHANGED <<Content, ret>>
<1>1. /\ Resizing /\ Reinsert /\ UNCHANGED <<size, ret, hung, deleted>>
      /\ IF at + 1 \in DOMAIN old
         THEN at' = at + 1 /\ UNCHANGED old
         ELSE at' = 0 /\ old' = NoTable
  BY DEF CopySlot
<1>2. used \in Int /\ fill \in Nat /\ table \in [0 .. size - 1 -> SlotValues]
  BY DEF IInv, TypeOK, SlotValues
<1>3. ASSUME Live(old, at) PROVE IInv' /\ Content' = Content
  <2> DEFINE e == old[at]
  <2>1. e \in Entry
    <3>1. PICK sz \in Sizes : old \in [0 .. sz - 1 -> SlotValues] /\ at \in 0 .. sz - 1
      BY <1>1, CopyBound
    <3> QED
      BY <3>1, <1>3, SlotKinds
  <2>2. PICK s \in Lookup(e.key) : table' = [table EXCEPT ![s] = e]
    BY <1>1, <1>3 DEF Reinsert
  <2>3. used' = used + 1 /\ fill' = fill + 1
    BY <1>1, <1>3 DEF Reinsert
  <2> DEFINE t == [table EXCEPT ![s] = e]
  <2>4. /\ t \in [0 .. size - 1 -> SlotValues] /\ KeysOnce(t) /\ AllReached(t)
        /\ EntriesFrom(t, 0) = {x \in EntriesFrom(table, 0) : x.key # e.key} \cup {e}
    BY <2>1, StoreFacts
  <2>5. \A x \in EntriesFrom(table, 0) : x.key # e.key
    <3>1. at \in DOMAIN old /\ at >= at
      BY <1>1 DEF Resizing, IInv, TypeOK
    <3>2. \A x \in EntriesFrom(table, 0) : \E r \in DOMAIN table : Live(table, r) /\ x = table[r]
      BY EntriesOf
    <3> QED
      BY <3>1, <3>2, <1>3 DEF IInv, TableInv, Apart
  <2>6. EntriesFrom(t, 0) = EntriesFrom(table, 0) \cup (IF Live(old, at) THEN {old[at]} ELSE {})
    BY <2>4, <2>5, <1>3
  <2>7. table' = t /\ used' \in Int /\ fill' \in Nat /\ fill' <= fill + 1
    BY <2>2, <2>3, <1>2
  <2> HIDE DEF t
  <2> QED
    BY <2>4, <2>6, <2>7, <1>1, Moved
<1>4. ASSUME ~Live(old, at) PROVE IInv' /\ Content' = Content
  <2>1. UNCHANGED <<table, used, fill>>
    BY <1>1, <1>4 DEF Reinsert
  <2>2. /\ KeysOnce(table) /\ AllReached(table)
        /\ EntriesFrom(table, 0) = EntriesFrom(table, 0)
                                  \cup (IF Live(old, at) THEN {old[at]} ELSE {})
    BY <1>4 DEF IInv, TableInv
  <2>3. used' \in Int /\ fill' \in Nat /\ fill' <= fill + 1
    BY <2>1, <1>2
  <2> QED
    BY <2>1, <2>2, <2>3, <1>1, <1>2, Moved
<1> QED
  BY <1>1, <1>3, <1>4

\* A step that leaves the tables alone.
LEMMA SameTables ==
    ASSUME IInv, UNCHANGED <<table, size, used, fill, old, at, ret, deleted>>, hung' \in BOOLEAN
    PROVE  IInv' /\ UNCHANGED <<Content, ret>>
<1>1. UNCHANGED Content
  BY DEF Content, EntriesFrom, Live
<1>2. TypeOK' /\ CopyInv'
  BY DEF IInv, TypeOK, CopyInv
<1>3. TableInv'
  BY DEF IInv, TableInv, KeysOnce, Apart, AllReached, Reached, Slot, Probes, Live
<1> QED
  BY <1>1, <1>2, <1>3 DEF IInv

\* Every step keeps the tables in order and is a step of the map or none.
LEMMA StepFacts ==
    ASSUME IInv, [Next]_vars
    PROVE  IInv' /\ [Map!Next]_<<Content, ret>>
<1>1. CASE CopySlot
  BY <1>1, CopyStep
<1>2. ASSUME NEW k \in Keys, NEW d \in Defaults, dict_get(k, d) PROVE IInv' /\ Map!Next
  BY <1>2, GetStep DEF Map!Next
<1>3. ASSUME NEW k \in Keys, dict_del(k) PROVE IInv' /\ Map!Next
  BY <1>3, DelStep DEF Map!Next
<1>4. ASSUME NEW k \in Keys, NEW v \in Vals \cup {Null}, dict_add(k, v)
      PROVE  IInv' /\ [Map!Next]_<<Content, ret>>
  BY <1>4, AddStep
<1>5. ASSUME NEW k \in Keys, Hang(k) PROVE IInv' /\ UNCHANGED <<Content, ret>>
  <2>1. hung' \in BOOLEAN
    BY <1>5, Zenon DEF Hang
  <2> QED
    BY <1>5, <2>1, SameTables DEF Hang
<1>6. CASE UNCHANGED vars
  <2>1. hung' \in BOOLEAN
    BY <1>6 DEF IInv, TypeOK, vars
  <2> QED
    BY <1>6, <2>1, SameTables DEF vars
<1> QED
  BY <1>1, <1>2, <1>3, <1>4, <1>5, <1>6 DEF Next

-----------------------------------------------------------------------------
(* Empty slots *)

Occupied(t) == {s \in DOMAIN t : t[s] # Null}

\* While nothing is deleted fill counts the slots in use, if not too many, and
\* the threshold keeps it below the size.
FillInv ==
    ~deleted => /\ ~hung /\ used = fill
                /\ Cardinality(Occupied(table)) <= fill /\ 3 * fill < 2 * size

\* Storing an entry takes at most one more slot.
LEMMA OneMore ==
    ASSUME IInv, NEW s \in 0 .. size - 1, NEW e, NEW t, t = [table EXCEPT ![s] = e]
    PROVE  /\ Cardinality(Occupied(table)) \in Nat /\ Cardinality(Occupied(t)) \in Nat
           /\ Cardinality(Occupied(t)) <= Cardinality(Occupied(table)) + 1
<1>1. size \in Nat /\ DOMAIN table = 0 .. size - 1 /\ DOMAIN t = 0 .. size - 1
  BY SizesAssumption DEF IInv, TypeOK
<1>2. IsFiniteSet(0 .. size - 1)
  BY <1>1, FS_Interval
<1>3. /\ Occupied(table) \subseteq 0 .. size - 1 /\ Occupied(t) \subseteq 0 .. size - 1
      /\ Occupied(t) \subseteq Occupied(table) \cup {s}
  BY <1>1 DEF Occupied
<1>4. IsFiniteSet(Occupied(table)) /\ IsFiniteSet(Occupied(t))
  BY <1>2, <1>3, FS_Subset
<1>5. /\ Cardinality(Occupied(table)) \in Nat /\ Cardinality(Occupied(t)) \in Nat
  BY <1>4, FS_CardinalityType
<1>6. /\ IsFiniteSet(Occupied(table) \cup {s})
      /\ Cardinality(Occupied(table) \cup {s}) <= Cardinality(Occupied(table)) + 1
  <2> DEFINE S == Occupied(table)
  <2>1. IsFiniteSet(S)
    BY <1>4
  <2>2. /\ IsFiniteSet(S \cup {s})
        /\ \/ Cardinality(S \cup {s}) = Cardinality(S)
           \/ Cardinality(S \cup {s}) = Cardinality(S) + 1
    <3> HIDE DEF S
    <3> QED
      BY <2>1, FS_AddElement
  <2> QED
    BY <2>2, <1>5
<1>7. Cardinality(Occupied(t)) <= Cardinality(Occupied(table) \cup {s})
  BY <1>3, <1>6, FS_Subset
<1>8. Cardinality(Occupied(table) \cup {s}) \in Nat
  BY <1>6, FS_CardinalityType
<1> QED
  BY <1>5, <1>6, <1>7, <1>8

\* A table of empty slots has none in use.
LEMMA NoneOccupied ==
    ASSUME NEW N, NEW t, t = [s \in 0 .. N - 1 |-> Null]
    PROVE  Cardinality(Occupied(t)) = 0
<1>1. Occupied(t) = {}
  BY DEF Occupied
<1> QED
  BY <1>1, FS_EmptySet

\* A search ends when a slot is empty, for it visits every slot.
LEMMA SearchEnds ==
    ASSUME IInv, NEW k \in Keys, Cardinality(Occupied(table)) < size
    PROVE  ~Hangs(k)
<1> SUFFICES ASSUME Hangs(k) PROVE FALSE
  OBVIOUS
<1>1. size \in Sizes /\ size \in Nat /\ DOMAIN table = 0 .. size - 1
  BY SizesAssumption DEF IInv, TypeOK
<1>2. \A s \in 0 .. size - 1 : table[s] # Null
  <2> SUFFICES ASSUME NEW s \in 0 .. size - 1 PROVE table[s] # Null
    OBVIOUS
  <2>1. PICK n \in Probes(size) : Slot(k, n) = s
    BY <1>1, ProbeAssumption DEF Slot
  <2> QED
    BY <2>1 DEF Hangs, Stops
<1>3. Occupied(table) = 0 .. size - 1
  BY <1>1, <1>2 DEF Occupied
<1>4. Cardinality(0 .. size - 1) = size
  BY <1>1, FS_Interval
<1> QED
  BY <1>1, <1>3, <1>4

\* A step keeps an empty slot in a table from which nothing was deleted.
LEMMA FillStep ==
    ASSUME IInv, FillInv, [Next]_vars
    PROVE  FillInv'
<1> SUFFICES ASSUME ~deleted' PROVE
        /\ ~hung' /\ used' = fill'
        /\ Cardinality(Occupied(table')) <= fill' /\ 3 * fill' < 2 * size'
  BY DEF FillInv, Occupied
<1>1. ~deleted
  BY Zenon DEF Next, vars, CopySlot, dict_get, dict_del, dict_add, Hang
<1>2. /\ ~hung /\ used = fill
      /\ Cardinality(Occupied(table)) <= fill /\ 3 * fill < 2 * size
  BY <1>1 DEF FillInv
<1>3. size \in Sizes /\ size \in Nat \ {0, 1} /\ fill \in Nat
  BY SizesAssumption DEF IInv, TypeOK
<1>4. ASSUME NEW k \in Keys, NEW v \in Vals \cup {Null}, dict_add(k, v)
      PROVE  /\ ~hung' /\ used' = fill'
             /\ Cardinality(Occupied(table')) <= fill' /\ 3 * fill' < 2 * size'
  <2> DEFINE t(s) == [table EXCEPT ![s] = [key |-> k, val |-> Stored(s, v)]]
  <2>1. PICK s \in Lookup(k) : Stay(t(s), used + 1, fill + 1) \/ Grow(t(s), used + 1, fill + 1)
    BY <1>4 DEF dict_add
  <2>2. s \in 0 .. size - 1
    BY LookupFacts
  <2>3. /\ Cardinality(Occupied(table)) \in Nat /\ Cardinality(Occupied(t(s))) \in Nat
        /\ Cardinality(Occupied(t(s))) <= Cardinality(Occupied(table)) + 1
    BY <2>2, OneMore
  <2> HIDE DEF t
  <2>4. CASE Stay(t(s), used + 1, fill + 1)
    <3>1. ~Crowded(fill + 1)
      BY <2>4, <1>2, <1>3 DEF Stay, EnoughRoom, Crowded
    <3>2. ~hung' /\ table' = t(s) /\ used' = used + 1 /\ fill' = fill + 1 /\ size' = size
      BY <2>4, <3>1 DEF Stay
    <3> QED
      BY <3>1, <3>2, <2>3, <1>2, <1>3 DEF Crowded
  <2>5. CASE Grow(t(s), used + 1, fill + 1)
    <3>1. PICK sz \in Sizes : size' = sz /\ table' = [r \in 0 .. sz - 1 |-> Null]
      BY <2>5 DEF Grow
    <3>2. ~hung' /\ used' = 0 /\ fill' = 0
      BY <2>5, <1>2 DEF Grow
    <3>3. Cardinality(Occupied(table')) = 0
      BY <3>1, NoneOccupied
    <3> QED
      BY <3>1, <3>2, <3>3, SizesAssumption
  <2> QED
    BY <2>1, <2>4, <2>5
<1>5. CASE CopySlot
  <2>1. Resizing /\ Reinsert /\ UNCHANGED <<size, hung>>
    BY <1>5 DEF CopySlot
  <2>2. 3 * (fill + 1) < 2 * size
    BY <2>1, CopyBound
  <2>3. CASE Live(old, at)
    <3> DEFINE e == old[at]
    <3>1. PICK s \in Lookup(e.key) : table' = [table EXCEPT ![s] = e]
      BY <2>1, <2>3 DEF Reinsert
    <3>2. used' = used + 1 /\ fill' = fill + 1
      BY <2>1, <2>3 DEF Reinsert
    <3>3. e.key \in Keys
      <4>1. PICK sz \in Sizes : old \in [0 .. sz - 1 -> SlotValues] /\ at \in 0 .. sz - 1
        BY <2>1, CopyBound
      <4>2. e \in Entry
        BY <4>1, <2>3, SlotKinds
      <4> QED
        BY <4>2 DEF Entry
    <3>4. s \in 0 .. size - 1
      BY <3>3, LookupFacts
    <3>5. /\ Cardinality(Occupied(table)) \in Nat /\ Cardinality(Occupied(table')) \in Nat
          /\ Cardinality(Occupied(table')) <= Cardinality(Occupied(table)) + 1
      BY <3>1, <3>4, OneMore
    <3> QED
      BY <3>2, <3>5, <2>1, <2>2, <1>2, <1>3
  <2>4. CASE ~Live(old, at)
    BY <2>1, <2>4, <1>2 DEF Reinsert
  <2> QED
    BY <2>3, <2>4
<1>6. ASSUME NEW k \in Keys, Hang(k) PROVE FALSE
  <2>1. Cardinality(Occupied(table)) < size
    <3>1. Cardinality(Occupied(table)) \in Nat
      <4>1. 0 \in 0 .. size - 1
        BY <1>3
      <4> QED
        BY <4>1, OneMore
    <3> QED
      BY <3>1, <1>2, <1>3
  <2> QED
    BY <1>6, <2>1, SearchEnds DEF Hang
<1>7. ASSUME NEW k \in Keys, NEW d \in Defaults, dict_get(k, d)
      PROVE  /\ ~hung' /\ used' = fill'
             /\ Cardinality(Occupied(table')) <= fill' /\ 3 * fill' < 2 * size'
  BY <1>7, <1>2 DEF dict_get
<1>8. CASE UNCHANGED vars
  BY <1>8, <1>2 DEF vars
<1>9. ASSUME NEW k \in Keys, dict_del(k) PROVE FALSE
  BY <1>9 DEF dict_del
<1> QED
  BY <1>4, <1>5, <1>6, <1>7, <1>8, <1>9 DEF Next

-----------------------------------------------------------------------------
(* The theorems *)

\* The inductive invariant: what a search relies on.
THEOREM DictInv == Spec => []IInv
<1>1. Init => IInv
  BY InitFacts
<1>2. IInv /\ [Next]_vars => IInv'
  BY StepFacts
<1> QED
  BY <1>1, <1>2, PTL DEF Spec

\* The tables always have the size and the kinds of slots the code expects of
\* them, whatever calls are made.
THEOREM DictTyped == Spec => []TypeOK
<1>1. IInv => TypeOK
  BY DEF IInv
<1> QED
  BY <1>1, DictInv, PTL

\* The hash table of dict.c implements a map from keys to values: dict_get
\* returns the value last added, through collisions, deleted slots and resizing.
THEOREM DictIsMap == Spec => MapSpec
<1>1. Init => Map!Init
  BY InitFacts
<1>2. IInv /\ [Next]_vars => [Map!Next]_<<Content, ret>>
  BY StepFacts
<1> QED
  BY <1>1, <1>2, DictInv, PTL DEF Spec, MapSpec, Map!Spec

\* The dict_add_p calls of dict_resize never find the new table crowded, so
\* dict_resize is not entered from within its own loop.
THEOREM CopyNeverNests == Spec => NoNestedResize
<1>1. IInv /\ [Next]_vars => [CopySlot => 3 * fill' < 2 * size]_vars
  <2> SUFFICES ASSUME IInv, CopySlot PROVE 3 * fill' < 2 * size
    OBVIOUS
  <2>1. fill' = fill + 1 \/ fill' = fill
    BY DEF CopySlot, Reinsert
  <2>2. 3 * (fill + 1) < 2 * size
    BY CopyBound DEF CopySlot
  <2>3. fill \in Nat /\ size \in Nat
    BY SizesAssumption DEF IInv, TypeOK
  <2> QED
    BY <2>1, <2>2, <2>3
<1> QED
  BY <1>1, DictInv, PTL DEF Spec, NoNestedResize

\* A dictionary from which nothing is deleted keeps an empty slot in its table,
\* so no call loops in dict_lookup or in dict_resize.
THEOREM AddingNeverHangs == Spec => []NoHangWithoutDelete
<1>1. Init => FillInv
  <2> SUFFICES ASSUME Init PROVE FillInv
    OBVIOUS
  <2>1. Cardinality(Occupied(table)) = 0
    BY NoneOccupied DEF Init
  <2> QED
    BY <2>1, SizesAssumption DEF Init, FillInv
<1>2. IInv /\ FillInv /\ [Next]_vars => FillInv'
  BY FillStep
<1>3. FillInv => NoHangWithoutDelete
  BY DEF FillInv, NoHangWithoutDelete
<1> QED
  BY <1>1, <1>2, <1>3, DictInv, PTL DEF Spec
=============================================================================
