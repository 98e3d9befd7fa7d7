----------------------------- MODULE CronProofs -----------------------------
(***************************************************************************)
(* What a configuration file means and when the timers fire, for any file, *)
(* any periods and any duration of the callbacks.                          *)
(*                                                                         *)
(* The parser keeps of the lines it has read only a flag and a name; the   *)
(* first invariant (ParseInv) says that these are what the lines mean.     *)
(* The second (TimeInv) follows one timer from the round that fires it to  *)
(* the next.                                                               *)
(***************************************************************************)
EXTENDS Cron, TLAPS

-----------------------------------------------------------------------------
(* Types *)

\* A time string stands for a number of seconds.
LEMMA PeriodType ==
    TypeOK => HeapPeriod \in Nat /\ GlobalPeriod \in Nat /\ PkgPeriod \in Nat
<1>1. \A str \in Values \cup {Nil} : timestr_to_time(str, DefaultPeriod) \in Nat
  BY ValueAssumption, TimeAssumption DEF timestr_to_time
<1> QED
  BY <1>1, KeyAssumption DEF TypeOK, HeapPeriod, GlobalPeriod, PkgPeriod

\* The lines that are read have the fields of a line.
LEMMA LinesTyped == Lines \subseteq Line
  BY DEF Lines, Line, Bare

\* Only a line with a key has a value.
LEMMA KeyedValues == \A l \in Lines : l.kind = "text" /\ l.val # Nil => l.name \in Keys
  BY DEF Lines, Bare

\* No line is a sequence of lines.
LEMMA NoLines == <<>> \in Seq(Line)
  OBVIOUS

\* The first states have the right types.
LEMMA TypeInit == Init => TypeOK
<1> SUFFICES ASSUME Init PROVE TypeOK
  OBVIOUS
<1>1. read \in Seq(Line)
  BY NoLines DEF Init, ConfigInit
<1>2. /\ now \in Nat /\ conf_now \in Nat /\ mn_now \in Nat
      /\ collected \in Nat /\ pkg_collected \in Nat
  BY DEF Init
<1> QED
  BY <1>1, <1>2 DEF Init, ConfigInit, TypeOK, Timers

\* Reading the configuration keeps the types.
LEMMA TypeLoad == TypeOK /\ Load => TypeOK'
<1> SUFFICES ASSUME TypeOK, Load PROVE TypeOK'
  OBVIOUS
<1>1. UNCHANGED time_vars
  BY DEF Load
<1>2. CASE Open \/ OpenFails \/ Loaded
  <2>1. read' \in Seq(Line)
    BY <1>2, NoLines DEF Open, OpenFails, Loaded, TypeOK
  <2> QED
    BY <1>1, <1>2, <2>1 DEF Open, OpenFails, Loaded, TypeOK, time_vars
<1>3. ASSUME NEW l \in Lines,
             \/ Skip(l) \/ CommentEnds(l) \/ CommentStarts(l) \/ SectionStarts(l) \/ SectionEnds(l)
             \/ Store(l) \/ LanguageFaults(l) \/ Ignored(l)
      PROVE  TypeOK'
  <2>1. read' = Append(read, l)
    BY <1>3 DEF Skip, CommentEnds, CommentStarts, SectionStarts, SectionEnds, Store, LanguageFaults,
       Ignored, Parse, Fetch
  <2>2. read' \in Seq(Line)
    BY <2>1, LinesTyped DEF TypeOK
  <2>3. l.val \in Values \cup {Nil}
    BY LinesTyped DEF Line
  <2>4. l.kind = "section" => l.name \in Sections
    BY DEF Lines, Bare
  <2>5. dict' \in [Keys -> Values \cup {Nil}]
    BY <1>3, <2>3, KeyedValues DEF Skip, CommentEnds, CommentStarts, SectionStarts, SectionEnds, Store,
       LanguageFaults, Ignored, Parse, TypeOK
  <2>6. section' \in Sections \cup {Nil}
    BY <1>3, <2>4 DEF Skip, CommentEnds, CommentStarts, SectionStarts, SectionEnds, Store, LanguageFaults,
       Ignored, Parse, TypeOK
  <2>7. in_comment' \in BOOLEAN
    BY <1>3 DEF Skip, CommentEnds, CommentStarts, SectionStarts, SectionEnds, Store, LanguageFaults,
       Ignored, Parse, TypeOK
  <2>8. stage' \in {"open", "load", "loaded", "loop", "dead"}
    BY <1>3 DEF Skip, CommentEnds, CommentStarts, SectionStarts, SectionEnds, Store, LanguageFaults,
       Ignored, Parse, TypeOK
  <2> QED
    BY <1>1, <2>2, <2>5, <2>6, <2>7, <2>8 DEF TypeOK, time_vars
<1> QED
  BY <1>2, <1>3 DEF Load, ConfigNext

\* No step breaks the types.
LEMMA TypeStep == TypeOK /\ [Next]_vars => TypeOK'
<1> SUFFICES ASSUME TypeOK, [Next]_vars PROVE TypeOK'
  OBVIOUS
<1>1. CASE Load
  BY <1>1, TypeLoad
<1>2. CASE StartTimers \/ StartFaults \/ TickFaults
  BY <1>2 DEF StartTimers, StartFaults, TickFaults, TypeOK, time_vars
<1>6. CASE Sleep \/ Work
  BY <1>6 DEF Sleep, Work, TypeOK, conf_vars
<1>3. CASE Poll
  <2>1. \A t \in Timers : Due(t) => Rearm(t) \in Nat \cup {Nil}
    BY PeriodType DEF Rearm, Repeat, Due, TypeOK
  <2>2. pending' \subseteq Callbacks
    BY <1>3 DEF Poll, Callbacks
  <2> QED
    BY <1>3, <2>1, <2>2 DEF Poll, TypeOK, conf_vars
<1>4. CASE Tick \/ Collect \/ CollectPkgs \/ Serve \/ ShellCollects
  BY <1>4 DEF Tick, Collect, CollectPkgs, Serve, ShellCollects, gc_all, TypeOK, conf_vars
<1>5. CASE UNCHANGED vars
  BY <1>5 DEF vars, conf_vars, time_vars, TypeOK
<1> QED
  BY <1>1, <1>2, <1>3, <1>4, <1>5, <1>6 DEF Next

\* Type correctness of the loader and of the timers.
THEOREM CronTypes == Spec => []TypeOK
  BY TypeInit, TypeStep, PTL DEF Spec

-----------------------------------------------------------------------------
(* One line more *)

\* What is known of the earlier lines stays true when a line is appended.
LEMMA Earlier ==
    ASSUME NEW l \in Line, NEW n \in Nat, read \in Seq(Line), n = Len(read), read' = Append(read, l)
    PROVE  /\ Len(read') = n + 1 /\ read'[n + 1] = l
           /\ \A i \in 0 .. n : Commented(i)' <=> Commented(i)
           /\ \A i \in 1 .. n : Switches(i)' <=> Switches(i)
           /\ \A i \in 1 .. n + 1, s \in Sections : InSection(i, s)' <=> InSection(i, s)
           /\ \A i \in 1 .. n, k \in Keys, v \in Values : Assigns(i, k, v)' <=> Assigns(i, k, v)
<1>1. Len(read') = n + 1 /\ read'[n + 1] = l /\ \A i \in 1 .. n : read'[i] = read[i]
  OBVIOUS
<1>2. \A i \in 0 .. n : Commented(i)' <=> Commented(i)
  BY <1>1 DEF Commented
<1>3. \A i \in 1 .. n : Switches(i)' <=> Switches(i)
  BY <1>1, <1>2 DEF Switches
<1>4. \A i \in 1 .. n + 1, s \in Sections : InSection(i, s)' <=> InSection(i, s)
  BY <1>1, <1>3 DEF InSection
<1>5. \A i \in 1 .. n, k \in Keys, v \in Values : Assigns(i, k, v)' <=> Assigns(i, k, v)
  BY <1>1, <1>2, <1>4, SectionAssumption DEF Assigns
<1> QED
  BY <1>1, <1>2, <1>3, <1>4, <1>5

\* What the appended line changes.
LEMMA Latest ==
    ASSUME NEW l \in Line, NEW n \in Nat, read \in Seq(Line), n = Len(read), read' = Append(read, l)
    PROVE  /\ Commented(n + 1)' <=> l.kind = "open" \/ (l.kind # "close" /\ Commented(n))
           /\ \A s \in Sections :
                 InSection(n + 2, s)' <=>
                     IF Switches(n + 1)' THEN l.kind = "section" /\ l.name = s ELSE InSection(n + 1, s)
           /\ \A k \in Keys, v \in Values :
                 Assigns(n + 1, k, v)' <=>
                     /\ l.kind = "text" /\ l.name = k /\ l.val = v
                     /\ ~Commented(n + 1)' /\ InSection(n + 1, "general")
<1>1. read'[n + 1] = l /\ \A i \in 1 .. n : read'[i] = read[i]
  OBVIOUS
<1>2. /\ \A i \in 1 .. n : Switches(i)' <=> Switches(i)
      /\ \A s \in Sections : InSection(n + 1, s)' <=> InSection(n + 1, s)
  BY Earlier
<1>3. Commented(n + 1)' <=> l.kind = "open" \/ (l.kind # "close" /\ Commented(n))
  <2>1. l.kind = "open" => Commented(n + 1)'
    BY <1>1 DEF Commented
  <2>2. l.kind # "close" /\ Commented(n) => Commented(n + 1)'
    BY <1>1 DEF Commented
  <2>3. Commented(n + 1)' => l.kind = "open" \/ (l.kind # "close" /\ Commented(n))
    BY <1>1 DEF Commented
  <2> QED
    BY <2>1, <2>2, <2>3
<1>4. ASSUME NEW s \in Sections
      PROVE  InSection(n + 2, s)' <=>
                 IF Switches(n + 1)' THEN l.kind = "section" /\ l.name = s ELSE InSection(n + 1, s)
  <2>1. CASE Switches(n + 1)'
    BY <1>1, <2>1 DEF InSection
  <2>2. CASE ~Switches(n + 1)'
    BY <1>1, <1>2, <2>2 DEF InSection
  <2> QED
    BY <2>1, <2>2
<1>5. \A k \in Keys, v \in Values :
          Assigns(n + 1, k, v)' <=>
              /\ l.kind = "text" /\ l.name = k /\ l.val = v
              /\ ~Commented(n + 1)' /\ InSection(n + 1, "general")
  BY <1>1, <1>2, SectionAssumption DEF Assigns
<1> QED
  BY <1>3, <1>4, <1>5

-----------------------------------------------------------------------------
(* The meaning of a file *)

\* Before the first line nothing is known; then the flag and the name are what
\* the lines mean.
ParseInv ==
    /\ stage = "open" =>
          read = <<>> /\ section = Nil /\ ~in_comment /\ dict = [k \in Keys |-> Nil]
    /\ stage = "load" =>
          /\ in_comment <=> Commented(Len(read))
          /\ \A s \in Sections : section = s <=> InSection(Len(read) + 1, s)
          /\ ConfigMeans

\* The first line is awaited.
LEMMA ParseOpen ==
    ASSUME ParseInv, Open
    PROVE  ParseInv'
<1>1. read' = <<>> /\ section' = Nil /\ ~in_comment' /\ dict' = [k \in Keys |-> Nil] /\ stage' = "load"
  BY DEF ParseInv, Open
<1>2. Len(read') = 0
  BY <1>1
<1>3. ~Commented(Len(read))'
  BY <1>2 DEF Commented
<1>4. \A s \in Sections : ~InSection(Len(read) + 1, s)'
  BY <1>2 DEF InSection
<1>5. ConfigMeans'
  BY <1>1, <1>2, NilAssumption DEF ConfigMeans
<1> QED
  BY <1>1, <1>3, <1>4, <1>5, NilAssumption DEF ParseInv

\* A line that assigns nothing, and one that assigns: the dictionary follows.
LEMMA MeansStep ==
    ASSUME NEW l \in Line, NEW n \in Nat, TypeOK, n = Len(read), read' = Append(read, l),
           stage = "load", ConfigMeans,
           \A k \in Keys : dict'[k] = IF \E v \in Values : Assigns(n + 1, k, v)' THEN l.val ELSE dict[k]
    PROVE  ConfigMeans'
<1> SUFFICES ASSUME NEW k \in Keys, NEW v \in Values
             PROVE  dict'[k] = v <=>
                        \E i \in 1 .. n + 1 :
                            /\ Assigns(i, k, v)'
                            /\ \A j \in i + 1 .. n + 1 : \A w \in Values : ~Assigns(j, k, w)'
  BY Earlier DEF ConfigMeans, TypeOK
<1>1. \A i \in 1 .. n : \A w \in Values : Assigns(i, k, w)' <=> Assigns(i, k, w)
  BY Earlier DEF TypeOK
<1>2. dict[k] = v <=>
          \E i \in 1 .. n : Assigns(i, k, v) /\ \A j \in i + 1 .. n : \A w \in Values : ~Assigns(j, k, w)
  BY DEF ConfigMeans
<1>3. \A w \in Values : Assigns(n + 1, k, w)' => l.val = w
  BY Latest DEF TypeOK
<1>4. CASE \E w \in Values : Assigns(n + 1, k, w)'
  <2>1. dict'[k] = l.val /\ l.val \in Values /\ Assigns(n + 1, k, l.val)'
    BY <1>3, <1>4
  <2>2. l.val = v => Assigns(n + 1, k, v)' /\ \A j \in n + 2 .. n + 1 : FALSE
    BY <2>1
  <2>3. l.val # v => \A i \in 1 .. n + 1 : Assigns(i, k, v)' => n + 1 \in i + 1 .. n + 1
    BY <1>3
  <2> QED
    BY <2>1, <2>2, <2>3
<1>5. CASE \A w \in Values : ~Assigns(n + 1, k, w)'
  <2>1. dict'[k] = dict[k]
    BY <1>5
  <2>2. ASSUME NEW i \in 1 .. n, Assigns(i, k, v), \A j \in i + 1 .. n : \A w \in Values : ~Assigns(j, k, w)
        PROVE  Assigns(i, k, v)' /\ \A j \in i + 1 .. n + 1 : \A w \in Values : ~Assigns(j, k, w)'
    BY <1>1, <1>5, <2>2
  <2>3. ASSUME NEW i \in 1 .. n + 1, Assigns(i, k, v)',
               \A j \in i + 1 .. n + 1 : \A w \in Values : ~Assigns(j, k, w)'
        PROVE  i \in 1 .. n /\ Assigns(i, k, v) /\ \A j \in i + 1 .. n : \A w \in Values : ~Assigns(j, k, w)
    <3>1. i \in 1 .. n
      BY <1>5, <2>3
    <3> QED
      BY <1>1, <2>3, <3>1
  <2> QED
    BY <1>2, <2>1, <2>2, <2>3
<1> QED
  BY <1>4, <1>5

\* A step that reads a line, whatever the line is.
ReadStep(l) ==
    \/ Skip(l) \/ CommentEnds(l) \/ CommentStarts(l) \/ SectionStarts(l) \/ SectionEnds(l)
    \/ Store(l) \/ LanguageFaults(l) \/ Ignored(l)

\* The flag, the name and the dictionary follow the line.
LEMMA ParseLine ==
    ASSUME NEW l \in Lines, TypeOK, ParseInv, ReadStep(l)
    PROVE  ParseInv'
<1> USE DEF ReadStep, Skip, CommentEnds, CommentStarts, SectionStarts, SectionEnds, Store, LanguageFaults,
        Ignored, Parse, Fetch
<1> PICK n \in Nat : n = Len(read)
  BY DEF TypeOK
<1>1. stage = "load" /\ read' = Append(read, l) /\ read \in Seq(Line) /\ l \in Line
  BY LinesTyped DEF TypeOK
<1>2. /\ in_comment <=> Commented(n)
      /\ \A s \in Sections : section = s <=> InSection(n + 1, s)
      /\ ConfigMeans
  BY <1>1 DEF ParseInv
<1>3. Len(read') = n + 1 /\ read'[n + 1] = l
  BY <1>1, Earlier
<1>4. Commented(n + 1)' <=> l.kind = "open" \/ (l.kind # "close" /\ in_comment)
  BY <1>1, <1>2, Latest
<1>5. Switches(n + 1)' <=> l.kind \in {"section", "end"} /\ ~in_comment
  BY <1>3, <1>4 DEF Switches
<1>6. in_comment' <=> Commented(n + 1)'
  BY <1>4 DEF TypeOK
<1>7. ASSUME NEW s \in Sections PROVE section' = s <=> InSection(n + 2, s)'
  <2>1. InSection(n + 2, s)' <=>
            IF Switches(n + 1)' THEN l.kind = "section" /\ l.name = s ELSE section = s
    BY <1>1, <1>2, Latest
  <2>2. CASE Switches(n + 1)'
    BY <1>5, <2>1, <2>2, NilAssumption
  <2>3. CASE ~Switches(n + 1)'
    BY <1>5, <2>1, <2>3
  <2> QED
    BY <2>2, <2>3
<1>8. \A k \in Keys, v \in Values :
          Assigns(n + 1, k, v)' <=>
              /\ l.kind = "text" /\ l.name = k /\ l.val = v
              /\ ~in_comment /\ section = "general"
  <2>1. section = "general" <=> InSection(n + 1, "general")
    BY <1>2, SectionAssumption
  <2> QED
    BY <1>1, <1>4, <2>1, Latest
<1>9. ASSUME NEW k \in Keys
      PROVE  dict'[k] = IF \E v \in Values : Assigns(n + 1, k, v)' THEN l.val ELSE dict[k]
  <2>1. l.val \in Values \cup {Nil}
    BY <1>1 DEF Line
  <2>2. CASE Store(l)
    BY <1>8, <2>1, <2>2, KeyedValues, NilAssumption DEF TypeOK
  <2>3. CASE ~Store(l)
    BY <1>8, <2>3
  <2> QED
    BY <2>2, <2>3
<1>10. ConfigMeans'
  BY <1>1, <1>2, <1>9, MeansStep
<1>11. stage' # "open"
  BY <1>1
<1> HIDE DEF ReadStep, Skip, CommentEnds, CommentStarts, SectionStarts, SectionEnds, Store, LanguageFaults,
        Ignored, Parse, Fetch
<1>12. /\ Commented(Len(read))' <=> Commented(n + 1)'
       /\ \A s \in Sections : InSection(Len(read) + 1, s)' <=> InSection(n + 2, s)'
  BY <1>3 DEF Commented, InSection
<1> QED
  BY <1>6, <1>7, <1>10, <1>11, <1>12 DEF ParseInv

\* No step separates the parser's state from what the lines mean.
LEMMA ParseStep == TypeOK /\ ParseInv /\ [Next]_vars => ParseInv'
<1> SUFFICES ASSUME TypeOK, ParseInv, [Next]_vars PROVE ParseInv'
  OBVIOUS
<1>1. CASE Open
  BY <1>1, ParseOpen
<1>2. ASSUME NEW l \in Lines, ReadStep(l) PROVE ParseInv'
  BY <1>2, ParseLine
<1>3. CASE OpenFails \/ Loaded \/ StartTimers \/ StartFaults \/ TickFaults
  BY <1>3 DEF OpenFails, Loaded, StartTimers, StartFaults, TickFaults, ParseInv
<1>4. CASE UNCHANGED conf_vars
  <2>1. stage' = stage /\ dict' = dict /\ section' = section /\ in_comment' = in_comment /\ read' = read
    BY <1>4 DEF conf_vars
  <2>2. \A i : Commented(i)' <=> Commented(i)
    BY <2>1 DEF Commented
  <2>3. \A i, s : InSection(i, s)' <=> InSection(i, s)
    BY <2>1, <2>2 DEF InSection, Switches
  <2>4. ConfigMeans' <=> ConfigMeans
    BY <2>1, <2>2, <2>3 DEF ConfigMeans, Assigns
  <2>5. /\ Commented(Len(read))' <=> Commented(Len(read))
        /\ \A s : InSection(Len(read) + 1, s)' <=> InSection(Len(read) + 1, s)
    BY <2>1 DEF Commented, InSection, Switches
  <2> QED
    BY <2>1, <2>4, <2>5 DEF ParseInv
<1> QED
  BY <1>1, <1>2, <1>3, <1>4 DEF Next, Load, ConfigNext, ReadStep, Sleep, Work, Poll, Tick, Collect,
     CollectPkgs, Serve, ShellCollects, vars

\* ConfigMeans holds for files of any length, with any keys, values and sections.
THEOREM ConfigCorrect == Spec => []ConfigMeans
<1>1. Init => ParseInv
  BY DEF Init, ConfigInit, ParseInv
<1>2. ParseInv => ConfigMeans
  BY DEF ParseInv, ConfigMeans
<1> QED
  BY <1>1, <1>2, ParseStep, CronTypes, PTL DEF Spec

-----------------------------------------------------------------------------
(* The timers *)

\* A timer with period rep that has last done its work at the given time.  When
\* its callback is awaited its next time counts from the round that calls it.
OnTime(t, rep, last) ==
    /\ due[t] \in Nat
    /\ pending # {} => mn_now <= due[t]
    /\ t \notin pending => due[t] <= last + rep /\ now <= due[t] + MaxBusy
    /\ t \in pending => due[t] <= mn_now + rep /\ mn_now <= last + rep + MaxBusy

TimeInv ==
    /\ stage \in {"open", "load", "loaded"} =>
          /\ conf_now = now /\ mn_now = now /\ pending = {}
          /\ collected = now /\ pkg_collected = now
    /\ stage = "loop" =>
          /\ mn_now <= now /\ conf_now <= now /\ collected <= now /\ pkg_collected <= now
          /\ pending # {} => now <= mn_now + MaxBusy
          /\ OnTime("tick", 1, conf_now)
          /\ HeapPeriod # 0 => OnTime("gc", HeapPeriod, collected)
          /\ PkgPeriod # 0 => OnTime("pkg", PkgPeriod, pkg_collected)

\* Reading the configuration takes no time that the loop could know of.
LEMMA LoadIdle == Load /\ TimeInv => TimeInv'
<1> SUFFICES ASSUME Load, TimeInv PROVE TimeInv'
  OBVIOUS
<1>1. stage \in {"open", "load"} /\ stage' \in {"load", "loaded", "dead"}
  BY DEF Load, ConfigNext, Open, OpenFails, Loaded, Skip, CommentEnds, CommentStarts, SectionStarts,
     SectionEnds, Store, LanguageFaults, Ignored, Parse, Fetch
<1>2. UNCHANGED time_vars
  BY DEF Load
<1> QED
  BY <1>1, <1>2 DEF TimeInv, time_vars

\* A timer that is polled is due again one period later, or at once.
LEMMA Rearmed ==
    ASSUME TypeOK, TimeInv, Poll, NEW t \in Timers, NEW last \in Nat, NEW rep \in Nat,
           rep = Repeat(t), rep # 0, OnTime(t, rep, last)
    PROVE  /\ due'[t] \in Nat /\ mn_now' = now /\ now' = now
           /\ now <= due'[t]
           /\ t \notin pending' => due'[t] <= last + rep
           /\ t \in pending' => due'[t] <= now + rep /\ now <= last + rep + MaxBusy
<1>1. /\ pending = {} /\ mn_now' = now /\ now' = now
      /\ t \in pending' <=> Due(t)
      /\ due'[t] = IF Due(t) THEN Rearm(t) ELSE due[t]
  BY DEF Poll, Timers
<1>2. due[t] \in Nat /\ due[t] <= last + rep /\ now <= due[t] + MaxBusy
  BY <1>1 DEF OnTime
<1>3. CASE Due(t)
  <2>1. due[t] <= now
    BY <1>3 DEF Due
  <2>2. due'[t] = IF due[t] + rep < now THEN now ELSE due[t] + rep
    BY <1>1, <1>3 DEF Rearm
  <2> QED
    BY <1>1, <1>2, <1>3, <2>1, <2>2, TimeAssumption DEF TypeOK
<1>4. CASE ~Due(t)
  <2>1. now < due[t]
    BY <1>2, <1>4, TimeAssumption DEF Due, TypeOK
  <2> QED
    BY <1>1, <1>2, <1>4, <2>1, TimeAssumption DEF TypeOK
<1> QED
  BY <1>3, <1>4

\* No step makes a timer late.
LEMMA TimeStep == TypeOK /\ TimeInv /\ [Next]_vars => TimeInv'
<1> SUFFICES ASSUME TypeOK, TimeInv, [Next]_vars PROVE TimeInv'
  OBVIOUS
<1> USE TimeAssumption
<1>a. /\ now \in Nat /\ conf_now \in Nat /\ mn_now \in Nat
      /\ collected \in Nat /\ pkg_collected \in Nat
      /\ HeapPeriod \in Nat /\ PkgPeriod \in Nat
  BY PeriodType DEF TypeOK
<1>b. stage = "loop" =>
          /\ mn_now <= now /\ conf_now <= now /\ collected <= now /\ pkg_collected <= now
          /\ pending # {} => now <= mn_now + MaxBusy
          /\ OnTime("tick", 1, conf_now)
          /\ HeapPeriod # 0 => OnTime("gc", HeapPeriod, collected)
          /\ PkgPeriod # 0 => OnTime("pkg", PkgPeriod, pkg_collected)
  BY DEF TimeInv
<1>1. CASE Load
  BY <1>1, LoadIdle
<1>2. CASE StartFaults \/ TickFaults
  BY <1>2 DEF StartFaults, TickFaults, TimeInv
<1>3. CASE StartTimers
  <2>1. /\ due'["tick"] = now /\ due'["gc"] = now /\ due'["pkg"] = now /\ stage' = "loop"
        /\ HeapPeriod' = HeapPeriod /\ PkgPeriod' = PkgPeriod
    BY <1>3 DEF StartTimers, TimeInv, Timers, HeapPeriod, PkgPeriod
  <2>2. /\ conf_now' = now /\ mn_now' = now /\ pending' = {} /\ now' = now
        /\ collected' = now /\ pkg_collected' = now
    BY <1>3 DEF StartTimers, TimeInv
  <2> QED
    BY <2>1, <2>2, PeriodType DEF TimeInv, OnTime, TypeOK
<1>4. CASE Sleep
  <2>1. /\ stage = "loop" /\ stage' = "loop" /\ pending = {} /\ pending' = {} /\ now' = now + 1
        /\ due' = due /\ mn_now' = mn_now /\ conf_now' = conf_now
        /\ collected' = collected /\ pkg_collected' = pkg_collected
        /\ HeapPeriod' = HeapPeriod /\ PkgPeriod' = PkgPeriod
    BY <1>4 DEF Sleep, conf_vars, HeapPeriod, PkgPeriod
  <2>2. \A t \in Timers : due[t] \in Nat => now < due[t]
    BY <1>4 DEF Sleep, Due, TypeOK
  <2>3. OnTime("tick", 1, conf_now)'
    BY <1>a, <1>b, <2>1, <2>2 DEF OnTime, Timers
  <2>4. HeapPeriod # 0 => OnTime("gc", HeapPeriod, collected)'
    BY <1>a, <1>b, <2>1, <2>2 DEF OnTime, Timers
  <2>5. PkgPeriod # 0 => OnTime("pkg", PkgPeriod, pkg_collected)'
    BY <1>a, <1>b, <2>1, <2>2 DEF OnTime, Timers
  <2> QED
    BY <1>a, <1>b, <2>1, <2>3, <2>4, <2>5 DEF TimeInv
<1>5. CASE Work
  <2>1. /\ stage = "loop" /\ stage' = "loop" /\ pending # {} /\ pending' = pending /\ now' = now + 1
        /\ now < mn_now + MaxBusy
        /\ due' = due /\ mn_now' = mn_now /\ conf_now' = conf_now
        /\ collected' = collected /\ pkg_collected' = pkg_collected
        /\ HeapPeriod' = HeapPeriod /\ PkgPeriod' = PkgPeriod
    BY <1>5 DEF Work, conf_vars, HeapPeriod, PkgPeriod
  <2>2. OnTime("tick", 1, conf_now)'
    BY <1>a, <1>b, <2>1 DEF OnTime
  <2>3. HeapPeriod # 0 => OnTime("gc", HeapPeriod, collected)'
    BY <1>a, <1>b, <2>1 DEF OnTime
  <2>4. PkgPeriod # 0 => OnTime("pkg", PkgPeriod, pkg_collected)'
    BY <1>a, <1>b, <2>1 DEF OnTime
  <2> QED
    BY <1>a, <1>b, <2>1, <2>2, <2>3, <2>4 DEF TimeInv
<1>6. CASE Poll
  <2>1. /\ stage = "loop" /\ stage' = "loop" /\ mn_now' = now /\ now' = now
        /\ conf_now' = conf_now /\ collected' = collected /\ pkg_collected' = pkg_collected
        /\ HeapPeriod' = HeapPeriod /\ PkgPeriod' = PkgPeriod
    BY <1>6 DEF Poll, conf_vars, HeapPeriod, PkgPeriod
  <2>2. OnTime("tick", 1, conf_now)'
    <3>1. OnTime("tick", 1, conf_now) /\ Repeat("tick") = 1 /\ "tick" \in Timers
      BY <2>1 DEF TimeInv, Repeat, Timers
    <3> QED
      BY <1>6, <2>1, <3>1, Rearmed DEF OnTime, TypeOK
  <2>3. HeapPeriod # 0 => OnTime("gc", HeapPeriod, collected)'
    <3> SUFFICES ASSUME HeapPeriod # 0 PROVE OnTime("gc", HeapPeriod, collected)'
      OBVIOUS
    <3>1. OnTime("gc", HeapPeriod, collected) /\ Repeat("gc") = HeapPeriod /\ "gc" \in Timers
      BY <2>1 DEF TimeInv, Repeat, Timers
    <3>2. HeapPeriod \in Nat /\ collected \in Nat /\ now \in Nat
      BY PeriodType DEF TypeOK
    <3>3. /\ due'["gc"] \in Nat /\ now <= due'["gc"]
          /\ "gc" \notin pending' => due'["gc"] <= collected + HeapPeriod
          /\ "gc" \in pending' => /\ due'["gc"] <= now + HeapPeriod
                                  /\ now <= collected + HeapPeriod + MaxBusy
      BY <1>6, <3>1, <3>2, Rearmed
    <3> QED
      BY <2>1, <3>2, <3>3 DEF OnTime
  <2>4. PkgPeriod # 0 => OnTime("pkg", PkgPeriod, pkg_collected)'
    <3> SUFFICES ASSUME PkgPeriod # 0 PROVE OnTime("pkg", PkgPeriod, pkg_collected)'
      OBVIOUS
    <3>1. OnTime("pkg", PkgPeriod, pkg_collected) /\ Repeat("pkg") = PkgPeriod /\ "pkg" \in Timers
      BY <2>1 DEF TimeInv, Repeat, Timers
    <3>2. PkgPeriod \in Nat /\ pkg_collected \in Nat /\ now \in Nat
      BY PeriodType DEF TypeOK
    <3>3. /\ due'["pkg"] \in Nat /\ now <= due'["pkg"]
          /\ "pkg" \notin pending' => due'["pkg"] <= pkg_collected + PkgPeriod
          /\ "pkg" \in pending' => /\ due'["pkg"] <= now + PkgPeriod
                                  /\ now <= pkg_collected + PkgPeriod + MaxBusy
      BY <1>6, <3>1, <3>2, Rearmed
    <3> QED
      BY <2>1, <3>2, <3>3 DEF OnTime
  <2> QED
    BY <1>a, <1>b, <2>1, <2>2, <2>3, <2>4 DEF TimeInv
<1>7. CASE Tick
  <2>1. /\ stage = "loop" /\ stage' = "loop" /\ mn_now' = mn_now /\ now' = now /\ due' = due
        /\ conf_now' = now /\ collected' \in {collected, now}
        /\ pkg_collected' \in {pkg_collected, now}
        /\ HeapPeriod' = HeapPeriod /\ PkgPeriod' = PkgPeriod
        /\ "tick" \in pending /\ pending' = pending \ {"tick"}
    BY <1>7 DEF Tick, gc_all, conf_vars, HeapPeriod, PkgPeriod
  <2>a. /\ collected' \in Nat /\ collected <= collected' /\ collected' <= now
        /\ pkg_collected' \in Nat /\ pkg_collected <= pkg_collected' /\ pkg_collected' <= now
    BY <1>a, <1>b, <2>1
  <2>2. OnTime("tick", 1, conf_now)'
    BY <1>a, <1>b, <2>1 DEF OnTime
  <2>3. HeapPeriod # 0 => OnTime("gc", HeapPeriod, collected)'
    <3>1. CASE collected' = collected
      BY <1>a, <1>b, <2>1, <3>1 DEF OnTime
    <3>2. CASE collected' = now
      BY <1>a, <1>b, <2>1, <3>2 DEF OnTime
    <3> QED
      BY <2>1, <3>1, <3>2
  <2>4. PkgPeriod # 0 => OnTime("pkg", PkgPeriod, pkg_collected)'
    <3>1. CASE pkg_collected' = pkg_collected
      BY <1>a, <1>b, <2>1, <3>1 DEF OnTime
    <3>2. CASE pkg_collected' = now
      BY <1>a, <1>b, <2>1, <3>2 DEF OnTime
    <3> QED
      BY <2>1, <3>1, <3>2
  <2> QED
    BY <1>a, <1>b, <2>1, <2>a, <2>2, <2>3, <2>4 DEF TimeInv
<1>8. CASE Collect
  <2>1. /\ stage = "loop" /\ stage' = "loop" /\ mn_now' = mn_now /\ now' = now /\ due' = due
        /\ conf_now' = conf_now /\ collected' = now /\ pkg_collected' = now
        /\ HeapPeriod' = HeapPeriod /\ PkgPeriod' = PkgPeriod
        /\ "gc" \in pending /\ pending' = pending \ {"gc"}
    BY <1>8 DEF Collect, gc_all, conf_vars, HeapPeriod, PkgPeriod
  <2>2. OnTime("tick", 1, conf_now)'
    BY <1>a, <1>b, <2>1 DEF OnTime
  <2>3. HeapPeriod # 0 => OnTime("gc", HeapPeriod, collected)'
    BY <1>a, <1>b, <2>1 DEF OnTime
  <2>4. PkgPeriod # 0 => OnTime("pkg", PkgPeriod, pkg_collected)'
    BY <1>a, <1>b, <2>1 DEF OnTime
  <2> QED
    BY <1>a, <1>b, <2>1, <2>2, <2>3, <2>4 DEF TimeInv
<1>9. CASE ShellCollects
  <2>1. /\ stage = "loop" /\ stage' = "loop" /\ mn_now' = mn_now /\ now' = now /\ due' = due
        /\ conf_now' = conf_now /\ collected' = now /\ pkg_collected' = now
        /\ HeapPeriod' = HeapPeriod /\ PkgPeriod' = PkgPeriod /\ pending' = pending
    BY <1>9 DEF ShellCollects, gc_all, conf_vars, HeapPeriod, PkgPeriod
  <2>2. OnTime("tick", 1, conf_now)'
    BY <1>a, <1>b, <2>1 DEF OnTime
  <2>3. HeapPeriod # 0 => OnTime("gc", HeapPeriod, collected)'
    BY <1>a, <1>b, <2>1 DEF OnTime
  <2>4. PkgPeriod # 0 => OnTime("pkg", PkgPeriod, pkg_collected)'
    BY <1>a, <1>b, <2>1 DEF OnTime
  <2> QED
    BY <1>a, <1>b, <2>1, <2>2, <2>3, <2>4 DEF TimeInv
<1>11. CASE CollectPkgs
  <2>1. /\ stage = "loop" /\ stage' = "loop" /\ mn_now' = mn_now /\ now' = now /\ due' = due
        /\ conf_now' = conf_now /\ collected' = collected /\ pkg_collected' = now
        /\ HeapPeriod' = HeapPeriod /\ PkgPeriod' = PkgPeriod
        /\ "pkg" \in pending /\ pending' = pending \ {"pkg"}
    BY <1>11 DEF CollectPkgs, conf_vars, HeapPeriod, PkgPeriod
  <2>2. OnTime("tick", 1, conf_now)'
    BY <1>a, <1>b, <2>1 DEF OnTime
  <2>3. HeapPeriod # 0 => OnTime("gc", HeapPeriod, collected)'
    BY <1>a, <1>b, <2>1 DEF OnTime
  <2>4. PkgPeriod # 0 => OnTime("pkg", PkgPeriod, pkg_collected)'
    BY <1>a, <1>b, <2>1 DEF OnTime
  <2> QED
    BY <1>a, <1>b, <2>1, <2>2, <2>3, <2>4 DEF TimeInv
<1>12. CASE Serve
  <2>1. /\ stage = "loop" /\ stage' = "loop" /\ mn_now' = mn_now /\ now' = now /\ due' = due
        /\ conf_now' = conf_now /\ collected' = collected /\ pkg_collected' = pkg_collected
        /\ HeapPeriod' = HeapPeriod /\ PkgPeriod' = PkgPeriod
        /\ "io" \in pending /\ pending' = pending \ {"io"}
    BY <1>12 DEF Serve, conf_vars, HeapPeriod, PkgPeriod
  <2>2. OnTime("tick", 1, conf_now)'
    BY <1>a, <1>b, <2>1 DEF OnTime
  <2>3. HeapPeriod # 0 => OnTime("gc", HeapPeriod, collected)'
    BY <1>a, <1>b, <2>1 DEF OnTime
  <2>4. PkgPeriod # 0 => OnTime("pkg", PkgPeriod, pkg_collected)'
    BY <1>a, <1>b, <2>1 DEF OnTime
  <2> QED
    BY <1>a, <1>b, <2>1, <2>2, <2>3, <2>4 DEF TimeInv
<1>10. CASE UNCHANGED vars
  BY <1>10 DEF vars, conf_vars, time_vars, TimeInv, OnTime, HeapPeriod, PkgPeriod
<1> QED
  BY <1>1, <1>2, <1>3, <1>4, <1>5, <1>6, <1>7, <1>8, <1>9, <1>10, <1>11, <1>12 DEF Next

\* TimeInv and the types hold throughout.
LEMMA TimeAlways == Spec => [](TypeOK /\ TimeInv)
<1>1. Init => TimeInv
  BY DEF Init, ConfigInit, TimeInv
<1> QED
  BY <1>1, TypeInit, TypeStep, TimeStep, PTL DEF Spec

\* GcInTime holds for every period that is not zero, whatever time the
\* callbacks take and whichever period cron_tick collects at.
THEOREM GcTimely == Spec => []GcInTime
<1>1. TypeOK /\ TimeInv => GcInTime
  BY PeriodType, TimeAssumption DEF TimeInv, OnTime, TypeOK, GcInTime
<1> QED
  BY <1>1, TimeAlways, PTL

\* PkgsInTime holds for every period that is not zero, also when main and
\* cron_tick never collect.
THEOREM PkgsTimely == Spec => []PkgsInTime
<1>1. TypeOK /\ TimeInv => PkgsInTime
  <2> SUFFICES ASSUME TypeOK, TimeInv, stage = "loop", PkgPeriod # 0
               PROVE  now <= pkg_collected + PkgPeriod + 2 * MaxBusy
    BY DEF PkgsInTime
  <2>1. OnTime("pkg", PkgPeriod, pkg_collected) /\ (pending # {} => now <= mn_now + MaxBusy)
    BY DEF TimeInv
  <2>2. PkgPeriod \in Nat /\ now \in Nat /\ mn_now \in Nat /\ pkg_collected \in Nat
    BY PeriodType DEF TypeOK
  <2> QED
    BY <2>1, <2>2, TimeAssumption DEF OnTime
<1> QED
  BY <1>1, TimeAlways, PTL

\* ClockFresh holds whatever time the callbacks take.
THEOREM ClockTimely == Spec => []ClockFresh
<1>1. TypeOK /\ TimeInv => ClockFresh
  BY TimeAssumption DEF TimeInv, OnTime, TypeOK, ClockFresh
<1> QED
  BY <1>1, TimeAlways, PTL
=============================================================================
