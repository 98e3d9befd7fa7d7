------------------------------- MODULE Config -------------------------------
(***************************************************************************)
(* dconf_load of src/conf.c: the configuration file, read line by line     *)
(* into a dictionary.                                                      *)
(*                                                                         *)
(* A line is what one fgets returns, the white space around it removed,    *)
(* classified by its first characters:                                     *)
(*   skip      blank, a single character, or a comment line (";" "#" "//") *)
(*   open      starts with the comment opener                              *)
(*   close     starts with the comment closer                              *)
(*   section   "[name]"                                                    *)
(*   end       starts with "@END", "@endif" included                       *)
(*   text      all else, "@if" and "@else" included: what strtok finds as  *)
(*             its key and its value, Nil when there is none               *)
(* The dictionary is the map that Dict promises (DictMap).                 *)
(***************************************************************************)
EXTENDS Naturals, Sequences

CONSTANTS
    Keys, Values,   \* of the configuration
    Sections,       \* names in brackets
    Nil,            \* NULL
    MaxLines        \* lines of the file

ASSUME NilAssumption == Nil \notin Keys /\ Nil \notin Values /\ Nil \notin Sections
ASSUME SectionAssumption == {"general", "language"} \subseteq Sections

VARIABLES
    stage,          \* of the process: before, in and after dconf_load, or dead
    dict,           \* the value of each key
    section,
    in_comment,
    read            \* the lines read so far

conf_vars == <<stage, dict, section, in_comment, read>>

Line == [kind : {"skip", "open", "close", "section", "end", "text"},
         name : Keys \cup Sections \cup {Nil}, val : Values \cup {Nil}]

Bare(kind) == [kind |-> kind, name |-> Nil, val |-> Nil]

\* Only a key is followed by a value.
Lines ==
    {Bare(kind) : kind \in {"skip", "open", "close", "end", "text"}}
        \cup {[kind |-> "section", name |-> s, val |-> Nil] : s \in Sections}
        \cup {[kind |-> "text", name |-> k, val |-> v] : k \in Keys, v \in Values \cup {Nil}}

-----------------------------------------------------------------------------
ConfigInit ==
    /\ stage = "open"
    /\ dict = [k \in Keys |-> Nil]
    /\ section = Nil
    /\ in_comment = FALSE
    /\ read = <<>>

Open ==
    /\ stage = "open"
    /\ stage' = "load"
    /\ UNCHANGED <<dict, section, in_comment, read>>

\* The file that could not be opened is closed: fclose of a null pointer.
OpenFails ==
    /\ stage = "open"
    /\ stage' = "dead"
    /\ UNCHANGED <<dict, section, in_comment, read>>

\* fgets
Fetch(l) ==
    /\ stage = "load" /\ Len(read) < MaxLines
    /\ read' = Append(read, l)

\* A line that the parser looks at: it is outside comments.
Parse(l) == Fetch(l) /\ ~in_comment

Skip(l) ==
    /\ Fetch(l)
    /\ l.kind = "skip" \/ (in_comment /\ l.kind \notin {"open", "close"})
    /\ UNCHANGED <<stage, dict, section, in_comment>>

\* Mutant: a comment has no end.
CommentStays(l) ==
    /\ Fetch(l) /\ l.kind = "close"
    /\ UNCHANGED <<stage, dict, section, in_comment>>

CommentEnds(l) ==
    /\ Fetch(l) /\ l.kind = "close"
    /\ in_comment' = FALSE
    /\ UNCHANGED <<stage, dict, section>>

\* The rest of the line is not looked at, were the comment closed there or not.
CommentStarts(l) ==
    /\ Fetch(l) /\ l.kind = "open"
    /\ in_comment' = TRUE
    /\ UNCHANGED <<stage, dict, section>>

SectionStarts(l) ==
    /\ Parse(l) /\ l.kind = "section"
    /\ section' = l.name
    /\ UNCHANGED <<stage, dict, in_comment>>

SectionEnds(l) ==
    /\ Parse(l) /\ l.kind = "end"
    /\ section' = Nil
    /\ UNCHANGED <<stage, dict, in_comment>>

\* dict_add refuses a key that is NULL and does not store a value that is.
Store(l) ==
    /\ Parse(l) /\ l.kind = "text" /\ section = "general"
    /\ dict' = IF l.val = Nil THEN dict ELSE [dict EXCEPT ![l.name] = l.val]
    /\ UNCHANGED <<stage, section, in_comment>>

\* strncasecmp(NULL, ...): a line of separators only.
LanguageFaults(l) ==
    /\ Parse(l) /\ l.kind = "text" /\ section = "language" /\ l.name = Nil
    /\ stage' = "dead"
    /\ UNCHANGED <<dict, section, in_comment>>

\* Outside of a section, in one that is ignored, or in one that is unknown.
Ignored(l) ==
    /\ Parse(l) /\ l.kind = "text" /\ section # "general"
    /\ section = "language" => l.name # Nil
    /\ UNCHANGED <<stage, dict, section, in_comment>>

\* feof: the dictionary is returned, and what else was known is forgotten.
Loaded ==
    /\ stage = "load"
    /\ stage' = "loaded"
    /\ read' = <<>> /\ section' = Nil /\ in_comment' = FALSE
    /\ UNCHANGED dict

ConfigNext ==
    \/ Open \/ OpenFails \/ Loaded
    \/ \E l \in Lines :
          \/ Skip(l) \/ CommentEnds(l) \/ CommentStarts(l) \/ SectionStarts(l) \/ SectionEnds(l)
          \/ Store(l) \/ LanguageFaults(l) \/ Ignored(l)

-----------------------------------------------------------------------------
(* What a configuration file means *)

\* Line i is in a comment that an earlier line, or itself, has opened.
Commented(i) ==
    \E o \in 1 .. i :
        /\ read[o].kind = "open"
        /\ \A c \in o + 1 .. i : read[c].kind # "close"

\* The section changes at line i.
Switches(i) == read[i].kind \in {"section", "end"} /\ ~Commented(i)

\* Section s is the one that lines from i on belong to.
InSection(i, s) ==
    \E j \in 1 .. i - 1 :
        /\ Switches(j) /\ read[j].kind = "section" /\ read[j].name = s
        /\ \A m \in j + 1 .. i - 1 : ~Switches(m)

Assigns(i, k, v) ==
    /\ read[i].kind = "text" /\ read[i].name = k /\ read[i].val = v
    /\ ~Commented(i) /\ InSection(i, "general")

\* "Configuration data *MUST* be inside of a section, no exceptions": a key has
\* a value exactly when a line outside comments, in [general], gives it that
\* value and no such line gives it another one later, whatever comments,
\* sections and ends of sections come in between.
ConfigMeans ==
    stage = "load" =>
        \A k \in Keys, v \in Values :
            dict[k] = v <=>
                \E i \in 1 .. Len(read) :
                    /\ Assigns(i, k, v)
                    /\ \A j \in i + 1 .. Len(read) : \A w \in Values : ~Assigns(j, k, w)
=============================================================================
