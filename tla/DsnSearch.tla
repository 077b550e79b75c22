----------------------------- MODULE DsnSearch -----------------------------
(***************************************************************************)
(* on_pushButton_7_clicked looks for the data source the user typed in     *)
(* /etc/odbc.ini before it opens the database: line by line, with what     *)
(* earlier lines said kept in variables that no section resets.            *)
(*                                                                         *)
(* A line is a record of what the code looks for in it: section, the text  *)
(* after its first "[" or NoSection; keys, those of the words it looks for *)
(* that occur anywhere in the line; and value, what is after its "=".  A   *)
(* password with a "[" is a section too, and one with UID in it two keys.  *)
(***************************************************************************)
EXTENDS Naturals, Sequences

CONSTANTS
    NoSection,      \* the line has no "["
    Localhost       \* the names "127.0.0.1" and "localhost"

ASSUME LocalhostAssumption == "" \notin Localhost

Wanted == {"SERVER", "UID", "PWD", "TCP_PORT"}

Line == [section : STRING \union {NoSection}, keys : SUBSET Wanted, value : STRING]

\* The variables before the first line; QString is empty.
Start == [at |-> 0,             \* the lines that were read
          record |-> FALSE,
          value |-> [k \in Wanted |-> ""],  \* server, uid, pwd, port
          setting_localhost |-> FALSE,
          find_dsn |-> FALSE]

\* The loop ends with the file or at the first match.
Searching(state, lines) == ~state.find_dsn /\ state.at < Len(lines)

\* The fields of the window: the section, and a value for each key.
Matches(state, typed) ==
    /\ state.record
    /\ \/ state.value["SERVER"] = typed.value["SERVER"]
       \/ state.setting_localhost /\ typed.value["SERVER"] \in Localhost
    /\ \A k \in {"UID", "PWD", "TCP_PORT"} : state.value[k] = typed.value[k]

\* Slip: a section of another name does not end the one that was typed.
RecordOnceBegun(state, line, typed) ==
    state.record \/ line.section = typed.section

\* Whether the lines of this section count.
Record(state, line, typed) ==
    IF line.section = NoSection THEN state.record ELSE line.section = typed.section

\* Slip: a value is taken from any section.
ReadLineOfAnySection(state, line, typed) ==
    LET value == [k \in Wanted |->
                    IF k \in line.keys THEN line.value ELSE state.value[k]]
        next == [at |-> state.at + 1, record |-> Record(state, line, typed),
                 value |-> value, find_dsn |-> FALSE,
                 setting_localhost |-> state.setting_localhost
                                       \/ value["SERVER"] \in Localhost]
    IN  [next EXCEPT !.find_dsn = Matches(next, typed)]

\* One round of the loop.
ReadLine(state, line, typed) ==
    LET record == Record(state, line, typed)
        value == [k \in Wanted |->
                    IF record /\ k \in line.keys THEN line.value ELSE state.value[k]]
        next == [at |-> state.at + 1, record |-> record,
                 value |-> value, find_dsn |-> FALSE,
                 setting_localhost |-> state.setting_localhost
                                       \/ value["SERVER"] \in Localhost]
    IN  [next EXCEPT !.find_dsn = Matches(next, typed)]

-----------------------------------------------------------------------------
\* The lines of the section that begins at line i.
Body(lines, i) ==
    {j \in (i + 1)..Len(lines) :
        \A k \in (i + 1)..j : lines[k].section = NoSection}

Sections(lines, typed) ==
    {i \in DOMAIN lines : lines[i].section = typed.section}

\* Sections have different names, keys occur once in one, no value has a
\* bracket, and the user has filled in the window.
WellFormed(lines, typed) ==
    /\ \A i \in DOMAIN lines : lines[i].section # NoSection => lines[i].keys = {}
    /\ \A i, j \in Sections(lines, typed) : i = j
    /\ \A i \in Sections(lines, typed) : \A j, k \in Body(lines, i) :
            lines[j].keys \intersect lines[k].keys # {} => j = k
    /\ \A k \in Wanted : typed.value[k] # ""

Same(key, value, typed) ==
    \/ value = typed.value[key]
    \/ key = "SERVER" /\ {value, typed.value[key]} \subseteq Localhost

\* Some section of the name typed says for each key what was typed.
Defined(lines, typed) ==
    \E i \in Sections(lines, typed) : \A k \in Wanted :
        \E j \in Body(lines, i) :
            k \in lines[j].keys /\ Same(k, lines[j].value, typed)

\* In whatever file, each value found is one that a section of the name typed
\* gives, though sections of one name may have been mixed.
Backed(lines, typed) ==
    \A k \in Wanted : typed.value[k] = "" \/
        \E i \in Sections(lines, typed) : \E j \in Body(lines, i) \union {i} :
            k \in lines[j].keys /\ Same(k, lines[j].value, typed)

=============================================================================
