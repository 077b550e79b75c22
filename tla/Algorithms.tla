---------------------------- MODULE Algorithms ----------------------------
(***************************************************************************)
(* The program's algorithms over data, each applied to every one of a set  *)
(* of inputs and compared with what it should compute.  A loop whose       *)
(* rounds matter is a step for each round, and a dialog one for each       *)
(* click, so that what they keep is an invariant; the rest is a step.      *)
(***************************************************************************)
EXTENDS SqlRewrite, Fragmentation, DsnSearch, ConditionMonitor, TablePicker

CONSTANTS
    Changes,        \* the changes of rows
    Texts,          \* what the user may type as fragment size
    Files,          \* the contents of /etc/odbc.ini
    Typings,        \* what the user may have typed into the window
    Databases,      \* the patterns and tables of a database
    MaxLen,         \* bound: bytes of a script
    MaxSlack,       \* bound: bytes behind it before the next NUL
    MaxPcs,         \* bound: machines in the picture
    MaxSent,        \* bound: tables picked in a dialog
    Nothing         \* no result yet

ASSUME BoundAssumption ==
    MaxLen \in Nat /\ MaxSlack \in Nat /\ MaxPcs \in Nat /\ MaxSent \in Nat

ASSUME TextsAssumption == Texts \subseteq Seq(Nat)

ASSUME FilesAssumption ==
    /\ Files \subseteq Seq(Line)
    /\ Typings \subseteq [section : STRING, value : [Wanted -> STRING]]
    /\ NoSection \notin STRING

\* A database has a pattern, and no table has an empty name.
ASSUME DatabaseAssumption ==
    /\ NoTable \notin STRING
    /\ \A d \in Databases :
        /\ d.patterns \in Seq(STRING) \ {<<>>}
        /\ \A p \in ToSet(d.patterns) : d.tablesOf[p] \in Seq(STRING)

VARIABLES
    task,           \* an algorithm and its input
    result          \* what it has computed

vars == <<task, result>>

-----------------------------------------------------------------------------
RewriteTask == [of : {"rewrite"}, change : Changes]

\* Scripts of up to MaxLen bytes and what a user may type as fragment size.
CutTask ==
    [of : {"cut"}, len : 0..MaxLen, slack : 0..MaxSlack, text : Texts]

PaintTask == [of : {"paint"}, setPcNum : 7..MaxPcs]

SearchTask == [of : {"search"}, lines : Files, typed : Typings]

PickTask == [of : {"pick"}, database : Databases]

Init ==
    /\ \/ task \in RewriteTask
       \/ task \in CutTask
       \/ task \in PaintTask
       \/ task \in SearchTask
       \/ task \in PickTask
    /\ result = Nothing

Rewrite ==
    /\ task.of = "rewrite" /\ result = Nothing
    /\ result' = [stored |-> TransferRow(task.change),
                  stray |-> Write(TempRow(task.change)) = Undefined]

Cut ==
    /\ task.of = "cut" /\ result = Nothing
    /\ result' = Begin(task.len, task.text, task.slack)

\* Painted, and painted again.
Paint ==
    /\ task.of = "paint" /\ result = Nothing
    /\ LET first == paintEvent(<<>>, task.setPcNum)
       IN  result' = paintEvent(first.connectLists, task.setPcNum).drawn

\* The loop over the lines of /etc/odbc.ini, from its start.
Search ==
    /\ task.of = "search"
    /\ \/ /\ result = Nothing
          /\ result' = Start
       \/ /\ result # Nothing /\ Searching(result, task.lines)
          /\ result' = ReadLine(result, task.lines[result.at + 1], task.typed)

\* A dialog is opened and clicked in.
Pick ==
    /\ task.of = "pick"
    /\ \/ /\ result = Nothing
          /\ result' = Open(task.database)
       \/ /\ result # Nothing
          /\ result' \in Clicks(result, task.database)
          /\ Len(result'.sent) <= MaxSent

Next ==
    /\ Rewrite \/ Cut \/ Paint \/ Search \/ Pick
    /\ UNCHANGED task

Spec == Init /\ [][Next]_vars

Done(algorithm) == result # Nothing /\ task.of = algorithm

-----------------------------------------------------------------------------
\* A change reaches SYSDBA.TRANSFER as the statements that repeat it exactly
\* if its values are free of what the rewriting takes for something else: no
\* NULL, no unlisted text type, no "$", "->" or quote; in an inserted row no
\* "," or ")"; in a deleted one no blank and no ";", and no "=" near the end
\* of a text before another.  Only an inserted row that looks like a list of
\* types itself may have the right quotes by accident.
SurvivorsExactly ==
    Done("rewrite") =>
        LET repeated == result.stored = Reference(task.change)
        IN  /\ Survives(task.change) => repeated
            /\ repeated => \/ Survives(task.change)
                           \/ task.change.kind # "delete" /\ FakesTypes(task.change.new)

\* get_data reads past the end of a list, for which the program may die at
\* every timeout with the same row, only if the row contains "->", ")" or
\* INSERT, or a "$" and behind it the name of a listed type, or if the table
\* is named INSERT.
StrayOnlyIfMisled ==
    Done("rewrite") /\ result.stray => Misleads(task.change)

\* A fragment size that is typed as a number from 1 to what a datagram holds
\* sends the whole script, every byte once and in its place.
FragmentsWhole ==
    Done("cut") /\ result.end = "sent" => Whole(task.len, ToInt(task.text))

\* What is executed is the script, and nothing of the sender's memory with it,
\* exactly if the fragment size divides its length or a NUL follows it.
ExecutedExact ==
    Done("cut") /\ result.end = "sent" =>
        Exact(task.len, ToInt(task.text), task.slack)

\* The text is a number that a datagram has room for.
Usable(text) == \E n \in 1..(MaxDatagram - Header) : Spells(text, n)

\* A script is sent exactly if there is one and the fragment size is usable;
\* a zero, also the one of a number too large, is not refused.
SentExactly ==
    Done("cut") => (result.end = "sent" <=> task.len > 0 /\ Usable(task.text))

\* Up to 360 machines are painted once each, none over another; more of them
\* are all painted at one place.
MachinesApart ==
    Done("paint") =>
        /\ Len(result) = task.setPcNum
        /\ \A i, j \in DOMAIN result :
            i # j => (result[i].angle # result[j].angle <=> task.setPcNum <= 360)
        /\ \A i \in DOMAIN result : result[i].angle < 360

\* In a well-formed file a data source is found exactly if a section defines
\* it with all the user typed.
FindsDefined ==
    Done("search") /\ ~Searching(result, task.lines)
    /\ WellFormed(task.lines, task.typed)
        => (result.find_dsn <=> Defined(task.lines, task.typed))

\* In any file a data source that is found was given by sections of the name
\* typed, though values of two sections of one name may be mixed.
FoundIsBacked ==
    Done("search") /\ result.find_dsn => Backed(task.lines, task.typed)

\* add_trigger is only given a table of the pattern it is given with, or none;
\* none exactly if that pattern has none or the user has never left the first
\* pattern, whose tables the dialog does not show when it opens.
PickedExists ==
    Done("pick") => \A n \in DOMAIN result.sent :
        LET picked == result.sent[n]
            tables == ToSet(task.database.tablesOf[picked.pattern])
        IN  /\ picked.table \in tables \union {NoTable}
            /\ picked.table = NoTable <=> tables = {} \/ ~picked.left

=============================================================================
