---------------------------- MODULE TablePicker ----------------------------
(***************************************************************************)
(* The dialogs in which the user picks the tables to publish               *)
(* (source_dingyue and source_peizhi): a box of patterns, a box of the     *)
(* tables of the pattern shown, and a button that emits what both show.    *)
(* Each name emitted becomes a call of add_trigger in MainWindow.          *)
(*                                                                         *)
(* Both boxes are QComboBoxes: the first item added is shown, and choosing *)
(* the item that is shown emits no currentIndexChanged.  A database is the *)
(* sequence of its patterns and, for each, the tables dba_tables answers.  *)
(***************************************************************************)
EXTENDS Naturals, Sequences, SequencesExt

CONSTANT
    NoTable         \* what an empty box shows

Shown(items) == IF items = <<>> THEN NoTable ELSE Head(items)

\* The constructor fills the box of patterns before it connects AttachChose.
\* History: whether the user has clicked another pattern than the first.
Open(database) ==
    [pattern |-> Head(database.patterns), items |-> <<>>, table |-> NoTable,
     sent |-> <<>>, left |-> FALSE]

\* Slip: the tables of the pattern before are not cleared.
AttachChoseNotCleared(dialog, pattern, tables) ==
    LET items == dialog.items \o tables
    IN  [dialog EXCEPT !.pattern = pattern, !.items = items, !.table = Shown(items)]

\* AttachChose: the pattern has changed, and its tables fill the other box.
AttachChose(dialog, pattern, tables) ==
    [dialog EXCEPT !.pattern = pattern, !.items = tables, !.table = Shown(tables)]

\* The click on a pattern of the box.
ChoosePattern(dialog, pattern, database) ==
    LET clicked == [dialog EXCEPT !.left = @ \/ pattern # Head(database.patterns)]
    IN  IF pattern = dialog.pattern THEN clicked
        ELSE AttachChose(clicked, pattern, database.tablesOf[pattern])

ChooseTable(dialog, table) == [dialog EXCEPT !.table = table]

\* The add button of either dialog.
Add(dialog) ==
    [dialog EXCEPT !.sent = Append(@, [pattern |-> dialog.pattern, table |-> dialog.table,
                                       left |-> dialog.left])]

\* What the next click makes of the dialog.
Clicks(dialog, database) ==
    {ChoosePattern(dialog, p, database) : p \in ToSet(database.patterns)}
    \union {ChooseTable(dialog, t) : t \in ToSet(dialog.items)}
    \union {Add(dialog)}

=============================================================================
