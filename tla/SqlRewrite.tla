----------------------------- MODULE SqlRewrite -----------------------------
(***************************************************************************)
(* The text a change takes from the triggers to SYSDBA.TRANSFER.  A        *)
(* trigger concatenates the values of the changed row without quotes and   *)
(* appends the types of the columns; get_data tells the kinds of rows      *)
(* apart by the text, and delete_str and insert_str quote the values of    *)
(* the listed types and cut the types off.                                 *)
(*                                                                         *)
(* A text is a sequence of tokens: a word, a character that some step      *)
(* looks for, or "x", any other character.  Indices are those of QString,  *)
(* from 0.  A row of NULL concatenates nothing.                            *)
(***************************************************************************)
EXTENDS Integers, Sequences, SequencesExt, FiniteSetsExt

CONSTANTS
    Column,         \* the name of a column; all columns are alike
    Listed,         \* date_type_list_need_quotation
    TextType        \* the types whose literals need quotes

quote == "'"
blank == " "

\* What a QString operation that is out of range leaves: undefined, or a
\* crash in a build with assertions.
Undefined == <<"undefined">>

-----------------------------------------------------------------------------
\* QString::indexOf for the first of some characters.
IndexOf(s, chars, from) ==
    LET found == {i \in from..(Len(s) - 1) : s[i + 1] \in chars}
    IN  IF found = {} THEN -1 ELSE Min(found)

\* QString::mid: a negative length means the rest.
Mid(s, pos, n) ==
    IF n < 0 \/ pos + n > Len(s) THEN SubSeq(s, pos + 1, Len(s))
    ELSE SubSeq(s, pos + 1, pos + n)

\* QString::split.
Split(s, c) ==
    LET at == <<0>> \o SetToSortSeq({i \in DOMAIN s : s[i] = c}, <)
                    \o <<Len(s) + 1>>
    IN  [k \in 1..(Len(at) - 1) |-> SubSeq(s, at[k] + 1, at[k + 1] - 1)]

Join(parts, c) ==
    FlattenSeq([k \in DOMAIN parts |-> IF k = 1 THEN parts[k] ELSE c \o parts[k]])

\* The blanks a CHAR column pads a text with are at its end only.
Trimmed(s) ==
    SubSeq(s, 1, Max({i \in DOMAIN s : s[i] # blank} \union {0}))

-----------------------------------------------------------------------------
\* The text the triggers build.
Types(types) == <<"$">> \o FlattenSeq([i \in DOMAIN types |-> <<types[i], "|">>])

DeleteText(table, types, old) ==
    <<"DELETE", blank, "FROM", blank, table, blank, "WHERE", blank>>
    \o Join([i \in DOMAIN old |-> <<Column, "=">> \o old[i]], <<blank, "AND", blank>>)
    \o <<";">> \o Types(types)

\* Slip: the update trigger's second loop appends the types once more.
InsertTextTypesTwice(table, types, new) ==
    <<"INSERT", blank, "INTO", blank, table, blank, "VALUES", "(">>
    \o Join(new, <<",">>) \o <<")", ";">> \o Types(types \o types)

InsertText(table, types, new) ==
    <<"INSERT", blank, "INTO", blank, table, blank, "VALUES", "(">>
    \o Join(new, <<",">>) \o <<")", ";">> \o Types(types)

\* A row of SYSDBA.TEMP; the trigger's CHAR variable pads it.
TempRow(change) ==
    LET text == CASE change.kind = "insert" ->
                        InsertText(change.table, change.types, change.new)
                  [] change.kind = "delete" ->
                        DeleteText(change.table, change.types, change.old)
                  [] change.kind = "update" ->
                        DeleteText(change.table, change.types, change.old)
                        \o <<"->">>
                        \o InsertText(change.table, change.types, change.new)
    IN  text \o [i \in 1..change.padding |-> blank]

-----------------------------------------------------------------------------
NeedsQuotes(type) == Len(type) = 1 /\ type[1] \in Listed

Quoted(value) == <<quote, quote>> \o value \o <<quote, quote>>

\* Slip: the search for the next column begins at the old one.
QuoteNextFromStart(acc, type) ==
    LET start == IndexOf(acc.sql, {"="}, acc.begin) + 1
        stop == IndexOf(acc.sql, {blank, ";"}, start)
    IN  IF ~NeedsQuotes(type) THEN acc
        ELSE [sql |-> Mid(acc.sql, 0, start)
                      \o Quoted(Mid(acc.sql, start, stop - start))
                      \o Mid(acc.sql, stop, -1),
              begin |-> stop]

\* One round of delete_str's loop: the value after the next "=" ends at a
\* blank or a ";".  The four quotes do not advance begin_index.
QuoteNext(acc, type) ==
    LET start == IndexOf(acc.sql, {"="}, acc.begin) + 1
        stop == IndexOf(acc.sql, {blank, ";"}, start)
    IN  IF ~NeedsQuotes(type) THEN [acc EXCEPT !.begin = start]
        ELSE IF stop = -1 THEN [sql |-> Undefined, begin |-> 0]
        ELSE [sql |-> Mid(acc.sql, 0, start)
                      \o Quoted(Mid(acc.sql, start, stop - start))
                      \o Mid(acc.sql, stop, -1),
              begin |-> stop]

delete_str(row) ==
    LET sql == Front(row)
        parts == Split(sql, "$")
    IN  IF Len(parts) < 2 THEN Undefined
        ELSE Split(FoldLeft(QuoteNext, [sql |-> sql, begin |-> 0],
                            Split(parts[2], "|")).sql, "$")[1]

\* The values are what is between the first "(" and the first ")".
insert_str(row) ==
    LET sql == Front(Trimmed(row))
        parts == Split(sql, "$")
        begin == IndexOf(sql, {"("}, 0)
        end == IndexOf(sql, {")"}, 0)
        values == Split(Mid(sql, begin + 1, end - begin - 1), ",")
        types == Split(parts[2], "|")
        strings == {i \in DOMAIN types : NeedsQuotes(types[i])}
    IN  IF Len(parts) < 2 \/ ~(strings \subseteq DOMAIN values) THEN Undefined
        ELSE Split(sql, "(")[1] \o <<"(">>
             \o Join([i \in DOMAIN values |->
                        IF i \in strings THEN Quoted(values[i]) ELSE values[i]], <<",">>)
             \o <<")", ";">>

\* get_data chooses by what the text contains, wherever that comes from.
Write(row) ==
    IF "->" \in ToSet(row)
    THEN LET sen_list == Split(row, "->")
             both == <<delete_str(sen_list[1]), insert_str(sen_list[2])>>
         IN  IF Undefined \in ToSet(both) THEN Undefined ELSE both[1] \o both[2]
    ELSE IF "INSERT" \in ToSet(row) THEN insert_str(row)
    ELSE delete_str(row)

\* What INSERT INTO SYSDBA.TRANSFER VALUES('...') stores: two quotes are one,
\* and a single one ends the literal, so that the statement is refused.
Literal(sql) ==
    LET Next(acc, c) ==
            IF c = quote
            THEN [text |-> IF acc.half THEN Append(acc.text, quote) ELSE acc.text,
                  half |-> ~acc.half, fine |-> acc.fine]
            ELSE [text |-> Append(acc.text, c),
                  half |-> FALSE, fine |-> acc.fine /\ ~acc.half]
        end == FoldLeft(Next, [text |-> <<>>, half |-> FALSE, fine |-> TRUE], sql)
    IN  IF end.fine /\ ~end.half THEN end.text ELSE Undefined

\* The row of SYSDBA.TRANSFER a change becomes.
TransferRow(change) ==
    LET sql == Write(TempRow(change))
    IN  IF sql = Undefined THEN Undefined ELSE Literal(sql)

-----------------------------------------------------------------------------
\* The statements that repeat the change at the destination.
Constant(type, value) ==
    IF value = <<>> THEN <<"NULL">>
    ELSE IF type \notin TextType THEN value
    ELSE <<quote>>
         \o FlattenSeq([i \in DOMAIN value |->
                IF value[i] = quote THEN <<quote, quote>> ELSE <<value[i]>>])
         \o <<quote>>

Condition(type, value) ==
    <<Column>> \o (IF value = <<>> THEN <<"IS", "NULL">>
                   ELSE <<"=">> \o Constant(type, value))

DeleteStatement(table, types, old) ==
    <<"DELETE", blank, "FROM", blank, table, blank, "WHERE", blank>>
    \o Join([i \in DOMAIN old |-> Condition(types[i], old[i])], <<blank, "AND", blank>>)
    \o <<";">>

InsertStatement(table, types, new) ==
    <<"INSERT", blank, "INTO", blank, table, blank, "VALUES", "(">>
    \o Join([i \in DOMAIN new |-> Constant(types[i], new[i])], <<",">>)
    \o <<")", ";">>

Reference(change) ==
    CASE change.kind = "insert" ->
            InsertStatement(change.table, change.types, change.new)
      [] change.kind = "delete" ->
            DeleteStatement(change.table, change.types, change.old)
      [] change.kind = "update" ->
            DeleteStatement(change.table, change.types, change.old)
            \o InsertStatement(change.table, change.types, change.new)

\* Values and types that survive the way whatever the kind of change.
Common(change, row) ==
    \A i \in DOMAIN row :
        /\ row[i] # <<>>
        /\ change.types[i] \in TextType => change.types[i] \in Listed
        /\ ToSet(row[i]) \intersect {"$", "->", quote} = {}

\* An inserted row must not contain what ends a value in insert_str.
InsertSurvives(change) ==
    /\ Common(change, change.new)
    /\ \A i \in DOMAIN change.new : ToSet(change.new[i]) \intersect {",", ")"} = {}

\* The last two characters of a quoted value are searched again.
EqualsNearEnd(value) ==
    "=" \in ToSet(SubSeq(value, Max({1, Len(value) - 1}), Len(value)))

\* A deleted row must not contain what ends a value in delete_str, nor what
\* begins one where it is searched again: that "=" takes the round of the next
\* column, and the rounds of all columns behind it come one too late, which
\* shows at the first of them whose value is to be quoted.
DeleteSurvives(change) ==
    /\ Common(change, change.old)
    /\ \A i \in DOMAIN change.old :
        change.types[i] \in Listed =>
            /\ ToSet(change.old[i]) \intersect {blank, ";"} = {}
            /\ EqualsNearEnd(change.old[i]) =>
                \A k \in (i + 1)..Len(change.old) : change.types[k] \notin Listed

\* The changes that reach SYSDBA.TRANSFER as the statements that repeat them.
Survives(change) ==
    CASE change.kind = "insert" -> InsertSurvives(change)
      [] change.kind = "delete" ->
            /\ DeleteSurvives(change)
            /\ change.table # "INSERT"
            /\ \A i \in DOMAIN change.old : "INSERT" \notin ToSet(change.old[i])
      [] change.kind = "update" -> InsertSurvives(change) /\ DeleteSurvives(change)

\* A "$" in a row begins the list of types too early, and what follows it
\* may hold the name of a listed type where no column is.
FakesTypes(row) ==
    LET text == FlattenSeq(row)
    IN  \E i, j \in DOMAIN text : i < j /\ text[i] = "$" /\ text[j] \in Listed

\* What a row must contain for get_data to read past the end of a list.
Misleads(change) ==
    \/ change.table = "INSERT"
    \/ \E row \in {change.old, change.new} :
        \/ FakesTypes(row)
        \/ ToSet(FlattenSeq(row)) \intersect {"->", "INSERT", ")"} # {}

=============================================================================
