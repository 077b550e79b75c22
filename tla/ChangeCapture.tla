--------------------------- MODULE ChangeCapture ---------------------------
(***************************************************************************)
(* The way of a change from the source's tables to the destination:        *)
(* a trigger writes it to SYSDBA.TEMP; at every timeout the source copies  *)
(* TEMP row by row to SYSDBA.TRANSFER, logs and clears TEMP, writes        *)
(* TRANSFER to the text file and clears TRANSFER; at every timeout the     *)
(* destination reads the text file, logs and removes it.  It prints the    *)
(* lines it reads; it executes none of them.                               *)
(*                                                                         *)
(* Each pass runs on its program's main thread, so one pass of a program   *)
(* never meets another, but users of the database and the other program    *)
(* may act between any two statements, a program may be killed there, and  *)
(* a statement may fail: no result is looked at.  Statements commit by     *)
(* themselves (the ODBC default).                                          *)
(*                                                                         *)
(* A change is its number in commit order; a row, a line of the file and   *)
(* the statements made of it are that number.  An update is one row.  The  *)
(* text stream may hand lines to the file in groups and at any time until  *)
(* close(); one at a time is every way of grouping them, but for a line    *)
(* that is cut where the stream's buffer ends.                             *)
(***************************************************************************)
EXTENDS Naturals, Sequences, FiniteSets, Functions

CONSTANTS
    Mode,           \* "subscribe": get_data, "publish": get_data_transfer
    Env,            \* what may disturb a pass, a subset of Disturbance
    MaxChanges,     \* bound: changes committed
    MaxCrashes,     \* bound: programs killed
    MaxErrors       \* bound: statements that fail

\* "busy"   users commit changes while TEMP is being copied
\* "race"   both programs use the text file at once
\* "crash"  a program is killed in a pass
\* "error"  a statement or an open() fails
Disturbance == {"busy", "race", "crash", "error"}

ASSUME ModeAssumption == Mode \in {"subscribe", "publish"}
ASSUME EnvAssumption == Env \subseteq Disturbance
ASSUME BoundAssumption ==
    MaxChanges \in Nat /\ MaxCrashes \in Nat /\ MaxErrors \in Nat

VARIABLES
    temp,       \* the rows of SYSDBA.TEMP
    transfer,   \* the rows of SYSDBA.TRANSFER
    file,       \* the lines of the text file; one that is missing has none
    wpc,        \* the next statement of the source's pass
    rows,       \* the rows of its SELECT * FROM SYSDBA.TEMP still to copy
    stream,     \* the lines its text stream still has to hand to the file
    handle,     \* its text file: "closed", "linked", or "unlinked" by a remove
    rpc,        \* the next statement of the destination's pass
    taken,      \* its update_number
    printed,    \* what it has printed of the lines it read, in order
    logged,     \* SYSDBA.LOG: the new data counted by the source ...
    rlogged,    \* ... and by the destination, in its own database
    executed,   \* the changes executed in the destination's database
    committed,  \* history: number of changes committed
    crashes,    \* history: number of programs killed
    errors,     \* history: number of statements that failed
    disturbed   \* history: what has disturbed a pass

tables == <<temp, transfer, logged>>
writer == <<wpc, rows, stream, handle>>
reader == <<rpc, taken, printed, rlogged, executed>>
history == <<committed, crashes, errors, disturbed>>
vars == <<tables, file, writer, reader, history>>

Change == 1..MaxChanges

TablesTypeOK ==
    /\ temp \in Seq(Change)
    /\ transfer \in Seq(Change)
    /\ logged \in Nat

FileTypeOK == file \in Seq(Change)

WriterTypeOK ==
    /\ wpc \in {"idle", "copy", "clear", "open", "write", "finish"}
    /\ rows \in Seq(Change)
    /\ stream \in Seq(Change)
    /\ handle \in {"closed", "linked", "unlinked"}

ReaderTypeOK ==
    /\ rpc \in {"idle", "read", "log", "remove"}
    /\ taken \in Nat /\ rlogged \in Nat
    /\ printed \in Seq(Change)
    /\ executed \subseteq Change

HistoryTypeOK ==
    /\ committed \in 0..MaxChanges
    /\ crashes \in 0..MaxCrashes
    /\ errors \in 0..MaxErrors
    /\ disturbed \subseteq Disturbance

TypeOK == TablesTypeOK /\ FileTypeOK /\ WriterTypeOK /\ ReaderTypeOK /\ HistoryTypeOK

Init ==
    /\ temp = <<>> /\ transfer = <<>> /\ file = <<>>
    /\ wpc = "idle" /\ rows = <<>> /\ stream = <<>> /\ handle = "closed"
    /\ rpc = "idle" /\ taken = 0 /\ printed = <<>>
    /\ logged = 0 /\ rlogged = 0 /\ executed = {}
    /\ committed = 0 /\ crashes = 0 /\ errors = 0 /\ disturbed = {}

-----------------------------------------------------------------------------
\* What happened disturbs a pass, and the surroundings allow it.
Disturb(what) ==
    /\ what \in Env
    /\ disturbed' = disturbed \union {what}

\* A statement has its effect.
Works == UNCHANGED <<errors, disturbed>>

\* A statement fails and the pass goes on all the same.
Fails ==
    /\ errors < MaxErrors
    /\ errors' = errors + 1
    /\ Disturb("error")

\* The two programs do not use the text file at the same time.
Apart(other) ==
    IF other THEN UNCHANGED disturbed ELSE Disturb("race")

-----------------------------------------------------------------------------
\* A user's change is committed; the trigger of its table has added the row.
Commit ==
    /\ committed < MaxChanges
    /\ committed' = committed + 1
    /\ temp' = Append(temp, committed + 1)
    /\ IF wpc \in {"copy", "clear"} THEN Disturb("busy") ELSE UNCHANGED disturbed
    /\ UNCHANGED <<transfer, logged, file, writer, reader, crashes, errors>>

\* Slip: TEMP is cleared as soon as it has been read.
StartPassClears ==
    /\ wpc = "idle"
    /\ Works /\ rows' = temp /\ temp' = <<>>
    /\ wpc' = "copy"
    /\ UNCHANGED <<transfer, logged, file, stream, handle, reader, committed, crashes>>

\* The timeout of the source: SELECT * FROM SYSDBA.TEMP.
StartPass ==
    /\ wpc = "idle"
    /\ \/ Works /\ rows' = temp
       \/ Fails /\ rows' = <<>>
    /\ wpc' = "copy"
    /\ UNCHANGED <<tables, file, stream, handle, reader, committed, crashes>>

\* One round of the loop: INSERT INTO SYSDBA.TRANSFER.
CopyRow ==
    /\ wpc = "copy" /\ rows # <<>>
    /\ \/ Works /\ transfer' = Append(transfer, Head(rows))
       \/ Fails /\ UNCHANGED transfer
    /\ rows' = Tail(rows)
    /\ UNCHANGED <<temp, logged, file, wpc, stream, handle, reader, committed, crashes>>

\* Slip: the rows are counted when TEMP is empty again.
LogPassTooLate ==
    /\ wpc = "copy" /\ rows = <<>>
    /\ wpc' = "clear"
    /\ UNCHANGED <<tables, file, rows, stream, handle, reader, history>>

\* After the loop the rows of TEMP are counted, and add_log writes the number.
\* get_data writes no zero: the sum is the same.
LogPass ==
    /\ wpc = "copy" /\ rows = <<>>
    /\ \/ Works /\ logged' = logged + Len(temp)
       \/ Fails /\ UNCHANGED logged
    /\ wpc' = "clear"
    /\ UNCHANGED <<temp, transfer, file, rows, stream, handle, reader,
                   committed, crashes>>

\* DELETE SYSDBA.TEMP: whatever is in it by now.
ClearTemp ==
    /\ wpc = "clear"
    /\ \/ Works /\ temp' = <<>>
       \/ Fails /\ UNCHANGED temp
    /\ wpc' = "open"
    /\ UNCHANGED <<transfer, logged, file, rows, stream, handle, reader,
                   committed, crashes>>

\* Slip: the file is truncated even if it still holds lines.
OpenFileTruncates ==
    /\ wpc = "open"
    /\ UNCHANGED errors /\ Apart(rpc = "idle")
    /\ stream' = transfer /\ handle' = "linked" /\ file' = <<>>
    /\ wpc' = "write"
    /\ UNCHANGED <<tables, rows, reader, committed, crashes>>

\* Slip: the file is opened to read.
OpenFileReadOnly ==
    /\ wpc = "open"
    /\ stream' = transfer
    /\ wpc' = "write"
    /\ UNCHANGED <<tables, file, rows, handle, reader, history>>

\* SELECT * FROM SYSDBA.TRANSFER, and the text file is opened or created for
\* its rows.  If either fails there is nothing to write, or nowhere to.
OpenFile ==
    /\ wpc = "open"
    /\ \/ /\ UNCHANGED errors /\ Apart(rpc = "idle")
          /\ stream' = transfer /\ handle' = "linked"
       \/ /\ Fails
          /\ UNCHANGED <<stream, handle>>
    /\ wpc' = "write"
    /\ UNCHANGED <<tables, file, rows, reader, committed, crashes>>

\* Slips: an empty line before each; a new line before the old ones.
WriteEmptyLine(lines, line) == lines \o <<0, line>>
WriteFirst(lines, line) == <<line>> \o lines

\* What the file holds when the next line is written to it: get_data opens it
\* to append, get_data_transfer at its beginning, and neither truncates it.
WriteTo(lines, line) ==
    LET place == Len(transfer) - Len(stream) + 1
    IN  IF Mode = "subscribe" \/ place > Len(lines)
        THEN Append(lines, line)
        ELSE [lines EXCEPT ![place] = line]

\* The stream hands a line to the file; a file removed since it was opened
\* takes it along.
WriteLine ==
    /\ wpc = "write" /\ stream # <<>>
    /\ file' = IF handle = "linked" THEN WriteTo(file, Head(stream)) ELSE file
    /\ stream' = Tail(stream)
    /\ UNCHANGED <<tables, wpc, rows, handle, reader, history>>

\* close(), when the stream has been flushed.
CloseFile ==
    /\ wpc = "write" /\ stream = <<>>
    /\ handle' = "closed"
    /\ wpc' = "finish"
    /\ UNCHANGED <<tables, file, rows, stream, reader, history>>

\* DELETE SYSDBA.TRANSFER ends the pass.
ClearTransfer ==
    /\ wpc = "finish"
    /\ \/ Works /\ transfer' = <<>>
       \/ Fails /\ UNCHANGED transfer
    /\ wpc' = "idle"
    /\ UNCHANGED <<temp, logged, file, rows, stream, handle, reader,
                   committed, crashes>>

-----------------------------------------------------------------------------
\* The timeout of the destination: get_data_from_source opens the file, and
\* if that fails finds no line in it.
ReaderOpen ==
    /\ rpc = "idle"
    /\ \/ /\ UNCHANGED errors /\ Apart(wpc # "write")
          /\ rpc' = "read" /\ UNCHANGED taken
       \/ /\ Fails
          /\ rpc' = "log" /\ taken' = 0
    /\ UNCHANGED <<tables, file, writer, printed, rlogged, executed, committed, crashes>>

\* It prints and counts the lines to the end of the file, however long it is
\* by then, and hands none of them to the database,
ReaderRead ==
    /\ rpc = "read"
    /\ printed' = printed \o file
    /\ taken' = Len(file)
    /\ rpc' = "log"
    /\ UNCHANGED <<tables, file, writer, rlogged, executed, history>>

\* logs the number,
ReaderLog ==
    /\ rpc = "log"
    /\ \/ Works /\ rlogged' = rlogged + taken
       \/ Fails /\ UNCHANGED rlogged
    /\ rpc' = "remove"
    /\ UNCHANGED <<tables, file, writer, taken, printed, executed, committed, crashes>>

\* Slip: the file is left in place.
ReaderRemoveForgets ==
    /\ rpc = "remove"
    /\ rpc' = "idle"
    /\ UNCHANGED <<tables, file, writer, taken, printed, rlogged, executed, history>>

\* and removes the file, whatever it holds by then.
ReaderRemove ==
    /\ rpc = "remove"
    /\ \/ /\ Works
          /\ file' = <<>>
          /\ handle' = IF handle = "linked" THEN "unlinked" ELSE handle
       \/ Fails /\ UNCHANGED <<file, handle>>
    /\ rpc' = "idle"
    /\ UNCHANGED <<tables, wpc, rows, stream, taken, printed, rlogged, executed,
                   committed, crashes>>

-----------------------------------------------------------------------------
\* A program is killed in its pass; the tables and the file stay.
CrashWriter ==
    /\ wpc # "idle" /\ crashes < MaxCrashes
    /\ Disturb("crash")
    /\ crashes' = crashes + 1
    /\ wpc' = "idle" /\ rows' = <<>> /\ stream' = <<>> /\ handle' = "closed"
    /\ UNCHANGED <<tables, file, reader, committed, errors>>

CrashReader ==
    /\ rpc # "idle" /\ crashes < MaxCrashes
    /\ Disturb("crash")
    /\ crashes' = crashes + 1
    /\ rpc' = "idle"
    /\ UNCHANGED <<tables, file, writer, taken, printed, rlogged, executed,
                   committed, errors>>

Pass ==
    \/ CopyRow \/ LogPass \/ ClearTemp
    \/ OpenFile \/ WriteLine \/ CloseFile \/ ClearTransfer
Read == ReaderRead \/ ReaderLog \/ ReaderRemove

Next ==
    \/ Commit
    \/ StartPass \/ Pass \/ CrashWriter
    \/ ReaderOpen \/ Read \/ CrashReader

Spec == Init /\ [][Next]_vars

\* A pass that has begun goes on, and a timeout that finds the text file in
\* use comes again: passes take milliseconds, the timers run for seconds.
Fairness ==
    /\ WF_vars(StartPass) /\ WF_vars(Pass) /\ SF_vars(OpenFile)
    /\ SF_vars(ReaderOpen) /\ WF_vars(Read)

FairSpec == Spec /\ Fairness

-----------------------------------------------------------------------------
\* Kills are tolerated, whatever statement they fall on.
Tolerated == disturbed \subseteq {"crash"}

\* Every change that is still on its way.
Stored == Range(temp) \union Range(transfer) \union Range(file)

\* Killing either program between any two statements of a pass loses no
\* change the destination has not read: as long as nothing else happens, one
\* leaves the tables and the file only after it was read, and a file is only
\* removed in a pass that has read and counted every line of it.
KeptUntilRead ==
    [][Mode = "subscribe" /\ Tolerated' =>
        /\ Stored \ Stored' \subseteq Range(printed)
        /\ ReaderRemove => taken = Len(file)]_vars

\* No line is read twice by the destination, even if users commit during a
\* pass and the file is removed under the writer: only kills and failures
\* repeat lines.
AtMostOnce ==
    Mode = "subscribe" /\ disturbed \subseteq {"busy", "race"} =>
        IsInjective(printed)

\* A change the destination has not read before is later than all it has read,
\* through lost changes, repeated passes and re-read files: what it reads
\* could be replayed in order.
InOrder ==
    Mode = "subscribe" /\ "error" \notin disturbed =>
        \A j \in DOMAIN printed :
            (\A i \in 1..(j - 1) : printed[i] # printed[j]) =>
                \A i \in 1..(j - 1) : printed[i] < printed[j]

\* The two LOG tables agree: between passes, what the source has logged and
\* the destination has not is in the file.
LogsAgree ==
    Mode = "subscribe" /\ disturbed = {} /\ wpc = "idle" /\ rpc = "idle" =>
        logged = rlogged + Len(file)

\* When TEMP is cleared, its data has been moved to TRANSFER.
MovedBeforeCleared == [][ClearTemp => Range(temp) \subseteq Range(transfer)]_vars

\* Each pass of get_data_transfer writes a new file.
FreshFile == [][CloseFile => file = transfer]_vars

\* The destination removes the file after executing what is in it.
ExecutedBeforeRemoved ==
    [][ReaderRemove /\ file' # file => Range(file) \subseteq executed]_vars

\* What the destination has read trails the source: while nothing but kills
\* has happened it is a prefix of what was committed; after a failed
\* statement, a commit during a pass or both programs in the file it may have
\* gaps, and still is nothing that was not committed.
Feed == INSTANCE ChangeFeed WITH
    read <- Range(printed),
    faulty <- ~Tolerated

ImplementsFeed == Feed!Spec

\* Every committed change is read by the destination in the end, unless
\* something that is not tolerated has happened.
AllRead == <>[](Tolerated => 1..committed \subseteq Range(printed))

=============================================================================
