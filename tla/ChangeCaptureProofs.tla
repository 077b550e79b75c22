------------------------ MODULE ChangeCaptureProofs ------------------------
(***************************************************************************)
(* Theorems about ChangeCapture, for every number of changes and kills:    *)
(* type correctness, and that kills take no change of a subscription away  *)
(* before the destination has read it.                                     *)
(***************************************************************************)
EXTENDS ChangeCapture, TLAPS

USE BoundAssumption

\* The range of the sequences the passes build.
LEMMA RangeAppend ==
    ASSUME NEW S, NEW s \in Seq(S), NEW e \in S
    PROVE  Range(Append(s, e)) = Range(s) \union {e}
<1>1. DOMAIN Append(s, e) = 1..(Len(s) + 1) /\ DOMAIN s = 1..Len(s)
  OBVIOUS
<1>2. \A i \in 1..Len(s) : Append(s, e)[i] = s[i]
  OBVIOUS
<1>3. Append(s, e)[Len(s) + 1] = e
  OBVIOUS
<1>4. Len(s) \in Nat
  OBVIOUS
<1> QED
  BY <1>1, <1>2, <1>3, <1>4 DEF Range

LEMMA RangeConcat ==
    ASSUME NEW S, NEW s \in Seq(S), NEW t \in Seq(S)
    PROVE  Range(s \o t) = Range(s) \union Range(t)
<1>1. /\ DOMAIN (s \o t) = 1..(Len(s) + Len(t))
      /\ DOMAIN s = 1..Len(s) /\ DOMAIN t = 1..Len(t)
  OBVIOUS
<1>2. \A i \in 1..Len(s) : (s \o t)[i] = s[i]
  OBVIOUS
<1>3. \A i \in 1..Len(t) : (s \o t)[Len(s) + i] = t[i]
  OBVIOUS
<1>4. Len(s) \in Nat /\ Len(t) \in Nat
  OBVIOUS
<1>5. \A i \in 1..(Len(s) + Len(t)) :
         i \in 1..Len(s) \/ (i - Len(s) \in 1..Len(t) /\ i = Len(s) + (i - Len(s)))
  BY <1>4
<1>6. Range(s \o t) \subseteq Range(s) \union Range(t)
  BY <1>1, <1>2, <1>3, <1>5 DEF Range
<1>7. Range(s) \subseteq Range(s \o t)
  BY <1>1, <1>2, <1>4 DEF Range
<1>8. Range(t) \subseteq Range(s \o t)
  <2> SUFFICES ASSUME NEW i \in 1..Len(t) PROVE t[i] \in Range(s \o t)
    BY <1>1 DEF Range
  <2>1. Len(s) + i \in DOMAIN (s \o t)
    BY <1>1, <1>4
  <2> QED
    BY <1>3, <2>1 DEF Range
<1> QED
  BY <1>6, <1>7, <1>8

LEMMA RangeHeadTail ==
    ASSUME NEW S, NEW s \in Seq(S), s # <<>>
    PROVE  Head(s) \in S /\ Tail(s) \in Seq(S)
           /\ Range(s) \subseteq {Head(s)} \union Range(Tail(s))
<1>1. /\ Len(s) \in Nat /\ Len(s) >= 1 /\ Head(s) = s[1]
      /\ DOMAIN s = 1..Len(s) /\ DOMAIN Tail(s) = 1..(Len(s) - 1)
      /\ Tail(s) \in Seq(S) /\ Head(s) \in S
  OBVIOUS
<1>2. \A i \in 1..(Len(s) - 1) : Tail(s)[i] = s[i + 1]
  OBVIOUS
<1>3. ASSUME NEW i \in 1..Len(s) PROVE s[i] \in {Head(s)} \union Range(Tail(s))
  <2>1. CASE i = 1
    BY <1>1, <2>1
  <2>2. CASE i # 1
    <3>1. i - 1 \in 1..(Len(s) - 1) /\ (i - 1) + 1 = i
      BY <1>1, <2>2
    <3>2. Tail(s)[i - 1] = s[i]
      BY <1>2, <3>1
    <3> QED
      BY <1>1, <3>1, <3>2 DEF Range
  <2> QED
    BY <2>1, <2>2
<1> QED
  BY <1>1, <1>3 DEF Range

LEMMA RangeOfTail ==
    ASSUME NEW S, NEW s \in Seq(S), s # <<>>
    PROVE  Head(s) \in Range(s) /\ Range(Tail(s)) \subseteq Range(s)
<1>1. /\ Len(s) \in Nat /\ Len(s) >= 1 /\ Head(s) = s[1]
      /\ DOMAIN s = 1..Len(s) /\ DOMAIN Tail(s) = 1..(Len(s) - 1)
  OBVIOUS
<1>2. \A i \in 1..(Len(s) - 1) : Tail(s)[i] = s[i + 1]
  OBVIOUS
<1>3. \A i \in 1..(Len(s) - 1) : Tail(s)[i] \in Range(s)
  BY <1>1, <1>2 DEF Range
<1> QED
  BY <1>1, <1>3 DEF Range

LEMMA RangeEmpty == Range(<<>>) = {}
BY DEF Range

-----------------------------------------------------------------------------
LEMMA WriteToType ==
    ASSUME NEW old \in Seq(Change), NEW line \in Change
    PROVE  WriteTo(old, line) \in Seq(Change)
<1>1. Append(old, line) \in Seq(Change)
  OBVIOUS
<1>2. ASSUME NEW i PROVE [old EXCEPT ![i] = line] \in Seq(Change)
  <2> DEFINE new == [old EXCEPT ![i] = line]
  <2>1. new = [j \in 1..Len(old) |-> IF j = i THEN line ELSE old[j]]
    OBVIOUS
  <2>2. \A j \in 1..Len(old) : old[j] \in Change
    OBVIOUS
  <2>3. Len(old) \in Nat
    OBVIOUS
  <2>4. new \in [1..Len(old) -> Change]
    BY <2>1, <2>2
  <2> HIDE DEF new
  <2>5. new \in Seq(Change)
    BY <2>3, <2>4
  <2> QED
    BY <2>5 DEF new
<1> QED
  BY <1>1, <1>2 DEF WriteTo

LEMMA EmptyType == <<>> \in Seq(Change)
OBVIOUS

LEMMA TypeInit == Init => TypeOK
BY DEF Init, TypeOK, TablesTypeOK, FileTypeOK, WriterTypeOK, ReaderTypeOK, HistoryTypeOK

\* Whatever a statement does to its table, the histories keep their types.
LEMMA StatementHistory ==
    ASSUME HistoryTypeOK, Works \/ Fails, UNCHANGED <<committed, crashes>>
    PROVE  HistoryTypeOK'
<1>1. errors \in 0..MaxErrors /\ disturbed \subseteq Disturbance
  BY DEF HistoryTypeOK
<1>2. CASE Works
  BY <1>2 DEF Works, HistoryTypeOK
<1>3. CASE Fails
  <2>1. errors' \in 0..MaxErrors
    BY <1>1, <1>3 DEF Fails
  <2>2. disturbed' \subseteq Disturbance
    BY <1>1, <1>3 DEF Fails, Disturb, Disturbance
  <2> QED
    BY <2>1, <2>2 DEF HistoryTypeOK
<1> QED
  BY <1>2, <1>3

LEMMA ApartHistory ==
    ASSUME HistoryTypeOK, NEW b \in BOOLEAN, Apart(b),
           UNCHANGED <<committed, crashes, errors>>
    PROVE  HistoryTypeOK'
BY DEF HistoryTypeOK, Apart, Disturb, Disturbance

LEMMA CrashHistory ==
    ASSUME HistoryTypeOK, crashes < MaxCrashes, crashes' = crashes + 1,
           Disturb("crash"), UNCHANGED <<committed, errors>>
    PROVE  HistoryTypeOK'
<1>1. crashes' \in 0..MaxCrashes
  BY DEF HistoryTypeOK
<1>2. disturbed' \subseteq Disturbance
  BY DEF HistoryTypeOK, Disturb, Disturbance
<1> QED
  BY <1>1, <1>2 DEF HistoryTypeOK

LEMMA TypeInductive == TypeOK /\ [Next]_vars => TypeOK'
<1> SUFFICES ASSUME TypeOK, [Next]_vars PROVE TypeOK'
  OBVIOUS
<1> USE DEF TypeOK, tables, writer, reader
<1> DEFINE Statement == (Works \/ Fails) /\ UNCHANGED <<committed, crashes>>
<1>0. Statement => HistoryTypeOK'
  BY StatementHistory
<1>1. CASE Commit
  <2>1. committed \in 0..MaxChanges /\ committed < MaxChanges /\ committed' = committed + 1
    BY <1>1 DEF Commit, HistoryTypeOK
  <2>2. TablesTypeOK'
    <3>1. temp \in Seq(Change) /\ committed + 1 \in Change
      BY <2>1 DEF Change, TablesTypeOK
    <3>2. temp' \in Seq(Change)
      BY <1>1, <3>1 DEF Commit
    <3> QED
      BY <1>1, <3>2 DEF Commit, TablesTypeOK
  <2>3. HistoryTypeOK'
    <3>1. disturbed' \subseteq Disturbance
      BY <1>1 DEF Commit, Disturb, Disturbance, HistoryTypeOK
    <3> QED
      BY <1>1, <2>1, <3>1 DEF Commit, HistoryTypeOK
  <2> QED
    BY <1>1, <2>2, <2>3 DEF Commit, FileTypeOK, WriterTypeOK, ReaderTypeOK
<1>2. CASE StartPass
  <2>1. Statement /\ UNCHANGED <<tables, file, reader>>
    BY <1>2 DEF StartPass
  <2>2. WriterTypeOK'
    <3>1. rows' \in {temp, <<>>} /\ wpc' = "copy" /\ UNCHANGED <<stream, handle>>
      BY <1>2 DEF StartPass
    <3> QED
      BY <3>1, EmptyType DEF WriterTypeOK, TablesTypeOK
  <2> QED
    BY <1>0, <2>1, <2>2 DEF TablesTypeOK, FileTypeOK, ReaderTypeOK
<1>3. CASE CopyRow
  <2>1. Head(rows) \in Change /\ Tail(rows) \in Seq(Change)
    BY <1>3, RangeHeadTail DEF CopyRow, WriterTypeOK
  <2>2. transfer' \in Seq(Change)
    <3>1. transfer' \in {Append(transfer, Head(rows)), transfer}
      BY <1>3 DEF CopyRow
    <3>2. transfer \in Seq(Change)
      BY DEF TablesTypeOK
    <3> QED
      BY <2>1, <3>1, <3>2
  <2>3. Statement /\ UNCHANGED <<temp, logged, file, wpc, stream, handle, reader>>
        /\ rows' = Tail(rows)
    BY <1>3 DEF CopyRow
  <2> QED
    BY <1>0, <2>1, <2>2, <2>3 DEF TablesTypeOK, FileTypeOK, WriterTypeOK, ReaderTypeOK
<1>4. CASE LogPass
  <2>1. Statement /\ wpc' = "clear" /\ UNCHANGED <<temp, transfer, file, rows, stream, handle, reader>>
    BY <1>4 DEF LogPass
  <2>2. logged' \in Nat
    BY <1>4 DEF LogPass, TablesTypeOK
  <2> QED
    BY <1>0, <2>1, <2>2 DEF TablesTypeOK, FileTypeOK, WriterTypeOK, ReaderTypeOK
<1>5. CASE ClearTemp
  <2>1. Statement /\ wpc' = "open" /\ UNCHANGED <<transfer, logged, file, rows, stream, handle, reader>>
    BY <1>5 DEF ClearTemp
  <2>2. temp' \in Seq(Change)
    <3>1. temp' \in {<<>>, temp}
      BY <1>5 DEF ClearTemp
    <3> QED
      BY <3>1, EmptyType DEF TablesTypeOK
  <2> QED
    BY <1>0, <2>1, <2>2 DEF TablesTypeOK, FileTypeOK, WriterTypeOK, ReaderTypeOK
<1>6. CASE OpenFile
  <2>1. HistoryTypeOK'
    <3>1. CASE Fails
      BY <1>6, <3>1, StatementHistory DEF OpenFile
    <3>2. CASE Apart(rpc = "idle") /\ UNCHANGED errors
      BY <1>6, <3>2, ApartHistory DEF OpenFile
    <3> QED
      BY <1>6, <3>1, <3>2 DEF OpenFile
  <2>2. WriterTypeOK'
    <3>1. stream' \in {transfer, stream} /\ handle' \in {"linked", handle}
          /\ wpc' = "write" /\ UNCHANGED rows
      BY <1>6 DEF OpenFile
    <3> QED
      BY <3>1 DEF WriterTypeOK, TablesTypeOK
  <2> QED
    BY <1>6, <2>1, <2>2 DEF OpenFile, TablesTypeOK, FileTypeOK, ReaderTypeOK
<1>7. CASE WriteLine
  <2>1. Head(stream) \in Change /\ Tail(stream) \in Seq(Change)
    BY <1>7, RangeHeadTail DEF WriteLine, WriterTypeOK
  <2>2. file' \in {WriteTo(file, Head(stream)), file}
    BY <1>7 DEF WriteLine
  <2>3. FileTypeOK'
    BY <2>1, <2>2, WriteToType DEF FileTypeOK
  <2>4. WriterTypeOK'
    BY <1>7, <2>1 DEF WriteLine, WriterTypeOK
  <2> QED
    BY <1>7, <2>3, <2>4 DEF WriteLine, TablesTypeOK, ReaderTypeOK, HistoryTypeOK, history
<1>16. CASE CloseFile
  <2>1. WriterTypeOK'
    BY <1>16 DEF CloseFile, WriterTypeOK
  <2> QED
    BY <1>16, <2>1 DEF CloseFile, TablesTypeOK, FileTypeOK, ReaderTypeOK, HistoryTypeOK, history
<1>8. CASE ClearTransfer
  <2>1. Statement /\ wpc' = "idle" /\ UNCHANGED <<temp, logged, file, rows, stream, handle, reader>>
    BY <1>8 DEF ClearTransfer
  <2>2. transfer' \in Seq(Change)
    <3>1. transfer' \in {<<>>, transfer}
      BY <1>8 DEF ClearTransfer
    <3> QED
      BY <3>1, EmptyType DEF TablesTypeOK
  <2> QED
    BY <1>0, <2>1, <2>2 DEF TablesTypeOK, FileTypeOK, WriterTypeOK, ReaderTypeOK
<1>9. CASE ReaderOpen
  <2>1. HistoryTypeOK'
    <3>1. CASE Fails
      BY <1>9, <3>1, StatementHistory DEF ReaderOpen
    <3>2. CASE Apart(wpc # "write") /\ UNCHANGED errors
      BY <1>9, <3>2, ApartHistory DEF ReaderOpen
    <3> QED
      BY <1>9, <3>1, <3>2 DEF ReaderOpen
  <2>2. ReaderTypeOK'
    <3>1. rpc' \in {"read", "log"} /\ taken' \in {taken, 0}
          /\ UNCHANGED <<printed, rlogged, executed>>
      BY <1>9 DEF ReaderOpen
    <3> QED
      BY <3>1 DEF ReaderTypeOK
  <2> QED
    BY <1>9, <2>1, <2>2 DEF ReaderOpen, TablesTypeOK, FileTypeOK, WriterTypeOK
<1>10. CASE ReaderRead
  <2>1. ReaderTypeOK'
    BY <1>10 DEF ReaderRead, ReaderTypeOK, FileTypeOK
  <2> QED
    BY <1>10, <2>1 DEF ReaderRead, TablesTypeOK, FileTypeOK, WriterTypeOK, HistoryTypeOK, history
<1>11. CASE ReaderLog
  <2>1. Statement /\ UNCHANGED <<tables, file, writer>>
    BY <1>11 DEF ReaderLog
  <2>2. ReaderTypeOK'
    BY <1>11 DEF ReaderLog, ReaderTypeOK
  <2> QED
    BY <1>0, <2>1, <2>2 DEF TablesTypeOK, FileTypeOK, WriterTypeOK
<1>12. CASE ReaderRemove
  <2>1. Statement /\ rpc' = "idle" /\ UNCHANGED <<tables, wpc, rows, stream, taken, rlogged, printed, executed>>
    BY <1>12 DEF ReaderRemove
  <2>2. FileTypeOK' /\ handle' \in {"closed", "linked", "unlinked"}
    <3>1. file' \in {<<>>, file} /\ handle' \in {"unlinked", handle}
      BY <1>12 DEF ReaderRemove
    <3> QED
      BY <3>1, EmptyType DEF FileTypeOK, WriterTypeOK
  <2> QED
    BY <1>0, <2>1, <2>2 DEF TablesTypeOK, WriterTypeOK, ReaderTypeOK
<1>13. CASE CrashWriter
  <2>1. HistoryTypeOK'
    BY <1>13, CrashHistory DEF CrashWriter
  <2> QED
    BY <1>13, <2>1 DEF CrashWriter, TablesTypeOK, FileTypeOK, WriterTypeOK, ReaderTypeOK
<1>14. CASE CrashReader
  <2>1. HistoryTypeOK'
    BY <1>14, CrashHistory DEF CrashReader
  <2> QED
    BY <1>14, <2>1 DEF CrashReader, TablesTypeOK, FileTypeOK, WriterTypeOK, ReaderTypeOK
<1>15. CASE UNCHANGED vars
  BY <1>15 DEF vars, history, TablesTypeOK, FileTypeOK, WriterTypeOK, ReaderTypeOK, HistoryTypeOK
<1> QED
  BY <1>1, <1>2, <1>3, <1>4, <1>5, <1>6, <1>7, <1>8, <1>9, <1>10, <1>11, <1>12,
     <1>13, <1>14, <1>15, <1>16 DEF Next, Pass, Read

\* Every variable always has its type.
THEOREM TypeCorrect == Spec => []TypeOK
BY TypeInit, TypeInductive, PTL DEF Spec

-----------------------------------------------------------------------------
\* Between the open() and the close() of its pass the source's stream holds
\* rows of TRANSFER; those it has handed to a file that is still linked are
\* in the file.
StreamInv ==
    /\ wpc # "write" => stream = <<>> /\ handle = "closed"
    /\ Range(stream) \subseteq Range(transfer)
    /\ Mode = "subscribe" /\ wpc = "write" /\ handle = "linked" =>
        Range(transfer) \subseteq Range(file) \union Range(stream)

\* A subscription that nothing but kills has disturbed.
Orderly == Mode = "subscribe" /\ disturbed \subseteq {"crash"}

\* At each statement, where the rows about to be deleted have a second copy.
Copied ==
    /\ wpc = "copy" => Range(temp) \subseteq Range(transfer) \union Range(rows)
    /\ wpc = "clear" => Range(temp) \subseteq Range(transfer)
    /\ wpc = "write" => handle = "linked" /\ rpc = "idle"
    /\ wpc = "finish" => Range(transfer) \subseteq Range(file) \union Range(printed)
    /\ rpc \in {"log", "remove"} =>
        Range(file) \subseteq Range(printed) /\ taken = Len(file)

\* The changes that are on their way or have been read.
Kept == Stored \union Range(printed)

KeepInv == Orderly => Copied /\ 1..committed \subseteq Kept

LEMMA StreamInit == Init => StreamInv
BY RangeEmpty DEF Init, StreamInv

LEMMA StreamInductive == TypeOK /\ StreamInv /\ [Next]_vars => StreamInv'
<1> SUFFICES ASSUME TypeOK, StreamInv, [Next]_vars PROVE StreamInv'
  OBVIOUS
<1>c. /\ transfer \in Seq(Change) /\ file \in Seq(Change)
      /\ rows \in Seq(Change) /\ stream \in Seq(Change)
  BY DEF TypeOK, TablesTypeOK, FileTypeOK, WriterTypeOK
<1> USE DEF StreamInv, tables, writer, reader, history
<1>1. CASE Commit
  BY <1>1 DEF Commit
<1>2. CASE StartPass
  BY <1>2 DEF StartPass
<1>3. CASE CopyRow
  <2>1. wpc = "copy" /\ stream = <<>> /\ UNCHANGED <<file, wpc, stream, handle>>
    BY <1>3 DEF CopyRow
  <2> QED
    BY <2>1, RangeEmpty
<1>4. CASE LogPass
  BY <1>4 DEF LogPass
<1>5. CASE ClearTemp
  BY <1>5 DEF ClearTemp
<1>6. CASE OpenFile
  BY <1>6 DEF OpenFile
<1>7. CASE WriteLine
  <2>1. wpc = "write" /\ stream # <<>> /\ stream' = Tail(stream)
        /\ UNCHANGED <<transfer, wpc, handle>>
    BY <1>7 DEF WriteLine
  <2>2. /\ Head(stream) \in Change
        /\ Range(stream) \subseteq {Head(stream)} \union Range(stream')
        /\ Range(stream') \subseteq Range(stream)
    BY <1>c, <2>1, RangeHeadTail, RangeOfTail
  <2>3. ASSUME Mode = "subscribe", handle = "linked"
        PROVE  Range(file') = Range(file) \union {Head(stream)}
    <3>1. file' = Append(file, Head(stream))
      BY <1>7, <2>3 DEF WriteLine, WriteTo
    <3> QED
      BY <1>c, <2>2, <3>1, RangeAppend
  <2> QED
    BY <2>1, <2>2, <2>3
<1>8. CASE CloseFile
  BY <1>8 DEF CloseFile
<1>9. CASE ClearTransfer
  <2>1. wpc' = "idle" /\ stream = <<>> /\ handle = "closed" /\ UNCHANGED <<stream, handle>>
    BY <1>9 DEF ClearTransfer
  <2> QED
    BY <2>1, RangeEmpty
<1>10. CASE ReaderOpen
  BY <1>10 DEF ReaderOpen
<1>11. CASE ReaderRead
  BY <1>11 DEF ReaderRead
<1>12. CASE ReaderLog
  BY <1>12 DEF ReaderLog
<1>13. CASE ReaderRemove
  <2>1. UNCHANGED <<transfer, wpc, stream>>
    BY <1>13 DEF ReaderRemove
  <2>2. \/ UNCHANGED <<file, handle>>
        \/ handle' # "linked" /\ (handle = "closed" => handle' = "closed")
    BY <1>13 DEF ReaderRemove
  <2> QED
    BY <2>1, <2>2
<1>14. CASE CrashWriter
  BY <1>14, RangeEmpty DEF CrashWriter
<1>15. CASE CrashReader
  BY <1>15 DEF CrashReader
<1>16. CASE UNCHANGED vars
  BY <1>16 DEF vars
<1> QED
  BY <1>1, <1>2, <1>3, <1>4, <1>5, <1>6, <1>7, <1>8, <1>9, <1>10, <1>11, <1>12,
     <1>13, <1>14, <1>15, <1>16 DEF Next, Pass, Read

LEMMA KeepInit == Init => KeepInv
BY RangeEmpty DEF Init, KeepInv, Copied, Kept, Stored

\* In an orderly step nothing failed, users kept away from a pass and the
\* programs from each other.
LEMMA OrderlyBefore ==
    ASSUME [Next]_vars, Orderly'
    PROVE  Orderly
BY DEF Next, Pass, Read, Commit, StartPass, CopyRow, LogPass, ClearTemp, OpenFile,
       WriteLine, CloseFile, ClearTransfer, ReaderOpen, ReaderRead, ReaderLog, ReaderRemove,
       CrashWriter, CrashReader, Works, Fails, Apart, Disturb, vars, history, Orderly

LEMMA OrderlyNoFailure == Orderly' => ~Fails
BY DEF Orderly, Fails, Disturb

LEMMA KeepInductive == TypeOK /\ StreamInv /\ KeepInv /\ [Next]_vars => KeepInv'
<1> SUFFICES ASSUME TypeOK, StreamInv, KeepInv, [Next]_vars, Orderly'
             PROVE  Copied' /\ (1..committed \subseteq Kept)'
  BY DEF KeepInv
<1>a. Copied /\ 1..committed \subseteq Kept
  BY OrderlyBefore DEF KeepInv
<1>b. ~Fails
  BY OrderlyNoFailure
<1>c. /\ temp \in Seq(Change) /\ transfer \in Seq(Change) /\ file \in Seq(Change)
      /\ rows \in Seq(Change) /\ stream \in Seq(Change) /\ printed \in Seq(Change)
      /\ committed \in 0..MaxChanges
  BY DEF TypeOK, TablesTypeOK, FileTypeOK, WriterTypeOK, ReaderTypeOK, HistoryTypeOK
<1> USE DEF tables, writer, reader, history, Stored
<1>1. CASE Commit
  <2>1. wpc \notin {"copy", "clear"}
    BY <1>1 DEF Commit, Orderly, Disturb
  <2>2. committed + 1 \in Change /\ committed' = committed + 1
    BY <1>1, <1>c DEF Commit, Change
  <2>3. Range(temp') = Range(temp) \union {committed + 1}
    BY <1>1, <1>c, <2>2, RangeAppend DEF Commit
  <2>4. UNCHANGED <<transfer, file, wpc, rows, handle, rpc, taken, printed>>
    BY <1>1 DEF Commit
  <2>5. 1..committed' \subseteq 1..committed \union {committed + 1}
    BY <1>c, <2>2
  <2>6. Copied'
    BY <1>a, <2>1, <2>4 DEF Copied
  <2>7. Kept' = Kept \union {committed + 1}
    BY <2>3, <2>4 DEF Kept
  <2> QED
    BY <1>a, <2>5, <2>6, <2>7
<1>2. CASE StartPass
  <2>1. rows' = temp /\ wpc' = "copy"
        /\ UNCHANGED <<temp, transfer, file, handle, rpc, taken, printed, committed>>
    BY <1>2, <1>b DEF StartPass
  <2> QED
    BY <1>a, <2>1 DEF Copied, Kept
<1>3. CASE CopyRow
  <2>1. /\ transfer' = Append(transfer, Head(rows)) /\ rows' = Tail(rows)
        /\ UNCHANGED <<temp, file, wpc, handle, rpc, taken, printed, committed>>
        /\ wpc = "copy"
    BY <1>3, <1>b DEF CopyRow
  <2>2. Head(rows) \in Change /\ Range(rows) \subseteq {Head(rows)} \union Range(rows')
    BY <1>3, <1>c, <2>1, RangeHeadTail DEF CopyRow
  <2>3. Range(transfer') = Range(transfer) \union {Head(rows)}
    BY <1>c, <2>1, <2>2, RangeAppend
  <2> QED
    BY <1>a, <2>1, <2>2, <2>3 DEF Copied, Kept
<1>4. CASE LogPass
  <2>1. wpc = "copy" /\ rows = <<>> /\ wpc' = "clear"
        /\ UNCHANGED <<temp, transfer, file, rows, handle, rpc, taken, printed, committed>>
    BY <1>4 DEF LogPass
  <2> QED
    BY <1>a, <2>1, RangeEmpty DEF Copied, Kept
<1>5. CASE ClearTemp
  <2>1. wpc = "clear" /\ wpc' = "open" /\ temp' = <<>>
        /\ UNCHANGED <<transfer, file, rows, handle, rpc, taken, printed, committed>>
    BY <1>5, <1>b DEF ClearTemp
  <2> QED
    BY <1>a, <2>1, RangeEmpty DEF Copied, Kept
<1>6. CASE OpenFile
  <2>1. wpc' = "write" /\ handle' = "linked" /\ rpc = "idle"
        /\ UNCHANGED <<temp, transfer, file, rows, rpc, taken, printed, committed>>
    BY <1>6, <1>b DEF OpenFile, Apart, Disturb, Orderly
  <2> QED
    BY <1>a, <2>1 DEF Copied, Kept
<1>7. CASE WriteLine
  <2>1. wpc = "write" /\ stream # <<>>
        /\ UNCHANGED <<temp, transfer, rows, wpc, handle, rpc, printed, committed>>
    BY <1>7 DEF WriteLine
  <2>2. file' = Append(file, Head(stream)) /\ handle = "linked" /\ rpc = "idle"
    BY <1>7, <1>a, <2>1 DEF WriteLine, WriteTo, Copied, Orderly
  <2>3. Range(file') = Range(file) \union {Head(stream)}
    BY <1>c, <2>1, <2>2, RangeHeadTail, RangeAppend
  <2> QED
    BY <1>a, <2>1, <2>2, <2>3 DEF Copied, Kept
<1>16. CASE CloseFile
  <2>1. wpc = "write" /\ wpc' = "finish" /\ stream = <<>>
        /\ UNCHANGED <<temp, transfer, file, rows, rpc, printed, committed>>
    BY <1>16 DEF CloseFile
  <2>2. Range(transfer) \subseteq Range(file) /\ rpc = "idle"
    BY <1>a, <2>1, RangeEmpty DEF StreamInv, Copied, Orderly
  <2> QED
    BY <1>a, <2>1, <2>2 DEF Copied, Kept
<1>8. CASE ClearTransfer
  <2>1. wpc = "finish" /\ wpc' = "idle" /\ transfer' = <<>>
        /\ UNCHANGED <<temp, file, rows, handle, rpc, taken, printed, committed>>
    BY <1>8, <1>b DEF ClearTransfer
  <2> QED
    BY <1>a, <2>1, RangeEmpty DEF Copied, Kept
<1>9. CASE ReaderOpen
  <2>1. wpc # "write" /\ rpc = "idle" /\ rpc' = "read"
        /\ UNCHANGED <<temp, transfer, file, wpc, rows, handle, taken, printed, committed>>
    BY <1>9, <1>b DEF ReaderOpen, Apart, Disturb, Orderly
  <2> QED
    BY <1>a, <2>1 DEF Copied, Kept
<1>10. CASE ReaderRead
  <2>1. rpc = "read" /\ rpc' = "log" /\ printed' = printed \o file /\ taken' = Len(file)
        /\ UNCHANGED <<temp, transfer, file, wpc, rows, handle, committed>>
    BY <1>10 DEF ReaderRead
  <2>2. Range(printed') = Range(printed) \union Range(file)
    BY <1>c, <2>1, RangeConcat
  <2> QED
    BY <1>a, <2>1, <2>2 DEF Copied, Kept
<1>11. CASE ReaderLog
  <2>1. rpc = "log" /\ rpc' = "remove"
        /\ UNCHANGED <<temp, transfer, file, wpc, rows, handle, taken, printed, committed>>
    BY <1>11 DEF ReaderLog
  <2> QED
    BY <1>a, <2>1 DEF Copied, Kept
<1>12. CASE ReaderRemove
  <2>1. rpc = "remove" /\ rpc' = "idle" /\ file' = <<>>
        /\ UNCHANGED <<temp, transfer, wpc, rows, taken, printed, committed>>
    BY <1>12, <1>b DEF ReaderRemove
  <2>2. wpc # "write"
    BY <1>a, <2>1 DEF Copied
  <2> QED
    BY <1>a, <2>1, <2>2, RangeEmpty DEF Copied, Kept
<1>13. CASE CrashWriter
  <2>1. wpc' = "idle"
        /\ UNCHANGED <<temp, transfer, file, rpc, taken, printed, committed>>
    BY <1>13 DEF CrashWriter
  <2> QED
    BY <1>a, <2>1 DEF Copied, Kept
<1>14. CASE CrashReader
  <2>1. rpc' = "idle"
        /\ UNCHANGED <<temp, transfer, file, wpc, rows, handle, taken, printed, committed>>
    BY <1>14 DEF CrashReader
  <2> QED
    BY <1>a, <2>1 DEF Copied, Kept
<1>15. CASE UNCHANGED vars
  BY <1>15, <1>a DEF vars, Copied, Kept
<1> QED
  BY <1>1, <1>2, <1>3, <1>4, <1>5, <1>6, <1>7, <1>8, <1>9, <1>10, <1>11, <1>12,
     <1>13, <1>14, <1>15, <1>16 DEF Next, Pass, Read

\* What a step of a subscription takes away has been read, if nothing but
\* kills has happened.
LEMMA KeepStep ==
    ASSUME TypeOK, StreamInv, KeepInv, [Next]_vars, Mode = "subscribe", Tolerated'
    PROVE  Stored \ Stored' \subseteq Range(printed) /\ (ReaderRemove => taken = Len(file))
<1>a. Copied
  BY OrderlyBefore DEF KeepInv, Orderly, Tolerated
<1>b. ~Fails
  BY OrderlyNoFailure DEF Orderly, Tolerated
<1>c. /\ temp \in Seq(Change) /\ transfer \in Seq(Change) /\ file \in Seq(Change)
      /\ rows \in Seq(Change) /\ stream \in Seq(Change) /\ committed \in 0..MaxChanges
  BY DEF TypeOK, TablesTypeOK, FileTypeOK, WriterTypeOK, HistoryTypeOK
<1>d. ReaderRemove => taken = Len(file)
  BY <1>a DEF ReaderRemove, Copied
<1> USE DEF tables, writer, reader, history, Stored
<1>1. CASE Commit
  <2>1. committed + 1 \in Change
    BY <1>1, <1>c DEF Commit, Change
  <2>2. Range(temp') = Range(temp) \union {committed + 1}
    BY <1>1, <1>c, <2>1, RangeAppend DEF Commit
  <2> QED
    BY <1>1, <1>d, <2>2 DEF Commit
<1>2. CASE CopyRow
  <2>1. rows # <<>> /\ transfer' = Append(transfer, Head(rows)) /\ UNCHANGED <<temp, file>>
    BY <1>2, <1>b DEF CopyRow
  <2>2. Range(transfer') = Range(transfer) \union {Head(rows)}
    BY <1>c, <2>1, RangeHeadTail, RangeAppend
  <2> QED
    BY <1>d, <2>1, <2>2
<1>3. CASE ClearTemp
  <2>1. Range(temp) \subseteq Range(transfer) /\ UNCHANGED <<transfer, file>>
    BY <1>3, <1>a DEF ClearTemp, Copied
  <2> QED
    BY <1>d, <2>1
<1>4. CASE WriteLine
  <2>1. stream # <<>> /\ file' = Append(file, Head(stream)) /\ UNCHANGED <<temp, transfer>>
    BY <1>4, <1>a DEF WriteLine, WriteTo, Copied
  <2>2. Range(file') = Range(file) \union {Head(stream)}
    BY <1>c, <2>1, RangeHeadTail, RangeAppend
  <2> QED
    BY <1>d, <2>1, <2>2
<1>5. CASE ClearTransfer
  <2>1. Range(transfer) \subseteq Range(file) \union Range(printed) /\ UNCHANGED <<temp, file>>
    BY <1>5, <1>a DEF ClearTransfer, Copied
  <2> QED
    BY <1>d, <2>1
<1>6. CASE ReaderRemove
  <2>1. Range(file) \subseteq Range(printed) /\ UNCHANGED <<temp, transfer>>
    BY <1>6, <1>a DEF ReaderRemove, Copied
  <2> QED
    BY <1>d, <2>1
<1>7. CASE StartPass \/ LogPass \/ OpenFile \/ CloseFile \/ CrashWriter
  BY <1>7, <1>d DEF StartPass, LogPass, OpenFile, CloseFile, CrashWriter
<1>8. CASE ReaderOpen \/ ReaderRead \/ ReaderLog \/ CrashReader \/ UNCHANGED vars
  BY <1>8, <1>d DEF ReaderOpen, ReaderRead, ReaderLog, CrashReader, vars
<1> QED
  BY <1>1, <1>2, <1>3, <1>4, <1>5, <1>6, <1>7, <1>8 DEF Next, Pass, Read

\* However often either program is killed, and between whichever statements,
\* a change leaves the tables and the file only after it has been read, and
\* the file is removed only when every line in it was read and counted.
THEOREM KillsLoseNothing == Spec => KeptUntilRead
<1>1. Spec => []TypeOK
  BY TypeCorrect
<1>2. Spec => []StreamInv
  BY <1>1, StreamInit, StreamInductive, PTL DEF Spec
<1>3. Spec => []KeepInv
  BY <1>1, <1>2, KeepInit, KeepInductive, PTL DEF Spec
<1>4. TypeOK /\ StreamInv /\ KeepInv /\ [Next]_vars =>
        [Mode = "subscribe" /\ Tolerated' =>
            /\ Stored \ Stored' \subseteq Range(printed)
            /\ ReaderRemove => taken = Len(file)]_vars
  BY KeepStep
<1> QED
  BY <1>1, <1>2, <1>3, <1>4, PTL DEF Spec, KeptUntilRead

=============================================================================
