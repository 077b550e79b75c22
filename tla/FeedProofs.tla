----------------------------- MODULE FeedProofs -----------------------------
(***************************************************************************)
(* ChangeCapture implements ChangeFeed, for every number of changes, kills *)
(* and failures; no line is read twice while nobody is killed and nothing  *)
(* fails; what is read is in order while nothing fails; and both programs  *)
(* log the same numbers while nothing disturbs them. Each needs an         *)
(* invariant of its own, which says of the stages temp, rows, transfer,    *)
(* stream, file and printed what the property says of the last one.        *)
(***************************************************************************)
EXTENDS ChangeCaptureProofs

USE BoundAssumption

\* The changes that have left TEMP for good, by how far they have come.
Arrived == Range(printed)
Written == Arrived \union Range(file)
Moved == Written \union Range(transfer)

Everything == Moved \union Range(temp) \union Range(rows)

\* All that is anywhere was committed, whatever has disturbed the passes.
CommittedOnly == Everything \subseteq 1..committed

-----------------------------------------------------------------------------
\* The first changes up to some number, and no other.
IsPrefix(S) == \E k \in 0..MaxChanges : S = 1..k

\* Each element of s comes after all smaller ones, those of S or earlier in s.
Led(s, S) ==
    \A i \in DOMAIN s : 1..(s[i] - 1) \subseteq S \union {s[j] : j \in 1..(i - 1)}

\* While nothing but kills has happened, the changes move on in order.
PrefixInv ==
    Orderly =>
        /\ IsPrefix(Arrived) /\ IsPrefix(Written) /\ IsPrefix(Moved)
        /\ Led(temp, Moved) /\ Led(rows, Moved)
        /\ Led(transfer, Written) /\ Led(stream, Written)

-----------------------------------------------------------------------------
\* Every element of s is before all of t.
Before(S, T) == \A x \in S, y \in T : x < y

Increasing(s) == \A i, j \in DOMAIN s : i < j => s[i] < s[j]

\* Only users and the other program have been in the way.
Undamaged == Mode = "subscribe" /\ disturbed \subseteq {"busy", "race"}

\* What the reader has, what it will read, what the writer will write and
\* what it will copy follow each other and increase.
Flow ==
    /\ Increasing(printed)
    /\ rpc \in {"idle", "read"} => Increasing(file) /\ Before(Arrived, Range(file))
    /\ wpc = "idle" => transfer = <<>>
    /\ wpc \in {"copy", "clear", "open"} =>
        Increasing(transfer) /\ Before(Written, Range(transfer))
    /\ wpc = "write" => Increasing(stream) /\ Before(Written, Range(stream))
    /\ wpc = "copy" => Increasing(rows) /\ Before(Moved, Range(rows))
    /\ wpc \in {"idle", "open", "write", "finish"} =>
        Increasing(temp) /\ Before(Moved, Range(temp))

FlowInv == Undamaged => Flow

-----------------------------------------------------------------------------
\* An element that has not been in s before is after all before it.
NewLater(s) ==
    \A j \in DOMAIN s :
        (\A i \in 1..(j - 1) : s[i] # s[j]) => \A i \in 1..(j - 1) : s[i] < s[j]

\* What T would add to S is after all of S.
Follows(S, T) == \A x \in T, y \in S : x < y => x \in S

\* What is smaller than an element of s and in s is in S or earlier in s.
Sorted(s, S) ==
    \A i \in DOMAIN s, x \in Range(s) :
        x < s[i] => x \in S \union {s[l] : l \in 1..(i - 1)}

\* Each stage is in order, repetitions aside, and adds to no later stage what
\* should have been there before.
Order ==
    /\ NewLater(printed) /\ NewLater(file)
    /\ Sorted(transfer, {})
    /\ wpc = "write" /\ handle = "linked" => Sorted(stream, Range(file))
    /\ Increasing(rows) /\ Increasing(temp)
    /\ \A s \in {file, transfer, rows, temp} : Follows(Range(printed), Range(s))
    /\ \A s \in {transfer, rows, temp} : Follows(Range(file), Range(s))
    /\ \A s \in {rows, temp} : Follows(Range(transfer), Range(s))
    /\ \A x \in Range(temp), y \in Range(rows) :
        x < y => x \in Range(transfer) \union Range(rows)
    /\ wpc # "copy" => rows = <<>>

Unfailing == Mode = "subscribe" /\ "error" \notin disturbed

OrderInv == Unfailing => Order

-----------------------------------------------------------------------------
\* The lines counted by the source and not yet by the destination.
InTransfer ==
    IF wpc \in {"clear", "open"} THEN Len(transfer)
    ELSE IF wpc = "write" THEN Len(stream) ELSE 0
InFile == IF rpc \in {"idle", "read"} THEN Len(file) ELSE IF rpc = "log" THEN taken ELSE 0

\* A pass that nothing disturbs copies what it counts.
Count ==
    /\ logged = rlogged + InTransfer + InFile
    /\ wpc = "idle" => transfer = <<>>
    /\ wpc = "copy" => Len(transfer) + Len(rows) = Len(temp)
    /\ wpc = "clear" => Len(transfer) = Len(temp)
    /\ wpc = "write" => handle = "linked" /\ rpc = "idle"

Undisturbed == Mode = "subscribe" /\ disturbed = {}

CountInv == Undisturbed => Count

-----------------------------------------------------------------------------
LEMMA WriteToRange ==
    ASSUME NEW old \in Seq(Change), NEW line \in Change
    PROVE  Range(WriteTo(old, line)) \subseteq Range(old) \union {line}
<1>1. Range(Append(old, line)) = Range(old) \union {line}
  BY RangeAppend
<1>2. ASSUME NEW i PROVE Range([old EXCEPT ![i] = line]) \subseteq Range(old) \union {line}
  <2> DEFINE new == [old EXCEPT ![i] = line]
  <2>1. DOMAIN new = DOMAIN old /\ \A j \in DOMAIN old : new[j] \in {line, old[j]}
    OBVIOUS
  <2> HIDE DEF new
  <2>2. Range(new) \subseteq Range(old) \union {line}
    BY <2>1 DEF Range
  <2> QED
    BY <2>2 DEF new
<1> QED
  BY <1>1, <1>2 DEF WriteTo

\* What TypeOK says of the sequences.
LEMMA PartsType ==
    ASSUME TypeOK
    PROVE  /\ temp \in Seq(Change) /\ transfer \in Seq(Change) /\ file \in Seq(Change)
           /\ rows \in Seq(Change) /\ stream \in Seq(Change) /\ printed \in Seq(Change)
           /\ committed \in 0..MaxChanges
BY DEF TypeOK, TablesTypeOK, FileTypeOK, WriterTypeOK, ReaderTypeOK, HistoryTypeOK

\* Only a commit brings something new.
LEMMA NothingNew ==
    ASSUME TypeOK, StreamInv, [Next]_vars, ~Commit
    PROVE  Everything' \subseteq Everything /\ committed' = committed
<1> USE PartsType DEF tables, writer, reader, history, Arrived, Written, Moved, Everything
<1>1. CASE StartPass
  BY <1>1, RangeEmpty DEF StartPass
<1>2. CASE CopyRow
  <2>1. Head(rows) \in Change
    BY <1>2, RangeHeadTail DEF CopyRow
  <2>2. Range(transfer') \subseteq Range(transfer) \union {Head(rows)}
    BY <1>2, <2>1, RangeAppend DEF CopyRow
  <2>3. Head(rows) \in Range(rows) /\ Range(rows') \subseteq Range(rows)
    BY <1>2, RangeOfTail DEF CopyRow
  <2> QED
    BY <1>2, <2>2, <2>3 DEF CopyRow
<1>3. CASE LogPass
  BY <1>3 DEF LogPass
<1>4. CASE ClearTemp
  BY <1>4, RangeEmpty DEF ClearTemp
<1>5. CASE OpenFile
  BY <1>5 DEF OpenFile
<1>6. CASE WriteLine
  <2>1. Head(stream) \in Change /\ Head(stream) \in Range(transfer)
    BY <1>6, RangeHeadTail, RangeOfTail DEF WriteLine, StreamInv
  <2>2. Range(file') \subseteq Range(file) \union {Head(stream)}
    BY <1>6, <2>1, WriteToRange DEF WriteLine
  <2> QED
    BY <1>6, <2>1, <2>2 DEF WriteLine
<1>15. CASE CloseFile
  BY <1>15 DEF CloseFile
<1>7. CASE ClearTransfer
  BY <1>7, RangeEmpty DEF ClearTransfer
<1>8. CASE ReaderOpen
  BY <1>8 DEF ReaderOpen
<1>9. CASE ReaderRead
  <2>1. Range(printed') = Range(printed) \union Range(file)
    BY <1>9, RangeConcat DEF ReaderRead
  <2> QED
    BY <1>9, <2>1 DEF ReaderRead
<1>10. CASE ReaderLog
  BY <1>10 DEF ReaderLog
<1>11. CASE ReaderRemove
  BY <1>11, RangeEmpty DEF ReaderRemove
<1>12. CASE CrashWriter
  BY <1>12, RangeEmpty DEF CrashWriter
<1>13. CASE CrashReader
  BY <1>13 DEF CrashReader
<1>14. CASE UNCHANGED vars
  BY <1>14 DEF vars
<1> QED
  BY <1>1, <1>2, <1>3, <1>4, <1>5, <1>6, <1>7, <1>8, <1>9, <1>10, <1>11, <1>12, <1>13,
     <1>14, <1>15 DEF Next, Pass, Read

\* A commit appends the next change to TEMP and touches nothing else.
LEMMA CommitEffect ==
    ASSUME TypeOK, Commit
    PROVE  /\ committed + 1 \in Change /\ committed' = committed + 1
           /\ temp' = Append(temp, committed + 1)
           /\ Range(temp') = Range(temp) \union {committed + 1}
           /\ UNCHANGED <<transfer, file, wpc, rows, stream, handle, rpc, printed>>
<1>1. committed + 1 \in Change /\ committed' = committed + 1
  BY PartsType DEF Commit, Change
<1>2. Range(temp') = Range(temp) \union {committed + 1}
  BY <1>1, PartsType, RangeAppend DEF Commit
<1> QED
  BY <1>1, <1>2 DEF Commit, writer, reader

LEMMA CommittedInit == Init => CommittedOnly
BY RangeEmpty DEF Init, CommittedOnly, Everything, Moved, Written, Arrived

LEMMA CommittedInductive ==
    TypeOK /\ StreamInv /\ CommittedOnly /\ [Next]_vars => CommittedOnly'
<1> SUFFICES ASSUME TypeOK, StreamInv, CommittedOnly, [Next]_vars PROVE CommittedOnly'
  OBVIOUS
<1>1. CASE Commit
  <2>1. Everything' = Everything \union {committed + 1}
    BY <1>1, CommitEffect DEF Everything, Moved, Written, Arrived
  <2>2. 1..committed' = 1..committed \union {committed + 1}
    BY <1>1, CommitEffect, PartsType
  <2> QED
    BY <2>1, <2>2 DEF CommittedOnly
<1>2. CASE ~Commit
  BY <1>2, NothingNew DEF CommittedOnly
<1> QED
  BY <1>1, <1>2

-----------------------------------------------------------------------------
\* How a prefix and the order of a sequence behave.
LEMMA PrefixGrows ==
    ASSUME NEW S, IsPrefix(S), NEW e \in Change, 1..(e - 1) \subseteq S
    PROVE  IsPrefix(S \union {e})
<1>1. PICK k \in 0..MaxChanges : S = 1..k
  BY DEF IsPrefix
<1>2. e - 1 <= k
  <2>1. CASE e = 1
    BY <1>1, <2>1
  <2>2. CASE e # 1
    <3>1. e - 1 \in 1..(e - 1)
      BY <2>2 DEF Change
    <3> QED
      BY <1>1, <3>1
  <2> QED
    BY <2>1, <2>2
<1>3. CASE e <= k
  <2>1. S \union {e} = 1..k
    BY <1>1, <1>3 DEF Change
  <2> QED
    BY <1>1, <2>1 DEF IsPrefix
<1>4. CASE e = k + 1
  <2>1. S \union {e} = 1..e
    BY <1>1, <1>4
  <2>2. e \in 0..MaxChanges
    BY DEF Change
  <2> QED
    BY <2>1, <2>2 DEF IsPrefix
<1> QED
  BY <1>1, <1>2, <1>3, <1>4 DEF Change

LEMMA LedMore ==
    ASSUME NEW s, NEW S, NEW T, Led(s, S), S \subseteq T
    PROVE  Led(s, T)
BY DEF Led

LEMMA LedEmpty == \A S : Led(<<>>, S)
BY DEF Led

LEMMA LedTail ==
    ASSUME NEW s \in Seq(Change), s # <<>>, NEW S, Led(s, S)
    PROVE  1..(Head(s) - 1) \subseteq S /\ Led(Tail(s), S \union {Head(s)})
<1> DEFINE t == Tail(s)
<1>1. /\ Len(s) \in Nat /\ Len(s) >= 1 /\ Head(s) = s[1]
      /\ DOMAIN s = 1..Len(s) /\ DOMAIN t = 1..(Len(s) - 1)
  OBVIOUS
<1>2. \A i \in 1..(Len(s) - 1) : t[i] = s[i + 1]
  OBVIOUS
<1> HIDE DEF t
<1>3. 1..(Head(s) - 1) \subseteq S
  <2>1. 1..(s[1] - 1) \subseteq S \union {s[j] : j \in 1..(1 - 1)}
    BY <1>1 DEF Led
  <2>2. {s[j] : j \in 1..(1 - 1)} = {}
    OBVIOUS
  <2> QED
    BY <1>1, <2>1, <2>2
<1>4. Led(t, S \union {Head(s)})
  <2> SUFFICES ASSUME NEW i \in DOMAIN t, NEW x \in 1..(t[i] - 1), x \notin S, x # Head(s)
               PROVE  x \in {t[j] : j \in 1..(i - 1)}
    BY DEF Led
  <2>1. i + 1 \in DOMAIN s /\ t[i] = s[i + 1]
    BY <1>1, <1>2
  <2>2. x \in {s[j] : j \in 1..((i + 1) - 1)}
    BY <2>1 DEF Led
  <2>3. PICK j \in 1..((i + 1) - 1) : x = s[j]
    BY <2>2
  <2>4. j # 1
    BY <1>1, <2>3
  <2>5. j - 1 \in 1..(i - 1) /\ t[j - 1] = s[(j - 1) + 1] /\ (j - 1) + 1 = j
    BY <1>1, <1>2, <2>4
  <2> QED
    BY <2>3, <2>5
<1> QED
  BY <1>3, <1>4 DEF t

LEMMA LedAppend ==
    ASSUME NEW s \in Seq(Change), NEW S, Led(s, S),
           NEW e \in Change, 1..(e - 1) \subseteq S \union Range(s)
    PROVE  Led(Append(s, e), S)
<1> DEFINE t == Append(s, e)
<1>1. /\ Len(s) \in Nat /\ DOMAIN s = 1..Len(s) /\ DOMAIN t = 1..(Len(s) + 1)
      /\ t[Len(s) + 1] = e
  OBVIOUS
<1>2. \A i \in 1..Len(s) : t[i] = s[i]
  OBVIOUS
<1> HIDE DEF t
<1>3. ASSUME NEW i \in 1..Len(s), NEW x \in 1..(t[i] - 1)
      PROVE  x \in S \union {t[j] : j \in 1..(i - 1)}
  <2>1. x \in S \union {s[j] : j \in 1..(i - 1)}
    BY <1>1, <1>2 DEF Led
  <2>2. \A j \in 1..(i - 1) : t[j] = s[j]
    BY <1>1, <1>2
  <2> QED
    BY <2>1, <2>2
<1>4. ASSUME NEW x \in 1..(t[Len(s) + 1] - 1)
      PROVE  x \in S \union {t[j] : j \in 1..((Len(s) + 1) - 1)}
  <2>1. x \in S \union Range(s)
    BY <1>1
  <2>2. CASE x \in Range(s)
    <3>1. PICK j \in 1..Len(s) : x = s[j]
      BY <1>1, <2>2 DEF Range
    <3>2. j \in 1..((Len(s) + 1) - 1) /\ x = t[j]
      BY <1>1, <1>2, <3>1
    <3> QED
      BY <3>2
  <2> QED
    BY <2>1, <2>2
<1>5. \A i \in DOMAIN t : i \in 1..Len(s) \/ i = Len(s) + 1
  BY <1>1
<1>6. Led(t, S)
  BY <1>3, <1>4, <1>5 DEF Led
<1> QED
  BY <1>6 DEF t

-----------------------------------------------------------------------------
LEMMA PrefixInit == Init => PrefixInv
<1> SUFFICES ASSUME Init PROVE PrefixInv
  OBVIOUS
<1>1. Arrived = {} /\ Written = {} /\ Moved = {}
  BY RangeEmpty DEF Init, Arrived, Written, Moved
<1>2. IsPrefix({})
  <2>1. {} = 1..0 /\ 0 \in 0..MaxChanges
    OBVIOUS
  <2> QED
    BY <2>1 DEF IsPrefix
<1> QED
  BY <1>1, <1>2, LedEmpty DEF Init, PrefixInv

\* What an orderly step does to the stages, and to the rows to copy.
LEMMA OrderlyStages ==
    ASSUME TypeOK, KeepInv, [Next]_vars, Orderly', ~Commit, ~CopyRow, ~WriteLine
    PROVE  /\ Arrived' \in {Arrived, Written}
           /\ Written' = Written
           /\ Moved' = Moved
           /\ temp' \in {temp, <<>>} /\ rows' \in {rows, temp, <<>>}
           /\ transfer' \in {transfer, <<>>} /\ stream' \in {stream, transfer, <<>>}
<1>a. Copied
  BY OrderlyBefore DEF KeepInv
<1>b. ~Fails
  BY OrderlyNoFailure
<1> USE PartsType DEF tables, writer, reader, history, Arrived, Written, Moved
<1>1. CASE StartPass
  BY <1>1 DEF StartPass
<1>2. CASE LogPass
  BY <1>2 DEF LogPass
<1>3. CASE ClearTemp
  BY <1>3 DEF ClearTemp
<1>4. CASE OpenFile
  BY <1>4 DEF OpenFile
<1>5. CASE CloseFile
  BY <1>5 DEF CloseFile
<1>6. CASE ClearTransfer
  <2>1. transfer' = <<>> /\ UNCHANGED <<temp, file, rows, stream, printed>>
    BY <1>6, <1>b DEF ClearTransfer
  <2>2. Range(transfer) \subseteq Range(file) \union Range(printed)
    BY <1>6, <1>a DEF ClearTransfer, Copied
  <2> QED
    BY <2>1, <2>2, RangeEmpty
<1>7. CASE ReaderOpen
  BY <1>7 DEF ReaderOpen
<1>8. CASE ReaderRead
  <2>1. Range(printed') = Range(printed) \union Range(file)
    BY <1>8, RangeConcat DEF ReaderRead
  <2>2. UNCHANGED <<temp, transfer, file, rows, stream>>
    BY <1>8 DEF ReaderRead
  <2> QED
    BY <2>1, <2>2
<1>9. CASE ReaderLog
  BY <1>9 DEF ReaderLog
<1>10. CASE ReaderRemove
  <2>1. file' = <<>> /\ UNCHANGED <<temp, transfer, rows, stream, printed>>
    BY <1>10, <1>b DEF ReaderRemove
  <2>2. Range(file) \subseteq Range(printed)
    BY <1>10, <1>a DEF ReaderRemove, Copied
  <2> QED
    BY <2>1, <2>2, RangeEmpty
<1>11. CASE CrashWriter
  BY <1>11 DEF CrashWriter
<1>12. CASE CrashReader
  BY <1>12 DEF CrashReader
<1>13. CASE UNCHANGED vars
  BY <1>13 DEF vars
<1> QED
  BY <1>1, <1>2, <1>3, <1>4, <1>5, <1>6, <1>7, <1>8, <1>9, <1>10, <1>11, <1>12,
     <1>13 DEF Next, Pass, Read

LEMMA PrefixInductive ==
    TypeOK /\ StreamInv /\ KeepInv /\ PrefixInv /\ [Next]_vars => PrefixInv'
<1> SUFFICES ASSUME TypeOK, StreamInv, KeepInv, PrefixInv, [Next]_vars, Orderly'
             PROVE  /\ IsPrefix(Arrived') /\ IsPrefix(Written') /\ IsPrefix(Moved')
                    /\ Led(temp', Moved') /\ Led(rows', Moved')
                    /\ Led(transfer', Written') /\ Led(stream', Written')
  BY DEF PrefixInv, IsPrefix, Led, Arrived, Written, Moved
<1>a. /\ IsPrefix(Arrived) /\ IsPrefix(Written) /\ IsPrefix(Moved)
      /\ Led(temp, Moved) /\ Led(rows, Moved)
      /\ Led(transfer, Written) /\ Led(stream, Written)
  BY OrderlyBefore DEF PrefixInv
<1>1. CASE Commit
  <2>1. Arrived' = Arrived /\ Written' = Written /\ Moved' = Moved
        /\ UNCHANGED <<rows, transfer, stream>>
    BY <1>1, CommitEffect DEF Arrived, Written, Moved
  <2>2. 1..((committed + 1) - 1) \subseteq Moved \union Range(temp)
    BY PartsType, OrderlyBefore DEF KeepInv, Kept, Stored, Moved, Written, Arrived
  <2>3. Led(Append(temp, committed + 1), Moved)
    BY <1>1, <1>a, <2>2, PartsType, CommitEffect, LedAppend
  <2> QED
    BY <1>1, <1>a, <2>1, <2>3, CommitEffect
<1>2. CASE CopyRow
  <2> DEFINE h == Head(rows)
  <2>1. /\ transfer' = Append(transfer, h) /\ rows' = Tail(rows) /\ rows # <<>>
        /\ UNCHANGED <<temp, stream, file, printed>>
    BY <1>2, OrderlyNoFailure DEF CopyRow, reader
  <2>2. h \in Change
    BY <2>1, PartsType, RangeHeadTail
  <2>3. Range(transfer') = Range(transfer) \union {h}
    BY <2>1, <2>2, PartsType, RangeAppend
  <2>4. Arrived' = Arrived /\ Written' = Written /\ Moved' = Moved \union {h}
    BY <2>1, <2>3 DEF Arrived, Written, Moved
  <2>5. 1..(h - 1) \subseteq Moved /\ Led(rows', Moved')
    BY <1>a, <2>1, <2>4, PartsType, LedTail
  <2>6. IsPrefix(Moved')
    BY <1>a, <2>2, <2>4, <2>5, PrefixGrows
  <2>7. Led(temp', Moved')
    BY <1>a, <2>1, <2>4, LedMore
  <2>8. Led(transfer', Written')
    BY <1>a, <2>1, <2>2, <2>4, <2>5, PartsType, LedAppend DEF Moved
  <2> QED
    BY <1>a, <2>1, <2>4, <2>5, <2>6, <2>7, <2>8
<1>3. CASE WriteLine
  <2> DEFINE h == Head(stream)
  <2>1. /\ wpc = "write" /\ stream # <<>> /\ stream' = Tail(stream)
        /\ UNCHANGED <<temp, transfer, rows, printed>>
    BY <1>3 DEF WriteLine, tables, reader
  <2>2. file' = Append(file, h)
    BY <1>3, <2>1, OrderlyBefore DEF KeepInv, Copied, WriteLine, WriteTo, Orderly
  <2>3. h \in Change /\ h \in Range(transfer)
    BY <2>1, PartsType, RangeHeadTail, RangeOfTail DEF StreamInv
  <2>4. Range(file') = Range(file) \union {h}
    BY <2>2, <2>3, PartsType, RangeAppend
  <2>5. Arrived' = Arrived /\ Written' = Written \union {h} /\ Moved' = Moved
    BY <2>1, <2>3, <2>4 DEF Arrived, Written, Moved
  <2>6. 1..(h - 1) \subseteq Written /\ Led(stream', Written')
    BY <1>a, <2>1, <2>5, PartsType, LedTail
  <2>7. IsPrefix(Written')
    BY <1>a, <2>3, <2>5, <2>6, PrefixGrows
  <2>8. Led(transfer', Written')
    BY <1>a, <2>1, <2>5, LedMore
  <2> QED
    BY <1>a, <2>1, <2>5, <2>6, <2>7, <2>8
<1>4. CASE ~Commit /\ ~CopyRow /\ ~WriteLine
  BY <1>a, <1>4, OrderlyStages, LedEmpty
<1> QED
  BY <1>1, <1>2, <1>3, <1>4

-----------------------------------------------------------------------------
\* Only a read brings lines to the destination, only a commit new changes.
LEMMA OnlyReadArrives ==
    ASSUME [Next]_vars, ~ReaderRead
    PROVE  printed' = printed
BY DEF Next, Pass, Read, Commit, StartPass, CopyRow, LogPass, ClearTemp, OpenFile,
       WriteLine, CloseFile, ClearTransfer, ReaderOpen, ReaderLog, ReaderRemove,
       CrashWriter, CrashReader, vars, reader

LEMMA FeedInit == Init => Feed!Init
BY RangeEmpty DEF Init, Feed!Init, Tolerated

\* Every step is a commit, a batch, a fault or a stutter.
LEMMA FeedStep ==
    ASSUME Mode = "subscribe", TypeOK, StreamInv, KeepInv, CommittedOnly, PrefixInv,
           [Next]_vars, TypeOK', CommittedOnly', PrefixInv'
    PROVE  [Feed!Next]_(Feed!vars)
<1> USE DEF Feed!vars
<1>1. Tolerated' => Tolerated
  BY OrderlyBefore DEF Orderly, Tolerated
<1>2. CASE Commit
  <2>1. committed' = committed + 1 /\ printed' = printed
    BY <1>2, CommitEffect
  <2>2. (~Tolerated)' \in {~Tolerated, TRUE}
    BY <1>1
  <2>3. Feed!Commit
    BY <2>1, <2>2 DEF Feed!Commit
  <2> QED
    BY <2>3 DEF Feed!Next
<1>3. CASE ReaderRead
  <2>1. committed' = committed /\ disturbed' = disturbed
        /\ printed' = printed \o file /\ UNCHANGED <<temp, transfer, file>>
    BY <1>3 DEF ReaderRead, history, tables
  <2>2. Tolerated' = Tolerated
    BY <2>1 DEF Tolerated
  <2>3. Arrived' = Arrived \union Range(file)
    BY <2>1, PartsType, RangeConcat DEF Arrived
  <2>4. Arrived' \subseteq 1..committed
    BY <2>1 DEF CommittedOnly, Everything, Moved, Written, Arrived
  <2>5. CASE Tolerated
    <3>1. PICK k \in 0..MaxChanges : Arrived' = 1..k
      BY <2>2, <2>5 DEF PrefixInv, Orderly, Tolerated, IsPrefix, Arrived
    <3>2. CASE k = 0
      <4>1. Arrived' = {}
        BY <3>1, <3>2
      <4>2. Arrived' = Arrived
        BY <2>3, <4>1
      <4> QED
        BY <2>1, <2>2, <4>2 DEF Arrived
    <3>3. CASE k # 0
      <4>1. k \in 1..k
        BY <3>3
      <4>2. k \in 1..committed
        BY <2>4, <3>1, <4>1
      <4>3. Feed!Read
        BY <2>1, <2>2, <2>3, <3>1, <4>2 DEF Feed!Read, Arrived
      <4> QED
        BY <4>3 DEF Feed!Next
    <3> QED
      BY <3>2, <3>3
  <2>6. CASE ~Tolerated
    <3>1. Feed!ReadSome
      BY <2>1, <2>2, <2>3, <2>4, <2>6 DEF Feed!ReadSome, Arrived
    <3> QED
      BY <3>1 DEF Feed!Next
  <2> QED
    BY <2>5, <2>6
<1>4. CASE ~Commit /\ ~ReaderRead
  <2>1. printed' = printed /\ committed' = committed
    BY <1>4, OnlyReadArrives, NothingNew
  <2>2. CASE Tolerated' = Tolerated
    BY <2>1, <2>2
  <2>3. CASE Tolerated' # Tolerated
    <3>1. Tolerated /\ ~Tolerated'
      BY <1>1, <2>3 DEF Tolerated
    <3>2. Feed!Fault
      BY <2>1, <3>1 DEF Feed!Fault
    <3> QED
      BY <3>2 DEF Feed!Next
  <2> QED
    BY <2>2, <2>3
<1> QED
  BY <1>2, <1>3, <1>4

\* Subscription implements the feed: through kills the destination has read
\* a prefix of what was committed, after any other fault a part of it that
\* only grows.
THEOREM SubscriptionFeeds ==
    ASSUME Mode = "subscribe"
    PROVE  Spec => ImplementsFeed
<1>1. Spec => []TypeOK
  BY TypeCorrect
<1>2. Spec => []StreamInv
  BY <1>1, StreamInit, StreamInductive, PTL DEF Spec
<1>3. Spec => []KeepInv
  BY <1>1, <1>2, KeepInit, KeepInductive, PTL DEF Spec
<1>4. Spec => []CommittedOnly
  BY <1>1, <1>2, CommittedInit, CommittedInductive, PTL DEF Spec
<1>5. Spec => []PrefixInv
  BY <1>1, <1>2, <1>3, PrefixInit, PrefixInductive, PTL DEF Spec
<1>6. TypeOK /\ StreamInv /\ KeepInv /\ CommittedOnly /\ PrefixInv /\ [Next]_vars
        /\ TypeOK' /\ CommittedOnly' /\ PrefixInv'
      => [Feed!Next]_(Feed!vars)
  BY FeedStep
<1> QED
  BY <1>1, <1>2, <1>3, <1>4, <1>5, <1>6, FeedInit, PTL DEF Spec, ImplementsFeed, Feed!Spec

-----------------------------------------------------------------------------
\* How increasing sequences grow and shrink.
LEMMA IncreasingEmpty == Increasing(<<>>)
BY DEF Increasing

LEMMA IncreasingTail ==
    ASSUME NEW s \in Seq(Change), s # <<>>, Increasing(s)
    PROVE  Increasing(Tail(s)) /\ Before({Head(s)}, Range(Tail(s)))
<1> DEFINE t == Tail(s)
<1>1. /\ Len(s) \in Nat /\ Len(s) >= 1 /\ Head(s) = s[1]
      /\ DOMAIN s = 1..Len(s) /\ DOMAIN t = 1..(Len(s) - 1)
  OBVIOUS
<1>2. \A i \in 1..(Len(s) - 1) : t[i] = s[i + 1]
  OBVIOUS
<1> HIDE DEF t
<1>3. Increasing(t)
  <2> SUFFICES ASSUME NEW i \in DOMAIN t, NEW j \in DOMAIN t, i < j PROVE t[i] < t[j]
    BY DEF Increasing
  <2>1. t[i] = s[i + 1] /\ t[j] = s[j + 1] /\ i + 1 \in DOMAIN s /\ j + 1 \in DOMAIN s
        /\ i + 1 < j + 1
    BY <1>1, <1>2
  <2> QED
    BY <2>1 DEF Increasing
<1>4. Before({Head(s)}, Range(t))
  <2> SUFFICES ASSUME NEW i \in DOMAIN t PROVE s[1] < t[i]
    BY <1>1 DEF Before, Range
  <2>1. t[i] = s[i + 1] /\ 1 \in DOMAIN s /\ i + 1 \in DOMAIN s /\ 1 < i + 1
    BY <1>1, <1>2
  <2> QED
    BY <2>1 DEF Increasing
<1> QED
  BY <1>3, <1>4 DEF t

LEMMA IncreasingConcat ==
    ASSUME NEW s \in Seq(Change), NEW t \in Seq(Change),
           Increasing(s), Increasing(t), Before(Range(s), Range(t))
    PROVE  Increasing(s \o t)
<1> DEFINE u == s \o t
           n == Len(s)
<1>1. /\ n \in Nat /\ DOMAIN s = 1..n /\ DOMAIN t = 1..Len(t) /\ Len(t) \in Nat
      /\ DOMAIN u = 1..(n + Len(t))
  OBVIOUS
<1>2. \A i \in 1..n : u[i] = s[i]
  OBVIOUS
<1>3. \A i \in DOMAIN u : i > n => i - n \in DOMAIN t /\ u[i] = t[i - n]
  OBVIOUS
<1> HIDE DEF u, n
<1> SUFFICES ASSUME NEW i \in DOMAIN u, NEW j \in DOMAIN u, i < j PROVE u[i] < u[j]
  BY DEF Increasing, u
<1>4. CASE j <= n
  <2>1. i \in DOMAIN s /\ j \in DOMAIN s /\ u[i] = s[i] /\ u[j] = s[j]
    BY <1>1, <1>2, <1>4
  <2> QED
    BY <2>1 DEF Increasing
<1>5. CASE i > n
  <2>1. i \in Nat /\ j \in Nat /\ j > n
    BY <1>1, <1>5
  <2>2. i - n \in DOMAIN t /\ j - n \in DOMAIN t /\ u[i] = t[i - n] /\ u[j] = t[j - n]
    BY <1>3, <1>5, <2>1
  <2>3. i - n < j - n
    BY <1>1, <2>1
  <2> QED
    BY <2>2, <2>3 DEF Increasing
<1>6. CASE i <= n /\ j > n
  <2>1. i \in DOMAIN s /\ u[i] = s[i]
    BY <1>1, <1>2, <1>6
  <2>2. j - n \in DOMAIN t /\ u[j] = t[j - n]
    BY <1>3, <1>6
  <2>3. u[i] \in Range(s) /\ u[j] \in Range(t)
    BY <2>1, <2>2 DEF Range
  <2> QED
    BY <2>3 DEF Before
<1> QED
  BY <1>1, <1>4, <1>5, <1>6

LEMMA IncreasingAppend ==
    ASSUME NEW s \in Seq(Change), NEW e \in Change,
           Increasing(s), Before(Range(s), {e})
    PROVE  Increasing(Append(s, e))
<1>1. <<e>> \in Seq(Change) /\ Append(s, e) = s \o <<e>>
  OBVIOUS
<1>2. Increasing(<<e>>)
  BY DEF Increasing
<1>3. Range(<<e>>) = {e}
  BY DEF Range
<1> QED
  BY <1>1, <1>2, <1>3, IncreasingConcat

LEMMA IncreasingInjective ==
    ASSUME NEW s \in Seq(Change), Increasing(s)
    PROVE  IsInjective(s)
<1> SUFFICES ASSUME NEW i \in DOMAIN s, NEW j \in DOMAIN s, s[i] = s[j], i # j
             PROVE  FALSE
  BY DEF IsInjective
<1>1. i \in Nat /\ j \in Nat /\ s[i] \in Nat /\ s[j] \in Nat
  BY DEF Change
<1>2. i < j \/ j < i
  BY <1>1
<1> QED
  BY <1>1, <1>2 DEF Increasing

\* An undamaged step is no kill and no failure.
LEMMA UndamagedStep ==
    ASSUME [Next]_vars, Undamaged'
    PROVE  Undamaged /\ ~Fails /\ ~CrashWriter /\ ~CrashReader
<1>1. ~Fails /\ ~CrashWriter /\ ~CrashReader
  BY DEF Undamaged, Fails, CrashWriter, CrashReader, Disturb
<1>2. disturbed \subseteq disturbed'
  BY DEF Next, Pass, Read, Commit, StartPass, CopyRow, LogPass, ClearTemp, OpenFile,
         WriteLine, CloseFile, ClearTransfer, ReaderOpen, ReaderRead, ReaderLog, ReaderRemove,
         CrashWriter, CrashReader, Works, Fails, Apart, Disturb, vars, history
<1> QED
  BY <1>1, <1>2 DEF Undamaged

LEMMA FlowInit == Init => FlowInv
<1> SUFFICES ASSUME Init PROVE Flow
  BY DEF FlowInv
<1>1. Range(temp) = {} /\ Range(transfer) = {} /\ Range(file) = {}
  BY RangeEmpty DEF Init
<1> QED
  BY <1>1, IncreasingEmpty DEF Init, Flow, Before

LEMMA FlowInductive ==
    TypeOK /\ StreamInv /\ CommittedOnly /\ FlowInv /\ [Next]_vars => FlowInv'
<1> SUFFICES ASSUME TypeOK, StreamInv, CommittedOnly, FlowInv, [Next]_vars, Undamaged'
             PROVE  Flow'
  BY DEF FlowInv
<1>a. Flow
  BY UndamagedStep DEF FlowInv
<1>b. Mode = "subscribe" /\ ~Fails /\ ~CrashWriter /\ ~CrashReader
  BY UndamagedStep DEF Undamaged
<1> USE PartsType DEF Flow, Before, Moved, Written, Arrived
<1>1. CASE Commit
  <2>1. UNCHANGED <<transfer, file, wpc, rows, stream, rpc, printed>>
    BY <1>1, CommitEffect
  <2>2. \A x \in Moved \union Range(temp) : x < committed + 1
    BY DEF CommittedOnly, Everything
  <2>3. Increasing(temp) => Increasing(temp')
    <3>1. Before(Range(temp), {committed + 1})
      BY <2>2
    <3> HIDE DEF Before
    <3> QED
      BY <1>1, <3>1, CommitEffect, IncreasingAppend
  <2>4. Before(Moved, Range(temp)) => Before(Moved, Range(temp'))
    BY <1>1, <2>2, CommitEffect
  <2> QED
    BY <1>a, <2>1, <2>3, <2>4
<1>2. CASE StartPass
  <2>1. wpc = "idle" /\ wpc' = "copy" /\ rows' = temp
        /\ UNCHANGED <<temp, transfer, file, rpc, printed>>
    BY <1>2, <1>b DEF StartPass, tables, reader
  <2>2. Increasing(transfer) /\ Range(transfer) = {}
    BY <1>a, <2>1, IncreasingEmpty, RangeEmpty
  <2> QED
    BY <1>a, <2>1, <2>2
<1>3. CASE CopyRow
  <2>1. /\ wpc = "copy" /\ rows # <<>> /\ rows' = Tail(rows)
        /\ transfer' = Append(transfer, Head(rows))
        /\ UNCHANGED <<temp, file, wpc, rpc, printed>>
    BY <1>3, <1>b DEF CopyRow, reader
  <2>2. Head(rows) \in Change /\ Head(rows) \in Range(rows)
        /\ Range(rows') \subseteq Range(rows)
    BY <2>1, RangeHeadTail, RangeOfTail
  <2>3. Range(transfer') = Range(transfer) \union {Head(rows)}
    BY <2>1, <2>2, RangeAppend
  <2>4. Increasing(transfer')
    BY <1>a, <2>1, <2>2, IncreasingAppend
  <2>5. Before(Written, Range(transfer'))
    BY <1>a, <2>1, <2>2, <2>3
  <2>6. Increasing(rows') /\ Before({Head(rows)}, Range(rows'))
    BY <1>a, <2>1, IncreasingTail
  <2>7. Before(Moved \union {Head(rows)}, Range(rows'))
    BY <1>a, <2>1, <2>2, <2>6
  <2> QED
    BY <1>a, <2>1, <2>3, <2>4, <2>5, <2>6, <2>7
<1>4. CASE LogPass
  <2>1. wpc = "copy" /\ wpc' = "clear"
        /\ UNCHANGED <<temp, transfer, file, rpc, printed>>
    BY <1>4 DEF LogPass, reader
  <2> QED
    BY <1>a, <2>1
<1>5. CASE ClearTemp
  <2>1. wpc = "clear" /\ wpc' = "open" /\ temp' = <<>>
        /\ UNCHANGED <<transfer, file, rpc, printed>>
    BY <1>5, <1>b DEF ClearTemp, reader
  <2> QED
    BY <1>a, <2>1, IncreasingEmpty, RangeEmpty
<1>6. CASE OpenFile
  <2>1. wpc = "open" /\ wpc' = "write" /\ stream' = transfer
        /\ UNCHANGED <<temp, transfer, file, rpc, printed>>
    BY <1>6, <1>b DEF OpenFile, tables, reader
  <2> QED
    BY <1>a, <2>1
<1>7. CASE WriteLine
  <2> DEFINE h == Head(stream)
  <2>1. /\ wpc = "write" /\ stream # <<>> /\ stream' = Tail(stream)
        /\ UNCHANGED <<temp, transfer, wpc, rpc, printed>>
        /\ file' \in {file, Append(file, h)}
    BY <1>7, <1>b DEF WriteLine, WriteTo, tables, reader
  <2>2. h \in Change /\ h \in Range(stream) /\ h \in Range(transfer)
        /\ Range(stream') \subseteq Range(stream)
    BY <2>1, RangeHeadTail, RangeOfTail DEF StreamInv
  <2>3. Increasing(stream') /\ Before({h}, Range(stream'))
    BY <1>a, <2>1, IncreasingTail
  <2>4. Range(Append(file, h)) = Range(file) \union {h}
    BY <2>2, RangeAppend
  <2>5. Before(Written, {h})
    BY <1>a, <2>1, <2>2
  <2>6. rpc \in {"idle", "read"} => Increasing(Append(file, h))
    <3> HIDE DEF h
    <3>1. Before(Range(file), {h})
      BY <2>5
    <3> HIDE DEF Before
    <3> QED
      BY <1>a, <2>2, <3>1, IncreasingAppend
  <2>7. Range(file') \subseteq Range(file) \union {h}
    BY <2>1, <2>4
  <2> HIDE DEF h
  <2>8. rpc' \in {"idle", "read"} => Increasing(file') /\ Before(Arrived', Range(file'))
    BY <1>a, <2>1, <2>5, <2>6, <2>7
  <2>9. Before(Written', Range(stream'))
    BY <1>a, <2>1, <2>2, <2>3, <2>7
  <2>10. Before(Moved', Range(temp')) \/ ~Before(Moved, Range(temp))
    BY <2>1, <2>2, <2>7
  <2> QED
    BY <1>a, <2>1, <2>3, <2>8, <2>9, <2>10
<1>14. CASE CloseFile
  <2>1. wpc = "write" /\ wpc' = "finish"
        /\ UNCHANGED <<temp, transfer, file, rpc, printed>>
    BY <1>14 DEF CloseFile, tables, reader
  <2> QED
    BY <1>a, <2>1
<1>8. CASE ClearTransfer
  <2>1. wpc = "finish" /\ wpc' = "idle" /\ transfer' = <<>>
        /\ UNCHANGED <<temp, file, rpc, printed>>
    BY <1>8, <1>b DEF ClearTransfer, reader
  <2> QED
    BY <1>a, <2>1, RangeEmpty
<1>9. CASE ReaderOpen
  <2>1. rpc = "idle" /\ UNCHANGED <<temp, transfer, file, wpc, rows, stream, printed>>
    BY <1>9 DEF ReaderOpen, tables, writer
  <2> QED
    BY <1>a, <2>1
<1>10. CASE ReaderRead
  <2>1. /\ rpc = "read" /\ rpc' = "log" /\ printed' = printed \o file
        /\ UNCHANGED <<temp, transfer, file, wpc, rows, stream>>
    BY <1>10 DEF ReaderRead, tables, writer
  <2>2. Range(printed') = Range(printed) \union Range(file)
    BY <2>1, RangeConcat
  <2>3. Increasing(printed')
    BY <1>a, <2>1, IncreasingConcat
  <2> QED
    BY <1>a, <2>1, <2>2, <2>3
<1>11. CASE ReaderLog
  <2>1. rpc = "log" /\ rpc' = "remove"
        /\ UNCHANGED <<temp, transfer, file, wpc, rows, stream, printed>>
    BY <1>11 DEF ReaderLog, tables, writer
  <2> QED
    BY <1>a, <2>1
<1>12. CASE ReaderRemove
  <2>1. rpc' = "idle" /\ file' = <<>>
        /\ UNCHANGED <<temp, transfer, wpc, rows, stream, printed>>
    BY <1>12, <1>b DEF ReaderRemove, tables
  <2> QED
    BY <1>a, <2>1, IncreasingEmpty, RangeEmpty
<1>13. CASE UNCHANGED vars
  <2>1. UNCHANGED <<temp, transfer, file, wpc, rows, stream, rpc, printed>>
    BY <1>13 DEF vars, tables, writer, reader
  <2> QED
    BY <1>a, <2>1
<1> QED
  BY <1>b, <1>1, <1>2, <1>3, <1>4, <1>5, <1>6, <1>7, <1>8, <1>9, <1>10, <1>11, <1>12,
     <1>13, <1>14 DEF Next, Pass, Read

\* While nobody is killed and no statement fails, no line is read twice, even
\* if users commit during a pass and both programs are in the text file.
THEOREM NothingTwice == Spec => []AtMostOnce
<1>1. Spec => []TypeOK
  BY TypeCorrect
<1>2. Spec => []StreamInv
  BY <1>1, StreamInit, StreamInductive, PTL DEF Spec
<1>3. Spec => []CommittedOnly
  BY <1>1, <1>2, CommittedInit, CommittedInductive, PTL DEF Spec
<1>4. Spec => []FlowInv
  BY <1>1, <1>2, <1>3, FlowInit, FlowInductive, PTL DEF Spec
<1>5. TypeOK /\ FlowInv => AtMostOnce
  BY PartsType, IncreasingInjective DEF FlowInv, Flow, Undamaged, AtMostOnce
<1> QED
  BY <1>1, <1>4, <1>5, PTL

-----------------------------------------------------------------------------
\* Sequences in order, repetitions aside.
LEMMA NewLaterEmpty == NewLater(<<>>)
BY DEF NewLater

LEMMA NewLaterConcat ==
    ASSUME NEW s \in Seq(Change), NEW t \in Seq(Change),
           NewLater(s), NewLater(t), Follows(Range(s), Range(t))
    PROVE  NewLater(s \o t)
<1> DEFINE u == s \o t
           n == Len(s)
<1>1. /\ n \in Nat /\ DOMAIN s = 1..n /\ DOMAIN t = 1..Len(t) /\ Len(t) \in Nat
      /\ DOMAIN u = 1..(n + Len(t))
      /\ \A i \in DOMAIN s : s[i] \in Nat
      /\ \A i \in DOMAIN t : t[i] \in Nat
  BY DEF Change
<1>2. \A i \in 1..n : u[i] = s[i]
  OBVIOUS
<1>3. \A i \in 1..Len(t) : n + i \in DOMAIN u /\ u[n + i] = t[i]
  OBVIOUS
<1> HIDE DEF u, n
<1> SUFFICES ASSUME NEW j \in DOMAIN u, \A i \in 1..(j - 1) : u[i] # u[j],
                    NEW i \in 1..(j - 1)
             PROVE  u[i] < u[j]
  BY DEF NewLater, u
<1>4. CASE j <= n
  <2>1. j \in DOMAIN s /\ u[j] = s[j]
    BY <1>1, <1>2, <1>4
  <2>2. \A l \in 1..(j - 1) : u[l] = s[l]
    BY <1>1, <1>2, <1>4
  <2> QED
    BY <2>1, <2>2 DEF NewLater
<1>5. CASE j > n
  <2>1. PICK k \in 1..Len(t) : j = n + k
    <3>1. j - n \in 1..Len(t) /\ j = n + (j - n)
      BY <1>1, <1>5
    <3> QED
      BY <3>1
  <2>2. k \in DOMAIN t /\ u[j] = t[k]
    BY <1>1, <1>3, <2>1
  <2>3. CASE i <= n
    <3>1. i \in DOMAIN s /\ u[i] = s[i]
      BY <1>1, <1>2, <2>3
    <3>2. \A l \in DOMAIN s : s[l] # t[k]
      <4> SUFFICES ASSUME NEW l \in DOMAIN s PROVE s[l] # t[k]
        OBVIOUS
      <4>1. l \in 1..(j - 1) /\ u[l] = s[l]
        BY <1>1, <1>2, <1>5
      <4> QED
        BY <2>2, <4>1
    <3>3. ~(t[k] < s[i])
      BY <2>2, <3>1, <3>2 DEF Follows, Range
    <3> QED
      BY <1>1, <2>2, <3>1, <3>2, <3>3
  <2>4. CASE i > n
    <3>1. \A l \in 1..(k - 1) : t[l] # t[k]
      <4> SUFFICES ASSUME NEW l \in 1..(k - 1) PROVE t[l] # t[k]
        OBVIOUS
      <4>1. n + l \in 1..(j - 1) /\ l \in 1..Len(t)
        BY <1>1, <2>1
      <4> QED
        BY <1>3, <2>2, <4>1
    <3>2. i - n \in 1..(k - 1) /\ i - n \in 1..Len(t) /\ i = n + (i - n)
      BY <1>1, <2>1, <2>4
    <3>3. u[i] = t[i - n]
      BY <1>3, <3>2
    <3> QED
      BY <2>2, <3>1, <3>2, <3>3 DEF NewLater
  <2> QED
    BY <1>1, <2>3, <2>4
<1> QED
  BY <1>1, <1>4, <1>5

LEMMA NewLaterAppend ==
    ASSUME NEW s \in Seq(Change), NEW e \in Change,
           NewLater(s), Follows(Range(s), {e})
    PROVE  NewLater(Append(s, e))
<1>1. <<e>> \in Seq(Change) /\ Append(s, e) = s \o <<e>>
  OBVIOUS
<1>2. NewLater(<<e>>)
  BY DEF NewLater
<1>3. Range(<<e>>) = {e}
  BY DEF Range
<1> QED
  BY <1>1, <1>2, <1>3, NewLaterConcat

\* How sorted sequences grow and shrink.
LEMMA SortedEmpty == \A S : Sorted(<<>>, S)
BY DEF Sorted

LEMMA SortedMore ==
    ASSUME NEW s, NEW S, NEW T, Sorted(s, S), S \subseteq T
    PROVE  Sorted(s, T)
BY DEF Sorted

LEMMA SortedAppend ==
    ASSUME NEW s \in Seq(Change), NEW e \in Change,
           Sorted(s, {}), Follows(Range(s), {e})
    PROVE  Sorted(Append(s, e), {})
<1> DEFINE t == Append(s, e)
<1>1. /\ Len(s) \in Nat /\ DOMAIN s = 1..Len(s) /\ DOMAIN t = 1..(Len(s) + 1)
      /\ t[Len(s) + 1] = e
  OBVIOUS
<1>2. \A i \in 1..Len(s) : t[i] = s[i]
  OBVIOUS
<1>3. Range(t) = Range(s) \union {e}
  BY RangeAppend
<1> HIDE DEF t
<1> SUFFICES ASSUME NEW i \in DOMAIN t, NEW x \in Range(t), x < t[i]
             PROVE  x \in {t[l] : l \in 1..(i - 1)}
  BY DEF Sorted, t
<1>4. CASE i \in 1..Len(s)
  <2>1. t[i] = s[i] /\ s[i] \in Range(s)
    BY <1>1, <1>2, <1>4 DEF Range
  <2>2. x \in Range(s)
    BY <1>3, <2>1 DEF Follows
  <2>3. PICK l \in 1..(i - 1) : x = s[l]
    BY <1>1, <1>4, <2>1, <2>2 DEF Sorted
  <2>4. t[l] = s[l]
    BY <1>1, <1>2, <1>4
  <2> QED
    BY <2>3, <2>4
<1>5. CASE i = Len(s) + 1
  <2>1. x # e
    BY <1>1, <1>5 DEF Change
  <2>2. PICK l \in 1..Len(s) : x = s[l]
    BY <1>1, <1>3, <2>1 DEF Range
  <2>3. l \in 1..(i - 1) /\ x = t[l]
    BY <1>1, <1>2, <1>5, <2>2
  <2> QED
    BY <2>3
<1> QED
  BY <1>1, <1>4, <1>5

LEMMA SortedTail ==
    ASSUME NEW s \in Seq(Change), s # <<>>, NEW S, Sorted(s, S)
    PROVE  /\ \A x \in Range(s) : x < Head(s) => x \in S
           /\ Sorted(Tail(s), S \union {Head(s)})
<1> DEFINE t == Tail(s)
<1>1. /\ Len(s) \in Nat /\ Len(s) >= 1 /\ Head(s) = s[1]
      /\ DOMAIN s = 1..Len(s) /\ DOMAIN t = 1..(Len(s) - 1)
  OBVIOUS
<1>2. \A i \in 1..(Len(s) - 1) : t[i] = s[i + 1]
  OBVIOUS
<1>3. Range(t) \subseteq Range(s)
  BY RangeOfTail
<1> HIDE DEF t
<1>4. ASSUME NEW x \in Range(s), x < Head(s) PROVE x \in S
  <2>1. x \in S \union {s[l] : l \in 1..(1 - 1)}
    BY <1>1, <1>4 DEF Sorted
  <2>2. {s[l] : l \in 1..(1 - 1)} = {}
    OBVIOUS
  <2> QED
    BY <2>1, <2>2
<1>5. Sorted(t, S \union {Head(s)})
  <2> SUFFICES ASSUME NEW i \in DOMAIN t, NEW x \in Range(t), x < t[i],
                      x \notin S, x # Head(s)
               PROVE  x \in {t[l] : l \in 1..(i - 1)}
    BY DEF Sorted
  <2>1. i + 1 \in DOMAIN s /\ t[i] = s[i + 1]
    BY <1>1, <1>2
  <2>2. x \in {s[l] : l \in 1..((i + 1) - 1)}
    BY <1>3, <2>1 DEF Sorted
  <2>3. PICK l \in 1..((i + 1) - 1) : x = s[l]
    BY <2>2
  <2>4. l # 1
    BY <1>1, <2>3
  <2>5. l - 1 \in 1..(i - 1) /\ t[l - 1] = s[(l - 1) + 1] /\ (l - 1) + 1 = l
    BY <1>1, <1>2, <2>4
  <2> QED
    BY <2>3, <2>5
<1> QED
  BY <1>4, <1>5 DEF t

\* The two ways to add to what must be followed and to what follows.
LEMMA FollowsUnion ==
    ASSUME NEW S, NEW T, NEW U, Follows(S, U), Follows(T, U)
    PROVE  Follows(S \union T, U) /\ Follows(S \union U, U)
BY DEF Follows

LEMMA FollowsEmpty == \A S : Follows({}, S) /\ Follows(S, {})
BY DEF Follows

LEMMA UnfailingStep ==
    ASSUME [Next]_vars, Unfailing'
    PROVE  Unfailing /\ ~Fails
<1>1. ~Fails
  BY DEF Unfailing, Fails, Disturb
<1>2. disturbed \subseteq disturbed'
  BY DEF Next, Pass, Read, Commit, StartPass, CopyRow, LogPass, ClearTemp, OpenFile,
         WriteLine, CloseFile, ClearTransfer, ReaderOpen, ReaderRead, ReaderLog, ReaderRemove,
         CrashWriter, CrashReader, Works, Fails, Apart, Disturb, vars, history
<1> QED
  BY <1>1, <1>2 DEF Unfailing

LEMMA OrderInit == Init => OrderInv
<1> SUFFICES ASSUME Init PROVE Order
  BY DEF OrderInv
<1> QED
  BY RangeEmpty, NewLaterEmpty, SortedEmpty, IncreasingEmpty, FollowsEmpty DEF Init, Order

LEMMA OrderInductive ==
    TypeOK /\ StreamInv /\ CommittedOnly /\ OrderInv /\ [Next]_vars => OrderInv'
<1> SUFFICES ASSUME TypeOK, StreamInv, CommittedOnly, OrderInv, [Next]_vars, Unfailing'
             PROVE  Order'
  BY DEF OrderInv
<1>a. Order
  BY UnfailingStep DEF OrderInv
<1>b. Mode = "subscribe" /\ ~Fails
  BY UnfailingStep DEF Unfailing
<1> USE PartsType DEF Order
<1>1. CASE Commit
  <2>1. UNCHANGED <<transfer, file, wpc, rows, stream, handle, printed>>
    BY <1>1, CommitEffect
  <2>2. \A x \in Everything : x < committed + 1 /\ ~(committed + 1 < x)
    BY DEF CommittedOnly
  <2>3. Increasing(temp')
    <3>1. Before(Range(temp), {committed + 1})
      BY <2>2 DEF Before, Everything
    <3> QED
      BY <1>1, <1>a, <3>1, CommitEffect, IncreasingAppend
  <2>4. Range(temp') = Range(temp) \union {committed + 1}
    BY <1>1, CommitEffect
  <2>5. \A s \in {printed, file, transfer} : Follows(Range(s), Range(temp'))
    <3>1. \A s \in {printed, file, transfer} : Range(s) \subseteq Everything
      BY DEF Everything, Moved, Written, Arrived
    <3> QED
      BY <1>a, <2>2, <2>4, <3>1 DEF Follows
  <2>6. \A x \in Range(temp'), y \in Range(rows) :
            x < y => x \in Range(transfer) \union Range(rows)
    BY <1>a, <2>2, <2>4 DEF Everything
  <2> QED
    BY <1>a, <2>1, <2>3, <2>5, <2>6
<1>2. CASE StartPass
  <2>1. wpc' = "copy" /\ rows' = temp /\ UNCHANGED <<temp, transfer, file, printed>>
    BY <1>2, <1>b DEF StartPass, tables, reader
  <2> QED
    BY <1>a, <2>1
<1>3. CASE CopyRow
  <2> DEFINE h == Head(rows)
  <2>1. /\ wpc = "copy" /\ rows # <<>> /\ rows' = Tail(rows)
        /\ transfer' = Append(transfer, h)
        /\ UNCHANGED <<temp, file, wpc, printed>>
    BY <1>3, <1>b DEF CopyRow, reader
  <2>2. h \in Change /\ h \in Range(rows) /\ Range(rows') \subseteq Range(rows)
        /\ Range(rows) \subseteq {h} \union Range(rows')
    BY <2>1, RangeHeadTail, RangeOfTail
  <2>3. Range(transfer') = Range(transfer) \union {h}
    BY <2>1, <2>2, RangeAppend
  <2>4. Increasing(rows') /\ Before({h}, Range(rows'))
    BY <1>a, <2>1, IncreasingTail
  <2> HIDE DEF h
  <2>5. /\ Range(rows) \subseteq Change /\ Range(temp) \subseteq Change
        /\ \A s \in {printed, file, transfer} : Range(s) \subseteq Change
    BY DEF Range
  <2>6. Sorted(transfer', {})
    <3>1. Follows(Range(transfer), {h})
      BY <1>a, <2>2 DEF Follows
    <3> QED
      BY <1>a, <2>1, <2>2, <3>1, SortedAppend
  <2>7. \A s \in {printed, file} :
            Follows(Range(s), Range(transfer')) /\ Follows(Range(s), Range(rows'))
    BY <1>a, <2>2, <2>3 DEF Follows
  <2>8. Follows(Range(transfer'), Range(rows'))
    BY <1>a, <2>2, <2>3, <2>4, <2>5 DEF Follows, Before, Change
  <2>9. Follows(Range(transfer'), Range(temp))
    <3> SUFFICES ASSUME NEW x \in Range(temp), x < h PROVE x \in Range(transfer')
      BY <1>a, <2>3 DEF Follows
    <3>1. x \in Range(transfer) \/ x \in Range(rows)
      BY <1>a, <2>2
    <3>2. CASE x \in Range(rows)
      <4>1. x = h \/ h < x
        BY <2>2, <2>4, <3>2 DEF Before
      <4> QED
        BY <2>2, <2>3, <2>5, <4>1 DEF Change
    <3> QED
      BY <2>3, <3>1, <3>2
  <2>10. \A x \in Range(temp), y \in Range(rows') :
            x < y => x \in Range(transfer') \union Range(rows')
    BY <1>a, <2>2, <2>3
  <2> QED
    BY <1>a, <2>1, <2>4, <2>6, <2>7, <2>8, <2>9, <2>10
<1>4. CASE LogPass
  <2>1. rows = <<>> /\ wpc' = "clear" /\ UNCHANGED <<temp, transfer, file, rows, printed>>
    BY <1>4 DEF LogPass, reader
  <2> QED
    BY <1>a, <2>1
<1>5. CASE ClearTemp
  <2>1. wpc = "clear" /\ wpc' = "open" /\ temp' = <<>>
        /\ UNCHANGED <<transfer, file, rows, printed>>
    BY <1>5, <1>b DEF ClearTemp, reader
  <2> QED
    BY <1>a, <2>1, IncreasingEmpty, RangeEmpty, FollowsEmpty
<1>6. CASE OpenFile
  <2>1. wpc = "open" /\ stream' = transfer /\ UNCHANGED <<temp, transfer, file, rows, printed>>
    BY <1>6, <1>b DEF OpenFile, tables, reader
  <2>2. Sorted(stream', Range(file'))
    BY <1>a, <2>1, SortedMore
  <2> QED
    BY <1>a, <2>1, <2>2
<1>7. CASE WriteLine
  <2> DEFINE h == Head(stream)
  <2>1. /\ wpc = "write" /\ stream # <<>> /\ stream' = Tail(stream)
        /\ UNCHANGED <<temp, transfer, wpc, rows, handle, printed>>
        /\ file' = IF handle = "linked" THEN Append(file, h) ELSE file
    BY <1>7, <1>b DEF WriteLine, WriteTo, tables, reader
  <2>2. CASE handle # "linked"
    BY <1>a, <2>1, <2>2
  <2>3. CASE handle = "linked"
    <3>1. h \in Change /\ h \in Range(stream) /\ h \in Range(transfer)
      BY <2>1, RangeHeadTail, RangeOfTail DEF StreamInv
    <3>2. Range(file') = Range(file) \union {h}
      BY <2>1, <2>3, <3>1, RangeAppend
    <3>3. /\ \A x \in Range(stream) : x < h => x \in Range(file)
          /\ Sorted(stream', Range(file'))
      BY <1>a, <2>1, <2>3, <3>2, SortedTail
    <3> HIDE DEF h
    <3>4. \A x \in Range(transfer) : x < h => x \in Range(file)
      BY <1>b, <2>1, <2>3, <3>3 DEF StreamInv
    <3>5. NewLater(file')
      <4>1. Follows(Range(file), {h})
        BY <1>a, <3>1 DEF Follows
      <4> QED
        BY <1>a, <2>1, <2>3, <3>1, <4>1, NewLaterAppend
    <3>6. \A s \in {rows, temp} : \A x \in Range(s) : x < h => x \in Range(file)
      BY <1>a, <3>1, <3>4 DEF Follows
    <3>7. \A s \in {transfer, rows, temp} : Follows(Range(file'), Range(s))
      BY <1>a, <3>2, <3>4, <3>6 DEF Follows
    <3>8. Follows(Range(printed), Range(file'))
      BY <1>a, <3>1, <3>2 DEF Follows
    <3> QED
      BY <1>a, <2>1, <3>3, <3>5, <3>7, <3>8
  <2> QED
    BY <2>2, <2>3
<1>14. CASE CloseFile
  <2>1. wpc = "write" /\ wpc' = "finish" /\ UNCHANGED <<temp, transfer, file, rows, printed>>
    BY <1>14 DEF CloseFile, tables, reader
  <2> QED
    BY <1>a, <2>1
<1>8. CASE ClearTransfer
  <2>1. wpc = "finish" /\ wpc' = "idle" /\ transfer' = <<>>
        /\ UNCHANGED <<temp, file, rows, printed>>
    BY <1>8, <1>b DEF ClearTransfer, reader
  <2>2. rows = <<>>
    BY <1>a, <2>1
  <2> QED
    BY <1>a, <2>1, <2>2, SortedEmpty, RangeEmpty, FollowsEmpty
<1>9. CASE ReaderRead
  <2>1. printed' = printed \o file /\ UNCHANGED <<temp, transfer, file, wpc, rows, stream, handle>>
    BY <1>9 DEF ReaderRead, tables, writer
  <2>2. Range(printed') = Range(printed) \union Range(file)
    BY <2>1, RangeConcat
  <2>3. NewLater(printed')
    BY <1>a, <2>1, NewLaterConcat
  <2>4. \A s \in {file, transfer, rows, temp} : Follows(Range(printed'), Range(s))
    BY <1>a, <2>2 DEF Follows
  <2> QED
    BY <1>a, <2>1, <2>3, <2>4
<1>10. CASE ReaderRemove
  <2>1. file' = <<>> /\ handle' # "linked"
        /\ UNCHANGED <<temp, transfer, wpc, rows, printed>>
    BY <1>10, <1>b DEF ReaderRemove, tables
  <2> QED
    BY <1>a, <2>1, NewLaterEmpty, RangeEmpty, FollowsEmpty
<1>11. CASE ReaderOpen \/ ReaderLog \/ CrashReader
  <2>1. UNCHANGED <<temp, transfer, file, wpc, rows, stream, handle, printed>>
    BY <1>11 DEF ReaderOpen, ReaderLog, CrashReader, tables, writer
  <2> QED
    BY <1>a, <2>1
<1>12. CASE CrashWriter
  <2>1. rows' = <<>> /\ wpc' = "idle" /\ UNCHANGED <<temp, transfer, file, printed>>
    BY <1>12 DEF CrashWriter, tables, reader
  <2> QED
    BY <1>a, <2>1, IncreasingEmpty, RangeEmpty, FollowsEmpty
<1>13. CASE UNCHANGED vars
  <2>1. UNCHANGED <<temp, transfer, file, wpc, rows, stream, handle, printed>>
    BY <1>13 DEF vars, tables, writer, reader
  <2> QED
    BY <1>a, <2>1
<1> QED
  BY <1>1, <1>2, <1>3, <1>4, <1>5, <1>6, <1>7, <1>8, <1>9, <1>10, <1>11, <1>12,
     <1>13, <1>14 DEF Next, Pass, Read

\* As long as no statement fails, what is new to the destination is later than
\* all it has read: through kills, lost rows and a file removed under the
\* writer.
THEOREM ReplayInOrder == Spec => []InOrder
<1>1. Spec => []TypeOK
  BY TypeCorrect
<1>2. Spec => []StreamInv
  BY <1>1, StreamInit, StreamInductive, PTL DEF Spec
<1>3. Spec => []CommittedOnly
  BY <1>1, <1>2, CommittedInit, CommittedInductive, PTL DEF Spec
<1>4. Spec => []OrderInv
  BY <1>1, <1>2, <1>3, OrderInit, OrderInductive, PTL DEF Spec
<1>5. OrderInv => InOrder
  BY DEF OrderInv, Order, NewLater, Unfailing, InOrder
<1> QED
  BY <1>4, <1>5, PTL

-----------------------------------------------------------------------------
\* An undisturbed step: no kill, no failure, no commit while rows are copied,
\* and the programs keep apart.
LEMMA UndisturbedStep ==
    ASSUME [Next]_vars, Undisturbed'
    PROVE  /\ Undisturbed /\ ~Fails /\ ~CrashWriter /\ ~CrashReader
           /\ Commit => wpc \notin {"copy", "clear"}
           /\ OpenFile => rpc = "idle"
           /\ ReaderOpen => wpc # "write"
<1>1. ~Fails /\ ~CrashWriter /\ ~CrashReader
  BY DEF Undisturbed, Fails, CrashWriter, CrashReader, Disturb
<1>2. Undisturbed
  BY DEF Next, Pass, Read, Commit, StartPass, CopyRow, LogPass, ClearTemp, OpenFile,
         WriteLine, CloseFile, ClearTransfer, ReaderOpen, ReaderRead, ReaderLog, ReaderRemove,
         CrashWriter, CrashReader, Works, Fails, Apart, Disturb, vars, history, Undisturbed
<1>3. Commit => wpc \notin {"copy", "clear"}
  BY DEF Commit, Disturb, Undisturbed
<1>4. OpenFile => rpc = "idle"
  BY <1>1 DEF OpenFile, Apart, Disturb, Undisturbed
<1>5. ReaderOpen => wpc # "write"
  BY <1>1 DEF ReaderOpen, Apart, Disturb, Undisturbed
<1> QED
  BY <1>1, <1>2, <1>3, <1>4, <1>5

LEMMA CountInit == Init => CountInv
BY DEF Init, CountInv, Count, InTransfer, InFile

LEMMA CountInductive == TypeOK /\ CountInv /\ [Next]_vars => CountInv'
<1> SUFFICES ASSUME TypeOK, CountInv, [Next]_vars, Undisturbed' PROVE Count'
  BY DEF CountInv
<1>a. Count
  BY UndisturbedStep DEF CountInv
<1>b. /\ Mode = "subscribe" /\ ~Fails /\ ~CrashWriter /\ ~CrashReader
      /\ Commit => wpc \notin {"copy", "clear"}
      /\ OpenFile => rpc = "idle"
      /\ ReaderOpen => wpc # "write"
  BY UndisturbedStep DEF Undisturbed
<1>c. /\ Len(temp) \in Nat /\ Len(transfer) \in Nat /\ Len(file) \in Nat
      /\ Len(rows) \in Nat /\ Len(stream) \in Nat
      /\ taken \in Nat /\ logged \in Nat /\ rlogged \in Nat
  BY PartsType DEF TypeOK, TablesTypeOK, ReaderTypeOK
<1> USE DEF Count, InTransfer, InFile
<1>1. CASE Commit
  <2>1. wpc \notin {"copy", "clear"}
        /\ UNCHANGED <<transfer, logged, file, wpc, stream, handle, rpc, taken, rlogged>>
    BY <1>1, <1>b DEF Commit, writer, reader
  <2> QED
    BY <1>a, <2>1
<1>2. CASE StartPass
  <2>1. wpc = "idle" /\ wpc' = "copy" /\ rows' = temp
        /\ UNCHANGED <<temp, transfer, logged, file, reader>>
    BY <1>2, <1>b DEF StartPass, tables
  <2> QED
    BY <1>a, <1>c, <2>1 DEF reader
<1>3. CASE CopyRow
  <2>1. /\ wpc = "copy" /\ transfer' = Append(transfer, Head(rows)) /\ rows' = Tail(rows)
        /\ rows # <<>> /\ UNCHANGED <<temp, logged, file, wpc, reader>>
    BY <1>3, <1>b DEF CopyRow
  <2>2. Len(transfer') = Len(transfer) + 1 /\ Len(rows') = Len(rows) - 1
    BY <2>1, PartsType
  <2> QED
    BY <1>a, <1>c, <2>1, <2>2 DEF reader
<1>4. CASE LogPass
  <2>1. wpc = "copy" /\ rows = <<>> /\ wpc' = "clear" /\ logged' = logged + Len(temp)
        /\ UNCHANGED <<temp, transfer, file, reader>>
    BY <1>4, <1>b DEF LogPass
  <2>2. Len(transfer) = Len(temp)
    BY <1>a, <1>c, <2>1
  <2>3. InTransfer' = Len(temp) /\ InTransfer = 0 /\ InFile' = InFile /\ InFile \in Nat
    BY <1>c, <2>1, <2>2 DEF reader
  <2>4. logged' = rlogged' + InTransfer' + InFile'
    <3> HIDE DEF InTransfer, InFile
    <3> QED
      BY <1>a, <1>c, <2>1, <2>3 DEF reader
  <2> QED
    BY <2>1, <2>2, <2>4 DEF reader
<1>5. CASE ClearTemp
  BY <1>5, <1>a, <1>b DEF ClearTemp, reader
<1>6. CASE OpenFile
  <2>1. wpc = "open" /\ wpc' = "write" /\ stream' = transfer /\ handle' = "linked"
        /\ rpc = "idle" /\ UNCHANGED <<temp, transfer, logged, file, reader>>
    BY <1>6, <1>b DEF OpenFile, tables
  <2> QED
    BY <1>a, <2>1 DEF reader
<1>7. CASE WriteLine
  <2>1. wpc = "write" /\ stream # <<>> /\ file' = Append(file, Head(stream))
        /\ stream' = Tail(stream) /\ rpc = "idle" /\ UNCHANGED <<tables, wpc, handle, reader>>
    BY <1>7, <1>a, <1>b DEF WriteLine, WriteTo
  <2>2. Len(file') = Len(file) + 1 /\ Len(stream') = Len(stream) - 1
    BY <2>1, PartsType
  <2> QED
    BY <1>a, <1>c, <2>1, <2>2 DEF reader, tables
<1>14. CASE CloseFile
  <2>1. wpc = "write" /\ wpc' = "finish" /\ stream = <<>> /\ UNCHANGED <<tables, file, reader>>
    BY <1>14 DEF CloseFile
  <2>2. Len(stream) = 0
    BY <2>1
  <2> QED
    BY <1>a, <1>c, <2>1, <2>2 DEF reader, tables
<1>8. CASE ClearTransfer
  BY <1>8, <1>a, <1>b DEF ClearTransfer, reader
<1>9. CASE ReaderOpen
  BY <1>9, <1>a, <1>b DEF ReaderOpen, tables, writer
<1>10. CASE ReaderRead
  BY <1>10, <1>a DEF ReaderRead, tables, writer
<1>11. CASE ReaderLog
  <2>1. rpc = "log" /\ rpc' = "remove" /\ rlogged' = rlogged + taken
        /\ UNCHANGED <<tables, file, writer>>
    BY <1>11, <1>b DEF ReaderLog
  <2>2. InTransfer' = InTransfer /\ InTransfer \in Nat /\ InFile = taken /\ InFile' = 0
    BY <1>c, <2>1 DEF tables, writer
  <2>3. logged' = rlogged' + InTransfer' + InFile'
    <3> HIDE DEF InTransfer, InFile
    <3> QED
      BY <1>a, <1>c, <2>1, <2>2 DEF tables
  <2> QED
    BY <1>a, <2>1, <2>3 DEF tables, writer
<1>12. CASE ReaderRemove
  <2>1. rpc = "remove" /\ rpc' = "idle" /\ file' = <<>>
        /\ UNCHANGED <<temp, transfer, logged, wpc, rows, stream, rlogged>>
    BY <1>12, <1>b DEF ReaderRemove, tables
  <2>2. Len(file') = 0
    BY <2>1
  <2>3. wpc # "write" /\ logged = rlogged + InTransfer
    BY <1>a, <1>c, <2>1
  <2> QED
    BY <1>a, <1>c, <2>1, <2>2, <2>3
<1>13. CASE UNCHANGED vars
  BY <1>13, <1>a DEF vars, tables, writer, reader
<1> QED
  BY <1>b, <1>1, <1>2, <1>3, <1>4, <1>5, <1>6, <1>7, <1>8, <1>9, <1>10, <1>11, <1>12,
     <1>13, <1>14 DEF Next, Pass, Read

\* Passes that nothing disturbs count the same lines in both LOG tables, at
\* whatever statement of the one the other begins.
THEOREM LogsCountAlike == Spec => []LogsAgree
<1>1. Spec => []TypeOK
  BY TypeCorrect
<1>2. Spec => []CountInv
  BY <1>1, CountInit, CountInductive, PTL DEF Spec
<1>3. TypeOK /\ CountInv => LogsAgree
  BY DEF TypeOK, TablesTypeOK, ReaderTypeOK, FileTypeOK, CountInv, Count, InTransfer,
         InFile, Undisturbed, LogsAgree
<1> QED
  BY <1>1, <1>2, <1>3, PTL

=============================================================================
