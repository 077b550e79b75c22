--------------------------- MODULE Fragmentation ---------------------------
(***************************************************************************)
(* How netWindow cuts a script into fragments and puts them together       *)
(* again, byte by byte: the fragment size a user types, the number of      *)
(* fragments, what each holds, and what the receiver executes.             *)
(*                                                                         *)
(* A script of len bytes is the bytes 1..len; the memory behind it goes on *)
(* with the bytes len + 1, len + 2, ...  UdpTransfer has the order of the  *)
(* messages, and calls a byte nobody wrote Garbage.                        *)
(***************************************************************************)
EXTENDS Naturals, Sequences

CONSTANTS
    IntMax,         \* the largest int
    Header,         \* sizeof(UDP_PACKET)
    MaxDatagram     \* the longest datagram a socket sends

\* The length of a datagram is an int.
ASSUME WidthAssumption ==
    IntMax \in Nat /\ Header \in Nat /\ MaxDatagram \in 0..IntMax

\* A character is its digit, or 10 for any other.
Digit == 0..9

\* isDigitStr: at least one character, and nothing but digits.
isDigitStr(text) ==
    text # <<>> /\ \A i \in DOMAIN text : text[i] \in Digit

\* The number a conversion makes of the characters from left to right.
Read(text) ==
    LET value[k \in 0..Len(text)] ==
            IF k = 0 THEN 0 ELSE 10 * value[k - 1] + text[k]
    IN  value[Len(text)]

\* Slip: a number that is too large wraps around.
ToIntWraps(text) == Read(text) % (IntMax + 1)

\* QString::toInt, which answers 0 for a number that is too large.
ToInt(text) == IF Read(text) \in 0..IntMax THEN Read(text) ELSE 0

\* Slip: the last fragment is counted even if it is empty.
TotalOneMore(len, size) == len \div size + 1

\* send_data.total_len.
Total(len, size) ==
    IF len % size = 0 THEN len \div size ELSE len \div size + 1

\* Slip: fragments are cut with their header counted in.
FragmentWithHeader(size, index) ==
    [k \in 1..size |-> index * (size + Header) + k]

\* The packet_len bytes at _ptr_send_data + index * packet_len.
Fragment(size, index) == [k \in 1..size |-> index * size + k]

\* The buffer the fragments 0..total-1 were stored into, in any order.
Buffer(size, total) ==
    [k \in 1..(total * size) |->
        Fragment(size, (k - 1) \div size)[((k - 1) % size) + 1]]

\* merge_packet: a QString made of the buffer ends at its first NUL, which is
\* the one behind slack bytes of the memory behind the script.
Executed(len, size, slack) ==
    IF len + slack < Total(len, size) * size
    THEN SubSeq(Buffer(size, Total(len, size)), 1, len + slack)
    ELSE Buffer(size, Total(len, size))

\* on_bt_task_begin_clicked for a script of len bytes and the text of
\* cache_size_edit: a zero divides len and ends the program, and a datagram
\* that is too long is never sent, however often it is retransmitted.
Begin(len, text, slack) ==
    IF ~isDigitStr(text) \/ len = 0 THEN [end |-> "refused", script |-> <<>>]
    ELSE IF ToInt(text) = 0 THEN [end |-> "dies", script |-> <<>>]
    ELSE IF ToInt(text) + Header > MaxDatagram THEN [end |-> "unsent", script |-> <<>>]
    ELSE [end |-> "sent", script |-> Executed(len, ToInt(text), slack)]

-----------------------------------------------------------------------------
\* The text is the number n in decimal, perhaps behind zeros: taking off a
\* digit at a time from the right leaves nothing.
Spells(text, n) ==
    LET left[k \in 0..Len(text)] == IF k = 0 THEN n ELSE left[k - 1] \div 10
    IN  /\ left[Len(text)] = 0
        /\ \A k \in 1..Len(text) : text[Len(text) + 1 - k] = left[k - 1] % 10

Script(len) == [k \in 1..len |-> k]

\* The least number of fragments that hold the script, and no byte of it is
\* missing, twice or out of place.
Whole(len, size) ==
    /\ (Total(len, size) - 1) * size < len
    /\ len <= Total(len, size) * size
    /\ SubSeq(Buffer(size, Total(len, size)), 1, len) = Script(len)

\* What is executed is the script if its length is a multiple of the fragment
\* size or a NUL happens to follow it; otherwise up to size - 1 bytes of the
\* sender's memory are executed behind it.
Exact(len, size, slack) ==
    LET script == Executed(len, size, slack)
    IN  /\ SubSeq(script, 1, len) = Script(len)
        /\ Len(script) < len + size
        /\ script = Script(len) <=> len % size = 0 \/ slack = 0

=============================================================================
