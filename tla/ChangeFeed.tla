----------------------------- MODULE ChangeFeed -----------------------------
(***************************************************************************)
(* What the text file of a subscription promises the program that reads    *)
(* it, with no tables and no file: the source commits changes 1, 2, 3 ..., *)
(* and what has been read is always a prefix of them.  After a fault that  *)
(* the program does not tolerate there may be gaps, and that is all that   *)
(* may happen: nothing is read that was not committed.  What is done with  *)
(* a change once it has been read is not promised here.                    *)
(***************************************************************************)
EXTENDS Naturals

VARIABLES
    committed,  \* the number of changes committed at the source
    read,       \* the changes the destination has read so far
    faulty      \* a fault that is not tolerated has occurred

vars == <<committed, read, faulty>>

Init == committed = 0 /\ read = {} /\ faulty = FALSE

\* A change is committed; that may be the fault, as it may come untimely.
Commit ==
    /\ committed' = committed + 1
    /\ faulty' \in {faulty, TRUE}
    /\ UNCHANGED read

\* A batch is read: everything up to some change.
Read ==
    /\ \E k \in 1..committed : read \subseteq 1..k /\ read' = 1..k
    /\ UNCHANGED <<committed, faulty>>

Fault == faulty' = TRUE /\ UNCHANGED <<committed, read>>

\* After a fault a batch may have gaps.
ReadSome ==
    /\ faulty
    /\ read \subseteq read' /\ read' \subseteq 1..committed
    /\ UNCHANGED <<committed, faulty>>

Next == Commit \/ Read \/ Fault \/ ReadSome

Spec == Init /\ [][Next]_vars

=============================================================================
