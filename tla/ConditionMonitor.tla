-------------------------- MODULE ConditionMonitor --------------------------
(***************************************************************************)
(* The picture of connected machines that condition_monitor and Dialog     *)
(* paint: getInput makes a list of setPcNum machines, paintEvent draws one *)
(* at each angle around the server and clears the list.                    *)
(***************************************************************************)
EXTENDS Naturals, Sequences

\* getInput appends to whatever the list still has.
getInput(connectLists, setPcNum) ==
    connectLists \o [i \in 1..setPcNum |->
        [lineColor |-> (i - 1) % 3, ipaddr |-> i - 1]]

\* Slip: the angle is computed the other way round.
RotatedLate(i, n) == (360 * i) \div (n + 1)

\* painter.rotate: integers, from left to right.
Rotated(i, n) == (360 \div n) * i

\* The address is written below the machines of the lower half.
LabelBelow(i, n) == Rotated(i, n) < 180

\* One paint event: what it draws, and the list it leaves.
paintEvent(connectLists, setPcNum) ==
    LET list == getInput(connectLists, setPcNum)
        n == Len(list)
    IN  [drawn |-> [i \in 1..n |->
                        [machine |-> list[i],
                         angle |-> Rotated(i - 1, n),
                         below |-> LabelBelow(i - 1, n)]],
         connectLists |-> <<>>]

=============================================================================
