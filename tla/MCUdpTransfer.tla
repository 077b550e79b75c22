--------------------------- MODULE MCUdpTransfer ---------------------------
\* Instances of UdpTransfer for TLC.
EXTENDS UdpTransfer

CONSTANTS a, b, c

\* a publishes to b.
OneWay == {<<a, b>>}

\* a and c publish to b, as two sources of one destination.
TwoSources == {<<a, b>>, <<c, b>>}

\* The scripts of the tasks.
LongThenShort == <<2, 1>>
BothLong == <<2, 2>>
BothShort == <<1, 1>>
OneLong == <<2>>

\* Bounds the datagrams in flight where duplicates keep them there for ever.
FewInFlight == Cardinality(net) <= 2

=============================================================================
