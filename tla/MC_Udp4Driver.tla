----------------------------- MODULE MC_Udp4Driver -----------------------------
EXTENDS Udp4Driver

\* Ports at both ends of the filter's range and next to them.
At(port) == [ip |-> 1, port |-> port]
Way(a, b) == [src |-> At(a), dst |-> At(b)]

MCAddrs == {Way(10, 50), Way(51, 10), Way(9, 10)}
MCIds == {<<0, 0>>, <<1, 2>>}

\* A packet that just fits the receive buffer, a short one without data and with
\* id 0, one that is too long, and two to ports outside the range.
MCPackets ==
  LET packet(a, b, id, control, len) ==
        [addr |-> Way(a, b), id |-> id, control |-> control, len |-> len]
  IN  {packet(50, 10, <<1, 2>>, TRUE, 2), packet(50, 10, <<0, 0>>, FALSE, 1),
       packet(50, 10, <<1, 2>>, FALSE, 3), packet(10, 51, <<1, 2>>, FALSE, 2),
       packet(10, 9, <<1, 2>>, FALSE, 1)}
==============================================================================
