--------------------------------- MODULE MCIo ---------------------------------
(* Io with pins and packets for TLC.                                         *)
EXTENDS Io

U == INSTANCE Utf8

None == 2

MCPackets ==
  {<<GpioCfg(0, TRUE, {})>>, <<GpioCfg(0, FALSE, {"up"})>>, <<GpioCfg(0, TRUE, Pulls)>>,
   <<PinsCfg(0, "gpio", {})>>, <<PinsCfg(0, "uart", {})>>, <<PinsCfg(0, "spi", {})>>, <<Default>>,
   <<GpioCtrl(0, 1, TRUE, None, 0)>>,
   <<Group("queue", 1), GpioCfg(1, TRUE, {})>>,
   <<Group("multi", 2), GpioCtrl(0, None, TRUE, 1, 2), Bad>>,
   <<Group("multi", 2), Info, GpioCtrl(1, None, FALSE, 1, 0)>>,
   <<Group("multi", 0), Info>>, <<>>}

\* Pulls up, down and none, for one pin.
MCPullPackets == {<<PinsCfg(0, "gpio", q)>> : q \in {{}, {"up"}, {"down"}}}

\* Numbers around every change of the size, the largest and one too many.
Edges == UNION {(v - 70)..(v + 70) : v \in {128, 2048, 65536, 262144, 1113000}} \cup {0, 1114111}

\* What utf8_rbuf_put has written, utf8_rbuf_get returns, whatever follows it, and
\* neither goes ahead on a buffer that is too short (io/commands_gpio.c:70,
\* io/commands_pinctrl.c:113 read their arguments so).
ASSUME NumbersComeBack ==
  \A v \in Edges : \A more \in {<<>>, <<65>>, <<200>>} :
    LET bytes == U!Encode(v)
    IN  /\ U!Put(<<>>, Len(bytes), v).ok /\ ~U!Put(<<>>, Len(bytes) - 1, v).ok
        /\ U!Get(U!Put(<<>>, 4, v).buf \o more) = [ok |-> TRUE, val |-> v, buf |-> more]
        /\ ~U!Get(SubSeq(bytes, 1, Len(bytes) - 1)).ok
=============================================================================
