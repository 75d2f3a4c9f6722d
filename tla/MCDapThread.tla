----------------------------- MODULE MCDapThread -----------------------------
(* DapThread with byte values and packets for TLC.                           *)
EXTENDS DapThread

plain(c) == [kind |-> "plain", cmds |-> c]
exec(c)  == [kind |-> "exec",  cmds |-> c]
queue(c) == [kind |-> "queue", cmds |-> c]

\* 1 and 2 are Info and Connect, 3 and 4 are Exec and Queue, 0 always fails.
MCPackets == {plain(<<2>>), queue(<<1, 1>>), exec(<<2, 0>>)}
=============================================================================
