------------------------------ MODULE MCTransfer ------------------------------
(* Transfer with codes, values and commands for TLC.                         *)
EXTENDS Transfer

\* The codes: 0 and 1 write the debug and the access port, 2 and 3 read them, 4
\* and 5 match a value of theirs, 6 writes the match mask.
MCUnits   == 0..7
MCReads   == {2, 3, 4, 5}
MCAps     == {1, 3, 5}
MCMatches == {4, 5}
MCMasks   == {6}

MCTransfers ==
  {[request |-> r, word |-> w] : r \in {0, 1}, w \in {3}} \cup
  {[request |-> r, word |-> 0] : r \in {2, 3}} \cup
  {[request |-> r, word |-> w] : r \in {4, 5}, w \in {1}} \cup
  {[request |-> 6, word |-> w] : w \in {3}}

\* All commands of one and two transfers, and those of three that begin with a
\* read or a new mask, whose effects reach the transfers after them, and end with
\* a read or another access to the access port.
MCBatches ==
  (SeqOf(MCTransfers, 2) \ {<<>>}) \cup
  {<<x, y, z>> : x \in {t \in MCTransfers : t.request \in {2, 3, 6}}, y \in MCTransfers,
                 z \in {t \in MCTransfers : t.request \in {1, 2, 3, 5}}}

MCBlocks ==
  {[request |-> r, count |-> n, words |-> <<>>] : r \in {2, 3}, n \in 0..3} \cup
  {[request |-> r, count |-> n, words |-> SubSeq(<<1, 3, 2>>, 1, n)] : r \in {0, 1}, n \in 0..3}

\* With one device on the chain index 1 is refused over JTAG and ignored over SWD.
MCCommands ==
  {[kind |-> "transfer", index |-> 0, batch |-> b] : b \in MCBatches} \cup
  {[kind |-> "transfer", index |-> 1, batch |-> <<x>>] : x \in MCTransfers} \cup
  {[kind |-> "block", index |-> i, count |-> b.count, request |-> b.request, words |-> b.words] :
     i \in {0, 1}, b \in MCBlocks} \cup
  {[kind |-> "abort", index |-> i, word |-> 1] : i \in {0, 1}}

\* After a reset nothing is tried again; then hosts allow it.
MCLimits == {[wait |-> 2, match |-> 1]}

MCFollowing == <<3, 1>>
=============================================================================
