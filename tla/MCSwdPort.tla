------------------------------ MODULE MCSwdPort ------------------------------
(* SwdPort with words, requests and sequences for TLC.                       *)
EXTENDS SwdPort

MCWords == {[i \in 1..WordBits |-> IF i = 1 THEN 1 ELSE 0], [i \in 1..WordBits |-> IF i \in {2, 3} THEN 1 ELSE 0]}

MCAddresses == [ap : Bit, read : Bit, a2 : Bit, a3 : Bit]

\* The line reset.
LineReset == Times(ResetBits, 1) \o <<0, 0>>

MCBitSequences == {LineReset}

\* A line reset, eight cycles of reading, and both.
MCItems == {[out |-> TRUE, bits |-> LineReset], [out |-> FALSE, bits |-> Times(8, 0)]}
MCItemSequences == {<<x>> : x \in MCItems} \cup {<<x, y>> : x, y \in MCItems}

MCPinCommands == {[swclk |-> 0, swdio |-> 0], [swclk |-> 1]}
=============================================================================
