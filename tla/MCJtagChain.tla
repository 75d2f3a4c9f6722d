----------------------------- MODULE MCJtagChain -----------------------------
(* JtagChain with chains for TLC.                                            *)
EXTENDS JtagChain

\* A debug port alone, in the middle of TAPs with a longer and a shorter
\* instruction register, and next to another debug port.
MCChains == {<<4>>, <<5, 4, 2>>, <<4, 4>>}

\* A host may describe any of them, and one with too many devices.
MCConfigs == MCChains \cup {<<4, 4, 4, 4>>}

\* Scans of one to three identities, and a walk that leaves Run-Test/Idle; the
\* longest scan does not fit into the response.
MCSequences ==
  {Scan(n) : n \in {WordBits, 2 * WordBits, 3 * WordBits}} \cup
  {<<[tms |-> 1, tdi |-> <<1>>, capture |-> TRUE]>>}
=============================================================================
