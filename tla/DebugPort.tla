------------------------------- MODULE DebugPort -------------------------------
(***************************************************************************)
(* What the transfer commands of firmware/src/dap/commands_transfer.c      *)
(* promise a host: a debug port whose register accesses are atomic.  A     *)
(* read hands over its value in the very step in which the register is     *)
(* read, there is no pipeline, nothing is read twice.  After the first     *)
(* failure there are no further accesses, the value of the last read may   *)
(* be missing and the answer cannot be success.                            *)
(***************************************************************************)
EXTENDS Sequences, SequencesExt

CONSTANTS Registers, Values

VARIABLES
  log,         (* accesses of the command, in order                                 *)
  results,     (* words it has read for the host                                    *)
  broken,      (* it goes no further                                                *)
  success      (* it has been answered with success                                 *)

vars == <<log, results, broken, success>>

Accesses(wanted) ==
  [reg : Registers, read : BOOLEAN, value : Values, wanted : {wanted}]

Init == log = <<>> /\ results = <<>> /\ broken = FALSE /\ success = FALSE

\* A register is read for the host.
Read ==
  /\ ~broken /\ ~success
  /\ \E a \in Accesses(TRUE) :
       log' = Append(log, a) /\ results' = Append(results, a.value)
  /\ UNCHANGED <<broken, success>>

\* A register is written, or read for a comparison.
WriteOrCompare ==
  /\ ~broken /\ ~success
  /\ \E a \in Accesses(FALSE) : log' = Append(log, a)
  /\ UNCHANGED <<results, broken, success>>

\* The command fails; the access at hand may have been performed or not.
Break ==
  /\ ~broken /\ ~success /\ broken' = TRUE
  /\ \/ UNCHANGED log
     \/ \E wanted \in BOOLEAN : \E a \in Accesses(wanted) : log' = Append(log, a)
  /\ \/ UNCHANGED results
     \/ results # <<>> /\ results' = Front(results)
  /\ UNCHANGED success

Succeed ==
  /\ ~broken /\ ~success /\ success' = TRUE
  /\ UNCHANGED <<log, results, broken>>

\* The next command.
Start == log' = <<>> /\ results' = <<>> /\ broken' = FALSE /\ success' = FALSE

Next == Read \/ WriteOrCompare \/ Break \/ Succeed \/ Start

Spec == Init /\ [][Next]_vars
=============================================================================
