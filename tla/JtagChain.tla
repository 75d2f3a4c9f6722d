------------------------------ MODULE JtagChain ------------------------------
(***************************************************************************)
(* The walks through the JTAG state machine: jtag_set_ir, jtag_transfer    *)
(* (firmware/src/dap/commands_transfer.c) and the commands JTAG Configure, *)
(* JTAG IDCODE and JTAG Sequence (commands_jtag.c), on a chain of devices. *)
(*                                                                         *)
(* The probe plans a walk, a sequence of clock cycles with a value for TMS *)
(* and TDI each, and gives it one cycle per step to the chain, which is    *)
(* modelled as IEEE 1149.1 has it: all devices follow the same state       *)
(* machine, and while it shifts, their registers form one path, the device *)
(* of index 0 nearest to TDO.  A device whose instruction register has     *)
(* DpLength bits is a debug port, whose acknowledgement and data are up to  *)
(* the target; the others stand for anything else on the chain.            *)
(*                                                                         *)
(* The length of words is a constant, 32 in the code.                      *)
(***************************************************************************)
EXTENDS Integers, SequencesExt

CONSTANTS
  MaxDevices,     (* DAP_JTAG_MAX_DEVICE_COUNT                                     *)
  WordBits,       (* bits of a word of data                                        *)
  DpLength,       (* bits of a debug port's instruction register, 4                *)
  IdleCycles,     (* dap->transfer.idle_cycles                                     *)
  Chains,         (* chains that may be attached: lengths of instruction registers *)
  Configs,        (* what the host may say of the chain: the same                  *)
  ByteBits,       (* bits of a byte, 8                                             *)
  ResponseSpace,  (* bytes of data that fit into a response                        *)
  Sequences,      (* what JTAG Sequence may clock: items [tms, tdi, capture]       *)
  Words           (* words the host writes, and the target offers                  *)

\* Powers of two: the weights of the bits of a number.
Pow2[n \in Nat] == IF n = 0 THEN 1 ELSE 2 * Pow2[n - 1]

\* The codes of a debug port's instructions have four bits.
ASSUME SizesAreLegal ==
  /\ MaxDevices \in Nat \ {0} /\ WordBits \in Nat \ {0} /\ DpLength \in Nat \ 0..3
  /\ IdleCycles \in Nat
  /\ ByteBits \in Nat \ {0} /\ ResponseSpace \in Nat
  /\ Words \subseteq 0..(Pow2[WordBits] - 1)

ASSUME ChainsAreLegal ==
  /\ \A c \in Chains : c \in Seq(Nat \ {0}) /\ Len(c) \in 1..MaxDevices
  /\ \A c \in Configs : c \in Seq(Nat)
  /\ \A s \in Sequences : s \in Seq([tms : {0, 1}, tdi : Seq({0, 1}) \ {<<>>}, capture : BOOLEAN])

\* jtag_ir_abort, jtag_ir_dpacc, jtag_ir_apacc, jtag_ir_idcode
IrAbort == 8
IrDpacc == 10
IrApacc == 11
IrIdcode == 14

VARIABLES
  chain,                   (* lengths of the instruction registers on the board    *)
  tap,                     (* state all devices are in                             *)
  ir,                      (* instruction registers, first bit nearest to TDO      *)
  path,                    (* bits between TDO and TDI while a register is shifted *)
  offer,                   (* what the debug port captured: acknowledgement, word  *)
  updates,                 (* data registers written by the running command: the   *)
                           (* device, its instruction and the bits                 *)
  count, length, before, after,  (* dap->jtag: count, ir_length, ir_before, ir_after *)
  command,                 (* the command the probe runs                           *)
  phase, todo, bits,       (* part of its walk, cycles left, bits read             *)
  described                (* history: the last configuration was complete and     *)
                           (* agrees with the chain                                *)

board  == <<chain, ir, path, offer, updates, tap>>
config == <<count, length, before, after, described>>
vars == <<board, config, command, phase, todo, bits>>

Devices == 1..Len(chain)

Fill(b, n) == [i \in 1..n |-> b]

NoCommand == [kind |-> "none"]
NoOffer == [ack |-> 0, word |-> 0]

Init ==
  /\ chain \in Chains
  /\ tap = "idle"
  /\ ir = [d \in Devices |-> Fill(0, chain[d])]
  /\ path = <<>> /\ offer = NoOffer /\ updates = <<>>
  /\ count = 0
  /\ length = Fill(0, MaxDevices) /\ before = Fill(0, MaxDevices) /\ after = Fill(0, MaxDevices)
  /\ command = NoCommand /\ phase = "none" /\ todo = <<>> /\ bits = <<>>
  /\ described = FALSE

(***************************************************************************)
(* The chain.                                                              *)
(***************************************************************************)

\* The state machine: where TMS = 0 and TMS = 1 lead from each state.
Tap == [
  reset     |-> <<"idle", "reset">>,      idle      |-> <<"idle", "selectDr">>,
  selectDr  |-> <<"captureDr", "selectIr">>, selectIr |-> <<"captureIr", "reset">>,
  captureDr |-> <<"shiftDr", "exit1Dr">>, captureIr |-> <<"shiftIr", "exit1Ir">>,
  shiftDr   |-> <<"shiftDr", "exit1Dr">>, shiftIr   |-> <<"shiftIr", "exit1Ir">>,
  exit1Dr   |-> <<"pauseDr", "updateDr">>, exit1Ir  |-> <<"pauseIr", "updateIr">>,
  pauseDr   |-> <<"pauseDr", "exit2Dr">>, pauseIr   |-> <<"pauseIr", "exit2Ir">>,
  exit2Dr   |-> <<"shiftDr", "updateDr">>, exit2Ir  |-> <<"shiftIr", "updateIr">>,
  updateDr  |-> <<"idle", "selectDr">>,   updateIr  |-> <<"idle", "selectDr">>]

\* The n low bits of v, lowest first.
BitsOf(v, n) == [i \in 1..n |-> (v \div Pow2[i - 1]) % 2]

\* The number bits b stand for.
ValueOf(b) == FoldLeft(+, 0, [i \in 1..Len(b) |-> b[i] * Pow2[i - 1]])

Bypassed(d) == \A i \in 1..Len(ir[d]) : ir[d][i] = 1

\* A debug port with an access instruction: abort, dpacc or apacc.
Accessing(d) ==
  chain[d] = DpLength /\ \E c \in {IrAbort, IrDpacc, IrApacc} : ir[d] = BitsOf(c, DpLength)

\* Identity of device d.
Idcode(d) == d % Pow2[WordBits]

Identifying(d) == ir[d] = BitsOf(IrIdcode, chain[d])

\* What device d captures when o is offered: an access register, its identity,
\* one bit of bypass, or the register of some other instruction.
Captured(d, o) ==
  IF Accessing(d) THEN BitsOf(o.ack, 3) \o BitsOf(o.word, WordBits)
  ELSE IF Bypassed(d) THEN <<0>>
  ELSE IF Identifying(d) THEN BitsOf(Idcode(d), WordBits)
  ELSE <<0, 1>>

Before(d, lens) == FoldLeft(+, 0, SubSeq(lens, 1, d - 1))

\* The part of the path that belongs to device d when each takes lens bits.
Part(d, lens) == SubSeq(path, Before(d, lens) + 1, Before(d, lens) + lens[d])

DrLengths == [d \in Devices |-> Len(Captured(d, offer))]

\* Acknowledgements of a debug port over JTAG.
JtagWait == 1
JtagOk == 2

Shifting == tap \in {"shiftIr", "shiftDr"}

\* One clock cycle: the registers do what the state they are in says, a target
\* that answered WAIT ignores what is written, and all devices move on.
Clock(tms, tdi) ==
  /\ tap' = Tap[tap][tms + 1]
  /\ \/ /\ tap = "captureIr"
        /\ path' = FlattenSeq([d \in Devices |-> <<1>> \o Fill(0, chain[d] - 1)])
        /\ UNCHANGED <<ir, offer, updates>>
     \/ /\ tap = "captureDr"
        /\ \E o \in [ack : {JtagWait, JtagOk}, word : Words] :
             /\ offer' = o
             /\ path' = FlattenSeq([d \in Devices |-> Captured(d, o)])
        /\ UNCHANGED <<ir, updates>>
     \/ /\ tap = "reset"
        /\ ir' = [d \in Devices |-> BitsOf(IrIdcode, chain[d])]
        /\ UNCHANGED <<path, offer, updates>>
     \/ /\ Shifting
        /\ path' = Append(Tail(path), tdi)
        /\ UNCHANGED <<ir, offer, updates>>
     \/ /\ tap = "updateIr"
        /\ ir' = [d \in Devices |-> Part(d, chain)]
        /\ path' = <<>>
        /\ UNCHANGED <<offer, updates>>
     \/ /\ tap = "updateDr"
        /\ updates' = updates \o
             SetToSeq({[device |-> d, ir |-> ir[d], bits |-> Part(d, DrLengths)] :
                         d \in {e \in Devices : Accessing(e) /\ offer.ack = JtagOk}})
        /\ path' = <<>>
        /\ UNCHANGED <<ir, offer>>
     \/ /\ tap \notin {"reset", "captureIr", "captureDr", "updateIr", "updateDr"} /\ ~Shifting
        /\ UNCHANGED <<ir, path, offer, updates>>
  /\ UNCHANGED chain

(***************************************************************************)
(* Walks: cycles in which TDI may be set and TDO read.                     *)
(***************************************************************************)
Go(tms) == [tms |-> tms, tdi |-> 1, read |-> FALSE]

\* Bits s go in, then n bits that pass the devices behind; the last cycle of all
\* leaves the shift state.
Shift(s, n, read) ==
  [i \in 1..(Len(s) + n) |->
     [tms  |-> IF i = Len(s) + n THEN 1 ELSE 0,
      tdi  |-> IF i <= Len(s) THEN s[i] ELSE 1,
      read |-> read /\ i <= Len(s)]]

\* As SetIrWalk, with the lengths before and behind the device confused.
SetIrBackwards(i, code) ==
  <<Go(1), Go(1), Go(0), Go(0)>> \o Fill(Go(0), after[i]) \o
  Shift(BitsOf(code, Max({1, length[i]})), before[i], FALSE) \o <<Go(1), Go(0)>>

\* jtag_set_ir, from idle to idle.  Of an instruction register said to have no
\* bits one is set.
SetIrWalk(i, code) ==
  <<Go(1), Go(1), Go(0), Go(0)>> \o Fill(Go(0), before[i]) \o
  Shift(BitsOf(code, Max({1, length[i]})), after[i], FALSE) \o <<Go(1), Go(0)>>

\* From idle to the register of device i (index i - 1).
ToDr(i) == <<Go(1), Go(0), Go(0)>> \o Fill(Go(0), i - 1)

\* jtag_transfer up to the acknowledgement of the transfer before: RnW, A2 and A3
\* go in while it comes out.
AskWalk(i, request) ==
  ToDr(i) \o [j \in 1..3 |-> [tms |-> 0, tdi |-> request[j], read |-> TRUE]]

\* As DataWalk, where the devices behind are not passed.
ShortDataWalk(i, read, word) ==
  Shift(IF read THEN Fill(1, WordBits) ELSE BitsOf(word, WordBits), 0, read)

\* The word of data, and past the devices behind device i.
DataWalk(i, read, word) ==
  Shift(IF read THEN Fill(1, WordBits) ELSE BitsOf(word, WordBits), count - i, read)

\* As RefusedWalk, without leaving the shift state.
StuckWalk == <<>>

\* After another acknowledgement no data follows.
RefusedWalk == <<Go(1)>>

EndWalk == <<Go(1), Go(0)>> \o Fill(Go(0), IdleCycles)

\* As IdcodeWalk, reading from the start of the path.
HastyIdcodeWalk(i) == ToDr(1) \o Shift(Fill(1, WordBits), 0, TRUE) \o <<Go(1), Go(0)>>

\* The data part of dap_handle_cmd_jtag_idcode; what lies behind is not shifted.
IdcodeWalk(i) == ToDr(i) \o Shift(Fill(1, WordBits), 0, TRUE) \o <<Go(1), Go(0)>>

\* The cycles of JTAG Sequence: TMS stays as it is for an item.
SequenceWalk(items) ==
  FlattenSeq([i \in 1..Len(items) |->
                [c \in 1..Len(items[i].tdi) |->
                   [tms |-> items[i].tms, tdi |-> items[i].tdi[c], read |-> items[i].capture]]])

(***************************************************************************)
(* The commands.                                                           *)
(***************************************************************************)
Idle == phase = "none"

\* As Configure, for any number of devices.
TrustingConfigure(n, lens) ==
  /\ Idle
  /\ count' = n
  /\ described' = (Len(lens) = n /\ lens = chain)
  /\ UNCHANGED <<board, length, before, after, command, phase, todo, bits>>

\* JTAG Configure for n devices, of whose lengths lens arrived: with too many
\* devices the command is refused; with too few lengths it fails after the first
\* loop has stored what there is.
Configure(n, lens) ==
  /\ Idle
  /\ n <= MaxDevices
  /\ LET known == [i \in 1..MaxDevices |-> IF i <= Len(lens) THEN lens[i] ELSE length[i]]
     IN  /\ count' = n
         /\ length' = known
         /\ before' = [i \in 1..MaxDevices |->
                         IF i <= Len(lens) THEN Before(i, lens) ELSE before[i]]
         /\ after' = [i \in 1..MaxDevices |->
                        IF i <= n /\ Len(lens) = n
                          THEN Before(n + 1, lens) - Before(i + 1, lens) ELSE after[i]]
         /\ described' = (Len(lens) = n /\ lens = chain)
  /\ UNCHANGED <<board, command, phase, todo, bits>>

\* A transfer by device index i - 1 with instruction code, request bits RnW, A2
\* and A3 and a word.  That the state machine is in Run-Test/Idle is assumed: a host
\* that has walked it elsewhere brings it back first.
Transfer(i, code, request, word) ==
  /\ Idle /\ tap = "idle"
  /\ i <= count
  /\ command' = [kind |-> "transfer", device |-> i, code |-> code, request |-> request,
                 word |-> word]
  /\ phase' = "ir" /\ todo' = SetIrWalk(i, code)
  /\ bits' = <<>> /\ updates' = <<>>
  /\ UNCHANGED <<chain, ir, path, offer, tap, config>>

JtagIdcode(i) ==
  /\ Idle /\ tap = "idle"
  /\ i <= count
  /\ command' = [kind |-> "idcode", device |-> i, code |-> IrIdcode]
  /\ phase' = "ir" /\ todo' = SetIrWalk(i, IrIdcode)
  /\ bits' = <<>> /\ updates' = <<>>
  /\ UNCHANGED <<chain, ir, path, offer, tap, config>>

\* Bytes of an item of n cycles.
BytesOf(n) == (n + ByteBits - 1) \div ByteBits

CapturedBytes(items) ==
  FoldLeft(+, 0, [i \in 1..Len(items) |-> IF items[i].capture THEN BytesOf(Len(items[i].tdi)) ELSE 0])

\* The first k items, and of the one after them the first m bytes.
UpTo(items, k, m) ==
  SubSeq(items, 1, k) \o
  IF m = 0 THEN <<>>
  ELSE LET x == items[k + 1]
       IN  <<[x EXCEPT !.tdi = SubSeq(@, 1, Min({m * ByteBits, Len(@)}))]>>

\* What is clocked of a request that ends too early, and up to the byte for which
\* the response has no room.
Cuts(items) ==
  LET parts == UNION {{UpTo(items, k, m) : m \in 0..BytesOf(Len(items[k + 1].tdi))} :
                        k \in 0..(Len(items) - 1)}
  IN  {c \in parts : \/ CapturedBytes(c) <= ResponseSpace /\ c # items
                     \/ CapturedBytes(c) = ResponseSpace + 1 /\ Last(c).capture}

\* As PackedByte, without the move to the final position.
LoosePackedByte(b) == FoldLeft(LAMBDA t, x : (t \div 2) + x * Pow2[ByteBits - 1], 0, b)

\* Bits b, which come in at the top of a byte and are moved to its bottom.
PackedByte(b) ==
  FoldLeft(LAMBDA t, x : (t \div 2) + x * Pow2[ByteBits - 1], 0, b) \div Pow2[ByteBits - Len(b)]

\* The data of the response when bits b have been captured: each item begins a byte.
Packed(items, b) ==
  LET n == [i \in 1..Len(items) |-> IF items[i].capture THEN Len(items[i].tdi) ELSE 0]
  IN  FlattenSeq([i \in 1..Len(items) |->
        [k \in 1..BytesOf(n[i]) |->
           PackedByte(SubSeq(b, Before(i, n) + (k - 1) * ByteBits + 1,
                                Before(i, n) + Min({k * ByteBits, n[i]})))]])

JtagSequence(items) ==
  /\ Idle
  /\ \/ CapturedBytes(items) <= ResponseSpace /\ phase' = "sequence" /\ todo' = SequenceWalk(items)
     \/ phase' = "short" /\ \E c \in Cuts(items) : todo' = SequenceWalk(c)
  /\ command' = [kind |-> "sequence", items |-> items]
  /\ bits' = <<>> /\ updates' = <<>>
  /\ UNCHANGED <<chain, ir, path, offer, tap, config>>

\* The next cycle of the walk.  Nobody drives TDO but while bits are shifted: it
\* is pulled up.
Cycle ==
  /\ todo # <<>>
  /\ Clock(Head(todo).tms, Head(todo).tdi)
  /\ bits' = IF Head(todo).read THEN Append(bits, IF Shifting THEN path[1] ELSE 1) ELSE bits
  /\ todo' = Tail(todo)
  /\ UNCHANGED <<config, command, phase>>

\* transfer_response_ack_ok, whose two low bits are those of JTAG swapped.
Acknowledged == bits[2] + 2 * bits[1] + 4 * bits[3] = 1

Reading == command.request[1] = 1

\* A part of the walk has ended, and the next one is planned.
Plan ==
  /\ todo = <<>>
  /\ \/ /\ phase = "ir" /\ command.kind = "transfer"
        /\ phase' = "ask" /\ todo' = AskWalk(command.device, command.request)
     \/ /\ phase = "ask"
        /\ phase' = IF Acknowledged THEN "data" ELSE "refused"
        /\ todo' = (IF Acknowledged
                      THEN DataWalk(command.device, Reading, command.word)
                      ELSE RefusedWalk) \o EndWalk
     \/ /\ phase = "ir" /\ command.kind = "idcode"
        /\ phase' = "idcode" /\ todo' = IdcodeWalk(command.device)
  /\ UNCHANGED <<board, config, command, bits>>

\* The command is answered.
Answer ==
  /\ todo = <<>> /\ phase \in {"data", "refused", "idcode", "sequence", "short"}
  /\ command' = NoCommand /\ phase' = "none" /\ bits' = <<>>
  /\ offer' = NoOffer /\ updates' = <<>>
  /\ UNCHANGED <<chain, ir, path, tap, config, todo>>

-----------------------------------------------------------------------------
Requests == {<<rnw, a, 1 - a>> : rnw \in {0, 1}, a \in {0, 1}}

Next ==
  \/ \E c \in Configs : \E n \in 0..Len(c) : Configure(Len(c), SubSeq(c, 1, n))
  \/ \E i \in 1..MaxDevices : \E code \in {IrAbort, IrDpacc, IrApacc} :
       \E r \in Requests, w \in Words : Transfer(i, code, r, w)
  \/ \E i \in 1..MaxDevices : JtagIdcode(i)
  \/ \E s \in Sequences : JtagSequence(s)
  \/ Cycle \/ Plan \/ Answer

Spec == Init /\ [][Next]_vars

(***************************************************************************)
(* Properties.                                                             *)
(***************************************************************************)
Bit == {0, 1}

\* Types: what the chain holds fits its registers, and the probe's arrays have
\* one entry per device the probe can know.
TypeOK ==
  /\ chain \in Chains /\ tap \in DOMAIN Tap
  /\ DOMAIN ir = Devices /\ \A d \in Devices : ir[d] \in [1..chain[d] -> Bit]
  /\ path \in Seq(Bit) /\ bits \in Seq(Bit)
  /\ offer.ack \in 0..7 /\ offer.word \in Words \cup {0}
  /\ count \in 0..MaxDevices
  /\ \A a \in {length, before, after} : a \in [1..MaxDevices -> Nat]
  /\ phase \in {"none", "ir", "ask", "data", "refused", "idcode", "sequence", "short"}
  /\ \A i \in 1..Len(todo) : todo[i].tms \in Bit /\ todo[i].tdi \in Bit

\* Every walk of the probe's own ends where it began, in Run-Test/Idle, whatever
\* the target acknowledges: the next walk assumes it (comments of jtag_set_ir and
\* jtag_transfer).  A host that walks by JTAG Sequence has to see to it itself.
EndsIdle == todo = <<>> /\ phase \in {"ir", "data", "refused", "idcode"} => tap = "idle"

\* Once an instruction is set the device asked for has it and all others are
\* bypassed, wherever on the chain it is and whatever the lengths of the others.
IrIsSet ==
  described /\ todo = <<>> /\ phase \in {"ir", "ask", "data", "refused", "idcode"} =>
    \A d \in Devices :
      IF d = command.device THEN ir[d] = BitsOf(command.code, chain[d]) ELSE Bypassed(d)

\* A transfer to a debug port that acknowledges gives it exactly the request and,
\* writing, exactly the word, and reading returns exactly the word it offers; one
\* that makes the probe wait is given nothing; and no other device's register is
\* ever written.
TransferIsExact ==
  described /\ todo = <<>> /\ phase \in {"data", "refused"} /\
  chain[command.device] = DpLength =>
    /\ phase = "data" <=> offer.ack = JtagOk
    /\ phase = "refused" => updates = <<>>
    /\ phase = "data" =>
         /\ Len(updates) = 1
         /\ updates[1].device = command.device
         /\ SubSeq(updates[1].bits, 1, 3) = command.request
         /\ IF Reading THEN ValueOf(SubSeq(bits, 4, 3 + WordBits)) = offer.word
                       ELSE ValueOf(SubSeq(updates[1].bits, 4, 3 + WordBits)) = command.word

\* The identity reported is that of the device asked for.
IdcodeIsRight ==
  described /\ todo = <<>> /\ phase = "idcode" /\ chain[command.device] >= DpLength =>
    ValueOf(bits) = Idcode(command.device)

\* A scan by JTAG Sequence that begins with a reset of the state machine, and
\* shifts n bits out of the data registers.
Ones(n) == Fill(1, n)
Scan(n) ==
  LET Item(tms, k, capture) == [tms |-> tms, tdi |-> Ones(k), capture |-> capture]
  IN  <<Item(1, 5, FALSE), Item(0, 1, FALSE), Item(1, 1, FALSE), Item(0, 2, FALSE),
        Item(0, n - 1, TRUE), Item(1, 1, TRUE), Item(1, 1, FALSE), Item(0, 1, FALSE)>>

\* The bits a host takes from the n cycles of an item at the start of bytes.
Unpacked(bytes, n) ==
  [c \in 1..n |-> (bytes[((c - 1) \div ByteBits) + 1] \div Pow2[(c - 1) % ByteBits]) % 2]

\* Wherever the state machine is left, such a scan reads the identities of all
\* devices, the one of index 0 first, from the bytes of the response: each
\* item begins a byte of its own, with the first bit lowest, and the last byte of
\* an item may hold fewer bits (dap_handle_cmd_jtag_sequence).
ScanReadsIdentities ==
  todo = <<>> /\ phase = "sequence" =>
    \A n \in 2..(MaxDevices * WordBits) :
      command.items = Scan(n) =>
        LET bytes == Packed(command.items, bits)
            read == Unpacked(bytes, n - 1) \o Unpacked(<<Last(bytes)>>, 1)
        IN  /\ Len(bytes) = BytesOf(n - 1) + 1
            /\ \A d \in Devices : d * WordBits <= n =>
                 ValueOf(SubSeq(read, (d - 1) * WordBits + 1, d * WordBits)) = Idcode(d)
=============================================================================
