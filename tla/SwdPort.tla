-------------------------------- MODULE SwdPort --------------------------------
(***************************************************************************)
(* The SWD port of firmware/src/dap, from its pins up: DAP_Connect and     *)
(* DAP_Disconnect, DAP_SWJ_Pins and DAP_SWJ_Sequence (commands_general.c), *)
(* DAP_SWD_Configure and DAP_SWD_Sequence (commands_swd.c), swd_transfer   *)
(* (commands_transfer.c) and the pins in dap_reset (dap.c).                *)
(*                                                                         *)
(* A handler works through a script of pin operations, one step each.  A   *)
(* pin that is not configured as an output keeps the level it is given but *)
(* drives nothing.  The target is external: a serial wire debug port that  *)
(* hears SWDIO at each rising edge of SWCLK, answers a well-formed request *)
(* as it likes, ignores everything after one that is not until the line is *)
(* reset, and pulls SWDIO up.  Between two resynchronisations of the line  *)
(* one bit may arrive inverted, but not while the line idles after a       *)
(* transfer: a one there starts a request, and one that happens to be well *)
(* formed; SWD does not protect against that.  An edge of SWCLK counts     *)
(* while it is driven.                                                     *)
(***************************************************************************)
EXTENDS Naturals, FiniteSets, SequencesExt

CONSTANTS
  WordBits,        (* bits of a register, 32                                       *)
  ResetBits,       (* ones that reset the line, 50                                 *)
  Words,           (* values of registers                                          *)
  Addresses,       (* what a request may ask for: access port, read, A[2], A[3]    *)
  Turnarounds,     (* what DAP_SWD_Configure may set                               *)
  IdleCycles,      (* dap->transfer.idle_cycles                                    *)
  BitSequences,    (* sequences of DAP_SWJ_Sequence                                *)
  ItemSequences,   (* sequences of DAP_SWD_Sequence, items [out, bits]             *)
  PinCommands      (* pins and levels of DAP_SWJ_Pins                              *)

Pins == {"swclk", "swdio", "tdi", "tdo", "nreset"}
Bit == {0, 1}
Ok == <<1, 0, 0>>
Wait == <<0, 1, 0>>
Fault == <<0, 0, 1>>

ASSUME SizesAreLegal ==
  /\ WordBits \in Nat \ {0} /\ ResetBits \in Nat \ {0} /\ IdleCycles \in Nat
  /\ Turnarounds \subseteq Nat \ {0} /\ 1 \in Turnarounds

\* A word that is all ones, and has a one for its parity, has the wrong parity; and
\* a word takes as many cycles as a request, at least.
ASSUME WordsAreEven == WordBits % 2 = 0 /\ WordBits >= 8

\* What is driven high between two zeros of a transfer is no reset of the line.
ASSUME ResetIsLonger == \A t \in Turnarounds : WordBits + t + 10 < ResetBits

ASSUME InputsAreLegal ==
  /\ Words \subseteq [1..WordBits -> Bit]
  /\ Addresses \subseteq [ap : Bit, read : Bit, a2 : Bit, a3 : Bit]
  /\ BitSequences \subseteq Seq(Bit)
  /\ \A s \in ItemSequences : s \in Seq([out : BOOLEAN, bits : Seq(Bit)])
  /\ \A c \in PinCommands : DOMAIN c \subseteq Pins /\ \A p \in DOMAIN c : c[p] \in Bit

VARIABLES
  port,                    (* dap->swj.port                                        *)
  turnaround, dataPhase,   (* dap->swd.turnaround_cycles, .data_phase              *)
  out, level,              (* pins configured as outputs; levels they are given    *)
  pc,                      (* what the handler does when its script is done        *)
  script,                  (* operations on the pins still to come                 *)
  got,                     (* bits read from the line                              *)
  asked, ack, result,      (* request and word, acknowledgement and word returned  *)
  target,                  (* what the target is doing                             *)
  heard,                   (* bits it has taken for a request or a word            *)
  plan,                    (* what it does in the cycles to come                   *)
  ones,                    (* ones in a row                                        *)
  done,                    (* history: accesses it has performed for the command   *)
  synced, inverted         (* history: the line was resynchronised; a bit was      *)
                           (* inverted since                                       *)

config == <<port, turnaround, dataPhase>>
pins   == <<out, level>>
reply  == <<got, asked, ack, result>>
wire   == <<target, heard, plan, ones, done>>
vars   == <<config, pins, pc, script, reply, wire, synced, inverted>>

None == [ap |-> 0, read |-> 0, a2 |-> 0, a3 |-> 0, word |-> <<>>]

Init ==
  /\ port = "disabled" /\ turnaround = 1 /\ dataPhase = FALSE
  /\ out = {} /\ level = [p \in Pins |-> 1]
  /\ pc = "idle" /\ script = <<>>
  /\ got = <<>> /\ asked = None /\ ack = <<>> /\ result = <<>>
  /\ target = "lost" /\ heard = <<>> /\ plan = <<>> /\ ones = 0 /\ done = <<>>
  /\ synced = FALSE /\ inverted = FALSE

(***************************************************************************)
(* The wire.                                                               *)
(***************************************************************************)
Parity(bits) == Cardinality({i \in DOMAIN bits : bits[i] = 1}) % 2

\* What the target does in a cycle: drive a bit, take one, let the line turn
\* around, or nothing.
Driving(b) == [act |-> "drive", bit |-> b]
Taking  == [act |-> "take", bit |-> 0]
Turning == [act |-> "turn", bit |-> 0]
Passing == [act |-> "pass", bit |-> 0]

Times(n, x) == [i \in 1..n |-> x]
DriveAll(bits) == [i \in 1..Len(bits) |-> Driving(bits[i])]

TargetDrives == target = "answer" /\ plan # <<>> /\ Head(plan).act = "drive"

\* The answer to request r: acknowledgement k and, for a read, word w.  With the
\* data phase on it follows refusals too; what is driven there means nothing.
Answer(r, k, w) ==
  LET turn == Times(turnaround, Turning)
      datum == DriveAll(Append(w, Parity(w)))
  IN  turn \o DriveAll(k) \o
      CASE k = Ok /\ r.read = 1 -> datum \o turn
        [] k = Ok /\ r.read = 0 -> turn \o Times(WordBits + 1, Taking)
        [] k # Ok /\ dataPhase /\ r.read = 1 -> datum \o turn
        [] k # Ok /\ dataPhase /\ r.read = 0 -> turn \o Times(WordBits + 1, Passing)
        [] OTHER -> turn

\* Start, APnDP, RnW, A[2:3], parity, stop and park.
Request(bits) == [ap |-> bits[2], read |-> bits[3], a2 |-> bits[4], a3 |-> bits[5]]
WellFormed(bits) ==
  bits[6] = Parity(SubSeq(bits, 2, 5)) /\ bits[7] = 0 /\ bits[8] = 1

Performed(r, w) == Append(done, [ap |-> r.ap, read |-> r.read, a2 |-> r.a2, a3 |-> r.a3,
                                 word |-> w])

Header(b) ==
  /\ heard' = Append(heard, b)
  /\ IF Len(heard') < 8 THEN UNCHANGED <<target, plan, done>>
     ELSE IF ~WellFormed(heard') THEN target' = "lost" /\ UNCHANGED <<plan, done>>
     ELSE \E k \in {Ok, Wait, Fault}, w \in Words :
            LET r == Request(heard')
            IN  /\ target' = "answer" /\ plan' = Answer(r, k, w)
                /\ done' = IF k = Ok /\ r.read = 1 THEN Performed(r, w) ELSE done

\* One cycle of an answer.  A word whose parity is right is written.
Respond(b) ==
  LET slot == Head(plan)
      last == Len(plan) = 1
      bits == SubSeq(heard, 9, Len(heard))
      word == SubSeq(bits, 1, WordBits)
      h == IF slot.act = "take" THEN Append(heard, b) ELSE heard
      data == SubSeq(h, 9, Len(h))
  IN  /\ plan' = Tail(plan)
      /\ heard' = IF last THEN <<>> ELSE h
      /\ target' = IF last THEN "idle" ELSE target
      /\ done' = IF last /\ slot.act = "take" /\ Parity(data) = 0
                   THEN Performed(Request(h), SubSeq(data, 1, WordBits)) ELSE done

\* The target hears b.
Hears(b) ==
  /\ ones' = IF TargetDrives \/ b = 0 THEN 0 ELSE IF ones < ResetBits THEN ones + 1 ELSE ones
  /\ \/ /\ ones' = ResetBits
        /\ target' = "reset" /\ heard' = <<>> /\ plan' = <<>>
        /\ UNCHANGED done
     \/ /\ ones' < ResetBits
        /\ CASE target = "idle" /\ b = 1 -> /\ target' = "header" /\ heard' = <<1>>
                                            /\ UNCHANGED <<plan, done>>
             [] target = "header" -> Header(b)
             [] target = "answer" -> Respond(b)
             [] target = "reset" -> target' = "idle" /\ UNCHANGED <<heard, plan, done>>
             [] OTHER -> UNCHANGED <<target, heard, plan, done>>

Line == IF TargetDrives THEN Head(plan).bit ELSE IF "swdio" \in out THEN level'["swdio"] ELSE 1

-----------------------------------------------------------------------------
(***************************************************************************)
(* Operations on the pins.                                                 *)
(***************************************************************************)
WriteBit(b) == [op |-> "write", bit |-> b]   \* swd_write_cycle
ReadBit == [op |-> "read", bit |-> 0]        \* swd_read_cycle
Clock   == [op |-> "clock", bit |-> 0]       \* swd_swclk_cycle
Output  == [op |-> "output", bit |-> 0]      \* SWDIO configured as GPIO_INPUT | GPIO_OUTPUT
Input   == [op |-> "input", bit |-> 0]       \* SWDIO configured as GPIO_INPUT
Level(b) == [op |-> "level", bit |-> b]      \* SWDIO is given a level, no cycle
WriteBits(bits) == [i \in 1..Len(bits) |-> WriteBit(bits[i])]

Operations == [op : {"write", "read", "clock", "output", "input", "level"}, bit : Bit]

InCycle == script # <<>> /\ Head(script).op \in {"write", "read", "clock"}

\* The last cycles of a transfer, in which the line idles.
Idling == pc = "transferred" /\ ack = Ok /\ Len(script) <= IdleCycles + 1

\* Inverting a bit of a transfer, once.
Flips == IF synced /\ ~inverted /\ asked # None /\ ~Idling THEN Bit ELSE {0}

Cycle ==
  /\ InCycle
  /\ LET o == Head(script)
     IN  /\ level' = [level EXCEPT !["swclk"] = 1,
                                   !["swdio"] = IF o.op = "write" THEN o.bit ELSE @]
         /\ \E flip \in Flips :
              LET b == (Line + flip) % 2
              IN  /\ inverted' = (inverted \/ flip = 1)
                  /\ got' = IF o.op = "read" THEN Append(got, b) ELSE got
                  /\ IF "swclk" \in out THEN Hears(b) ELSE flip = 0 /\ UNCHANGED wire
  /\ script' = Tail(script)
  /\ UNCHANGED <<config, out, pc, asked, ack, result, synced>>

SetPin ==
  /\ script # <<>> /\ ~InCycle
  /\ LET o == Head(script)
     IN  /\ out' = CASE o.op = "output" -> out \cup {"swdio"}
                     [] o.op = "input" -> out \ {"swdio"}
                     [] OTHER -> out
         /\ level' = IF o.op = "level" THEN [level EXCEPT !["swdio"] = o.bit] ELSE level
  /\ script' = Tail(script)
  /\ UNCHANGED <<config, pc, reply, wire, synced, inverted>>

(***************************************************************************)
(* swd_transfer                                                            *)
(***************************************************************************)
Turnaround == Times(turnaround, Clock)

\* The request, and the acknowledgement that comes back.
AskScript(a) ==
  WriteBits(<<1, a.ap, a.read, a.a2, a.a3, (a.ap + a.read + a.a2 + a.a3) % 2, 0, 1>>) \o
  <<Input>> \o Turnaround \o Times(3, ReadBit)

ReadScript == Times(WordBits + 1, ReadBit) \o Turnaround \o <<Output>>

\* As WriteScript, with the turnaround driven.
EagerWriteScript(w) == <<Output>> \o Turnaround \o WriteBits(w) \o <<WriteBit(Parity(w))>>

\* As WriteScript, with the last bit first.
BackwardWriteScript(w) ==
  Turnaround \o <<Output>> \o WriteBits(Reverse(w)) \o <<WriteBit(Parity(w))>>

WriteScript(w) == Turnaround \o <<Output>> \o WriteBits(w) \o <<WriteBit(Parity(w))>>

IdleScript == Times(IdleCycles, WriteBit(0)) \o <<Level(1)>>

\* As RefusedScript, without a data phase for writes.
ShortRefusedScript(a) ==
  (IF a.read = 1 /\ dataPhase THEN Times(WordBits + 1, Clock) ELSE <<>>) \o
  Turnaround \o <<Output, Level(1)>>

\* After WAIT and FAULT.
RefusedScript(a) ==
  LET data == IF dataPhase THEN Times(WordBits + 1, Clock) ELSE <<>>
  IN  (IF a.read = 1 THEN data ELSE <<>>) \o Turnaround \o <<Output>> \o
      (IF a.read = 0 /\ dataPhase THEN <<Level(0)>> \o data ELSE <<>>) \o <<Level(1)>>

\* After no answer, or one that is none.
NoAnswerScript == Turnaround \o Times(WordBits + 1, Clock) \o <<Output, Level(1)>>

\* The host resynchronises a line before it transfers over it.
SwdTransfer(a, w) ==
  /\ pc = "idle" /\ port = "swd" /\ synced
  /\ asked' = [ap |-> a.ap, read |-> a.read, a2 |-> a.a2, a3 |-> a.a3,
             word |-> IF a.read = 1 THEN <<>> ELSE w]
  /\ script' = AskScript(a)
  /\ pc' = "acknowledged"
  /\ UNCHANGED <<config, pins, got, ack, result, wire, synced, inverted>>

Acknowledged ==
  /\ pc = "acknowledged" /\ script = <<>>
  /\ ack' = got /\ got' = <<>>
  /\ script' = CASE ack' = Ok /\ asked.read = 1 -> ReadScript \o IdleScript
                 [] ack' = Ok /\ asked.read = 0 -> WriteScript(asked.word) \o IdleScript
                 [] ack' \in {Wait, Fault} -> RefusedScript(asked)
                 [] OTHER -> NoAnswerScript
  /\ pc' = "transferred"
  /\ UNCHANGED <<config, pins, asked, result, wire, synced, inverted>>

\* As Damaged, without a look at the parity.
Undamaged == FALSE

\* The word read has the wrong parity.
Damaged == Parity(got) = 1

Transferred ==
  /\ pc = "transferred" /\ script = <<>>
  /\ IF ack = Ok /\ asked.read = 1
       THEN /\ result' = SubSeq(got, 1, WordBits)
            /\ ack' = IF Damaged THEN <<>> ELSE ack
       ELSE UNCHANGED <<result, ack>>
  /\ pc' = "done"
  /\ UNCHANGED <<config, pins, script, got, asked, wire, synced, inverted>>

(***************************************************************************)
(* DAP_SWD_Configure, DAP_SWJ_Sequence, DAP_SWD_Sequence and DAP_SWJ_Pins. *)
(* The host tells the target what it configures (external).                *)
(***************************************************************************)
\* As SwdConfigure, with the number that stands for the turnaround.
SwdConfigureRaw(t, d) ==
  /\ pc = "idle" /\ turnaround' = t - 1 /\ dataPhase' = d
  /\ UNCHANGED <<port, pins, pc, script, reply, wire, synced, inverted>>

SwdConfigure(t, d) ==
  /\ pc = "idle" /\ turnaround' = t /\ dataPhase' = d
  /\ UNCHANGED <<port, pins, pc, script, reply, wire, synced, inverted>>

\* A request cut short ends with its last whole byte of bits.
Cut(bits) == {SubSeq(bits, 1, 8 * n) : n \in 0..((Len(bits) - 1) \div 8)}

SwjSequence(bits) ==
  /\ pc = "idle"
  /\ \/ pc' = "sequence" /\ script' = WriteBits(bits)
     \/ pc' = "short" /\ \E b \in Cut(bits) : script' = WriteBits(b)
  /\ UNCHANGED <<config, pins, reply, wire, synced, inverted>>

ItemScript(x) ==
  IF x.out THEN <<Output>> \o WriteBits(x.bits) ELSE <<Input>> \o Times(Len(x.bits), ReadBit)

\* On another port the items are only taken from the request.
SequenceScript(items) ==
  IF port = "swd" THEN FlattenSeq([i \in 1..Len(items) |-> ItemScript(items[i])]) ELSE <<>>

SequenceFails(items) == port # "swd" /\ items # <<>>

CutItems(items) ==
  {SubSeq(items, 1, n) : n \in 0..(Len(items) - 1)} \cup
  UNION {{Append(SubSeq(items, 1, n - 1), [out |-> TRUE, bits |-> b]) : b \in Cut(items[n].bits)} :
         n \in {m \in 1..Len(items) : items[m].out}}

SwdSequence(items) ==
  /\ pc = "idle"
  /\ \/ /\ pc' = "sequence"
        /\ script' = SequenceScript(items) \o IF SequenceFails(items) THEN <<>> ELSE <<Output>>
     \/ /\ pc' = "short"
        /\ \E s \in CutItems(items) : script' = SequenceScript(s)
  /\ UNCHANGED <<config, pins, reply, wire, synced, inverted>>

\* A sequence that leaves the target idle, and the pins ready, resynchronises.
Sequenced ==
  /\ pc \in {"sequence", "short"} /\ script = <<>>
  /\ synced' = (port = "swd" /\ "swdio" \in out /\ target = "idle")
  /\ inverted' = FALSE
  /\ pc' = "done"
  /\ UNCHANGED <<config, pins, script, reply, wire>>

\* SWCLK is set before the others; it is a clock edge when it rises.  Waiting for
\* nRESET and reading the pins changes nothing.
SwjPins(c) ==
  /\ pc = "idle"
  /\ level' = [p \in Pins |-> IF p \in DOMAIN c THEN c[p] ELSE level[p]]
  /\ IF "swclk" \in out /\ level["swclk"] = 0 /\ level'["swclk"] = 1
       THEN Hears(IF "swdio" \in out THEN level["swdio"] ELSE 1)
       ELSE UNCHANGED wire
  /\ synced' = FALSE /\ inverted' = FALSE
  /\ pc' = "done"
  /\ UNCHANGED <<config, out, script, reply>>

(***************************************************************************)
(* DAP_Connect, DAP_Disconnect, dap_reset.                                 *)
(***************************************************************************)
\* As Outputs, with nRESET driven when disabled.
HeldOutputs(p) == CASE p = "swd" -> {"swclk", "swdio", "nreset"}
                    [] p = "jtag" -> {"swclk", "swdio", "tdi", "nreset"}
                    [] OTHER -> {"nreset"}

\* Outputs of a port; each begins high.
Outputs(p) == CASE p = "swd" -> {"swclk", "swdio", "nreset"}
                [] p = "jtag" -> {"swclk", "swdio", "tdi", "nreset"}
                [] OTHER -> {}

Configure(p) ==
  /\ port' = p
  /\ out' = Outputs(p)
  /\ level' = [x \in Pins |-> IF x \in out' THEN 1 ELSE level[x]]
  /\ synced' = FALSE /\ inverted' = FALSE

\* Without target voltage, if the pins cannot be multiplexed or for a port there
\* is not, nothing is configured.
Connect ==
  /\ pc = "idle" /\ pc' = "done"
  /\ \/ \E p \in {"swd", "jtag"} : Configure(p)
     \/ UNCHANGED <<port, pins, synced, inverted>>
  /\ UNCHANGED <<turnaround, dataPhase, script, reply, wire>>

Disconnect ==
  /\ pc = "idle" /\ pc' = "done"
  /\ Configure("disabled")
  /\ UNCHANGED <<turnaround, dataPhase, script, reply, wire>>

\* The session is over: dap_reset, between two requests.
Reset ==
  /\ pc = "idle" /\ UNCHANGED pc
  /\ Configure("disabled")
  /\ turnaround' = 1 /\ dataPhase' = FALSE
  /\ UNCHANGED <<script, reply, wire>>

Answered ==
  /\ pc = "done" /\ pc' = "idle"
  /\ got' = <<>> /\ asked' = None /\ ack' = <<>> /\ result' = <<>> /\ done' = <<>>
  /\ UNCHANGED <<config, pins, script, target, heard, plan, ones, synced, inverted>>

-----------------------------------------------------------------------------
Handler == Cycle \/ SetPin \/ Acknowledged \/ Transferred \/ Sequenced \/ Answered

Next ==
  \/ Handler
  \/ \E a \in Addresses, w \in Words : SwdTransfer(a, w)
  \/ \E t \in Turnarounds, d \in BOOLEAN : SwdConfigure(t, d)
  \/ \E s \in BitSequences : SwjSequence(s)
  \/ \E s \in ItemSequences : SwdSequence(s)
  \/ \E c \in PinCommands : SwjPins(c)
  \/ Connect \/ Disconnect \/ Reset

Spec == Init /\ [][Next]_vars

(***************************************************************************)
(* Properties.                                                             *)
(***************************************************************************)
Labels == {"idle", "acknowledged", "transferred", "sequence", "short", "done"}

TypeOK ==
  /\ port \in {"disabled", "swd", "jtag"}
  /\ turnaround \in Turnarounds /\ dataPhase \in BOOLEAN
  /\ out \subseteq Pins /\ level \in [Pins -> Bit]
  /\ pc \in Labels
  /\ script \in Seq(Operations)
  /\ got \in Seq(Bit) /\ ack \in Seq(Bit) /\ result \in Seq(Bit)
  /\ target \in {"lost", "reset", "idle", "header", "answer"}
  /\ heard \in Seq(Bit) /\ ones \in 0..ResetBits
  /\ synced \in BOOLEAN /\ inverted \in BOOLEAN

Transferring == pc = "done" /\ asked # None /\ synced

\* In a transfer the probe drives SWDIO neither while the target does nor in a cycle in which
\* the line turns around, whatever the target answers and although a bit may
\* arrive inverted in the request, in the acknowledgement or in the data
\* (swd_transfer, commands_transfer.c:160-257).
NoContention ==
  synced /\ asked # None /\ "swdio" \in out /\ target = "answer" =>
    Head(plan).act # "drive" /\ (InCycle => Head(plan).act # "turn")

\* The target performs nothing but what it is asked for, once: no inverted bit
\* turns a request into another one, and the cycles the probe spends when it has
\* lost the thread are never taken for a request or a word.
OnlyAsked ==
  synced /\ asked # None =>
    /\ Len(done) <= 1
    /\ \A i \in 1..Len(done) :
         done[i] = IF asked.read = 1 THEN [asked EXCEPT !.word = done[i].word] ELSE asked

\* The acknowledgement returned is true: OK is an access that has been performed,
\* and its word the one read, WAIT and FAULT are accesses that have not been, so
\* that port_transfer may repeat them.  (A write that is acknowledged may get
\* lost in its data; the target reports that with the next transfer.)
AnswerIsTrue ==
  Transferring =>
    /\ ack = Ok => \/ Len(done) = 1 /\ asked.read = 1 /\ result = done[1].word
                   \/ asked.read = 0 /\ (Len(done) = 1 \/ inverted)
    /\ ack \in {Wait, Fault} => done = <<>>

\* Unless a bit was inverted, a transfer ends with the target idle at the very
\* cycle, and with SWDIO driven, so that the next request is heard.
StaysInSync ==
  synced /\ ~inverted /\ pc \in {"idle", "done"} => target = "idle" /\ "swdio" \in out

\* Once disabled, the port drives none of its pins (log of DAP_Disconnect,
\* commands_general.c:260: "configured port io as HiZ"; dap.c:82: "jtag / swd
\* gpios must be in a safe state on reset").
DisabledIsHiZ == port = "disabled" => out = {}
=============================================================================
