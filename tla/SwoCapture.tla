----------------------------- MODULE SwoCapture -----------------------------
(***************************************************************************)
(* Capture of the target's SWO trace: firmware/src/dap/commands_swo.c, the *)
(* parts of connect, disconnect and dap_reset that touch it, and the UART  *)
(* interrupt handler swo_uart_isr of firmware/src/dap/dap.c.               *)
(*                                                                         *)
(* Two actors share dap->swo and the ring buffer dap->buf.swo without a    *)
(* lock: the DAP thread, which runs one command at a time, and the         *)
(* interrupt handler, which runs whole between any two statements of the   *)
(* thread.  A command of the thread is therefore cut into one action per   *)
(* statement the handler can tell apart (pc names the next one); the       *)
(* handler is one action.  A third actor is the target, which sends bytes  *)
(* into the receive FIFO of the UART at any time.                          *)
(*                                                                         *)
(* The bytes of the target are numbered 1, 2, ... in the order they are    *)
(* sent, so that order and gaps can be seen in what the host receives.     *)
(***************************************************************************)
EXTENDS Integers, Sequences

CONSTANTS
  Size,         (* DAP_SWO_RING_BUF_SIZE, the capacity of dap->buf.swo        *)
  RespSpace,    (* bytes of dap->buf.response left for the data of swo_data   *)
  FifoDepth,    (* receive FIFO of the UART peripheral                        *)
  MaxBytes,     (* bound: how many bytes the target sends                     *)
  Counts,       (* the max_count arguments of swo_data that are tried         *)
  DefaultRate,  (* baud rate set by dap_reset                                 *)
  Rates         (* the baud rates the host asks for                           *)

ASSUME SizesAreLegal ==
  /\ Size \in Nat \ {0}
  /\ RespSpace \in Nat \ {0}
  /\ FifoDepth \in Nat \ {0}
  /\ MaxBytes \in Nat

ASSUME CountsAreLegal == Counts \subseteq Nat

ASSUME RatesAreLegal == DefaultRate \in Nat \ {0} /\ Rates \subseteq Nat \ {0}

VARIABLES
  port, tdo,                   (* dap->swj.port; function selected for the TDO/SWO pin  *)
  mode, baudrate,              (* dap->swo.mode, dap->swo.baudrate                      *)
  capture, error, overrun,     (* dap->swo.capture, .error, .overrun                    *)
  ring, get,                   (* bytes of dap->buf.swo; array index of the oldest one  *)
  rxIrq, errIrq, uartRate,     (* UART: interrupt enables, rate it is configured for    *)
  fifo, lineErr,               (* UART: bytes received and not read, error latched      *)
  pc, cmd, arg,                (* DAP thread: next statement, command it is running and *)
                               (* that command's argument                               *)
  max, count,                  (* swo_data: bytes asked for, bytes copied so far        *)
  sent, lost, out              (* history: bytes the target sent, bytes the FIFO could  *)
                               (* not take, bytes given to the host since the last      *)
                               (* ring_buf_reset                                        *)

link  == <<port, tdo, mode>>
rate  == <<baudrate, uartRate>>
flags == <<capture, error, overrun>>
irqs  == <<rxIrq, errIrq>>
wire  == <<fifo, lineErr, sent, lost>>
buf   == <<ring, get, out>>
call  == <<cmd, arg, max, count>>
vars  == <<link, rate, flags, irqs, wire, buf, pc, call>>

Least(a, b) == IF a < b THEN a ELSE b

(***************************************************************************)
(* Start: the state dap_init leaves behind.                                *)
(***************************************************************************)
Init ==
  /\ port = "disabled" /\ tdo = "gpio"
  /\ mode = "off"
  /\ baudrate = DefaultRate /\ uartRate = DefaultRate
  /\ capture = FALSE /\ error = FALSE /\ overrun = FALSE
  /\ ring = <<>> /\ get = 0 /\ out = <<>>
  /\ rxIrq = FALSE /\ errIrq = FALSE
  /\ fifo = <<>> /\ lineErr = FALSE /\ sent = 0 /\ lost = {}
  /\ pc = "idle" /\ cmd = "none" /\ arg = "none" /\ max = 0 /\ count = 0

(***************************************************************************)
(* The target and the UART peripheral.                                     *)
(***************************************************************************)

\* The target sends its next byte; a full FIFO loses it and latches an error.
TargetSends ==
  /\ sent < MaxBytes
  /\ sent' = sent + 1
  /\ \/ /\ Len(fifo) < FifoDepth
        /\ fifo' = Append(fifo, sent + 1)
        /\ UNCHANGED <<lineErr, lost>>
     \/ /\ Len(fifo) = FifoDepth
        /\ lost' = lost \cup {sent + 1}
        /\ lineErr' = TRUE
        /\ UNCHANGED fifo
  /\ UNCHANGED <<link, rate, flags, irqs, buf, pc, call>>

\* A framing or noise error is seen on the line.
LineError ==
  /\ ~lineErr
  /\ lineErr' = TRUE
  /\ UNCHANGED <<link, rate, flags, irqs, fifo, sent, lost, buf, pc, call>>

(***************************************************************************)
(* The interrupt handler.                                                  *)
(***************************************************************************)

\* As ReceiveLoop, but a byte that does not fit is dropped without a trace.
SilentReceiveLoop ==
  LET n == Least(Len(fifo), Size - Len(ring))
  IN  ring' = ring \o SubSeq(fifo, 1, n) /\ overrun' = overrun /\ fifo' = <<>>

\* The receive loop: what fits goes into the ring, the rest is read and dropped.
ReceiveLoop ==
  LET room == Size - Len(ring)
      n    == Least(Len(fifo), room)
  IN  /\ ring' = ring \o SubSeq(fifo, 1, n)
      /\ overrun' = IF Len(fifo) > room THEN TRUE ELSE overrun
      /\ fifo' = <<>>

\* With the receive interrupt masked a driver may or may not report the data
\* register as ready: both outcomes are allowed.
Isr ==
  /\ \/ rxIrq /\ fifo # <<>>
     \/ errIrq /\ lineErr
  /\ error' = (error \/ lineErr)
  /\ lineErr' = FALSE
  /\ \/ ReceiveLoop
     \/ ~rxIrq /\ UNCHANGED <<ring, overrun, fifo>>
  /\ UNCHANGED <<link, rate, capture, irqs, get, out, sent, lost, pc, call>>

(***************************************************************************)
(* The DAP thread: a command arrives.  A command that is refused, or one   *)
(* whose request is too short, changes nothing and is left out.            *)
(***************************************************************************)
Arrive(c, a, label) ==
  /\ pc = "idle"
  /\ pc' = label
  /\ cmd' = c /\ arg' = a

\* The handler returns: its locals are gone.
Return ==
  /\ pc' = "idle"
  /\ cmd' = "none" /\ arg' = "none" /\ max' = 0 /\ count' = 0

\* dap_connect with a powered target: capture is stopped before anything else.
Connect(p) ==
  /\ Arrive("connect", p, "off_rx")
  /\ UNCHANGED <<link, rate, flags, irqs, wire, buf, max, count>>

Disconnect ==
  /\ Arrive("disconnect", "none", "off_rx")
  /\ UNCHANGED <<link, rate, flags, irqs, wire, buf, max, count>>

\* A mode change stops the capture of the mode that is left.
SwoMode(m) ==
  /\ port = "swd"
  /\ Arrive("mode", m, IF mode = "uart" THEN "off_rx" ELSE "finish")
  /\ UNCHANGED <<link, rate, flags, irqs, wire, buf, max, count>>

\* The host asks for a rate; the UART takes it or not.
SwoBaudrate(r) ==
  /\ pc = "idle"
  /\ mode = "uart"
  /\ \/ uartRate' = r /\ baudrate' = r
     \/ uartRate' = uartRate /\ baudrate' = 0
  /\ UNCHANGED <<link, flags, irqs, wire, buf, pc, call>>

\* control = 1 starts the capture, any other value stops it.
SwoControl(start) ==
  /\ port = "swd"
  /\ start => mode = "uart"
  /\ Arrive("control", "none", IF start THEN "on_flags" ELSE "off_rx")
  /\ UNCHANGED <<link, rate, flags, irqs, wire, buf, max, count>>

SwoData(n) ==
  /\ Arrive("data", "none", "copy")
  /\ max' = n
  /\ UNCHANGED <<link, rate, flags, irqs, wire, buf, count>>

(***************************************************************************)
(* swo_capture_control(dap, true).                                         *)
(***************************************************************************)
OnFlags ==
  /\ pc = "on_flags" /\ pc' = "on_ring"
  /\ capture' = TRUE
  /\ overrun' = FALSE
  /\ UNCHANGED <<link, rate, error, irqs, wire, buf, call>>

RingReset ==
  /\ ring' = <<>>
  /\ get' = 0
  /\ out' = <<>>

OnRing ==
  /\ pc = "on_ring" /\ pc' = "on_err"
  /\ RingReset
  /\ UNCHANGED <<link, rate, flags, irqs, wire, call>>

OnErr ==
  /\ pc = "on_err" /\ pc' = "on_rx"
  /\ errIrq' = TRUE
  /\ UNCHANGED <<link, rate, flags, rxIrq, wire, buf, call>>

OnRx ==
  /\ pc = "on_rx" /\ Return
  /\ rxIrq' = TRUE
  /\ UNCHANGED <<link, rate, flags, errIrq, wire, buf>>

(***************************************************************************)
(* swo_capture_control(dap, false), and the rest of the command it is      *)
(* part of.                                                                *)
(***************************************************************************)
OffRx ==
  /\ pc = "off_rx" /\ pc' = "off_err"
  /\ rxIrq' = FALSE
  /\ UNCHANGED <<link, rate, flags, errIrq, wire, buf, call>>

OffErr ==
  /\ pc = "off_err" /\ pc' = "off_flags"
  /\ errIrq' = FALSE
  /\ UNCHANGED <<link, rate, flags, rxIrq, wire, buf, call>>

OffFlags ==
  /\ pc = "off_flags"
  /\ capture' = FALSE
  /\ error' = FALSE
  /\ IF cmd = "control" THEN Return ELSE pc' = "finish" /\ UNCHANGED call
  /\ UNCHANGED <<link, rate, overrun, irqs, wire, buf>>

\* As ConnectPort, with the port recorded even when the pin was refused.
CarelessConnectPort ==
  /\ port' = arg
  /\ \/ tdo' = IF arg = "swd" THEN "uart" ELSE "gpio"
     \/ UNCHANGED tdo

\* The pin controller may refuse the new function of the TDO/SWO pin, which
\* leaves the port as it was.
ConnectPort ==
  \/ /\ port' = arg
     /\ tdo' = IF arg = "swd" THEN "uart" ELSE "gpio"
  \/ UNCHANGED <<port, tdo>>

\* Disconnecting goes through with the port whether or not the pin follows.
DisconnectPort ==
  /\ port' = "disabled"
  /\ tdo' \in {"gpio", tdo}

Finish ==
  /\ pc = "finish" /\ Return
  /\ \/ /\ cmd = "connect"
        /\ ConnectPort
        /\ UNCHANGED mode
     \/ /\ cmd = "disconnect"
        /\ DisconnectPort
        /\ UNCHANGED mode
     \/ /\ cmd = "mode"
        /\ mode' = arg
        /\ UNCHANGED <<port, tdo>>
  /\ UNCHANGED <<rate, flags, irqs, wire, buf>>

(***************************************************************************)
(* swo_data: one pass of the loop claims what lies in one piece up to the  *)
(* end of the ring's array, at most max_count bytes and at most the room   *)
(* left in the response, and then the loop's condition is tested.          *)
(***************************************************************************)
Contiguous == Least(Len(ring), Size - get)

\* As Claim, without the clamp to the response's room.
WideClaim == Least(max, Contiguous)

Claim == Least(Least(max, Contiguous), RespSpace - count)

\* As MoreToCopy, without the test of the response's room.
Reckless == count < max /\ Len(ring) > 0

Copy ==
  /\ pc = "copy" /\ pc' = "again"
  /\ LET n == Claim
     IN  /\ out' = out \o SubSeq(ring, 1, n)
         /\ ring' = SubSeq(ring, n + 1, Len(ring))
         /\ get' = (get + n) % Size
         /\ count' = count + n
  /\ UNCHANGED <<link, rate, flags, irqs, wire, cmd, arg, max>>

MoreToCopy ==
  /\ count < max
  /\ Len(ring) > 0
  /\ count < RespSpace

Again ==
  /\ pc = "again"
  /\ IF MoreToCopy THEN pc' = "copy" /\ UNCHANGED call ELSE Return
  /\ UNCHANGED <<link, rate, flags, irqs, wire, buf>>

(***************************************************************************)
(* dap_reset, which the thread runs when its transport shuts down: the     *)
(* flags are cleared before the interrupts are disabled.                   *)
(***************************************************************************)
ResetBegin ==
  /\ Arrive("reset", "none", "reset_rx")
  /\ port' = "disabled" /\ tdo' = "gpio"
  /\ mode' = "off" /\ baudrate' = DefaultRate
  /\ capture' = FALSE /\ error' = FALSE /\ overrun' = FALSE
  /\ UNCHANGED <<uartRate, irqs, wire, buf, max, count>>

\* As ResetErr, with the error interrupt left enabled.
ForgetErrIrq ==
  /\ pc = "reset_err" /\ pc' = "reset_ring"
  /\ UNCHANGED <<link, rate, flags, irqs, wire, buf, call>>

ResetRx ==
  /\ pc = "reset_rx" /\ pc' = "reset_err"
  /\ rxIrq' = FALSE
  /\ UNCHANGED <<link, rate, flags, errIrq, wire, buf, call>>

ResetErr ==
  /\ pc = "reset_err" /\ pc' = "reset_ring"
  /\ errIrq' = FALSE
  /\ UNCHANGED <<link, rate, flags, rxIrq, wire, buf, call>>

\* uart_configure with the default rate must succeed: dap_reset aborts otherwise.
ResetRing ==
  /\ pc = "reset_ring" /\ Return
  /\ uartRate' = baudrate
  /\ RingReset
  /\ UNCHANGED <<link, baudrate, flags, irqs, wire>>

-----------------------------------------------------------------------------
Command ==
  \/ \E p \in {"swd", "jtag"} : Connect(p)
  \/ Disconnect
  \/ \E m \in {"off", "uart"} : SwoMode(m)
  \/ \E r \in Rates : SwoBaudrate(r)
  \/ \E start \in BOOLEAN : SwoControl(start)
  \/ \E n \in Counts : SwoData(n)
  \/ ResetBegin

Statement ==
  \/ OnFlags \/ OnRing \/ OnErr \/ OnRx
  \/ OffRx \/ OffErr \/ OffFlags \/ Finish
  \/ Copy \/ Again
  \/ ResetRx \/ ResetErr \/ ResetRing

Next == TargetSends \/ LineError \/ Isr \/ Command \/ Statement

\* The scheduler keeps running a command the thread has begun; nothing is
\* promised about the host, the target or the interrupt.
Spec == Init /\ [][Next]_vars /\ WF_vars(Statement)

(***************************************************************************)
(* Properties.                                                             *)
(***************************************************************************)
Cmds == {"none", "connect", "disconnect", "mode", "control", "data", "reset"}

Args == {"none", "swd", "jtag", "off", "uart"}

Labels == {"idle", "on_flags", "on_ring", "on_err", "on_rx",
           "off_rx", "off_err", "off_flags", "finish", "copy", "again",
           "reset_rx", "reset_err", "reset_ring"}

TypeBits ==
  /\ capture \in BOOLEAN /\ error \in BOOLEAN /\ overrun \in BOOLEAN
  /\ rxIrq \in BOOLEAN /\ errIrq \in BOOLEAN /\ lineErr \in BOOLEAN

TypeData ==
  /\ port \in {"disabled", "jtag", "swd"} /\ tdo \in {"gpio", "uart"}
  /\ mode \in {"off", "uart"}
  /\ baudrate \in Nat /\ uartRate \in Nat
  /\ ring \in Seq(Nat) /\ Len(ring) <= Size
  /\ get \in 0..(Size - 1)
  /\ fifo \in Seq(Nat) /\ Len(fifo) <= FifoDepth
  /\ pc \in Labels /\ cmd \in Cmds /\ arg \in Args
  /\ max \in Nat /\ count \in 0..RespSpace
  /\ sent \in 0..MaxBytes /\ lost \subseteq Nat
  /\ out \in Seq(Nat)

\* Types, and the bounds of the two buffers: the ring never holds more than
\* its size and the bytes copied never exceed the room of the response.
TypeOK == TypeData /\ TypeBits

\* The statement the thread is at belongs to the command it is running.
OnTrack ==
  /\ pc \in {"copy", "again"} => cmd = "data"
  /\ pc \in {"off_rx", "off_err", "off_flags"} =>
       cmd \in {"connect", "disconnect", "mode", "control"}
  /\ pc = "finish" => cmd \in {"connect", "disconnect", "mode"}
  /\ cmd = "connect" => arg \in {"swd", "jtag"}
  /\ cmd = "mode" => arg \in {"off", "uart"}

Resetting == pc \in {"reset_rx", "reset_err", "reset_ring"}

\* The receive interrupt is only ever enabled on an SWD port in UART mode with
\* the pin routed to the UART: no sequence of connects, disconnects, mode and
\* control commands, and no failing pin controller, leaves the handler live on
\* a pin that carries JTAG data (commands_swo.c:112, commands_general.c:191
\* and 212).  Inside dap_reset the state is already cleared when the
\* interrupts still run.
CaptureOnlyOnSwo ==
  (capture \/ ((rxIrq \/ errIrq) /\ ~Resetting)) =>
    port = "swd" /\ mode = "uart" /\ tdo = "uart"

\* The function of the shared TDO/SWO pin agrees with the port whenever a port
\* is open, even when the pin controller refused a change (goto end in
\* dap_handle_cmd_connect).
PinFollowsPort ==
  /\ port = "swd" => tdo = "uart"
  /\ port = "jtag" => tdo = "gpio"

\* The three agree: the capture flag and the two interrupt enables.
Armed == (capture <=> rxIrq) /\ (capture <=> errIrq)

\* Between commands the flag the host reads, the receive interrupt and the
\* error interrupt agree.
CaptureMeansArmed ==
  pc = "idle" => Armed

\* Why CaptureOnlyOnSwo and CaptureMeansArmed hold: what is true of the
\* interrupts at each statement of the thread.
CaptureInv ==
  /\ OnTrack
  /\ PinFollowsPort
  /\ CaptureOnlyOnSwo
  /\ pc \in {"idle", "copy", "again", "on_flags", "off_rx"} => Armed
  /\ pc \in {"on_flags", "on_ring", "on_err", "on_rx"} => port = "swd" /\ mode = "uart"
  /\ pc \in {"on_ring", "on_err", "on_rx"} => capture
  /\ pc = "on_rx" => errIrq
  /\ pc \in {"off_err", "off_flags", "finish"} => ~rxIrq
  /\ pc \in {"off_flags", "finish"} => ~errIrq
  /\ pc = "finish" \/ Resetting => ~capture
  /\ pc \in {"reset_err", "reset_ring"} => ~rxIrq
  /\ pc = "reset_ring" => ~errIrq

\* Bytes the host has read and bytes still buffered, in the order of arrival;
\* and with them the bytes that wait in the UART.
Stream == out \o ring
Line == Stream \o fifo

Increasing(s) == \A i, j \in 1..Len(s) : i < j => s[i] < s[j]

\* Byte b is in s.
In(b, s) == \E i \in 1..Len(s) : s[i] = b

\* Trace data is kept in order and never lost silently: of the bytes sent
\* between the first and the last byte of the stream each is in the stream,
\* unless the UART lost it or the overrun flag is up, and the flag stays up for
\* as long as the gap can still be read (swo_uart_isr, dap.c:54-62).
NoSilentGap ==
  pc = "idle" =>
    /\ Increasing(Stream)
    /\ Stream # <<>> /\ ~overrun =>
         \A b \in Stream[1]..Stream[Len(Stream)] : In(b, Stream) \/ b \in lost

\* Between the statement that clears the overrun flag and the one that empties
\* the ring, an old gap may still be buffered.
Clearing == pc \in {"on_ring", "reset_rx", "reset_err", "reset_ring"}

\* s holds bytes 1 to n, in order.
Ordered(s, n) == Increasing(s) /\ \A i \in 1..Len(s) : s[i] \in 1..n

\* Every byte from the first of s up to n is in s or in missing.
Complete(s, n, missing) == s # <<>> => \A b \in s[1]..n : In(b, s) \/ b \in missing

\* Why NoSilentGap holds.
GapInv ==
  /\ Ordered(Line, sent)
  /\ Complete(fifo, sent, lost)
  /\ overrun \/ Clearing \/ Complete(Line, sent, lost)

\* Every command ends: the copy loop of swo_data stops although the handler
\* keeps filling the ring and the response may fill up first.
CommandsEnd == pc # "idle" ~> pc = "idle"
=============================================================================
