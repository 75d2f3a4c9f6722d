# riceprobe in TLA+

riceprobe is a CMSIS-DAP debug probe: firmware on Zephyr that lets a host debug a
target over JTAG or SWD, read its SWO trace, talk to its UART through a virtual
COM port and drive spare pins. This directory models the parts of the firmware
whose correctness depends on order, interleaving and failure, checks them with
TLC on small instances, and proves the results that matter most with TLAPS for
every value of the constants. `PROJECT.json` lists the components, the runs, the
lines each definition stands for, the hazards and the theorems.

## The system

| component | state it keeps | operations | who it meets |
|---|---|---|---|
| DAP thread (`dap/dap.c`) | selected transport, request and response ring buffers, the count and flag of the request loop | choose a transport, receive, handle a request of one or more packets, send, reset | transports, all commands |
| DAP transports (`dap/transport_tcp.c`, `transport_usb.c`) | listening and connected socket; USB configured flag, transfer status | configure, recv, send, USB status callback, transfer callbacks | DAP thread, network and USB stacks |
| SWO capture (`dap/commands_swo.c`, `swo_uart_isr`) | mode, rate, capture/error/overrun flags, trace ring buffer, UART interrupt enables | mode, baudrate, control, data; UART interrupt | connect, disconnect, reset, target |
| General commands (`dap/commands_general.c`) | port, pin directions, LEDs, TCK delay | connect, disconnect, host status, delay, reset target, SWJ pins/clock/sequence | pins, SWO capture |
| Transfer (`dap/commands_transfer.c`) | idle cycles, retry limits, match mask, selected TAP | configure, transfer, block transfer, write abort | JTAG and SWD wires |
| JTAG (`dap/commands_jtag.c`) | chain: count, index, IR lengths before and after each TAP | sequence, configure, idcode, set IR | transfer |
| SWD (`dap/commands_swd.c`) | turnaround cycles, data phase flag | configure, sequence | transfer |
| Virtual COM port (`vcp/`) | two ring buffers, UART configuration, transfer and poll state | UART interrupt, USB callbacks, work items, reset | UART, USB stack |
| IO driver (`io/`) | pin function and flags, request and response buffers | request loop, GPIO and pin commands | USB transport, pins |
| UTF-8, NVS, USB descriptors, start-up | converted strings, serial number and UUID | read at start-up | host descriptors |

The hard behaviours: interrupt handlers and USB callbacks that run between any two
statements of a thread and share its flags and ring buffers without a lock; hosts
that disconnect at any point of a request; requests split over packets; the posted
(pipelined) reads of JTAG and of SWD access ports, with retries and cancelled
requests; buffers at their limit. `hazards` in `PROJECT.json` lists each of them
at its line, with the properties that cover it.

What makes each part correct, in one line: the thread answers each well-formed
request with exactly its replies, never serves one host with another's port and
always lets go of a host that has left; trace capture runs only where it may and
loses nothing without saying so; a transfer returns the data of the registers it
was asked to read, in order, and leaves the request at the next command; the TAP
walk puts every bit into the right TAP and ends in Run-Test/Idle; the COM port
neither loses nor reorders bytes and never stalls.

## Modules

### SwoCapture

`dap->swo`, the trace ring buffer and the registers of the UART, shared by the DAP
thread and `swo_uart_isr`. The handler is one action (`Isr`): it runs whole,
between any two statements of the thread. The thread's commands are cut into one
action per statement that the handler can tell apart, named by `pc`:
`OnFlags`, `OnRing`, `OnErr`, `OnRx` are the four statements of
`swo_capture_control(dap, true)`, `OffRx`, `OffErr`, `OffFlags` those that stop
capture, `Copy` and `Again` a pass of the loop of `swo_data` and its condition,
`ResetBegin` to `ResetRing` the statements of `dap_reset`. What the handler cannot
see is done in one step (`Finish`, `SwoBaudrate`). The pin controller and
`uart_configure` may fail wherever the code checks for it. The bytes of the target
are numbered in the order they are sent; `sent`, `lost` and `out` are history.
Requests that are refused or cut short change nothing and are left out; so are
`swo_transport`, which stores nothing, and the two status commands, which only
read. A driver may or may not report received data while its receive interrupt is
masked; `Isr` allows both.

### DapThread (TLC: MCDapThread)

The thread of `dap.c`, the transports of `transport_tcp.c` and `transport_usb.c`,
a USB host and TCP clients that connect, send and leave when they please. `pc`
names the call the thread is in: `tcp`, `usb` and `sleep` are the loop over the
transports, then `recv`, `handle` (one action per pass of the loop of
`dap_handle_request`), `send` and `reset`. `UsbConfigure`, `UsbLost`,
`UsbSuspend`, `UsbResume` are the events of `dap_usb_status_cb`; `UsbOut` and
`UsbIn` the completion of a transfer with its callback. The request buffer is
modelled as the array it is (`mem`, `put`, `get`), because bytes of earlier
packets stay in it and the thread looks at the byte at which it placed the last
packet. A byte is a number below `Wrap` (256 in the code), so that counts of
commands wrap as `uint8_t` does. A command is one byte: `Connect` for one that
changes the driver, `Info` for one that does not, any other byte fails.

What is abstracted: the wait on the transfer semaphore is the poll of
`dap_usb_configured` that follows each of its timeouts; a completed transfer and
its callback are one step, as the callback runs to its end before the thread does;
a claim left open by a failed finish is not modelled (it needs an empty TCP packet
with one byte of room left); a failing command leaves the request buffer as it is,
since it is reset before anything reads it again; TCP delivers whole packets and
`send` does not block.

### Transfer (TLC: MCTransfer)

The handlers of Transfer, TransferBlock and WriteAbort, one action per attempt on
the wire and per decision between two of them, and a target that answers each
attempt with OK, WAIT, FAULT or damaged data as it likes (`Answers`). The target
performs an access (`accesses` is the history of them) and, over JTAG and for the
access port, hands the value over with the next one (`posted`). What its
instruction register selects (`ir`) is its own, apart from what the handler
believes (`lastIr`), and a read of RDBUFF counts as no access only if it goes to
the debug port. `sent` is the command of the host; it may be cut short (`whole`),
and another one follows it in the same request (`Following`).

What is abstracted: a request byte and a word of 32 bits are one unit each, so
that a word met where a request should be is parsed as one; an acknowledgement
that is none of OK, WAIT and FAULT is a fault. `TransferConfigure` sets the two
retry limits between commands (`waitRetries`, `matchRetries`); its idle cycles are
part of the wire, so they are in the two modules below. The request of the last word of a posted block stays a read, so it is
left as it is in `request`. A block read of zero words over a posting port
accesses its register once; `BlockIsExact` speaks of blocks with words. The
mismatch bit is ORed onto a failed acknowledgement too, as in the code.

### JtagChain (TLC: MCJtagChain)

The wire below `Transfer`, for JTAG: `jtag_set_ir`, `jtag_transfer`, JTAG Configure,
JTAG IDCODE and JTAG Sequence. The probe plans a walk, a sequence of clock cycles with
TMS, TDI and whether TDO is read, and gives one to the chain per step. The chain is
IEEE 1149.1: one state machine for all devices (`tap`), and while it shifts, all
registers in one `path`. A register is captured, shifted and updated only as the
state machine says, so a walk with one cycle too many or too few leaves bits in a
neighbour's register, or ends in another state. Test-Logic-Reset selects the identity
registers. A debug port captures an acknowledgement and a word (`offer`) and records
what is written to it (`updates`). Words have `WordBits` bits, 32 in the code, bytes
`ByteBits`. `described` says that the last JTAG Configure was complete and agrees with
the chain that is attached.

A JTAG Sequence is what the host makes of it: it may leave the TAP in any state. The
walks of the firmware do not look at the state they begin in, so a transfer or IDCODE
is begun with the TAP in Run-Test/Idle, as the debuggers leave it. On a port other
than JTAG the bytes of a sequence are taken from the request and nothing is clocked.
A sequence may be cut short in the request, and its captured bits may not fit into the
response.

### SwdPort (TLC: MCSwdPort)

The wire below `Transfer`, for SWD, and the pins of the whole port: `swd_transfer`,
`DAP_SWD_Configure`, `DAP_SWD_Sequence`, `DAP_SWJ_Sequence`, `DAP_SWJ_Pins`,
`DAP_Connect`, `DAP_Disconnect` and the pins in `dap_reset`. A handler works through a
`script` of operations on the pins, one step each, and continues with another one when
it knows the acknowledgement. `out` are the pins configured as outputs, `level` what
they are given; a pin that is no output drives nothing. The target is a serial wire
debug port (external): it hears the line at each rising edge of SWCLK, takes eight bits
for a request, answers it as it likes, drives and turns the line around cycle by cycle
(`plan`), and is lost after a request that is none until `ResetBits` ones come. Between
two resynchronisations one bit of a transfer may arrive inverted (`Flips`), in either direction,
but none of the idle cycles behind it (`Idling`): a one there is a start bit that was not sent.

What is abstracted: the host begins transfers only after a sequence that left the
target idle (`synced`), and configures turnaround and data phase as the target has
them; waiting for nRESET and reading pins change nothing. A sequence may be cut short.

### Vcp

The two ring buffers of the COM port, the UART handler, the work queue with
`usb_work_handler` and both transfer callbacks, and `vcp_usb_status_cb`. A handler
action is one pass through its receiving or transmitting half; it runs between any
two statements of the others. The work queues are cooperative in Zephyr: what runs
on them runs to its end before the next item does (`q` says where it is), but both
the UART handler and the status callback can come in between. The rings are
modelled with their positions, because a claim ends where their memory ends, and
tx with the cells that are claimed behind its bytes (`region`), because a claim
that is not finished stays. Bytes are numbered in each direction; `rxFrom` and
`txFrom` mark where the present session began.

What is assumed of the USB stack: it drops its transfers without a callback before
it reports a reset; it starts none without a host; a transfer with no cells to
write to ends with size 0; and a host takes longer to configure a device than the
work queues need to come to rest. Suspend is left out: the
code ignores it and what a transfer does then is up to the stack. So is the line
coding, whose setting touches neither ring nor flag.

### Io (TLC: MCIo)

The IO driver: `io_thread_fn` and `io_handle_request`, the USB transport with a host
that may leave at any time, the commands that configure and control pins. A unit of the
request buffer is a command or the head of a group. A command works through `steps`,
each of which configures one GPIO or multiplexes one pin, so that what the pins drive
in between is seen; any step may fail (`Failing`). `num` and `queued` are the count and
the flag of the request loop, which wrap and carry over from group to group. A wait of
`gpio_ctrl` looks at its input and the time once per step. `outputs` is a history:
the pins that the last commands for them made outputs.

What is abstracted: a packet that ends within a group is seen as such, a command whose
arguments are cut short is `Bad`; commands that only report or wait are `Info`;
open-drain and active-low flags are left out, they do not decide who drives.

### Utf8

`utf8.c` as pure operators: `Encode` and the decoder, and putting a number into a
ring buffer and getting it out again. It has no state; `MCIo` evaluates
`NumbersComeBack`, an assumption about numbers around every change of size, and
`IoProofs` proves it for all of them.

## Runs

| run | what it asks | result |
|---|---|---|
| `swo_capture` | handler, target and every command interleaved: `CaptureOnlyOnSwo`, `CaptureMeansArmed`, `NoSilentGap`, bounds (`TypeOK`), every command ends (`CommandsEnd`) | holds |
| `dap_thread` | `Reply`: a well-formed request gets exactly the replies of its commands; `PortIsMine`: no host is served with a port another one opened; `UsbSessionEnds`, `TcpSessionEnds`: a host that left is let go of | holds |
| `dap_resume` | `transport.h:9`: configure "checks if a transport is ready" | violated: not ready for ever after suspend and resume |
| `transfer` | `DataInOrder`, `AccessesAsAsked`, `MatchIsReal`: what a Transfer reads, accesses and matches; `BlockIsExact`: one access per word of a block; `RestIsNext`: the request is left at the next command; `CommandEnds`; `IsAtomicPort`: it implements `DebugPort` | holds |
| `transfer_read_data` | `test_transfer.c:32`: the word read is in the response | violated: it goes into the request buffer |
| `transfer_match_value` | `commands_transfer.c:345`: "match value already stored in transfer_data" | violated after a posted read, whose value replaces it |
| `jtag_chain` | `EndsIdle`, `IrIsSet`, `TransferIsExact`, `IdcodeIsRight`: each walk ends where it began and reaches the device asked for and no other; `ScanReadsIdentities`: a JTAG Sequence that scans a chain returns its identity codes | holds |
| `swd_port` | `NoContention`: probe and target never drive SWDIO at once; `OnlyAsked`, `AnswerIsTrue`: what the target does is what it was asked for and what the answer says, although a bit is inverted; `StaysInSync`; `DisabledIsHiZ` | holds |
| `io` | `DrivenOnRequest`: no pin drives its line for a moment unless a command wants it to; `RequestIsDone`: every command of a request once, in order, with its reply; `RequestEnds` | holds |
| `io_pulls` | `commands_pinctrl.c:148`: "the same pull up/down flags are set" for pin and GPIO | violated: the flags of the pin are added to those it had |
| `vcp` | `RxInOrder`, `TxInOrder`: every byte once, in order, in its session; `RxNeverStalls`, `TxNeverStalls`: nothing waits without a wake-up; `ResetEnds` | holds |
| `vcp_zero_packet` | `usb.c:211`: "the data will already exist in the buffer from the previous read_cb call" | violated after a packet without data |

Bounds. `swo_capture`: a ring of 3 bytes, a response with room for 2, a FIFO of 2
and 5 bytes sent. The ring fills and overruns, wraps, and is drained in two
pieces; the FIFO overflows; the second pass of the copy loop meets a full
response. `max_count` of 1 and 3 lie on both sides of that room. `dap_thread`:
two TCP clients and USB, three packets, a buffer of 7 bytes with packets of 4, so
that one queued packet and one final packet fit, a second queued packet leaves
less room than a packet needs, and a count of commands can wrap (`Wrap` is 5).
`MaxSends` is the only bound on behaviour; `Deadlock` checking stays on except
where a configuration says otherwise.
`transfer`: no retries, as after a reset of this instance, until TransferConfigure allows
two after WAIT and one of a match; commands of up to three transfers that mix posted and direct reads,
matches, masks and writes, whole and cut at every unit, so that limits are met and
passed, also by a match inside a posted read; room for two words in either
buffer, so that a third does not fit. `jtag_chain`: a debug port alone, between a
longer and a shorter instruction register, and next to another debug port, so that
there are devices before, behind, on both sides and on none; words of three bits,
since first, middle and last bit are what the code tells apart; scans of one to three
identities in bytes of two bits, so that the last byte of an item is partly filled and
the longest scan does not fit into the response. `vcp`: rings of
three bytes and packets of two, a FIFO of two; four bytes in each direction fill a
ring, wrap it, and overrun it; resets are not bounded.
`swd_port`: words of 8 bits and a line reset of 24 ones, longer than any run of ones in
a transfer, as 50 is in the code; turnarounds of one and two cycles, both data phases,
reads and writes of every register of either port, two idle cycles, and one bit inverted in
any cycle from the start bit to the last bit of the data, in either direction. It is not
inverted while the line idles behind a transfer: with two idle cycles or more, a zero that
arrives as a one is a start bit, and what follows may be read as a well-formed request that
nobody sent. Nothing in the protocol or in the code protects from that, and `NoContention` does
not hold then. `io`: two pins with
one function besides GPIO, requests of up to three packets out of 13 that hold every
kind of command, groups of zero, one and two commands, a broken command in the middle
of a group, and a packet without data; a request buffer of 6 units and a response of
4, so that both overflow; counts that wrap at 4. `io_pulls` needs one pin and no
failures.

Fairness. `swo_capture` assumes weak fairness of the statements of a command that
has begun: the thread is scheduled again and no statement blocks. Nothing is
assumed of the host, the target or the interrupt: the copy loop has to end however
often the handler runs. `dap_thread` assumes weak fairness of the thread, which
Zephyr runs whenever it is not blocked; hosts, cables and transfers promise
nothing. `transfer` assumes weak fairness of the handler: an attempt on the wire is
a bounded number of clock cycles that the probe makes itself. `vcp` assumes it of
the work queues and of the status callback, whose items never block; nothing of the
host or the UART. `io` assumes it of the steps for
which its thread waits for nobody; a wait ends since the time goes by at every look.
`jtag_chain` and `swd_port` check safety only: they have no loop that could go on.

## Proofs

`SwoCaptureProofs` proves, for all values of the constants that satisfy the
assumptions of `SwoCapture` (positive sizes, positive rates), `Types`,
`CaptureOnlyOnSwoHolds`, `PinFollowsPortHolds`, `CaptureMeansArmedHolds` and
`NoSilentGapHolds`.

`TypeOK` is inductive together with `OnTrack` (the statement the thread is at
belongs to the command it runs): the clamp of `Claim` keeps the copy loop inside
the response and the handler's clamp keeps the ring inside its size.

`CaptureOnlyOnSwo` is not inductive: from an arbitrary state in which the thread is
about to enable an interrupt nothing says that the port is still SWD.
`CaptureInv` says, for each place of the thread, what has been established:
while capture is being started the port is SWD and the mode UART, while it is
being stopped the interrupts go off one by one, and the port, the pin and the mode
only change (`finish`) once both are off. `PinFollowsPort` and
`CaptureMeansArmed` are parts of it.

`NoSilentGap` speaks of what the host has read and what is buffered; a step of the
handler also depends on what waits in the UART. `GapInv` therefore takes the three
together (`Line`): increasing, and complete up to the last byte sent unless the
UART lost a byte, the overrun flag is up, or the thread is between clearing the
flag and emptying the ring. Two sequence lemmas (what dropping the end of a
complete sequence, and moving its head into another one, preserve) carry the proof.

`VcpProofs` proves, for all values of the constants that satisfy `SizesAreLegal`,
`Types`, `RxNeverStallsHolds`, `TxNeverStallsHolds`, `RxInOrderHolds` and, under the
assumption that hosts send no packet without data, `TxInOrderHolds`. With such packets
a claim is left open (finding of `vcp_zero_packet`), and `RegionInv` does not hold.

None of the four is inductive. `SessionInv` says that the steps of `vcp_reset` happen
without a host and without transfers, and that the driver is not configured while
the rings are being emptied; every other argument needs it, because a reset may come
between a claim and its callback.

`RxNeverStalls` fails in a state in which all bytes of the ring are claimed and no
callback will give them back: the handler would find nothing to send, and stop.
`ClaimInv` excludes it: with a host, and outside the steps from the claim to the
callback's finish, nothing is claimed. It also says that what a transfer sends is the
head of the ring (`Covered`), so that the finish takes away what was sent.

`RxInOrder` speaks of what the host got and what is in the ring, but the handler moves
bytes there from the FIFO of the UART. `LineInv` takes the three as one sequence:
increasing, within the session, and complete as long as nothing was dropped. The order
part survives a drop since it does not ask for completeness. `RegionInv` says for the
other direction that a transfer writes to the first claimed cell, and that the
bytes on the wire and in the ring are those sent before the transfer under way.

`DapThreadProofs` proves `TypeCorrect` and `PortBelongsToTheSession` (`PortIsMine`). The
port is closed only by `dap_reset`, so the proof needs what `PortInv` adds: while the
thread looks for a transport the port is closed, and in every other place it has a
transport whose host opened whatever port is open; each way out of a session leads
through the reset. The types include the bounds of both buffers: a packet is accepted
only as far as there is room (`AcceptKeepsBuffers`), an error resets the response before
it is put there (`FailKeepsBuffers`), and counts wrap.

`RequestsAreAnswered` (`Reply`) is about whole requests. `Stream(b, k)` is what the first `k`
packets of a request put into the buffer and `Replies(b, k)` what they answer; that the first
byte of each packet tells its kind (`FirstByteTells`) makes the thread stop receiving after
the last packet and not before. While packets arrive the buffer holds the stream of those
received (`Loaded`); over USB the transfer moves the whole packet, since what the protocol
allows fits into the room that is left (`TransferIsWhole`). While the request is handled
(`Handling`) the place in the buffer, the count of commands, the flag of queued groups and
the response are those of one point of the request: between two packets (`Between`) or
behind the first `j` commands of packet `k` (`Past`), where all commands so far were good.
A step moves to the next such point (`CommandRuns`, `HandleInside`, `HandleBetween`), ends the
request with all its replies behind the last command of the last packet (`WholeRequest`), or
fails at the first bad command (`FailedRequest`).

`SequenceLemmas` holds what several of the proofs need of sequences and what needs induction.
The induction theorems of the library take the statement as an operator, which the
provers cannot instantiate; with the statement as the set of numbers it holds for
(`InductionOnSet`), induction follows from the well-foundedness of the natural numbers. By it the
recursive definitions of the library get their meaning: flattening joins one sequence
after the other (`FlattenAppends`, `FlattenConcatenates`, `FlattenBegins`), and folding with
`+` adds up (`SumAppends`, `SumConcatenates`).

`SwdPortProofs` proves six theorems. `DisabledPortIsHiZ` needs `HasSequences` (no
`DAP_SWD_Sequence` without sequences): `HiZInv` says that off the SWD port a script holds
only operations that configure no pin, and between commands there is none; a `Configure`
comes only between commands. Without it a script begun on the SWD port could make SWDIO
an output after a disconnect.

`PinsAndWordsAreTyped` (`TypeOK`) is where `Transferred` takes the first `WordBits` bits
of what was read. `Reading` counts them: what has been read and what is left of the
script make up a word and its parity bit (`TypeInv`). The types of the target's plan need
in turn that a request or an answer is never cut short by a reset of the line: `OnesInv`
bounds the ones in a row in each state of the target, by the zeros in its
acknowledgement and in the stop bit (`LowEnough`), and `ResetIsLonger` leaves room
for a word and two turnarounds.

`TransfersStayInSync` (`StaysInSync`), `TransfersNeverContend` (`NoContention`),
`OnlyWhatIsAsked` (`OnlyAsked`) and `AnswersAreTrue` (`AnswerIsTrue`) come from `SyncInv`, which
relates the probe's script to the target's plan cycle by cycle. Both are indexed from their
end (`Left`), so that a step, which takes the first element of each, leaves the others in
their places. Before the acknowledgement (`Asking`) the bits heard are a prefix of the
request asked, so it is found well formed (`RequestArrives`, on the parity of four bits), and
the operation `i` from the end meets the slot `i` behind `Follow(k)` of the answer `k`; the bits
read are a prefix of `k`, but for the one that may be inverted. After it (`Following`) a script
has one shape for all answers: cycles, the output, levels, `b` cycles, `z` zeros and a level;
`CyclesLeft` says how many of them the target counts, and `FollowPlan` that the last `b` of its
slots are none in which it drives or turns. Each of the scripts of `swd_transfer` is an
instance of that shape (`ReadScriptIs`, `WriteScriptIs`, `RefusedScriptIs`), with as many cycles
as the target has slots.

One inverted bit may come at any place, and each has a case of its own. In the request it
makes one the target does not take for one (`AskingInVain`): a bit that differs spoils the
parity, the stop or the park bit (`WrongBit`), a start bit that was lost makes it begin late,
with the stop bit in the wrong place (`LateStart`); then nothing answers and the ones of the
pulled-up line are read. In the acknowledgement it makes one that is none, since each two of
them differ in two bits, and the probe clocks through a data phase without driving. A target
that reads or has refused spends its cycles meanwhile (`FollowingNothing`); one that
expects a word takes ones (`FollowingOnes`), whose parity is wrong for a word of evenly
many bits (`WordsAreEven`, 32 in the code); one that is done earlier takes the ones for the
beginning of a request with a one for its stop bit (`FollowingInVain`). In the data, what has
been read or heard is the word with its parity but for one bit (`Nearly`): `Damaged` finds
it, or the target does not write. `WordsAreEven` also asks for eight bits, so that
a word is no shorter than a request. What is left at the end is `Ended`.

`IoProofs` proves `BuffersAreBounded` (`TypeOK`), `PinsAreDrivenOnRequest`
(`DrivenOnRequest`) and `RequestsAreDone` (`RequestIsDone`), from `SizesAreLegal` and `PacketsAreLegal`. The types hold the bounds
of both buffers: an argument is taken only if it is there and a byte is put only if there
is room for it, in each of the commands and in the refusals. For the pins, the invariant relates the
steps left of a command to what has been done: a pin whose configuration as an input has
been taken off the list is an input, a pin that is to become a GPIO is on the list only
behind it, and the steps of `gpio_cfg` touch only pins in `outputs`. It covers the reset
at the end of a session, which is a list of the same kind over all pins.

`RequestsAreDone` (`RequestIsDone`) is about whole requests, whatever has failed before. While
packets are received the buffer holds all of them, as long as they can still be the beginning
of a well-formed request (`Open`: each announces another, and all fit); once the loop
runs they are that no longer, so no later packet makes a request of them. While a well-formed request is handled, what
has been taken from the buffer, the replies and the commands run are those of one point of it
(`Taken`): between two packets (`Between`) or after the first `j` commands of one (`Inside`).
Count and flag tell which: within a packet the count is that of the commands to come
and the flag whether another packet follows; between packets the count is zero and the flag
is set, which is where the loop takes the next head (`GroupEnded`). A command that is
started takes its place in the request (`GroupBegins`, `PlainBegins`, `PlainGoesOn`), its reply
leads to the next point or to the end (`ReplyKeepsRequest`), and a request that breaks off
does so at an unknown command or for want of room (`BetweenBreaks`, `InsideBreaks`). Where
packet `k` begins, in the request and in what is asked, is the length of all before it
(`Reach` in `SequenceLemmas`).

`IoProofs` also proves, of `Utf8`, that what is put into a buffer as a number is what is got out of it,
whatever follows (`PutIsGot`), and that the bytes of no number begin those of another
(`NoAmbiguity`), for every code point. The argument is that four digits in base 64 make up
a number and that the first byte announces how many there are.

`TransferProofs` proves `RetriesAndBuffersAreBounded` (`TypeOK`) and
`RequestIsLeftAtTheNextCommand` (`RestIsNext`) for any commands, requests, limits and
buffer sizes that satisfy the assumptions of `Transfer`. `TypeInv` adds what types alone
do not give: between commands nothing has been tried yet, so that a new limit cannot be
below a count; the handler's idea of the instruction register is right once it has one; and
a transfer is taken only when there is one. `RestInv` says for each place of the handler
what is still in the buffer: the rest of the command (`LeftOf`: told by the count for a
Transfer, by the count and the direction for a block), then the next command, then the
words read so far. Taking or cancelling a transfer drops exactly its item
(`ItemIsDropped`); skipping the words not written drops all that is left, since a block is
shorter than the 16 bit count of bytes wraps at. A command that ends
with the error for a full or a short buffer is not covered: it ends the request.

`TransferInv` adds the history of the accesses: `Fresh`, `Placed` and `OfKind` say at
which places nothing has been accessed yet and to which kind of command a place belongs;
`HistoryInv` says which transfer the last access belongs to, what the handler holds of
its request and word, how many accesses a match may have made (`Behind`, `FewAccesses`)
and that a transfer counted as a match has seen its value. `AccessesAreThoseAskedFor`
(`AccessesAsAsked`) and `MatchesAreReal` (`MatchIsReal`) are parts of it. `BlocksAreExact`
(`BlockIsExact`) comes from `BlockInv`, which ties the words taken or put so far to the
accesses one by one; a posted block is one access ahead of its words until the last.

`CommandsImplementAtomicPort` is the refinement of `DebugPort` (`IsAtomicPort`): the initial
states map to its initial states, and each action to an access, a failure, an answer, a
new command or a stutter (one lemma `...Maps` per action). The results of the abstract
port are the words collected and, while a read is pending, the value in the target's
pipeline: an attempt that collects one read and posts the next is then a single abstract
access. `Reported` adds where the acknowledgement of the answer comes from. `WordsAreInOrder`
(`DataInOrder`) is an invariant of the abstract port (`PortOrder`: its results are the values
of the reads in its log, in order, but for the last after a failure), carried over by
the refinement.

`JtagChainProofs` proves `WalksReturn` (`EndsIdle`) for chains of any length and whatever
the host has configured. The invariant says that what is left of a walk leads
(`LeadsTo`) from the state the TAP is in to where the next part of the command begins:
Shift-DR after the acknowledgement has been read, Run-Test/Idle otherwise. A walk is
composed of parts (`WalksCompose`): cycles that stay in a state as long as TMS is low
(`StaysIn`), at least one bit that is shifted and leaves (`ShiftLeaves`), and single
cycles. An instruction register said to have no bits would make a walk that stays in
Shift-IR; that the code sets one bit then (`Max({1, length[i]})`) is what the proof needs
there.

It also proves `TypesAreKept` (`TypeOK`): the path is as long as all instruction
registers while they are shifted, so that each device finds as many bits as its register
has when they are updated (`BoardInv`, `PartIs`).

`InstructionsAreSet` (`IrIsSet`), `TransfersAreExact` (`TransferIsExact`) and
`IdentitiesAreRight` (`IdcodeIsRight`) speak of the end of a part of a command, where all its
bits are in place. `ChainInv` says how they get there. The number `n` of cycles that are
left tells everything: which cycles they are (`Counts`: a walk is indexed from its end, so
that a step leaves the others where they are), in which state the devices are (`IrTap`,
`AskTap`, `EndTap`, `IdcodeTap`), and what is on the path (`Shifts`): what was captured,
moved on by as many bits as have been shifted, and behind it those bits. The bits that were
read are the answer's, as many as could come out so far (`HasRead`, `DataRead`).
`IrInv`, `AskInv`, `DataInv`, `RefusedInv` and `IdcodeInv` say this of the parts of a command. The
last cycle of a shift puts every bit at its place; that this is the place of the right device is
a fact about sums of lengths (`BeforeIs`, `Layout`, `FlattenLayout`), and, for data registers, that
all others are bypassed and take one bit each (`OneLong`, `WhoCaptures`): an instruction
of a debug port, of at least four bits, is neither the bypass nor the identity instruction
(`CodesDiffer`). From the bits back to the number it is `ValueOfBits`, by induction on the
powers of two (`Halving`). `DescribedInv` says that the positions the probe computed are
those of the chain.

`ScansReadIdentities` (`ScanReadsIdentities`) is about a JTAG Sequence of five cycles with
TMS set, the way to Shift-DR, the scan of `n` bits and the way out. `ScanRuns` follows it by the
number `r` of cycles left: which ones they are (`ScanCycles`), the state of the TAP (`ScanTap`,
that five cycles with TMS set lead to Test-Logic-Reset from any state is `FiveReset`), that every
device has its identity instruction from the reset until the capture (`AllIdentify`), and
that what was captured are the identities, of which so many bits have left the path
(`Leaves`) and were read (`HasScanned`). That they come back as bytes is about numbers:
a byte is the sum of the bits put in at its top, moved down as often as bits are
missing (`PackedByteIs`), its bits are got back by division (`ByteOf`, `Quotient`), and the items
lie one behind the other, each beginning a new byte (`ScanPacked`, `ScanUnpacks`).

Only model-checked: the liveness properties (`CommandsEnd`, `CommandEnds`, `ResetEnds`,
`RequestEnds`, `UsbSessionEnds`, `TcpSessionEnds`), which are beyond the prover: it has no
rules for ENABLED and fairness; and what the five runs that find a violation are about.
Every other property of a run is a theorem.
`PinFollowsPort` and `CaptureInv` are proved and not run on their own.

## Not modelled

- Non-volatile storage (`nvs.c`) and the start-up in `main.c`: each is called once, in
  order, before any thread runs; the serial number and UUID are opaque.
- Status LEDs, `DAP_HostStatus` and `DAP_SWJ_Clock`: outputs that nothing reads, and a
  delay whose arithmetic is about time.
- The tables of `usb_msos.c`, which are constants behind one control request; device-tree
  macros, logging, the wording of the info strings, boards, build files and host scripts;
  `util.h`, whose helpers appear where they are called.
- The line coding and control lines of the COM port (`vcp/usb.c:30-142`): they configure
  the UART and share no state with the rings.
- TCP as a stream: packets arrive whole, and `send` does not block.
- Numbers of pins out of range. The bound checks let the number one past the end through
  (`commands_gpio.c:84`); what lies behind the table is up to the build.
- After a failure in the middle of `io_reset` the buffers keep what they hold, and the
  next session begins with it; `Io` models it (`ResetFails`) and its properties speak of
  sessions without a failure (`broken`). Likewise the test of the time that follows a
  match (`commands_gpio.c:192`) may report a timeout of a wait that succeeded: the model
  allows both answers.
- A `DAP_SWD_Sequence` of no sequences makes SWDIO an output on any port
  (`commands_swd.c:127-134`), before a port is connected too. `SwdPort` models it; the
  host of its runs sends none, and `HasSequences` excludes it in the proof.
- A bit inverted while an SWD line idles between two transfers: it may start a request that
  was not sent, and neither the protocol nor `swd_transfer` can tell.

## Plan

Done: `SwoCapture`, `DapThread`, `Vcp`, `Transfer` with the abstract `DebugPort`,
`JtagChain`, `SwdPort`, `Io` and `Utf8` with their proofs. Left, in this order:

1. `Transfer` over `SwdPort` and `JtagChain` instead of a target that answers at once.
2. The line coding of the COM port, and non-volatile storage.
