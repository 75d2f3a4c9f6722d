--------------------------------- MODULE Vcp ---------------------------------
(***************************************************************************)
(* The virtual COM port: firmware/src/vcp/vcp.c and vcp/usb.c.  Bytes go    *)
(* from the UART to the host through rx, and back through tx, two ring      *)
(* buffers between the UART interrupt handler and USB transfers.            *)
(*                                                                         *)
(* Three contexts run in the probe:                                        *)
(*   - the handler vcp_uart_isr, one action per pass through one of its    *)
(*     two halves, which may run between any two statements of the others; *)
(*   - the work queues (q), on which usb_work_handler and the callbacks    *)
(*     vcp_usb_write_cb and vcp_usb_read_cb run one after the other, cut    *)
(*     where the handler or a reset in between makes a difference;         *)
(*   - the status callback (st), which resets the driver when the bus is   *)
(*     reset or the cable is gone, wherever the work queues are.           *)
(*                                                                         *)
(* Bytes are numbered in each direction, in the order they are sent.       *)
(***************************************************************************)
EXTENDS Integers, SequencesExt

CONSTANTS
  Size,          (* VCP_RING_BUF_SIZE                                        *)
  Mps,           (* VCP_BULK_EP_MPS                                          *)
  FifoDepth,     (* receive FIFO of the UART                                 *)
  MaxRx, MaxTx,  (* bounds: bytes that arrive at the UART, that hosts send   *)
  ZeroPackets    (* whether hosts send packets without data                  *)

ASSUME SizesAreLegal ==
  /\ Size \in Nat \ {0} /\ FifoDepth \in Nat \ {0} /\ Mps \in Nat \ {0, 1}
  /\ MaxRx \in Nat /\ MaxTx \in Nat /\ ZeroPackets \in BOOLEAN

\* What a cell of a ring holds that nobody has written.
Junk == 0

VARIABLES
  configured,             (* data->configured                                  *)
  usb,                    (* whether the device is configured by a host        *)
  st,                     (* what the status callback does next                *)
  q, size,                (* what the work queues do next; size of a callback  *)
  work,                   (* data->rx_work is submitted                        *)
  rxIrq, txIrq,           (* receive and transmit interrupts of the UART       *)
  fifo,                   (* bytes received by the UART and not read           *)
  rx, rxAt, rxClaimed,    (* rx_rbuf: bytes, index of the first, how many of   *)
                          (* them are claimed                                  *)
  inBusy, inData,         (* transfer to the host, and its bytes               *)
  tx, txAt,               (* tx_rbuf: bytes, index of the first                *)
  region, outAt, outBusy, (* cells claimed behind them, where in them the      *)
                          (* transfer from the host writes, whether there is one *)
  rxSent, rxSeen, rxFrom, rxHost, gap, (* history: bytes arrived, read from the *)
                          (* FIFO, and read before this session; what its host *)
                          (* got; whether bytes were dropped                   *)
  txSent, txFrom, wire    (* history: bytes sent by hosts, and before this     *)
                          (* session; what the UART transmitted in it          *)

control == <<configured, usb, st>>
queue == <<q, size, work>>
rxRing == <<rx, rxAt, rxClaimed>>
rxHist == <<rxSent, rxSeen, rxFrom, rxHost, gap>>
inVars == <<inBusy, inData>>
txRing == <<tx, txAt, region, outAt>>
txHist == <<txSent, txFrom, wire>>
vars == <<control, queue, rxIrq, txIrq, fifo, rxRing, rxHist, inVars, txRing, outBusy, txHist>>

Init ==
  /\ configured = FALSE /\ usb = "off" /\ st = "none"
  /\ q = "none" /\ size = 0 /\ work = FALSE
  /\ rxIrq = FALSE /\ txIrq = FALSE /\ fifo = <<>>
  /\ rx = <<>> /\ rxAt = 0 /\ rxClaimed = 0
  /\ inBusy = FALSE /\ inData = <<>>
  /\ tx = <<>> /\ txAt = 0 /\ region = <<>> /\ outAt = 0 /\ outBusy = FALSE
  /\ rxSent = 0 /\ rxSeen = 0 /\ rxFrom = 0 /\ rxHost = <<>> /\ gap = FALSE
  /\ txSent = 0 /\ txFrom = 0 /\ wire = <<>>

\* Of n cells of a ring that follow index at, those before the end of its memory.
Contiguous(at, n) == Min({n, Size - at})

Drop(s, n) == SubSeq(s, n + 1, Len(s))

\* The bytes after the n-th up to the m-th, in order.
From(n, m) == [i \in 1..(m - n) |-> n + i]

(***************************************************************************)
(* The UART.                                                               *)
(***************************************************************************)
ByteArrives ==
  /\ rxSent < MaxRx
  /\ rxSent' = rxSent + 1
  /\ IF Len(fifo) < FifoDepth
       THEN fifo' = Append(fifo, rxSent') /\ UNCHANGED gap
       ELSE gap' = TRUE /\ UNCHANGED fifo
  /\ UNCHANGED <<control, queue, rxIrq, txIrq, rxRing, rxSeen, rxFrom, rxHost, inVars, txRing,
                 outBusy, txHist>>

\* The receiving half of vcp_uart_isr.  Drivers may report received data while
\* only the transmit interrupt is enabled.  Without space the FIFO is flushed.
IsrReceive ==
  /\ rxIrq \/ txIrq
  /\ fifo # <<>>
  /\ LET space == Contiguous((rxAt + Len(rx)) % Size, Size - Len(rx))
         read  == Min({space, Len(fifo)})
     IN  IF space = 0
           THEN /\ fifo' = <<>> /\ rxSeen' = Last(fifo) /\ gap' = TRUE
                /\ UNCHANGED <<rx, work>>
           ELSE /\ rx' = rx \o SubSeq(fifo, 1, read)
                /\ fifo' = Drop(fifo, read) /\ rxSeen' = fifo[read]
                /\ work' = TRUE
                /\ UNCHANGED gap
  /\ UNCHANGED <<control, q, size, rxIrq, txIrq, rxAt, rxClaimed, rxSent, rxFrom, rxHost, inVars,
                 txRing, outBusy, txHist>>

\* As IsrTransmit, where all that was claimed is taken out of the ring.
GreedyTransmit ==
  /\ txIrq /\ tx # <<>>
  /\ \E n \in 1..Contiguous(txAt, Len(tx)) :
       /\ wire' = wire \o SubSeq(tx, 1, n)
       /\ tx' = Drop(tx, Contiguous(txAt, Len(tx)))
       /\ txAt' = (txAt + Contiguous(txAt, Len(tx))) % Size
  /\ UNCHANGED <<control, queue, rxIrq, txIrq, fifo, rxRing, rxHist, inVars, region, outAt, outBusy,
                 txSent, txFrom>>

\* The transmitting half: with nothing to send it disables itself.
IsrTransmit ==
  /\ txIrq
  /\ IF tx = <<>>
       THEN txIrq' = FALSE /\ UNCHANGED <<tx, txAt, wire>>
       ELSE \E n \in 1..Contiguous(txAt, Len(tx)) :
              /\ wire' = wire \o SubSeq(tx, 1, n)
              /\ tx' = Drop(tx, n) /\ txAt' = (txAt + n) % Size
              /\ UNCHANGED txIrq
  /\ UNCHANGED <<control, queue, rxIrq, fifo, rxRing, rxHist, inVars, region, outAt, outBusy,
                 txSent, txFrom>>

(***************************************************************************)
(* From the ring to the host.                                              *)
(***************************************************************************)

\* usb_work_handler up to its transfer: it sends what it can claim, less one byte
\* where that would fill whole packets.
HandlerClaim ==
  /\ q = "none" /\ work
  /\ work' = FALSE
  /\ LET n == Contiguous((rxAt + rxClaimed) % Size, Len(rx) - rxClaimed)
         sent == IF n % Mps = 0 THEN n - 1 ELSE n
     IN  IF inBusy \/ n = 0
           THEN UNCHANGED <<q, rxClaimed, inData>>
           ELSE /\ q' = "send"
                /\ rxClaimed' = rxClaimed + n
                /\ inData' = SubSeq(rx, rxClaimed + 1, rxClaimed + sent)
  /\ UNCHANGED <<control, size, rxIrq, txIrq, fifo, rx, rxAt, rxHist, inBusy, txRing, outBusy,
                 txHist>>

\* As HandlerSend, again and again until there is a host.
PersistentSend ==
  /\ q = "send"
  /\ q' = IF usb = "on" THEN "none" ELSE "send"
  /\ inBusy' = (usb = "on")
  /\ UNCHANGED <<control, size, work, rxIrq, txIrq, fifo, rxRing, rxHist, inData, txRing, outBusy,
                 txHist>>

\* usb_transfer, which starts nothing without a host.
HandlerSend ==
  /\ q = "send"
  /\ q' = "none"
  /\ IF usb = "on" THEN inBusy' = TRUE /\ UNCHANGED inData
                   ELSE inData' = <<>> /\ UNCHANGED inBusy
  /\ UNCHANGED <<control, size, work, rxIrq, txIrq, fifo, rxRing, rxHist, txRing, outBusy, txHist>>

\* The transfer ends, of whose bytes the host has got n.
UsbIn(n) ==
  /\ inBusy /\ q = "none" /\ n <= Len(inData)
  /\ inBusy' = FALSE /\ inData' = <<>>
  /\ rxHost' = rxHost \o SubSeq(inData, 1, n)
  /\ q' = "wrote" /\ size' = n
  /\ UNCHANGED <<control, work, rxIrq, txIrq, fifo, rxRing, rxSent, rxSeen, rxFrom, gap, txRing,
                 outBusy, txHist>>

\* As WriteDone, where the claim is not given back.
WriteDoneHeld ==
  /\ q = "wrote"
  /\ rx' = Drop(rx, size) /\ rxAt' = (rxAt + size) % Size
  /\ q' = IF rx' = <<>> THEN "none" ELSE "resubmit"
  /\ UNCHANGED <<control, size, work, rxIrq, txIrq, fifo, rxClaimed, rxHist, inVars, txRing, outBusy,
                 txHist>>

\* As WriteDone, where all that was claimed counts as sent.
WriteDoneWhole ==
  /\ q = "wrote"
  /\ rx' = Drop(rx, rxClaimed) /\ rxAt' = (rxAt + rxClaimed) % Size /\ rxClaimed' = 0
  /\ q' = IF rx' = <<>> THEN "none" ELSE "resubmit"
  /\ UNCHANGED <<control, size, work, rxIrq, txIrq, fifo, rxHist, inVars, txRing, outBusy, txHist>>

\* As WriteDone, leaving the rest of the ring to the next byte.
WriteDoneOnce ==
  /\ q = "wrote"
  /\ rx' = Drop(rx, size) /\ rxAt' = (rxAt + size) % Size /\ rxClaimed' = 0
  /\ q' = "none"
  /\ UNCHANGED <<control, size, work, rxIrq, txIrq, fifo, rxHist, inVars, txRing, outBusy, txHist>>

\* vcp_usb_write_cb: what was sent leaves the ring, the rest of the claim is given
\* back; a size beyond the claim is an error and changes nothing.
WriteDone ==
  /\ q = "wrote"
  /\ IF size > rxClaimed
       THEN q' = "none" /\ UNCHANGED rxRing
       ELSE /\ rx' = Drop(rx, size) /\ rxAt' = (rxAt + size) % Size /\ rxClaimed' = 0
            /\ q' = IF rx' = <<>> THEN "none" ELSE "resubmit"
  /\ UNCHANGED <<control, size, work, rxIrq, txIrq, fifo, rxHist, inVars, txRing, outBusy, txHist>>

WriteResubmit ==
  /\ q = "resubmit"
  /\ q' = "none" /\ work' = TRUE
  /\ UNCHANGED <<control, size, rxIrq, txIrq, fifo, rxRing, rxHist, inVars, txRing, outBusy, txHist>>

(***************************************************************************)
(* From the host to the ring.                                              *)
(***************************************************************************)

\* The transfer ends with n bytes of the host in the cells it was given.  A
\* packet without data ends it too, as does any packet if it has no cells.
UsbOut(n) ==
  /\ outBusy /\ q = "none"
  /\ n <= Len(region) - outAt
  /\ n = 0 => ZeroPackets \/ Len(region) = outAt
  /\ txSent + n <= MaxTx
  /\ txSent' = txSent + n
  /\ region' = [i \in 1..Len(region) |->
                  IF i \in (outAt + 1)..(outAt + n) THEN txSent + i - outAt ELSE region[i]]
  /\ outBusy' = FALSE
  /\ q' = "read" /\ size' = n
  /\ UNCHANGED <<control, work, rxIrq, txIrq, fifo, rxRing, rxHist, inVars, tx, txAt, outAt,
                 txFrom, wire>>

\* As ReadDone, where the transmit interrupt is left as it is.
ForgetfulReadDone ==
  /\ q = "read"
  /\ tx' = tx \o SubSeq(region, 1, size) /\ region' = <<>> /\ outAt' = 0
  /\ q' = "claim"
  /\ UNCHANGED <<control, size, work, rxIrq, txIrq, fifo, rxRing, rxHist, inVars, txAt, outBusy,
                 txHist>>

\* vcp_usb_read_cb: bytes, if any, enter the ring, as many as were claimed at most.
ReadDone ==
  /\ q = "read"
  /\ IF size \in 1..Len(region)
       THEN /\ tx' = tx \o SubSeq(region, 1, size) /\ region' = <<>> /\ outAt' = 0
            /\ q' = "enable"
       ELSE q' = "claim" /\ UNCHANGED <<tx, region, outAt>>
  /\ UNCHANGED <<control, size, work, rxIrq, txIrq, fifo, rxRing, rxHist, inVars, txAt, outBusy,
                 txHist>>

ReadEnable ==
  /\ q = "enable"
  /\ q' = "claim" /\ txIrq' = TRUE
  /\ UNCHANGED <<control, size, work, rxIrq, fifo, rxRing, rxHist, inVars, txRing, outBusy, txHist>>

\* The next transfer is given the free cells behind those already claimed.
ReadClaim ==
  /\ q = "claim"
  /\ LET used  == Len(tx) + Len(region)
         space == Contiguous((txAt + used) % Size, Size - used)
     IN  region' = region \o [i \in 1..space |-> Junk]
  /\ outAt' = Len(region)
  /\ outBusy' = (usb = "on")
  /\ q' = "none"
  /\ UNCHANGED <<control, size, work, rxIrq, txIrq, fifo, rxRing, rxHist, inVars, tx, txAt, txHist>>

(***************************************************************************)
(* vcp_usb_status_cb.                                                      *)
(***************************************************************************)
EmptyRings ==
  /\ rx' = <<>> /\ rxAt' = 0 /\ rxClaimed' = 0
  /\ tx' = <<>> /\ txAt' = 0 /\ region' = <<>> /\ outAt' = 0

\* A host configures the device: vcp_configure, then the first vcp_usb_read_cb.
\* It takes the host longer than the work queues need to come to rest.
Configure ==
  /\ usb = "off" /\ st = "none" /\ q = "none" /\ ~work
  /\ usb' = "on"
  /\ EmptyRings
  /\ rxIrq' = TRUE
  /\ configured' = TRUE
  /\ q' = "claim"
  /\ rxSeen' = (IF fifo = <<>> THEN rxSent ELSE fifo[1] - 1) /\ rxFrom' = rxSeen' /\ rxHost' = <<>>
  /\ gap' = (fifo # From(rxFrom', rxSent))
  /\ txFrom' = txSent /\ wire' = <<>>
  /\ UNCHANGED <<st, size, work, txIrq, fifo, inVars, outBusy, rxSent, txSent>>

\* The bus is reset or the cable is gone: the USB stack drops its transfers and
\* calls the status callback, which runs vcp_reset.
BusReset ==
  /\ usb = "on"
  /\ usb' = "off"
  /\ inBusy' = FALSE /\ outBusy' = FALSE
  /\ inData' = IF inBusy THEN <<>> ELSE inData
  /\ st' = "rx"
  /\ UNCHANGED <<configured, queue, rxIrq, txIrq, fifo, rxRing, rxHist, txRing, txHist>>

ResetRx ==
  /\ st = "rx" /\ st' = "tx"
  /\ configured' = FALSE /\ rxIrq' = FALSE
  /\ UNCHANGED <<usb, queue, txIrq, fifo, rxRing, rxHist, inVars, txRing, outBusy, txHist>>

ResetTx ==
  /\ st = "tx" /\ st' = "rings"
  /\ txIrq' = FALSE
  /\ UNCHANGED <<configured, usb, queue, rxIrq, fifo, rxRing, rxHist, inVars, txRing, outBusy,
                 txHist>>

ResetRings ==
  /\ st = "rings" /\ st' = "cancel"
  /\ EmptyRings
  /\ UNCHANGED <<configured, usb, queue, rxIrq, txIrq, fifo, rxHist, inVars, outBusy, txHist>>

\* k_work_cancel, until usb_work_handler is not running.
ResetCancel ==
  /\ st = "cancel"
  /\ work' = FALSE
  /\ st' = IF q = "send" THEN "cancel" ELSE "none"
  /\ UNCHANGED <<configured, usb, q, size, rxIrq, txIrq, fifo, rxRing, rxHist, inVars, txRing,
                 outBusy, txHist>>

-----------------------------------------------------------------------------
Queue ==
  \/ HandlerClaim \/ HandlerSend \/ WriteDone \/ WriteResubmit
  \/ ReadDone \/ ReadEnable \/ ReadClaim

Status == ResetRx \/ ResetTx \/ ResetRings \/ ResetCancel

Environment ==
  \/ ByteArrives \/ Configure \/ BusReset
  \/ \E n \in 0..Size : UsbIn(n) \/ UsbOut(n)

Next == Queue \/ Status \/ IsrReceive \/ IsrTransmit \/ Environment

\* The work queues run what they have, and a callback that has begun goes on.
Spec == Init /\ [][Next]_vars /\ WF_vars(Queue) /\ WF_vars(Status)

(***************************************************************************)
(* Properties.                                                             *)
(***************************************************************************)

\* Types, and the bounds of the rings with what is claimed of them.
TypeRx ==
  /\ fifo \in Seq(Nat \ {0}) /\ Len(fifo) <= FifoDepth
  /\ rx \in Seq(Nat) /\ rxClaimed \in 0..Len(rx) /\ Len(rx) <= Size /\ rxAt \in 0..(Size - 1)
  /\ inData \in Seq(Nat)

TypeTx ==
  /\ tx \in Seq(Nat) /\ region \in Seq(Nat) /\ outAt \in 0..Len(region)
  /\ Len(tx) + Len(region) <= Size /\ txAt \in 0..(Size - 1)

TypeHist ==
  /\ rxHost \in Seq(Nat) /\ wire \in Seq(Nat)
  /\ rxSent \in Nat /\ rxSeen \in Nat /\ rxFrom \in Nat /\ txSent \in Nat /\ txFrom \in Nat

TypeControl ==
  /\ usb \in {"off", "on"}
  /\ st \in {"none", "rx", "tx", "rings", "cancel"}
  /\ q \in {"none", "send", "wrote", "resubmit", "read", "enable", "claim"}
  /\ size \in 0..Size
  /\ configured \in BOOLEAN /\ work \in BOOLEAN /\ rxIrq \in BOOLEAN /\ txIrq \in BOOLEAN
  /\ inBusy \in BOOLEAN /\ outBusy \in BOOLEAN /\ gap \in BOOLEAN

TypeOK == TypeRx /\ TypeTx /\ TypeHist /\ TypeControl

\* What has still to be sent to the host: a transfer that has just ended is in
\* the ring until its callback has run.
Unsent == IF q = "wrote" THEN Drop(rx, size) ELSE rx

\* The host gets the bytes of the UART in order and none twice, and those of its
\* own session only; what it got and what is in the ring is all there was, unless
\* bytes were dropped for want of space (vcp.c:75-84).
RxInOrder ==
  configured =>
    LET got == rxHost \o Unsent
    IN  /\ \A i \in 1..Len(got) : got[i] > (IF i = 1 THEN rxFrom ELSE got[i - 1])
        /\ ~gap => got = From(rxFrom, rxSeen)

\* Bytes for the host are never left waiting: the handler is submitted or running,
\* or a transfer is under way whose callback submits it (usb.c:158-163).
RxNeverStalls ==
  usb = "on" /\ rx # <<>> => work \/ inBusy \/ q \in {"send", "wrote", "resubmit"}

\* The UART transmits the bytes of the host of this session, all of them, in order
\* and once: each is on the wire, in the ring, or about to enter it.
TxInOrder ==
  configured => /\ IsPrefix(wire \o tx, From(txFrom, txSent))
                /\ q # "read" => wire \o tx = From(txFrom, txSent)

\* Bytes for the UART are never left waiting: the transmit interrupt, which the
\* handler disables by itself, is enabled whenever there is something to send
\* (vcp.c:103-105, usb.c:216).
TxNeverStalls == usb = "on" /\ tx # <<>> => txIrq \/ q = "enable"

\* vcp_reset always returns: its wait for the work handler ends (vcp.c:51-53).
ResetEnds == st # "none" ~> st = "none"

\* usb.c:211 says that at vcp_usb_read_cb "the data will already exist in the
\* buffer from the previous read_cb call": that it is where the ring takes it from.
DataIsInBuffer ==
  configured /\ q = "read" /\ size > 0 => SubSeq(region, 1, size) = From(txSent - size, txSent)
=============================================================================
