------------------------------ MODULE VcpProofs ------------------------------
(***************************************************************************)
(* Proofs about Vcp for every size of the rings, the packets and the FIFO  *)
(* and for every number of bytes.                                          *)
(*                                                                         *)
(* Each direction has its invariants.  Bytes for the UART: SessionInv and   *)
(* RegionInv, which says that a transfer writes to the cells that the ring *)
(* takes its data from.  Bytes for the host: ClaimInv, which ties what is   *)
(* claimed of the ring to the transfer it was claimed for, and LineInv, in  *)
(* which what the host has got, what is in the ring and what waits in the   *)
(* FIFO are one increasing sequence.                                       *)
(***************************************************************************)
EXTENDS Vcp, SequenceTheorems, TLAPS

LEMMA Sizes == Size \in Nat \ {0} /\ FifoDepth \in Nat \ {0}
  BY SizesAreLegal

LEMMA MinOfTwo ==
  ASSUME NEW a \in Int, NEW b \in Int
  PROVE  Min({a, b}) = IF a <= b THEN a ELSE b
  <1> DEFINE m == IF a <= b THEN a ELSE b
  <1>1. m \in {a, b} /\ \A y \in {a, b} : m <= y
    OBVIOUS
  <1>2. \A x \in {a, b} : (\A y \in {a, b} : x <= y) => x = m
    OBVIOUS
  <1> HIDE DEF m
  <1>3. Min({a, b}) = m
    BY <1>1, <1>2 DEF Min
  <1> QED
    BY <1>3 DEF m

LEMMA IndexInRing ==
  ASSUME NEW k \in Nat
  PROVE  k % Size \in 0..(Size - 1)
  BY SizesAreLegal

\* A claim of free or of used cells stays within them, and is empty only if
\* there are none: the end of the memory never keeps a claim from being made.
LEMMA ContiguousBounds ==
  ASSUME NEW at \in 0..(Size - 1), NEW n \in Nat
  PROVE  /\ Contiguous(at, n) \in 0..n
         /\ n > 0 => Contiguous(at, n) > 0
  <1>1. Size - at \in Nat \ {0}
    BY SizesAreLegal
  <1>2. Contiguous(at, n) = IF n <= Size - at THEN n ELSE Size - at
    BY <1>1, MinOfTwo DEF Contiguous
  <1> QED
    BY <1>1, <1>2

\* Parts of sequences.
LEMMA SliceIsSeq ==
  ASSUME NEW S, NEW s \in Seq(S), NEW m \in Nat \ {0}, NEW n \in Int, n <= Len(s)
  PROVE  SubSeq(s, m, n) \in Seq(S)
  OBVIOUS

LEMMA ConcatAssoc ==
  ASSUME NEW s \in Seq(Nat), NEW t \in Seq(Nat), NEW u \in Seq(Nat)
  PROVE  (s \o t) \o u = s \o (t \o u)
  BY ConcatAssociative, SMT

LEMMA DropProperties ==
  ASSUME NEW S, NEW s \in Seq(S), NEW n \in 0..Len(s)
  PROVE  /\ Drop(s, n) \in Seq(S) /\ Len(Drop(s, n)) = Len(s) - n
         /\ SubSeq(s, 1, n) \in Seq(S) /\ Len(SubSeq(s, 1, n)) = n
  BY DEF Drop

LEMMA TypeInit == Init => TypeOK
  <1>1. Init => TypeRx
    BY SizesAreLegal DEF Init, TypeRx
  <1>2. Init => TypeTx
    BY SizesAreLegal DEF Init, TypeTx
  <1>3. Init => TypeHist
    BY DEF Init, TypeHist
  <1>4. Init => TypeControl
    <2>1. 0 \in 0..Size
      BY SizesAreLegal
    <2> QED
      BY <2>1, Zenon DEF Init, TypeControl
  <1> QED
    BY <1>1, <1>2, <1>3, <1>4 DEF TypeOK

LEMMA ControlStep == TypeControl /\ [Next]_vars => TypeControl'
  <1> SUFFICES ASSUME TypeControl, [Next]_vars PROVE TypeControl'
    OBVIOUS
  <1>0. 0 \in 0..Size
    BY SizesAreLegal
  <1> USE <1>0 DEF TypeControl, control, queue, rxHist, inVars
  <1>1. CASE Queue
    <2>1. CASE HandlerClaim \/ HandlerSend
      BY <2>1, Zenon DEF HandlerClaim, HandlerSend
    <2>2. CASE WriteDone \/ WriteResubmit
      BY <2>2, Zenon DEF WriteDone, WriteResubmit
    <2>3. CASE ReadDone \/ ReadEnable \/ ReadClaim
      BY <2>3, Zenon DEF ReadDone, ReadEnable, ReadClaim
    <2> QED
      BY <1>1, <2>1, <2>2, <2>3, Zenon DEF Queue
  <1>2. CASE Status
    <2>1. CASE ResetRx \/ ResetTx
      BY <2>1, Zenon DEF ResetRx, ResetTx
    <2>2. CASE ResetRings \/ ResetCancel
      BY <2>2, Zenon DEF ResetRings, ResetCancel
    <2> QED
      BY <1>2, <2>1, <2>2, Zenon DEF Status
  <1>3. CASE IsrReceive \/ IsrTransmit
    BY <1>3, Zenon DEF IsrReceive, IsrTransmit
  <1>4. CASE Environment
    <2>1. CASE ByteArrives
      <3>1. gap' \in BOOLEAN
        BY <2>1, Zenon DEF ByteArrives
      <3>2. UNCHANGED <<usb, st, q, size>>
        BY <2>1, Zenon DEF ByteArrives
      <3>3. UNCHANGED <<configured, work, rxIrq, txIrq, inBusy, outBusy>>
        BY <2>1, Zenon DEF ByteArrives
      <3> QED
        BY <3>1, <3>2, <3>3, SMT
    <2>2. CASE Configure
      BY <2>2, Zenon DEF Configure
    <2>3. CASE BusReset
      BY <2>3, Zenon DEF BusReset
    <2>4. ASSUME NEW n \in 0..Size, UsbIn(n) PROVE TypeControl'
      BY <2>4, Zenon DEF UsbIn
    <2>5. ASSUME NEW n \in 0..Size, UsbOut(n) PROVE TypeControl'
      BY <2>5, Zenon DEF UsbOut
    <2> QED
      BY <1>4, <2>1, <2>2, <2>3, <2>4, <2>5, Zenon DEF Environment
  <1>5. CASE UNCHANGED vars
    <2>1. UNCHANGED <<usb, st, q, size>>
      BY <1>5, Zenon DEF vars
    <2>2. UNCHANGED <<configured, work, rxIrq, txIrq, inBusy, outBusy, gap>>
      BY <1>5, Zenon DEF vars
    <2> QED
      BY <2>1, <2>2
  <1> HIDE DEF TypeControl
  <1> QED
    BY <1>1, <1>2, <1>3, <1>4, <1>5, Zenon DEF Next

LEMMA RxStep == TypeOK /\ [Next]_vars => TypeRx'
  <1> SUFFICES ASSUME TypeOK, [Next]_vars PROVE TypeRx'
    OBVIOUS
  <1>0. TypeRx /\ size \in 0..Size /\ rxSent \in Nat
    BY DEF TypeOK, TypeControl, TypeHist
  <1>n. /\ size \in Nat /\ rxAt \in Nat /\ Len(rx) \in Nat /\ rxClaimed \in Nat
        /\ rxClaimed <= Len(rx) /\ Len(rx) <= Size /\ Size \in Nat \ {0} /\ Len(fifo) \in Nat
    BY <1>0, Sizes DEF TypeRx
  <1>s. rx \in Seq(Nat) /\ fifo \in Seq(Nat \ {0}) /\ inData \in Seq(Nat)
    BY <1>0 DEF TypeRx
  <1>1. CASE ByteArrives
    <2>1. /\ \/ Len(fifo) < FifoDepth /\ fifo' = Append(fifo, rxSent + 1)
             \/ fifo' = fifo
          /\ UNCHANGED <<rx, rxAt, rxClaimed, inData>>
      BY <1>1, Zenon DEF ByteArrives, rxRing, inVars
    <2>2. /\ Append(fifo, rxSent + 1) \in Seq(Nat \ {0})
          /\ Len(Append(fifo, rxSent + 1)) = Len(fifo) + 1
      BY <1>0, AppendProperties DEF TypeRx
    <2>3. fifo' \in Seq(Nat \ {0}) /\ Len(fifo') <= FifoDepth
      <3>1. Len(fifo) <= FifoDepth /\ fifo \in Seq(Nat \ {0})
        BY <1>0 DEF TypeRx
      <3>2. Len(fifo) < FifoDepth => Len(fifo) + 1 <= FifoDepth
        BY <1>n, Sizes
      <3> QED
        BY <2>1, <2>2, <3>1, <3>2
    <2> QED
      BY <1>0, <2>1, <2>3 DEF TypeRx
  <1>2. CASE IsrReceive
    <2> DEFINE space == Contiguous((rxAt + Len(rx)) % Size, Size - Len(rx))
               read  == Min({space, Len(fifo)})
    <2>1. space \in 0..(Size - Len(rx))
      <3>1. rxAt + Len(rx) \in Nat /\ Size - Len(rx) \in Nat
        BY <1>n
      <3> QED
        BY <3>1, IndexInRing, ContiguousBounds
    <2>2. read = IF space <= Len(fifo) THEN space ELSE Len(fifo)
      BY <1>n, <2>1, MinOfTwo
    <2>3. \/ fifo' = <<>> /\ rx' = rx
          \/ fifo' = Drop(fifo, read) /\ rx' = rx \o SubSeq(fifo, 1, read)
      BY <1>2, Zenon DEF IsrReceive
    <2>4. UNCHANGED <<rxAt, rxClaimed, inData>>
      BY <1>2, Zenon DEF IsrReceive, inVars
    <2> HIDE DEF space, read
    <2>5. CASE fifo' = <<>> /\ rx' = rx
      <3>1. fifo' \in Seq(Nat \ {0}) /\ Len(fifo') <= FifoDepth
        BY <2>5, Sizes, EmptySeq
      <3> QED
        BY <1>0, <2>4, <2>5, <3>1 DEF TypeRx
    <2>6. CASE fifo' = Drop(fifo, read) /\ rx' = rx \o SubSeq(fifo, 1, read)
      <3>1. read \in 0..Len(fifo) /\ read <= Size - Len(rx)
        BY <1>n, <2>1, <2>2
      <3>2. /\ fifo' \in Seq(Nat \ {0}) /\ Len(fifo') = Len(fifo) - read
            /\ SubSeq(fifo, 1, read) \in Seq(Nat \ {0}) /\ Len(SubSeq(fifo, 1, read)) = read
        BY <1>0, <2>6, <3>1, DropProperties DEF TypeRx
      <3>3. SubSeq(fifo, 1, read) \in Seq(Nat)
        BY <3>2, SeqMonotonic
      <3>4. rx' \in Seq(Nat) /\ Len(rx') = Len(rx) + read
        BY <1>0, <2>6, <3>2, <3>3, ConcatProperties DEF TypeRx
      <3>5. Len(fifo') <= FifoDepth
        BY <1>0, <1>n, <3>1, <3>2, Sizes DEF TypeRx
      <3>6. rxClaimed' \in 0..Len(rx') /\ Len(rx') <= Size
        BY <1>n, <2>4, <3>1, <3>4
      <3> QED
        BY <1>0, <2>4, <3>2, <3>4, <3>5, <3>6 DEF TypeRx
    <2> QED
      BY <2>3, <2>5, <2>6
  <1>3. CASE HandlerClaim
    <2>1. PICK n, sent :
            /\ n = Contiguous((rxAt + rxClaimed) % Size, Len(rx) - rxClaimed)
            /\ sent \in {n, n - 1}
            /\ \/ UNCHANGED <<rxClaimed, inData>>
               \/ /\ rxClaimed' = rxClaimed + n /\ n # 0
                  /\ inData' = SubSeq(rx, rxClaimed + 1, rxClaimed + sent)
      BY <1>3, Zenon DEF HandlerClaim
    <2>2. UNCHANGED <<fifo, rx, rxAt>>
      BY <1>3, Zenon DEF HandlerClaim
    <2>3. n \in 0..(Len(rx) - rxClaimed)
      <3>1. rxAt + rxClaimed \in Nat /\ Len(rx) - rxClaimed \in Nat
        BY <1>n
      <3> QED
        BY <2>1, <3>1, IndexInRing, ContiguousBounds
    <2>4. SubSeq(rx, rxClaimed + 1, rxClaimed + sent) \in Seq(Nat)
      <3>1. rxClaimed + 1 \in Nat \ {0} /\ rxClaimed + sent \in Int /\ rxClaimed + sent <= Len(rx)
        BY <1>n, <2>1, <2>3
      <3> QED
        BY <1>0, <3>1, SliceIsSeq DEF TypeRx
    <2>5. rxClaimed' \in 0..Len(rx)
      BY <1>n, <2>1, <2>3
    <2> QED
      BY <1>0, Sizes, <2>1, <2>2, <2>4, <2>5 DEF TypeRx
  <1>4. CASE WriteDone
    <2>1. UNCHANGED <<fifo, inData>>
      BY <1>4, Zenon DEF WriteDone, inVars
    <2>2. CASE ~(size > rxClaimed)
      <3>1. rx' = Drop(rx, size) /\ rxAt' = (rxAt + size) % Size /\ rxClaimed' = 0
        BY <1>4, <2>2, Zenon DEF WriteDone
      <3>2. size \in 0..Len(rx)
        BY <1>n, <2>2
      <3>3. rx' \in Seq(Nat) /\ Len(rx') = Len(rx) - size
        BY <1>s, <3>1, <3>2, DropProperties
      <3>4. rxAt' \in 0..(Size - 1)
        <4>1. rxAt + size \in Nat
          BY <1>n
        <4> QED
          BY <3>1, <4>1, IndexInRing
      <3>5. rxClaimed' \in 0..Len(rx') /\ Len(rx') <= Size
        BY <1>n, <3>1, <3>2, <3>3
      <3> QED
        BY <1>0, <2>1, <3>3, <3>4, <3>5 DEF TypeRx
    <2>3. CASE size > rxClaimed
      <3>1. UNCHANGED <<rx, rxAt, rxClaimed>>
        BY <1>4, <2>3, Zenon DEF WriteDone, rxRing
      <3> QED
        BY <1>0, <2>1, <3>1 DEF TypeRx
    <2> QED
      BY <2>2, <2>3
  <1>5. CASE \E n \in 0..Size : UsbIn(n)
    <2>1. inData' = <<>> /\ UNCHANGED <<fifo, rx, rxAt, rxClaimed>>
      BY <1>5, Zenon DEF UsbIn, rxRing
    <2> QED
      BY <1>0, Sizes, <2>1 DEF TypeRx
  <1>6. CASE Configure \/ ResetRings
    <2>1. rx' = <<>> /\ rxAt' = 0 /\ rxClaimed' = 0 /\ UNCHANGED <<fifo, inData>>
      BY <1>6, Zenon DEF Configure, ResetRings, EmptyRings, inVars
    <2> QED
      BY <1>0, Sizes, <2>1 DEF TypeRx
  <1>7. CASE HandlerSend \/ BusReset
    <2>1. inData' = inData \/ inData' = <<>>
      BY <1>7, Zenon DEF HandlerSend, BusReset
    <2>2. UNCHANGED <<fifo, rx, rxAt, rxClaimed>>
      BY <1>7, Zenon DEF HandlerSend, BusReset, rxRing
    <2>3. inData' \in Seq(Nat)
      BY <1>0, <2>1, EmptySeq DEF TypeRx
    <2> QED
      BY <1>0, <2>2, <2>3 DEF TypeRx
  <1>8. CASE UNCHANGED <<fifo, rx, rxAt, rxClaimed, inData>>
    BY <1>0, Sizes, <1>8 DEF TypeRx
  <1>9. CASE WriteResubmit \/ ReadDone \/ ReadEnable \/ ReadClaim
    BY <1>8, <1>9, Zenon DEF WriteResubmit, ReadDone, ReadEnable, ReadClaim, rxRing, inVars
  <1>10. CASE ResetRx \/ ResetTx \/ ResetCancel
    BY <1>8, <1>10, Zenon DEF ResetRx, ResetTx, ResetCancel, rxRing, inVars
  <1>11. CASE IsrTransmit \/ (\E n \in 0..Size : UsbOut(n)) \/ UNCHANGED vars
    BY <1>8, <1>11, Zenon DEF IsrTransmit, UsbOut, rxRing, inVars, vars
  <1> QED
    BY <1>1, <1>2, <1>3, <1>4, <1>5, <1>6, <1>7, <1>9, <1>10, <1>11, Zenon
    DEF Next, Queue, Status, Environment

LEMMA TxStep == TypeOK /\ [Next]_vars => TypeTx'
  <1> SUFFICES ASSUME TypeOK, [Next]_vars PROVE TypeTx'
    OBVIOUS
  <1>0. TypeTx /\ size \in 0..Size /\ txSent \in Nat
    BY DEF TypeOK, TypeControl, TypeHist
  <1>n. /\ size \in Nat /\ txAt \in Nat /\ txAt \in 0..(Size - 1) /\ Len(tx) \in Nat
        /\ Len(region) \in Nat /\ outAt \in 0..Len(region) /\ Len(tx) + Len(region) <= Size
        /\ Size \in Nat \ {0}
    BY <1>0, Sizes DEF TypeTx
  <1>s. tx \in Seq(Nat) /\ region \in Seq(Nat)
    BY <1>0 DEF TypeTx
  <1>1. CASE IsrTransmit
    <2>1. UNCHANGED <<region, outAt>>
      BY <1>1, Zenon DEF IsrTransmit
    <2>2. CASE UNCHANGED <<tx, txAt>>
      BY <1>0, <2>1, <2>2 DEF TypeTx
    <2>3. ASSUME NEW n \in 1..Contiguous(txAt, Len(tx)), tx' = Drop(tx, n),
                 txAt' = (txAt + n) % Size
          PROVE  TypeTx'
      <3>0. Contiguous(txAt, Len(tx)) \in 0..Len(tx)
        BY <1>n, ContiguousBounds
      <3>1. n \in 0..Len(tx) /\ txAt + n \in Nat
        BY <1>n, <3>0
      <3>2. tx' \in Seq(Nat) /\ Len(tx') = Len(tx) - n
        BY <1>0, <2>3, <3>1, DropProperties DEF TypeTx
      <3>3. txAt' \in 0..(Size - 1)
        BY <2>3, <3>1, IndexInRing
      <3>4. Len(tx') + Len(region) <= Size
        BY <1>n, <3>1, <3>2
      <3> QED
        BY <1>0, <2>1, <3>2, <3>3, <3>4 DEF TypeTx
    <2> QED
      BY <1>1, <2>2, <2>3, Zenon DEF IsrTransmit
  <1>2. ASSUME NEW n \in 0..Size, UsbOut(n) PROVE TypeTx'
    <2>1. /\ region' = [i \in 1..Len(region) |->
                          IF i \in (outAt + 1)..(outAt + n) THEN txSent + i - outAt ELSE region[i]]
          /\ UNCHANGED <<tx, txAt, outAt>>
      BY <1>2, Zenon DEF UsbOut
    <2>2. region' \in Seq(Nat) /\ Len(region') = Len(region)
      <3>1. region \in Seq(Nat) /\ outAt \in Nat /\ txSent \in Nat
        BY <1>0, <1>n DEF TypeTx
      <3> QED
        BY <2>1, <3>1
    <2> QED
      BY <1>0, <2>1, <2>2 DEF TypeTx
  <1>3. CASE ReadDone
    <2>1. CASE size \in 1..Len(region)
      <3>0. size \in 0..Len(region)
        BY <1>n, <2>1
      <3>1. /\ outAt' = 0 /\ txAt' = txAt
            /\ tx' = tx \o SubSeq(region, 1, size) /\ region' = <<>>
        BY <1>3, <2>1, Zenon DEF ReadDone
      <3>2. SubSeq(region, 1, size) \in Seq(Nat) /\ Len(SubSeq(region, 1, size)) = size
        BY <1>s, <3>0, DropProperties
      <3>3. tx' \in Seq(Nat) /\ Len(tx') = Len(tx) + size
        BY <1>0, <3>1, <3>2, ConcatProperties DEF TypeTx
      <3>4. region' \in Seq(Nat) /\ Len(region') = 0
        BY <3>1, EmptySeq
      <3>5. outAt' \in 0..Len(region') /\ Len(tx') + Len(region') <= Size
        BY <1>n, <2>1, <3>1, <3>3, <3>4
      <3> QED
        BY <1>0, <3>1, <3>3, <3>4, <3>5 DEF TypeTx
    <2>2. CASE size \notin 1..Len(region)
      <3>1. UNCHANGED <<tx, txAt, region, outAt>>
        BY <1>3, <2>2, Zenon DEF ReadDone
      <3> QED
        BY <1>0, <3>1 DEF TypeTx
    <2> QED
      BY <2>1, <2>2
  <1>4. CASE ReadClaim
    <2> DEFINE used == Len(tx) + Len(region)
               space == Contiguous((txAt + used) % Size, Size - used)
               cells == [i \in 1..space |-> Junk]
    <2>1. space \in 0..(Size - used)
      <3>1. txAt + used \in Nat /\ Size - used \in Nat
        BY <1>n
      <3> QED
        BY <3>1, IndexInRing, ContiguousBounds
    <2>2. region' = region \o cells /\ outAt' = Len(region) /\ UNCHANGED <<tx, txAt>>
      BY <1>4, Zenon DEF ReadClaim
    <2> HIDE DEF space
    <2>3. cells \in Seq(Nat) /\ Len(cells) = space
      BY <2>1 DEF Junk
    <2> HIDE DEF cells
    <2>4. region' \in Seq(Nat) /\ Len(region') = Len(region) + space
      BY <1>0, <2>2, <2>3, ConcatProperties DEF TypeTx
    <2>5. outAt' \in 0..Len(region') /\ Len(tx') + Len(region') <= Size
      BY <1>n, <2>1, <2>2, <2>4
    <2> QED
      BY <1>0, <2>2, <2>4, <2>5 DEF TypeTx
  <1>5. CASE Configure \/ ResetRings
    <2>1. tx' = <<>> /\ txAt' = 0 /\ region' = <<>> /\ outAt' = 0
      BY <1>5, Zenon DEF Configure, ResetRings, EmptyRings
    <2> QED
      BY <2>1, <1>n DEF TypeTx
  <1>6. CASE UNCHANGED <<tx, txAt, region, outAt>>
    BY <1>0, <1>6 DEF TypeTx
  <1>7. CASE HandlerClaim \/ HandlerSend \/ WriteDone \/ WriteResubmit \/ ReadEnable
    BY <1>6, <1>7, Zenon DEF HandlerClaim, HandlerSend, WriteDone, WriteResubmit, ReadEnable, txRing
  <1>8. CASE ResetRx \/ ResetTx \/ ResetCancel
    BY <1>6, <1>8, Zenon DEF ResetRx, ResetTx, ResetCancel, txRing
  <1>9. CASE ByteArrives \/ IsrReceive \/ BusReset \/ (\E n \in 0..Size : UsbIn(n))
    BY <1>6, <1>9, Zenon DEF ByteArrives, IsrReceive, BusReset, UsbIn, txRing
  <1>10. CASE UNCHANGED vars
    BY <1>6, <1>10, Zenon DEF vars, txRing
  <1> QED
    BY <1>1, <1>2, <1>3, <1>4, <1>5, <1>7, <1>8, <1>9, <1>10, Zenon
    DEF Next, Queue, Status, Environment

LEMMA HistStep == TypeOK /\ [Next]_vars => TypeHist'
  <1> SUFFICES ASSUME TypeOK, [Next]_vars PROVE TypeHist'
    OBVIOUS
  <1>0. TypeRx /\ TypeTx /\ TypeHist
    BY DEF TypeOK
  <1>s. /\ rx \in Seq(Nat) /\ fifo \in Seq(Nat \ {0}) /\ inData \in Seq(Nat) /\ tx \in Seq(Nat)
        /\ wire \in Seq(Nat) /\ rxHost \in Seq(Nat)
    BY <1>0 DEF TypeRx, TypeTx, TypeHist
  <1>n. /\ rxAt + Len(rx) \in Nat /\ Size - Len(rx) \in Nat /\ Len(fifo) \in Nat /\ Len(tx) \in Nat
        /\ txAt \in 0..(Size - 1)
    BY <1>0, Sizes DEF TypeRx, TypeTx
  <1> USE DEF TypeHist
  <1>1. CASE ByteArrives
    <2>1. rxSent' = rxSent + 1
          /\ UNCHANGED <<rxSeen, rxFrom, rxHost, txSent, txFrom, wire>>
      BY <1>1, Zenon DEF ByteArrives, txHist
    <2> QED
      BY <1>0, <2>1
  <1>2. CASE IsrReceive
    <2> DEFINE space == Contiguous((rxAt + Len(rx)) % Size, Size - Len(rx))
               read  == Min({space, Len(fifo)})
    <2>1. space \in Nat
      <3>1. space \in 0..(Size - Len(rx))
        BY <1>n, IndexInRing, ContiguousBounds
      <3> QED
        BY <1>n, <3>1
    <2>2. read = IF space <= Len(fifo) THEN space ELSE Len(fifo)
      BY <1>n, <2>1, MinOfTwo
    <2>3. /\ fifo # <<>>
          /\ \/ space = 0 /\ rxSeen' = fifo[Len(fifo)]
             \/ space # 0 /\ rxSeen' = fifo[read]
          /\ UNCHANGED <<rxSent, rxFrom, rxHost, txSent, txFrom, wire>>
      BY <1>2, Zenon DEF IsrReceive, txHist, Last
    <2> HIDE DEF space, read
    <2>4. Len(fifo) \in 1..Len(fifo) /\ (space # 0 => read \in 1..Len(fifo))
      BY <1>0, <2>1, <2>2, <2>3, EmptySeq DEF TypeRx
    <2>5. rxSeen' \in Nat
      BY <1>0, <2>3, <2>4 DEF TypeRx
    <2> QED
      BY <1>0, <2>3, <2>5
  <1>3. CASE IsrTransmit
    <2>1. /\ \/ wire' = wire
             \/ \E n \in 1..Contiguous(txAt, Len(tx)) : wire' = wire \o SubSeq(tx, 1, n)
          /\ UNCHANGED <<rxSent, rxSeen, rxFrom, rxHost, txSent, txFrom>>
      BY <1>3, Zenon DEF IsrTransmit, rxHist
    <2>2. ASSUME NEW n \in 1..Contiguous(txAt, Len(tx))
          PROVE  wire \o SubSeq(tx, 1, n) \in Seq(Nat)
      <3>1. n \in 0..Len(tx)
        BY <1>n, ContiguousBounds
      <3> QED
        BY <1>s, <3>1, DropProperties, ConcatProperties
    <2> QED
      BY <1>0, <2>1, <2>2
  <1>4. ASSUME NEW n \in 0..Size, UsbIn(n) PROVE TypeHist'
    <2>1. /\ n <= Len(inData) /\ rxHost' = rxHost \o SubSeq(inData, 1, n)
          /\ UNCHANGED <<rxSent, rxSeen, rxFrom, txSent, txFrom, wire>>
      BY <1>4, Zenon DEF UsbIn, txHist
    <2>2. rxHost' \in Seq(Nat)
      <3>1. inData \in Seq(Nat) /\ n \in 0..Len(inData) /\ rxHost \in Seq(Nat)
        BY <1>0, <2>1 DEF TypeRx, TypeHist
      <3>2. SubSeq(inData, 1, n) \in Seq(Nat)
        BY <3>1, DropProperties
      <3> QED
        BY <2>1, <3>1, <3>2, ConcatProperties
    <2> QED
      BY <1>0, <2>1, <2>2
  <1>5. ASSUME NEW n \in 0..Size, UsbOut(n) PROVE TypeHist'
    <2>1. txSent' = txSent + n /\ UNCHANGED <<rxSent, rxSeen, rxFrom, rxHost, txFrom, wire>>
      BY <1>5, Zenon DEF UsbOut, rxHist
    <2> QED
      BY <1>0, <2>1
  <1>6. CASE Configure
    <2>1. /\ rxSeen' = (IF fifo = <<>> THEN rxSent ELSE fifo[1] - 1) /\ rxFrom' = rxSeen'
          /\ rxHost' = <<>> /\ txFrom' = txSent /\ wire' = <<>> /\ UNCHANGED <<rxSent, txSent>>
      BY <1>6, Zenon DEF Configure
    <2>2. rxSeen' \in Nat
      BY <1>0, <2>1, EmptySeq DEF TypeRx
    <2> QED
      BY <1>0, <2>1, <2>2
  <1>7. CASE UNCHANGED <<rxSent, rxSeen, rxFrom, rxHost, txSent, txFrom, wire>>
    BY <1>0, <1>7
  <1>8. CASE Queue
    BY <1>7, <1>8, Zenon DEF Queue, HandlerClaim, HandlerSend, WriteDone, WriteResubmit, ReadDone,
                             ReadEnable, ReadClaim, rxHist, txHist
  <1>9. CASE Status \/ BusReset \/ UNCHANGED vars
    BY <1>7, <1>9, Zenon DEF Status, ResetRx, ResetTx, ResetRings, ResetCancel, BusReset, vars,
                             rxHist, txHist
  <1> QED
    BY <1>1, <1>2, <1>3, <1>4, <1>5, <1>6, <1>8, <1>9, Zenon DEF Next, Environment

LEMMA TypeStep == TypeOK /\ [Next]_vars => TypeOK'
  BY RxStep, TxStep, HistStep, ControlStep DEF TypeOK

\* Every variable keeps its type; in particular neither ring holds more than its
\* size, whatever is claimed of it stays within it, and the handler is never made
\* to store beyond the space it has found.
THEOREM Types == Spec => []TypeOK
  BY TypeInit, TypeStep, PTL DEF Spec

(***************************************************************************)
(* Neither direction stalls.                                               *)
(***************************************************************************)

\* A reset only happens without a host, and the host has it all: transfers are
\* under way, and the driver is configured, as long as there is one.
SessionInv ==
  /\ usb = "on" => st = "none" /\ configured
  /\ usb = "off" => ~inBusy /\ ~outBusy
  /\ st \in {"tx", "rings", "cancel"} => ~configured

Covered == Len(inData) <= rxClaimed /\ inData = SubSeq(rx, 1, Len(inData))

\* What is claimed of rx belongs to the transfer that the work handler is about
\* to start, that is under way, or whose callback is due; it covers what the
\* transfer sends, from the head of the ring on.
ClaimInv ==
  /\ inBusy => q \notin {"send", "wrote"}
  /\ inBusy \/ (usb = "on" /\ q = "send") => Covered
  /\ configured /\ q = "wrote" => size <= rxClaimed
  /\ usb = "on" /\ ~inBusy /\ q \notin {"send", "wrote"} => rxClaimed = 0

\* The stream of the UART: what the host has got, what it has still to get, and
\* what waits in the FIFO.
Got == rxHost \o Unsent
Line == Got \o fifo

Increasing(s, from, to) ==
  /\ \A i \in 1..Len(s) : s[i] \in (from + 1)..to
  /\ \A i, j \in 1..Len(s) : i < j => s[i] < s[j]

LineInv ==
  /\ Increasing(fifo, 0, rxSent)
  /\ configured => /\ rxFrom <= rxSent
                   /\ Increasing(Line, rxFrom, rxSent)
                   /\ ~gap => Line = From(rxFrom, rxSent) /\ rxSeen = rxFrom + Len(Got)

\* The stream of the host, where a transfer always writes to the head of what is
\* claimed: a claim is finished before the next one is made.
RegionInv ==
  configured =>
    /\ outAt = 0 /\ txFrom <= txSent
    /\ q \in {"enable", "claim"} => region = <<>>
    /\ q # "read" => wire \o tx = From(txFrom, txSent)
    /\ q = "read" =>
         /\ size <= Len(region) /\ txFrom <= txSent - size
         /\ size = 0 => region = <<>>
         /\ SubSeq(region, 1, size) = From(txSent - size, txSent)
         /\ wire \o tx = From(txFrom, txSent - size)

LEMMA SessionStep == SessionInv /\ TypeControl /\ [Next]_vars => SessionInv'
  <1> SUFFICES ASSUME SessionInv, TypeControl, [Next]_vars PROVE SessionInv'
    OBVIOUS
  <1>0. usb \in {"off", "on"} /\ "off" # "on"
    BY DEF TypeControl
  <1> USE DEF SessionInv, control
  <1>1. CASE UNCHANGED <<configured, usb, st, inBusy, outBusy>>
    BY <1>1, Zenon
  <1>2. CASE HandlerSend \/ ReadClaim
    <2>1. UNCHANGED <<configured, usb, st>>
      BY <1>2, Zenon DEF HandlerSend, ReadClaim
    <2>2. usb # "on" => (inBusy' <=> inBusy) /\ (outBusy' => outBusy)
      BY <1>2 DEF HandlerSend, ReadClaim, inVars
    <2> QED
      BY <1>0, <2>1, <2>2
  <1>3. CASE HandlerClaim \/ WriteDone \/ WriteResubmit \/ ReadDone \/ ReadEnable
    BY <1>1, <1>3, Zenon DEF HandlerClaim, WriteDone, WriteResubmit, ReadDone, ReadEnable, inVars
  <1>4. CASE Status
    BY <1>0, <1>4 DEF Status, ResetRx, ResetTx, ResetRings, ResetCancel, inVars
  <1>5. CASE IsrReceive \/ IsrTransmit \/ ByteArrives
    BY <1>1, <1>5, Zenon DEF IsrReceive, IsrTransmit, ByteArrives, inVars
  <1>6. CASE Configure \/ BusReset
    BY <1>0, <1>6 DEF Configure, BusReset, inVars
  <1>7. CASE \E n \in 0..Size : UsbIn(n) \/ UsbOut(n)
    <2>1. UNCHANGED <<configured, usb, st>>
      BY <1>7, Zenon DEF UsbIn, UsbOut
    <2>2. (inBusy' => inBusy) /\ (outBusy' => outBusy)
      BY <1>7 DEF UsbIn, UsbOut, inVars
    <2> QED
      BY <2>1, <2>2
  <1>8. CASE UNCHANGED vars
    BY <1>1, <1>8, Zenon DEF vars, inVars
  <1> QED
    BY <1>2, <1>3, <1>4, <1>5, <1>6, <1>7, <1>8, Zenon DEF Next, Queue, Environment

\* Bytes for the UART are never left waiting without the transmit interrupt.
THEOREM TxNeverStallsHolds == Spec => []TxNeverStalls
  <1> DEFINE Inv == SessionInv /\ TxNeverStalls
  <1>1. Init => Inv
    BY DEF Init, SessionInv, TxNeverStalls
  <1>2. Inv /\ TypeOK /\ [Next]_vars => Inv'
    <2> SUFFICES ASSUME SessionInv, TxNeverStalls, TypeOK, [Next]_vars PROVE TxNeverStalls'
      BY SessionStep DEF TypeOK
    <2> USE DEF TxNeverStalls, control, queue, txRing
    <2>1. CASE UNCHANGED <<usb, tx, txIrq, q>>
      BY <2>1, Zenon
    <2>2. CASE Queue
      <3>1. CASE ReadDone \/ ReadEnable \/ ReadClaim
        BY <3>1, Zenon DEF ReadDone, ReadEnable, ReadClaim
      <3>2. CASE HandlerClaim \/ HandlerSend \/ WriteDone \/ WriteResubmit
        BY <3>2 DEF HandlerClaim, HandlerSend, WriteDone, WriteResubmit
      <3> QED
        BY <2>2, <3>1, <3>2, Zenon DEF Queue
    <2>3. CASE Status
      BY <2>3 DEF Status, ResetRx, ResetTx, ResetRings, ResetCancel, SessionInv
    <2>4. CASE IsrReceive \/ IsrTransmit \/ ByteArrives
      BY <2>4, Zenon DEF IsrReceive, IsrTransmit, ByteArrives
    <2>5. CASE Configure \/ BusReset
      BY <2>5, Zenon DEF Configure, BusReset, EmptyRings
    <2>6. CASE \E n \in 0..Size : UsbIn(n) \/ UsbOut(n)
      BY <2>6 DEF UsbIn, UsbOut
    <2>7. CASE UNCHANGED vars
      BY <2>1, <2>7, Zenon DEF vars
    <2> QED
      BY <2>2, <2>3, <2>4, <2>5, <2>6, <2>7, Zenon DEF Next, Environment
  <1> QED
    BY Types, <1>1, <1>2, PTL DEF Spec

LEMMA PrefixOfConcat ==
  ASSUME NEW S, NEW s \in Seq(S), NEW u \in Seq(S), NEW n \in 0..Len(s)
  PROVE  SubSeq(s \o u, 1, n) = SubSeq(s, 1, n)
  <1>1. /\ s \o u \in Seq(S) /\ Len(s \o u) = Len(s) + Len(u)
        /\ \A i \in 1..(Len(s) + Len(u)) :
             (s \o u)[i] = IF i <= Len(s) THEN s[i] ELSE u[i - Len(s)]
    BY ConcatProperties
  <1>2. n \in 0..Len(s \o u)
    BY <1>1
  <1> QED
    BY <1>1, <1>2

\* What IsrReceive does: the FIFO is flushed, or the head of it moves behind the
\* end of the ring.
Flushed == fifo' = <<>> /\ rx' = rx /\ gap'

Moved(n) ==
  /\ rx' = rx \o SubSeq(fifo, 1, n) /\ fifo' = Drop(fifo, n)
  /\ rxSeen' = fifo[n] /\ gap' = gap

LEMMA Received ==
  ASSUME TypeOK, IsrReceive
  PROVE  Flushed \/ \E n \in 1..Len(fifo) : Moved(n)
  <1> DEFINE space == Contiguous((rxAt + Len(rx)) % Size, Size - Len(rx))
             read  == Min({space, Len(fifo)})
  <1>1. rxAt + Len(rx) \in Nat /\ Size - Len(rx) \in Nat /\ fifo \in Seq(Nat \ {0})
    BY Sizes DEF TypeOK, TypeRx
  <1>2. space \in 0..(Size - Len(rx))
    BY <1>1, IndexInRing, ContiguousBounds
  <1>3. space \in Nat
    BY <1>1, <1>2
  <1>4. CASE space = 0
    BY <1>4, Zenon DEF IsrReceive, Flushed
  <1>5. CASE space # 0
    <2>1. read = IF space <= Len(fifo) THEN space ELSE Len(fifo)
      BY <1>1, <1>3, MinOfTwo
    <2>2. fifo # <<>> /\ Moved(read)
      BY <1>5, Zenon DEF IsrReceive, Moved
    <2> HIDE DEF read, space
    <2>3. read \in 1..Len(fifo)
      BY <1>1, <1>3, <1>5, <2>1, <2>2, EmptySeq
    <2> QED
      BY <2>2, <2>3
  <1> QED
    BY <1>4, <1>5

LEMMA ClaimStep == TypeOK /\ SessionInv /\ ClaimInv /\ [Next]_vars => ClaimInv'
  <1> SUFFICES ASSUME TypeOK, SessionInv, ClaimInv, [Next]_vars PROVE ClaimInv'
    OBVIOUS
  <1> USE DEF ClaimInv, control, queue
  <1>s. rx \in Seq(Nat) /\ fifo \in Seq(Nat \ {0}) /\ inData \in Seq(Nat)
    BY DEF TypeOK, TypeRx
  <1>n. /\ size \in Nat /\ rxAt \in Nat /\ Len(rx) \in Nat /\ rxClaimed \in 0..Len(rx)
    BY DEF TypeOK, TypeRx, TypeControl
  <1>c. usb \in {"off", "on"} /\ "off" # "on"
    BY DEF TypeOK, TypeControl
  <1>0. ASSUME UNCHANGED <<rx, rxClaimed, inData>> PROVE Covered' <=> Covered
    BY <1>0 DEF Covered
  <1>1. CASE IsrReceive
    <2>1. UNCHANGED <<usb, q, size, configured, inBusy, rxClaimed, inData>>
      BY <1>1, Zenon DEF IsrReceive, inVars
    <2>2. Covered => Covered'
      <3> SUFFICES ASSUME Covered PROVE Covered'
        OBVIOUS
      <3>1. Len(inData) \in 0..Len(rx)
        BY <1>s, <1>n DEF Covered
      <3>2. CASE Flushed
        BY <2>1, <3>2 DEF Covered, Flushed
      <3>3. ASSUME NEW n \in 1..Len(fifo), Moved(n) PROVE Covered'
        <4>1. SubSeq(fifo, 1, n) \in Seq(Nat \ {0})
          BY <1>s, DropProperties
        <4>2. SubSeq(fifo, 1, n) \in Seq(Nat)
          BY <4>1, SeqMonotonic
        <4>3. SubSeq(rx', 1, Len(inData)) = SubSeq(rx, 1, Len(inData))
          BY <1>s, <3>1, <3>3, <4>2, PrefixOfConcat DEF Moved
        <4> QED
          BY <2>1, <4>3 DEF Covered
      <3> QED
        BY <1>1, <3>2, <3>3, Received
    <2> QED
      BY <2>1, <2>2, Zenon
  <1>2. CASE HandlerClaim
    <2> DEFINE n == Contiguous((rxAt + rxClaimed) % Size, Len(rx) - rxClaimed)
               sent == IF n % Mps = 0 THEN n - 1 ELSE n
    <2>1. n \in 0..(Len(rx) - rxClaimed)
      <3>1. rxAt + rxClaimed \in Nat /\ Len(rx) - rxClaimed \in Nat
        BY <1>n
      <3> QED
        BY <3>1, IndexInRing, ContiguousBounds
    <2>2. UNCHANGED <<usb, configured, size, rx, inBusy>> /\ q = "none"
      BY <1>2, Zenon DEF HandlerClaim, inVars
    <2>3. CASE inBusy \/ n = 0
      <3>1. UNCHANGED <<q, rxClaimed, inData>>
        BY <1>2, <2>3, Zenon DEF HandlerClaim
      <3> QED
        BY <1>0, <2>2, <3>1, Zenon
    <2>4. CASE ~(inBusy \/ n = 0)
      <3>1. /\ q' = "send" /\ rxClaimed' = rxClaimed + n
            /\ inData' = SubSeq(rx, rxClaimed + 1, rxClaimed + sent)
        BY <1>2, <2>4, Zenon DEF HandlerClaim
      <3>2. sent \in 0..n
        BY <1>n, <2>1, <2>4
      <3> HIDE DEF n, sent
      <3>3. ASSUME rxClaimed = 0 PROVE Covered'
        <4>1. sent \in 0..Len(rx) /\ rxClaimed' = n /\ sent <= n
          BY <1>n, <2>1, <3>1, <3>2, <3>3
        <4>2. inData' = SubSeq(rx, 1, sent) /\ Len(inData') = sent
          BY <1>s, <1>n, <3>1, <3>3, <4>1, DropProperties
        <4> QED
          BY <2>2, <4>1, <4>2 DEF Covered
      <3>4. usb = "on" => rxClaimed = 0
        BY <2>2, <2>4, Zenon
      <3> QED
        BY <2>2, <2>4, <3>1, <3>3, <3>4
    <2> QED
      BY <2>3, <2>4
  <1>3. CASE HandlerSend
    <2>1. UNCHANGED <<usb, configured, rx, rxClaimed>> /\ q = "send" /\ q' = "none"
      BY <1>3, Zenon DEF HandlerSend, rxRing
    <2>2. CASE usb = "on"
      <3>1. UNCHANGED inData /\ inBusy'
        BY <1>3, <2>2, Zenon DEF HandlerSend
      <3>2. Covered'
        BY <1>0, <2>1, <2>2, <3>1
      <3> QED
        BY <2>1, <3>1, <3>2
    <2>3. CASE usb # "on"
      <3>1. ~inBusy' 
        BY <1>3, <2>3 DEF HandlerSend
      <3> QED
        BY <2>1, <2>3, <3>1
    <2> QED
      BY <2>2, <2>3
  <1>4. ASSUME NEW n \in 0..Size, UsbIn(n) PROVE ClaimInv'
    <2>1. /\ inBusy /\ n <= Len(inData) /\ q' = "wrote" /\ size' = n
          /\ UNCHANGED <<usb, configured, rxClaimed>>
      BY <1>4, Zenon DEF UsbIn, rxRing
    <2>2. ~inBusy'
      BY <1>4 DEF UsbIn
    <2>3. Len(inData) <= rxClaimed
      BY <2>1 DEF Covered
    <2>4. size' <= rxClaimed'
      BY <1>s, <1>n, <2>1, <2>3
    <2> QED
      BY <2>1, <2>2, <2>4
  <1>5. CASE WriteDone
    <2>1. /\ q = "wrote" /\ q' \in {"none", "resubmit"}
          /\ UNCHANGED <<usb, configured, size, inBusy, inData>>
      BY <1>5, Zenon DEF WriteDone, inVars
    <2>2. configured => rxClaimed' = 0
      BY <1>5, <2>1, <1>n DEF WriteDone
    <2> QED
      BY <2>1, <2>2 DEF SessionInv
  <1>6. CASE WriteResubmit \/ ReadDone \/ ReadEnable \/ ReadClaim
    <2>1. /\ q \in {"resubmit", "read", "enable", "claim"} /\ q' \in {"none", "enable", "claim"}
          /\ UNCHANGED <<usb, configured, size, inBusy, inData, rx, rxClaimed>>
      BY <1>6, Zenon DEF WriteResubmit, ReadDone, ReadEnable, ReadClaim, inVars, rxRing
    <2> QED
      BY <1>0, <2>1
  <1>7. CASE \E n \in 0..Size : UsbOut(n)
    <2>1. /\ q = "none" /\ q' = "read"
          /\ UNCHANGED <<usb, configured, inBusy, inData, rx, rxClaimed>>
      BY <1>7, Zenon DEF UsbOut, inVars, rxRing
    <2> QED
      BY <1>0, <2>1
  <1>8. CASE Configure \/ BusReset
    <2>1. CASE Configure
      <3>1. rxClaimed' = 0 /\ q' = "claim" /\ UNCHANGED inBusy /\ usb = "off"
        BY <2>1, Zenon DEF Configure, EmptyRings, inVars
      <3> QED
        BY <3>1 DEF SessionInv
    <2>2. CASE BusReset
      <3>1. usb' = "off" /\ UNCHANGED <<configured, q, size, rxClaimed>>
        BY <2>2, Zenon DEF BusReset, rxRing
      <3>2. ~inBusy'
        BY <2>2 DEF BusReset
      <3> QED
        BY <3>1, <3>2
    <2> QED
      BY <1>8, <2>1, <2>2
  <1>9. CASE Status
    <2>1. st # "none" /\ UNCHANGED <<usb, q, size, inBusy>>
      BY <1>9 DEF Status, ResetRx, ResetTx, ResetRings, ResetCancel, inVars
    <2>2. usb' # "on" /\ ~inBusy'
      BY <1>c, <2>1 DEF SessionInv
    <2>3. configured' => configured /\ rxClaimed' = rxClaimed
      BY <1>9 DEF Status, ResetRx, ResetTx, ResetRings, ResetCancel, SessionInv, rxRing
    <2> QED
      BY <2>1, <2>2, <2>3
  <1>10. CASE ByteArrives \/ IsrTransmit \/ UNCHANGED vars
    <2>1. UNCHANGED <<usb, configured, q, size, inBusy, inData, rx, rxClaimed>>
      BY <1>10, Zenon DEF ByteArrives, IsrTransmit, inVars, rxRing, vars
    <2> QED
      BY <1>0, <2>1, Zenon
  <1> QED
    BY <1>1, <1>2, <1>3, <1>4, <1>5, <1>6, <1>7, <1>8, <1>9, <1>10, Zenon
    DEF Next, Queue, Environment

\* Bytes for the host are never left waiting without a wake-up: the claim of a
\* transfer is always given back, so that the work handler, which does nothing
\* when it can claim nothing, is only idle over an empty ring.
THEOREM RxNeverStallsHolds == Spec => []RxNeverStalls
  <1> DEFINE Inv == SessionInv /\ ClaimInv /\ RxNeverStalls
  <1>1. Init => Inv
    BY DEF Init, SessionInv, ClaimInv, RxNeverStalls
  <1>2. Inv /\ TypeOK /\ [Next]_vars => Inv'
    <2> SUFFICES ASSUME SessionInv, ClaimInv, RxNeverStalls, TypeOK, [Next]_vars
                 PROVE  RxNeverStalls'
      BY SessionStep, ClaimStep DEF TypeOK
    <2>c. usb \in {"off", "on"} /\ "off" # "on"
      BY DEF TypeOK, TypeControl
    <2> USE DEF RxNeverStalls, control, queue, rxRing, inVars
    <2>1. CASE UNCHANGED <<usb, rx, work, inBusy, q>>
      BY <2>1, Zenon
    <2>2. CASE HandlerClaim
      <3> DEFINE n == Contiguous((rxAt + rxClaimed) % Size, Len(rx) - rxClaimed)
      <3>1. q = "none" /\ UNCHANGED <<usb, rx, inBusy>> /\ (~inBusy /\ n # 0 => q' = "send")
        BY <2>2, Zenon DEF HandlerClaim
      <3>2. ASSUME usb = "on", rx # <<>>, ~inBusy PROVE n # 0
        <4>1. rxClaimed = 0
          BY <3>1, <3>2, Zenon DEF ClaimInv
        <4>2. rxAt \in 0..(Size - 1) /\ Len(rx) \in Nat \ {0}
          <5>1. rxAt \in 0..(Size - 1) /\ rx \in Seq(Nat)
            BY DEF TypeOK, TypeRx
          <5>2. Len(rx) \in Nat /\ Len(rx) # 0
            BY <3>2, <5>1
          <5> QED
            BY <5>1, <5>2
        <4>3. /\ rxAt + rxClaimed \in Nat
              /\ Len(rx) - rxClaimed \in Nat /\ Len(rx) - rxClaimed > 0
          BY <4>1, <4>2, Sizes
        <4>4. n > 0
          BY <4>3, IndexInRing, ContiguousBounds
        <4> QED
          BY <4>4
      <3> HIDE DEF n
      <3> QED
        BY <3>1, <3>2
    <2>3. CASE HandlerSend
      <3>1. UNCHANGED <<usb, rx>> /\ (usb = "on" => inBusy')
        BY <2>3, Zenon DEF HandlerSend
      <3> QED
        BY <3>1, Zenon
    <2>4. CASE WriteDone
      <3>1. UNCHANGED usb /\ q = "wrote"
        BY <2>4, Zenon DEF WriteDone
      <3>2. size <= rxClaimed => rx' = <<>> \/ q' = "resubmit"
        BY <2>4 DEF WriteDone, TypeOK, TypeControl, TypeRx
      <3> QED
        BY <3>1, <3>2 DEF SessionInv, ClaimInv
    <2>5. CASE WriteResubmit
      BY <2>5, Zenon DEF WriteResubmit
    <2>6. CASE ReadDone \/ ReadEnable \/ ReadClaim
      <3>1. q \in {"read", "enable", "claim"} /\ UNCHANGED <<usb, rx, work, inBusy>>
        BY <2>6, Zenon DEF ReadDone, ReadEnable, ReadClaim
      <3> QED
        BY <3>1
    <2>7. CASE IsrReceive
      <3>1. UNCHANGED <<usb, q, inBusy>> /\ (work' \/ UNCHANGED <<rx, work>>)
        BY <2>7, Zenon DEF IsrReceive
      <3> QED
        BY <3>1, Zenon
    <2>8. CASE Status
      <3>1. st # "none" /\ UNCHANGED usb
        BY <2>8 DEF Status, ResetRx, ResetTx, ResetRings, ResetCancel
      <3> QED
        BY <3>1 DEF SessionInv
    <2>9. CASE Configure \/ BusReset
      BY <2>9, <2>c, Zenon DEF Configure, BusReset, EmptyRings
    <2>10. ASSUME NEW n \in 0..Size, UsbIn(n) \/ UsbOut(n) PROVE RxNeverStalls'
      <3>1. UNCHANGED <<usb, rx, work>> /\ q = "none" /\ (q' = "wrote" \/ UNCHANGED inBusy)
        BY <2>10, Zenon DEF UsbIn, UsbOut
      <3> QED
        BY <3>1
    <2>11. CASE IsrTransmit \/ ByteArrives \/ UNCHANGED vars
      BY <2>1, <2>11, Zenon DEF IsrTransmit, ByteArrives, vars
    <2> QED
      BY <2>2, <2>3, <2>4, <2>5, <2>6, <2>7, <2>8, <2>9, <2>10, <2>11, Zenon
      DEF Next, Queue, Environment
  <1> QED
    BY Types, <1>1, <1>2, PTL DEF Spec

(***************************************************************************)
(* Both directions keep their order.                                       *)
(***************************************************************************)
LEMMA FromProperties ==
  ASSUME NEW n \in Nat, NEW m \in Nat, n <= m
  PROVE  /\ From(n, m) \in Seq(Nat) /\ Len(From(n, m)) = m - n
         /\ \A i \in 1..(m - n) : From(n, m)[i] = n + i
  BY DEF From

LEMMA FromConcat ==
  ASSUME NEW a \in Nat, NEW b \in Nat, NEW c \in Nat, a <= b, b <= c
  PROVE  From(a, b) \o From(b, c) = From(a, c)
  <1>1. From(a, b) \in Seq(Nat) /\ Len(From(a, b)) = b - a
        /\ \A i \in 1..(b - a) : From(a, b)[i] = a + i
    BY FromProperties
  <1>2. From(b, c) \in Seq(Nat) /\ Len(From(b, c)) = c - b
        /\ \A i \in 1..(c - b) : From(b, c)[i] = b + i
    BY FromProperties
  <1>3. From(a, c) \in Seq(Nat) /\ Len(From(a, c)) = c - a
        /\ \A i \in 1..(c - a) : From(a, c)[i] = a + i
    <2>1. a <= c
      OBVIOUS
    <2> QED
      BY <2>1, FromProperties
  <1>4. From(a, b) \o From(b, c) \in Seq(Nat)
        /\ Len(From(a, b) \o From(b, c)) = (b - a) + (c - b)
        /\ \A i \in 1..((b - a) + (c - b)) :
             (From(a, b) \o From(b, c))[i] =
               IF i <= b - a THEN From(a, b)[i] ELSE From(b, c)[i - (b - a)]
    <2>1. /\ From(a, b) \o From(b, c) \in Seq(Nat)
          /\ Len(From(a, b) \o From(b, c)) = Len(From(a, b)) + Len(From(b, c))
          /\ \A i \in 1..(Len(From(a, b)) + Len(From(b, c))) :
               (From(a, b) \o From(b, c))[i] =
                 IF i <= Len(From(a, b)) THEN From(a, b)[i]
                                         ELSE From(b, c)[i - Len(From(a, b))]
      BY <1>1, <1>2, ConcatProperties, Zenon
    <2>2. Len(From(a, b)) = b - a /\ Len(From(b, c)) = c - b
      BY <1>1, <1>2
    <2> QED
      BY <2>1, <2>2, Zenon
  <1>5. ASSUME NEW i \in 1..(c - a) PROVE (From(a, b) \o From(b, c))[i] = From(a, c)[i]
    <2>0. i \in 1..((b - a) + (c - b)) /\ From(a, c)[i] = a + i
      BY <1>3
    <2>1. CASE i <= b - a
      <3>1. i \in 1..(b - a)
        BY <2>1
      <3> QED
        BY <1>1, <1>4, <2>0, <2>1, <3>1
    <2>2. CASE ~(i <= b - a)
      <3>1. i - (b - a) \in 1..(c - b) /\ b + (i - (b - a)) = a + i
        BY <2>2
      <3> QED
        BY <1>2, <1>4, <2>0, <2>2, <3>1
    <2> QED
      BY <2>1, <2>2
  <1>6. Len(From(a, b) \o From(b, c)) = Len(From(a, c))
    BY <1>3, <1>4
  <1> QED
    BY <1>3, <1>4, <1>5, <1>6, SeqEqual

LEMMA FromPrefix ==
  ASSUME NEW a \in Nat, NEW b \in Nat, NEW c \in Nat, a <= b, b <= c
  PROVE  SubSeq(From(a, c), 1, b - a) = From(a, b)
  <1>1. From(a, b) \in Seq(Nat) /\ From(b, c) \in Seq(Nat) /\ Len(From(a, b)) = b - a
    BY FromProperties
  <1>2. From(a, c) = From(a, b) \o From(b, c)
    BY FromConcat
  <1>3. SubSeq(From(a, b) \o From(b, c), 1, b - a) = SubSeq(From(a, b), 1, b - a)
    BY <1>1, PrefixOfConcat
  <1>4. SubSeq(From(a, b), 1, b - a) = From(a, b)
    BY <1>1, SubSeqFull
  <1> QED
    BY <1>2, <1>3, <1>4

\* The head of a sequence moves to the end of the one before it.
LEMMA HeadAndRest ==
  ASSUME NEW S, NEW u \in Seq(S), NEW n \in 0..Len(u)
  PROVE  SubSeq(u, 1, n) \o Drop(u, n) = u
  <1>1. 1 \in 1..(Len(u) + 1) /\ n \in (1 - 1)..Len(u) /\ Len(u) \in n..Len(u)
    OBVIOUS
  <1>2. SubSeq(u, 1, n) \o SubSeq(u, n + 1, Len(u)) = SubSeq(u, 1, Len(u))
    BY <1>1, ConcatAdjacentSubSeq, Zenon
  <1> QED
    BY <1>2, SubSeqFull DEF Drop

LEMMA MoveHead ==
  ASSUME NEW S, NEW s \in Seq(S), NEW u \in Seq(S), NEW n \in 0..Len(u)
  PROVE  (s \o SubSeq(u, 1, n)) \o Drop(u, n) = s \o u
  <1> DEFINE h == SubSeq(u, 1, n)
             r == Drop(u, n)
  <1>1. h \in Seq(S) /\ r \in Seq(S)
    BY DropProperties
  <1>2. h \o r = u
    BY HeadAndRest
  <1> HIDE DEF h, r
  <1>3. (s \o h) \o r = s \o (h \o r)
    BY <1>1, ConcatAssoc
  <1> QED
    BY <1>2, <1>3 DEF h, r

LEMMA RegionStep ==
  ASSUME ~ZeroPackets
  PROVE  TypeOK /\ SessionInv /\ RegionInv /\ [Next]_vars => RegionInv'
  <1> SUFFICES ASSUME TypeOK, SessionInv, RegionInv, [Next]_vars PROVE RegionInv'
    OBVIOUS
  <1>s. tx \in Seq(Nat) /\ region \in Seq(Nat) /\ wire \in Seq(Nat)
    BY DEF TypeOK, TypeTx, TypeHist
  <1>n. size \in Nat /\ txSent \in Nat /\ txFrom \in Nat /\ outAt \in Nat /\ Len(region) \in Nat
    BY <1>s DEF TypeOK, TypeTx, TypeHist, TypeControl
  <1>1. ASSUME configured' => configured, UNCHANGED <<outAt, region, txSent, txFrom>>,
               wire' \o tx' = wire \o tx,
               \/ UNCHANGED <<q, size>>
               \/ /\ q \notin {"read", "enable", "claim"}
                  /\ q' \notin {"read", "enable", "claim"}
        PROVE  RegionInv'
    BY <1>1 DEF RegionInv
  <1>2. CASE IsrTransmit
    <2>1. UNCHANGED <<configured, q, size, outAt, region, txSent, txFrom>>
      BY <1>2, Zenon DEF IsrTransmit, control, queue
    <2>2. CASE UNCHANGED <<tx, wire>>
      BY <1>1, <2>1, <2>2
    <2>3. ASSUME NEW n \in 1..Contiguous(txAt, Len(tx)),
                 wire' = wire \o SubSeq(tx, 1, n), tx' = Drop(tx, n)
          PROVE  RegionInv'
      <3>1. txAt \in 0..(Size - 1) /\ Len(tx) \in Nat
        BY DEF TypeOK, TypeTx
      <3>2. n \in 0..Len(tx)
        BY <3>1, ContiguousBounds
      <3>3. wire' \o tx' = wire \o tx
        BY <1>s, <2>3, <3>2, MoveHead
      <3> QED
        BY <1>1, <2>1, <3>3
    <2> QED
      BY <1>2, <2>2, <2>3, Zenon DEF IsrTransmit
  <1>3. ASSUME NEW n \in 0..Size, UsbOut(n) PROVE RegionInv'
    <2>1. /\ q = "none" /\ q' = "read" /\ size' = n /\ txSent' = txSent + n
          /\ n <= Len(region) - outAt /\ (n = 0 => Len(region) = outAt)
          /\ UNCHANGED <<outAt, txFrom, tx, wire>>
      BY <1>3, Zenon DEF UsbOut
    <2>2. /\ region' = [i \in 1..Len(region) |->
                          IF i \in (outAt + 1)..(outAt + n) THEN txSent + i - outAt ELSE region[i]]
          /\ UNCHANGED configured
      BY <1>3, Zenon DEF UsbOut, control
    <2>3. CASE configured
      <3>1. outAt = 0 /\ txFrom <= txSent /\ wire \o tx = From(txFrom, txSent)
        BY <2>1, <2>3 DEF RegionInv
      <3>2. /\ n \in 0..Len(region) /\ (n = 0 => Len(region) = 0)
            /\ txSent' - n = txSent /\ txFrom <= txSent'
        BY <1>n, <2>1, <3>1
      <3>3. /\ region' \in Seq(Nat) /\ Len(region') = Len(region)
            /\ \A i \in 1..n : region'[i] = txSent + i
        BY <1>s, <1>n, <2>2, <3>1, <3>2
      <3>4. /\ SubSeq(region', 1, n) \in Seq(Nat) /\ Len(SubSeq(region', 1, n)) = n
            /\ \A i \in 1..n : SubSeq(region', 1, n)[i] = txSent + i
        BY <1>n, <3>2, <3>3
      <3>5. SubSeq(region', 1, n) = From(txSent, txSent')
        <4>1. txSent' \in Nat /\ txSent <= txSent' /\ txSent' - txSent = n
          BY <1>n, <2>1
        <4>2. /\ From(txSent, txSent') \in Seq(Nat) /\ Len(From(txSent, txSent')) = n
              /\ \A i \in 1..n : From(txSent, txSent')[i] = txSent + i
          BY <1>n, <4>1, FromProperties
        <4> QED
          BY <3>4, <4>2, SeqEqual
      <3>6. n = 0 => region' = <<>>
        <4>1. n = 0 => Len(region') = 0
          BY <3>2, <3>3
        <4> QED
          BY <3>3, <4>1, EmptySeq
      <3> QED
        BY <2>1, <3>1, <3>2, <3>3, <3>5, <3>6 DEF RegionInv
    <2> QED
      BY <2>2, <2>3 DEF RegionInv
  <1>4. CASE ReadDone
    <2>1. q = "read" /\ UNCHANGED <<configured, size, txSent, txFrom, wire>>
      BY <1>4, Zenon DEF ReadDone, control, txHist
    <2>2. CASE configured /\ size \in 1..Len(region)
      <3>1. /\ tx' = tx \o SubSeq(region, 1, size) /\ region' = <<>> /\ outAt' = 0
            /\ q' = "enable"
        BY <1>4, <2>2, Zenon DEF ReadDone
      <3>2. /\ SubSeq(region, 1, size) = From(txSent - size, txSent)
            /\ wire \o tx = From(txFrom, txSent - size) /\ txFrom <= txSent - size
        BY <2>1, <2>2 DEF RegionInv
      <3> DEFINE mid == txSent - size
                 new == SubSeq(region, 1, size)
      <3>3. mid \in Nat /\ txFrom <= mid /\ mid <= txSent /\ txFrom <= txSent
        BY <1>n, <3>2
      <3>4. new \in Seq(Nat)
        <4>1. size \in 0..Len(region)
          BY <1>n, <2>2
        <4> QED
          BY <1>s, <4>1, DropProperties
      <3>5. wire' \o tx' = wire \o (tx \o new)
        BY <2>1, <3>1
      <3>6. new = From(mid, txSent) /\ wire \o tx = From(txFrom, mid)
        BY <3>2
      <3> HIDE DEF mid, new
      <3>7. wire' \o tx' = (wire \o tx) \o new
        <4>1. (wire \o tx) \o new = wire \o (tx \o new)
          BY <1>s, <3>4, ConcatAssoc, Zenon
        <4> QED
          BY <3>5, <4>1
      <3>8. From(txFrom, mid) \o From(mid, txSent) = From(txFrom, txSent)
        <4>1. txFrom \in Nat /\ txSent \in Nat
          BY <1>n
        <4> QED
          BY <3>3, <4>1, FromConcat, Zenon
      <3>9. wire' \o tx' = From(txFrom, txSent)
        BY <3>6, <3>7, <3>8
      <3> QED
        BY <2>1, <3>1, <3>3, <3>9 DEF RegionInv
    <2>3. CASE configured /\ size \notin 1..Len(region)
      <3>1. UNCHANGED <<tx, region, outAt>> /\ q' = "claim"
        BY <1>4, <2>3, Zenon DEF ReadDone
      <3>2. size <= Len(region) /\ (size = 0 => region = <<>>) /\ outAt = 0 /\ txFrom <= txSent
            /\ wire \o tx = From(txFrom, txSent - size)
        BY <2>1, <2>3 DEF RegionInv
      <3>3. size = 0 /\ txSent - size = txSent
        BY <1>n, <2>3, <3>2
      <3> QED
        BY <2>1, <3>1, <3>2, <3>3 DEF RegionInv
    <2>4. CASE ~configured
      BY <2>1, <2>4 DEF RegionInv
    <2> QED
      BY <2>2, <2>3, <2>4
  <1>5. CASE ReadEnable
    <2>1. /\ q = "enable" /\ q' = "claim"
          /\ UNCHANGED <<configured, size, tx, region, outAt, txSent, txFrom, wire>>
      BY <1>5, Zenon DEF ReadEnable, control, txRing, txHist
    <2> QED
      BY <2>1 DEF RegionInv
  <1>6. CASE ReadClaim
    <2>1. /\ q = "claim" /\ q' = "none" /\ outAt' = Len(region)
          /\ UNCHANGED <<configured, size, tx, txSent, txFrom, wire>>
      BY <1>6, Zenon DEF ReadClaim, control, txHist
    <2>2. configured => outAt' = 0
      BY <2>1, EmptySeq DEF RegionInv
    <2> QED
      BY <2>1, <2>2 DEF RegionInv
  <1>7. CASE Configure
    <2>1. /\ q' = "claim" /\ tx' = <<>> /\ region' = <<>> /\ outAt' = 0
          /\ txFrom' = txSent /\ wire' = <<>> /\ txSent' = txSent
      BY <1>7, Zenon DEF Configure, EmptyRings
    <2>2. From(txFrom', txSent') = <<>>
      <3>1. txSent <= txSent /\ txSent - txSent = 0
        BY <1>n
      <3>2. From(txSent, txSent) \in Seq(Nat) /\ Len(From(txSent, txSent)) = txSent - txSent
        BY <1>n, <3>1, FromProperties
      <3>3. From(txSent, txSent) = <<>>
        BY <3>1, <3>2, EmptySeq
      <3> QED
        BY <2>1, <3>3
    <2>3. wire' \o tx' = <<>>
      BY <2>1
    <2> QED
      BY <1>n, <2>1, <2>2, <2>3 DEF RegionInv
  <1>8. CASE Status
    <2>1. CASE ResetRx \/ ResetRings
      BY <2>1 DEF ResetRx, ResetRings, SessionInv, RegionInv
    <2>2. CASE ResetTx \/ ResetCancel
      <3>1. UNCHANGED <<configured, q, size, tx, region, outAt, txSent, txFrom, wire>>
        BY <2>2, Zenon DEF ResetTx, ResetCancel, queue, txRing, txHist
      <3> QED
        BY <1>1, <3>1
    <2> QED
      BY <1>8, <2>1, <2>2 DEF Status
  <1>9. CASE HandlerClaim \/ HandlerSend \/ WriteDone \/ WriteResubmit
    <2>1. /\ UNCHANGED <<configured, tx, region, outAt, txSent, txFrom, wire, size>>
          /\ q \in {"none", "send", "wrote", "resubmit"}
          /\ q' \in {q, "send", "none", "resubmit"}
      BY <1>9, Zenon
         DEF HandlerClaim, HandlerSend, WriteDone, WriteResubmit, control, txRing, txHist
    <2> QED
      BY <1>1, <2>1
  <1>10. CASE \E n \in 0..Size : UsbIn(n)
    <2>1. /\ UNCHANGED <<configured, tx, region, outAt, txSent, txFrom, wire>>
          /\ q = "none" /\ q' = "wrote"
      BY <1>10, Zenon DEF UsbIn, control, txRing, txHist
    <2> QED
      BY <1>1, <2>1
  <1>11. CASE IsrReceive \/ ByteArrives \/ BusReset \/ UNCHANGED vars
    <2>1. UNCHANGED <<configured, q, size, tx, region, outAt, txSent, txFrom, wire>>
      BY <1>11, Zenon DEF IsrReceive, ByteArrives, BusReset, control, queue, txRing, txHist, vars
    <2> QED
      BY <1>1, <2>1
  <1> QED
    BY <1>2, <1>3, <1>4, <1>5, <1>6, <1>7, <1>8, <1>9, <1>10, <1>11, Zenon
    DEF Next, Queue, Environment

\* The UART transmits every byte of the host of this session, in order and once,
\* as long as hosts send no packet without data.
THEOREM TxInOrderHolds ==
  ASSUME ~ZeroPackets
  PROVE  Spec => []TxInOrder
  <1> DEFINE Inv == SessionInv /\ RegionInv
  <1>1. Init => Inv
    BY DEF Init, SessionInv, RegionInv
  <1>2. Inv /\ TypeOK /\ [Next]_vars => Inv'
    BY SessionStep, RegionStep DEF TypeOK
  <1>3. Inv /\ TypeOK => TxInOrder
    <2> SUFFICES ASSUME RegionInv, TypeOK, configured
                 PROVE  /\ IsPrefix(wire \o tx, From(txFrom, txSent))
                        /\ q # "read" => wire \o tx = From(txFrom, txSent)
      BY DEF TxInOrder
    <2> DEFINE to == IF q = "read" THEN txSent - size ELSE txSent
    <2>1. size \in Nat /\ txSent \in Nat /\ txFrom \in Nat
      BY DEF TypeOK, TypeHist, TypeControl
    <2>2. txFrom <= to /\ wire \o tx = From(txFrom, to)
      BY <2>1 DEF RegionInv
    <2>3. to \in Nat /\ to <= txSent
      BY <2>1, <2>2
    <2> HIDE DEF to
    <2>4. /\ Len(From(txFrom, to)) = to - txFrom /\ From(txFrom, to) \in Seq(Nat)
          /\ Len(From(txFrom, txSent)) = txSent - txFrom
      BY <2>1, <2>2, <2>3, FromProperties
    <2>5. SubSeq(From(txFrom, txSent), 1, to - txFrom) = From(txFrom, to)
      BY <2>1, <2>2, <2>3, FromPrefix
    <2>6. SubSeq(From(txFrom, to), 1, to - txFrom) = From(txFrom, to)
      BY <2>4, SubSeqFull
    <2>7. IsPrefix(From(txFrom, to), From(txFrom, txSent))
      BY <2>1, <2>3, <2>4, <2>5, <2>6 DEF IsPrefix
    <2> QED
      BY <2>2, <2>7 DEF to
  <1> QED
    BY Types, <1>1, <1>2, <1>3, PTL DEF Spec

LEMMA IncreasingParts ==
  ASSUME NEW s \in Seq(Nat), NEW u \in Seq(Nat), NEW a \in Nat, NEW b \in Nat,
         Increasing(s \o u, a, b)
  PROVE  Increasing(s, a, b) /\ Increasing(u, a, b)
  <1> DEFINE v == s \o u
  <1>1. /\ v \in Seq(Nat) /\ Len(v) = Len(s) + Len(u)
        /\ \A i \in 1..(Len(s) + Len(u)) : v[i] = IF i <= Len(s) THEN s[i] ELSE u[i - Len(s)]
    BY ConcatProperties
  <1>2. /\ \A i \in 1..Len(v) : v[i] \in (a + 1)..b
        /\ \A i, j \in 1..Len(v) : i < j => v[i] < v[j]
    BY DEF Increasing
  <1> HIDE DEF v
  <1>3. \A i \in 1..Len(s) : i \in 1..Len(v) /\ v[i] = s[i]
    BY <1>1
  <1>4. \A i \in 1..Len(u) : i + Len(s) \in 1..Len(v) /\ v[i + Len(s)] = u[i]
    <2> SUFFICES ASSUME NEW i \in 1..Len(u)
                 PROVE  i + Len(s) \in 1..Len(v) /\ v[i + Len(s)] = u[i]
      OBVIOUS
    <2>1. /\ i + Len(s) \in 1..(Len(s) + Len(u)) /\ ~(i + Len(s) <= Len(s))
          /\ (i + Len(s)) - Len(s) = i
      OBVIOUS
    <2> QED
      BY <1>1, <2>1
  <1>5. Increasing(s, a, b)
    BY <1>2, <1>3 DEF Increasing
  <1>6. Increasing(u, a, b)
    <2>1. \A i \in 1..Len(u) : u[i] \in (a + 1)..b
      BY <1>2, <1>4
    <2>2. ASSUME NEW i \in 1..Len(u), NEW j \in 1..Len(u), i < j PROVE u[i] < u[j]
      <3>1. i + Len(s) < j + Len(s)
        BY <2>2
      <3>2. v[i + Len(s)] < v[j + Len(s)]
        BY <1>2, <1>4, <3>1
      <3> QED
        BY <1>4, <3>2
    <2> QED
      BY <2>1, <2>2 DEF Increasing
  <1> QED
    BY <1>5, <1>6

LEMMA IncreasingAppend ==
  ASSUME NEW s \in Seq(Nat), NEW a \in Nat, NEW b \in Nat, a <= b, Increasing(s, a, b)
  PROVE  Increasing(Append(s, b + 1), a, b + 1)
  <1>1. /\ Append(s, b + 1) \in Seq(Nat) /\ Len(Append(s, b + 1)) = Len(s) + 1
        /\ \A i \in 1..Len(s) : Append(s, b + 1)[i] = s[i]
        /\ Append(s, b + 1)[Len(s) + 1] = b + 1
    OBVIOUS
  <1> QED
    BY <1>1 DEF Increasing

LEMMA FromAppend ==
  ASSUME NEW a \in Nat, NEW b \in Nat, a <= b
  PROVE  Append(From(a, b), b + 1) = From(a, b + 1)
  <1>1. /\ From(a, b) \in Seq(Nat) /\ Len(From(a, b)) = b - a
        /\ \A i \in 1..(b - a) : From(a, b)[i] = a + i
    BY FromProperties
  <1>2. /\ From(a, b + 1) \in Seq(Nat) /\ Len(From(a, b + 1)) = b + 1 - a
        /\ \A i \in 1..(b + 1 - a) : From(a, b + 1)[i] = a + i
    <2>1. b + 1 \in Nat /\ a <= b + 1
      OBVIOUS
    <2> QED
      BY <2>1, FromProperties
  <1>3. /\ Append(From(a, b), b + 1) \in Seq(Nat) /\ Len(Append(From(a, b), b + 1)) = b + 1 - a
        /\ \A i \in 1..(b + 1 - a) : Append(From(a, b), b + 1)[i] = a + i
    <2>1. /\ Append(From(a, b), b + 1) \in Seq(Nat)
          /\ Len(Append(From(a, b), b + 1)) = Len(From(a, b)) + 1
          /\ \A i \in 1..Len(From(a, b)) : Append(From(a, b), b + 1)[i] = From(a, b)[i]
          /\ Append(From(a, b), b + 1)[Len(From(a, b)) + 1] = b + 1
      BY <1>1, AppendProperties
    <2> QED
      BY <1>1, <2>1
  <1> QED
    BY <1>2, <1>3, SeqEqual

LEMMA ConcatAppend ==
  ASSUME NEW s \in Seq(Nat), NEW u \in Seq(Nat), NEW x \in Nat
  PROVE  s \o Append(u, x) = Append(s \o u, x)
  <1>1. Append(u, x) = u \o <<x>> /\ <<x>> \in Seq(Nat)
    BY AppendIsConcat
  <1>2. s \o u \in Seq(Nat)
    BY ConcatProperties
  <1>3. Append(s \o u, x) = (s \o u) \o <<x>>
    BY <1>2, AppendIsConcat
  <1>4. (s \o u) \o <<x>> = s \o (u \o <<x>>)
    BY <1>1, ConcatAssoc
  <1> QED
    BY <1>1, <1>3, <1>4

LEMMA GotIsSeq == TypeOK => Got \in Seq(Nat) /\ Unsent \in Seq(Nat)
  <1> SUFFICES ASSUME TypeOK PROVE Got \in Seq(Nat) /\ Unsent \in Seq(Nat)
    OBVIOUS
  <1>1. rx \in Seq(Nat) /\ rxHost \in Seq(Nat) /\ size \in Nat
    BY DEF TypeOK, TypeRx, TypeHist, TypeControl
  <1>2. Drop(rx, size) \in Seq(Nat)
    <2>1. size + 1 \in Nat \ {0} /\ Len(rx) \in Int /\ Len(rx) <= Len(rx)
      BY <1>1
    <2> QED
      BY <1>1, <2>1, SliceIsSeq DEF Drop
  <1>3. Unsent \in Seq(Nat)
    BY <1>1, <1>2 DEF Unsent
  <1> QED
    BY <1>1, <1>3, ConcatProperties DEF Got

LEMMA DropOfConcat ==
  ASSUME NEW s \in Seq(Nat), NEW u \in Seq(Nat), NEW n \in 0..Len(s)
  PROVE  Drop(s \o u, n) = Drop(s, n) \o u
  <1> DEFINE h == SubSeq(s, 1, n)
             r == Drop(s, n)
  <1>1. h \in Seq(Nat) /\ Len(h) = n /\ r \in Seq(Nat) /\ Len(r) = Len(s) - n /\ h \o r = s
    BY DropProperties, HeadAndRest
  <1> HIDE DEF h, r
  <1> DEFINE w == r \o u
             v == h \o w
  <1>2. s \o u = v
    <2>0. h \in Seq(Nat) /\ r \in Seq(Nat)
      BY <1>1
    <2>1. (h \o r) \o u = h \o (r \o u)
      BY <2>0, ConcatAssoc, Zenon
    <2> QED
      BY <1>1, <2>1
  <1>3. w \in Seq(Nat) /\ r \o u = w
    BY <1>1, ConcatProperties
  <1> HIDE DEF w
  <1>4. /\ v \in Seq(Nat) /\ Len(v) = Len(h) + Len(w)
        /\ \A i \in 1..(Len(h) + Len(w)) : v[i] = IF i <= Len(h) THEN h[i] ELSE w[i - Len(h)]
    BY <1>1, <1>3, ConcatProperties
  <1> HIDE DEF v
  <1>5. ASSUME NEW i \in 1..Len(w) PROVE v[n + i] = w[i]
    <2>1. n + i \in 1..(Len(h) + Len(w)) /\ ~(n + i <= Len(h)) /\ (n + i) - Len(h) = i
      BY <1>1, <1>3
    <2> QED
      BY <1>4, <2>1
  <1>6. Len(v) = n + Len(w)
    BY <1>1, <1>4
  <1>7. /\ Drop(v, n) \in Seq(Nat) /\ Len(Drop(v, n)) = Len(w)
        /\ \A i \in 1..Len(w) : Drop(v, n)[i] = v[n + i]
    <2>1. v \in Seq(Nat) /\ Len(w) \in Nat /\ Len(v) = n + Len(w) /\ n \in 0..Len(v)
      BY <1>3, <1>4, <1>6
    <2>2. Drop(v, n) \in Seq(Nat) /\ Len(Drop(v, n)) = Len(w)
      BY <2>1, DropProperties
    <2>3. ASSUME NEW i \in 1..Len(w) PROVE Drop(v, n)[i] = v[n + i]
      BY <2>1 DEF Drop
    <2> QED
      BY <2>2, <2>3
  <1>8. Drop(v, n) = w
    BY <1>3, <1>5, <1>7, SeqEqual
  <1> QED
    BY <1>2, <1>3, <1>8 DEF r

\* The callback of a transfer, the transfer before it and the work handler leave
\* the stream of the UART as it is.
LEMMA GotUnchanged ==
  ASSUME TypeOK, SessionInv, ClaimInv, configured, Queue \/ \E n \in 0..Size : UsbIn(n)
  PROVE  Got' = Got
  <1>s. rx \in Seq(Nat) /\ rxHost \in Seq(Nat) /\ inData \in Seq(Nat)
    BY DEF TypeOK, TypeRx, TypeHist
  <1>n. size \in Nat /\ Len(rx) \in Nat /\ rxClaimed \in 0..Len(rx)
    BY DEF TypeOK, TypeRx, TypeControl
  <1>1. CASE WriteDone
    <2>1. size <= rxClaimed /\ q = "wrote"
      BY <1>1 DEF ClaimInv, WriteDone
    <2>2. ~(size > rxClaimed)
      BY <1>n, <2>1
    <2>3. rx' = Drop(rx, size) /\ rxHost' = rxHost /\ q' \in {"none", "resubmit"}
      BY <1>1, <2>2, Zenon DEF WriteDone, rxHist
    <2> QED
      BY <2>1, <2>3 DEF Got, Unsent
  <1>2. ASSUME NEW n \in 0..Size, UsbIn(n) PROVE Got' = Got
    <2>1. /\ inBusy /\ q = "none" /\ n <= Len(inData) /\ rxHost' = rxHost \o SubSeq(inData, 1, n)
          /\ q' = "wrote" /\ size' = n /\ rx' = rx
      BY <1>2, Zenon DEF UsbIn, rxRing
    <2>2. Covered
      BY <2>1, Zenon DEF ClaimInv
    <2> DEFINE m == Len(inData)
    <2>3. m \in Nat /\ m <= Len(rx) /\ inData = SubSeq(rx, 1, m) /\ n \in 0..m /\ n \in 0..Len(rx)
      BY <1>s, <1>n, <2>1, <2>2 DEF Covered
    <2> HIDE DEF m
    <2>4. SubSeq(inData, 1, n) = SubSeq(rx, 1, n)
      BY <1>s, <2>3
    <2>5. Got' = (rxHost \o SubSeq(rx, 1, n)) \o Drop(rx, n)
      BY <2>1, <2>4 DEF Got, Unsent
    <2>6. Got = rxHost \o rx
      BY <2>1 DEF Got, Unsent
    <2> QED
      BY <1>s, <2>3, <2>5, <2>6, MoveHead
  <1>3. CASE HandlerClaim \/ HandlerSend \/ WriteResubmit \/ ReadDone \/ ReadEnable \/ ReadClaim
    <2>1. /\ UNCHANGED <<rx, rxHost, size>>
          /\ q # "wrote" /\ q' \in {q, "none", "send", "enable", "claim"}
      BY <1>3, Zenon DEF HandlerClaim, HandlerSend, WriteResubmit, ReadDone, ReadEnable, ReadClaim,
                         rxRing, rxHist
    <2> QED
      BY <2>1 DEF Got, Unsent
  <1> QED
    BY <1>1, <1>2, <1>3, Zenon DEF Queue

LEMMA LineStep ==
  TypeOK /\ SessionInv /\ ClaimInv /\ LineInv /\ [Next]_vars => LineInv'
  <1> SUFFICES ASSUME TypeOK, SessionInv, ClaimInv, LineInv, [Next]_vars PROVE LineInv'
    OBVIOUS
  <1>s. /\ fifo \in Seq(Nat) /\ fifo \in Seq(Nat \ {0}) /\ rx \in Seq(Nat) /\ rxHost \in Seq(Nat)
        /\ Got \in Seq(Nat) /\ Unsent \in Seq(Nat)
    <2>1. fifo \in Seq(Nat \ {0}) /\ rx \in Seq(Nat) /\ rxHost \in Seq(Nat)
      BY DEF TypeOK, TypeRx, TypeHist
    <2>2. fifo \in Seq(Nat)
      BY <2>1, SeqMonotonic
    <2> QED
      BY <2>1, <2>2, GotIsSeq
  <1>n. /\ rxSent \in Nat /\ rxFrom \in Nat /\ rxSeen \in Nat /\ size \in Nat
        /\ rxClaimed \in 0..Len(rx) /\ Len(rx) \in Nat
    BY DEF TypeOK, TypeRx, TypeHist, TypeControl
  <1>1. ASSUME configured' => configured /\ Got' = Got,
               UNCHANGED <<fifo, rxSent, rxFrom, rxSeen, gap>>
        PROVE  LineInv'
    BY <1>1 DEF LineInv, Line
  <1>2. CASE Queue \/ \E n \in 0..Size : UsbIn(n)
    <2>1. UNCHANGED <<configured, fifo, rxSent, rxFrom, rxSeen, gap>>
      BY <1>2, Zenon DEF Queue, HandlerClaim, HandlerSend, WriteDone, WriteResubmit, ReadDone,
                         ReadEnable, ReadClaim, UsbIn, control, rxHist
    <2>2. configured => Got' = Got
      BY <1>2, GotUnchanged
    <2> QED
      BY <1>1, <2>1, <2>2
  <1>3. CASE Status \/ IsrTransmit \/ BusReset \/ (\E n \in 0..Size : UsbOut(n)) \/ UNCHANGED vars
    <2>1. CASE ResetRx \/ ResetRings
      <3>1. UNCHANGED <<fifo, rxSent, rxFrom, rxSeen, gap>>
        BY <2>1, Zenon DEF ResetRx, ResetRings, rxHist
      <3>2. ~configured'
        BY <2>1 DEF ResetRx, ResetRings, SessionInv
      <3> QED
        BY <1>1, <3>1, <3>2
    <2>2. CASE ResetTx \/ ResetCancel \/ IsrTransmit \/ BusReset \/ UNCHANGED vars
      <3>1. UNCHANGED <<configured, q, size, rx, rxHost, fifo, rxSent, rxFrom, rxSeen, gap>>
        BY <2>2, Zenon DEF ResetTx, ResetCancel, IsrTransmit, BusReset, vars, rxHist, rxRing, queue,
                           control
      <3>2. Got' = Got
        BY <3>1 DEF Got, Unsent
      <3> QED
        BY <1>1, <3>1, <3>2
    <2>3. CASE \E n \in 0..Size : UsbOut(n)
      <3>1. /\ UNCHANGED <<configured, rx, rxHost, fifo, rxSent, rxFrom, rxSeen, gap>>
            /\ q = "none" /\ q' = "read"
        BY <2>3, Zenon DEF UsbOut, rxHist, rxRing, control
      <3>2. Got' = Got
        BY <3>1 DEF Got, Unsent
      <3> QED
        BY <1>1, <3>1, <3>2
    <2> QED
      BY <1>3, <2>1, <2>2, <2>3 DEF Status
  <1>4. CASE ByteArrives
    <2>1. /\ rxSent' = rxSent + 1
          /\ UNCHANGED <<configured, q, size, rx, rxHost, rxFrom, rxSeen>>
      BY <1>4, Zenon DEF ByteArrives, control, queue, rxRing
    <2>2. Got' = Got
      BY <2>1 DEF Got, Unsent
    <2>3. CASE fifo' = Append(fifo, rxSent + 1) /\ UNCHANGED gap
      <3>1. Increasing(fifo', 0, rxSent')
        BY <1>s, <1>n, <2>1, <2>3, IncreasingAppend DEF LineInv
      <3>2. Line' = Append(Line, rxSent + 1)
        <4>1. Line' = Got \o Append(fifo, rxSent + 1)
          BY <2>2, <2>3, Zenon DEF Line
        <4>2. Got \in Seq(Nat) /\ fifo \in Seq(Nat) /\ rxSent + 1 \in Nat
          BY <1>s, <1>n
        <4>3. Got \o Append(fifo, rxSent + 1) = Append(Got \o fifo, rxSent + 1)
          BY <4>2, ConcatAppend
        <4> QED
          BY <4>1, <4>3, Zenon DEF Line
      <3>3. ASSUME configured PROVE rxFrom <= rxSent /\ Increasing(Line', rxFrom, rxSent')
        <4>1. Line \in Seq(Nat) /\ rxFrom <= rxSent /\ Increasing(Line, rxFrom, rxSent)
          BY <1>s, <3>3, ConcatProperties DEF LineInv, Line
        <4> QED
          BY <1>n, <2>1, <3>2, <4>1, IncreasingAppend
      <3>4. ASSUME configured, ~gap
            PROVE  Line' = From(rxFrom, rxSent') /\ rxSeen = rxFrom + Len(Got)
        <4>1. /\ Line = From(rxFrom, rxSent) /\ rxFrom <= rxSent
              /\ rxSeen = rxFrom + Len(Got)
          BY <3>4 DEF LineInv
        <4> QED
          BY <1>n, <2>1, <3>2, <4>1, FromAppend
      <3>5. rxFrom <= rxSent => rxFrom' <= rxSent'
        BY <1>n, <2>1
      <3> QED
        BY <2>1, <2>2, <2>3, <3>1, <3>3, <3>4, <3>5, Zenon DEF LineInv
    <2>4. CASE gap' /\ fifo' = fifo
      <3>1. ASSUME NEW s \in Seq(Nat), NEW a \in Nat, Increasing(s, a, rxSent)
            PROVE  Increasing(s, a, rxSent')
        <4>1. \A x \in (a + 1)..rxSent : x \in (a + 1)..rxSent'
          BY <1>n, <2>1
        <4> QED
          BY <3>1, <4>1, Zenon DEF Increasing
      <3>2. Line' = Line /\ Line \in Seq(Nat)
        BY <1>s, <2>2, <2>4, ConcatProperties DEF Line
      <3>3. rxFrom <= rxSent => rxFrom' <= rxSent'
        BY <1>n, <2>1
      <3>4. Increasing(fifo', 0, rxSent')
        BY <1>s, <2>4, <3>1 DEF LineInv
      <3>5. configured => Increasing(Line', rxFrom', rxSent')
        BY <1>n, <2>1, <3>1, <3>2 DEF LineInv
      <3> QED
        BY <2>1, <2>4, <3>3, <3>4, <3>5 DEF LineInv
    <2> QED
      BY <1>4, <2>3, <2>4 DEF ByteArrives
  <1>5. CASE IsrReceive
    <2>1. UNCHANGED <<configured, q, size, rxHost, rxSent, rxFrom>>
      BY <1>5, Zenon DEF IsrReceive, control
    <2>2. CASE Flushed
      <3>1. fifo' = <<>> /\ rx' = rx /\ gap'
        BY <2>2 DEF Flushed
      <3>2. Got' = Got
        BY <2>1, <3>1 DEF Got, Unsent
      <3>3. Line' = Got
        BY <1>s, <3>1, <3>2, ConcatEmptySeq DEF Line
      <3>4. Increasing(fifo', 0, rxSent)
        BY <3>1, EmptySeq DEF Increasing
      <3>5. configured => rxFrom <= rxSent /\ Increasing(Got, rxFrom, rxSent)
        BY <1>s, <1>n, IncreasingParts DEF LineInv, Line
      <3> QED
        BY <2>1, <3>1, <3>3, <3>4, <3>5, Zenon DEF LineInv
    <2>3. ASSUME NEW n \in 1..Len(fifo), Moved(n) PROVE LineInv'
      <3> DEFINE u == SubSeq(fifo, 1, n)
                 r == Drop(fifo, n)
      <3>0. n \in 0..Len(fifo)
        BY <1>s
      <3>1. rx' = rx \o u /\ fifo' = r /\ rxSeen' = fifo[n] /\ gap' = gap
        BY <2>3 DEF Moved
      <3>2. u \in Seq(Nat) /\ Len(u) = n
        BY <1>s, <3>0, DropProperties
      <3>3. r \in Seq(Nat) /\ u \o r = fifo
        BY <1>s, <3>0, DropProperties, HeadAndRest
      <3>4. (Got \o u) \o r = Line
        BY <1>s, <3>0, MoveHead DEF Line
      <3> HIDE DEF u, r
      <3>5. Increasing(fifo', 0, rxSent)
        <4>1. Increasing(u \o r, 0, rxSent)
          BY <3>3 DEF LineInv
        <4> QED
          BY <1>n, <3>1, <3>2, <3>3, <4>1, IncreasingParts
      <3>6. CASE configured
        <4>1. Unsent' = Unsent \o u
          <5>1. CASE q = "wrote"
            <6>1. size \in 0..Len(rx)
              BY <1>n, <3>6, <5>1 DEF ClaimInv
            <6>2. Drop(rx \o u, size) = Drop(rx, size) \o u
              BY <1>s, <3>2, <6>1, DropOfConcat
            <6> QED
              BY <2>1, <3>1, <5>1, <6>2 DEF Unsent
          <5>2. CASE q # "wrote"
            BY <2>1, <3>1, <5>2 DEF Unsent
          <5> QED
            BY <5>1, <5>2
        <4>2. Got' = Got \o u
          <5>1. (rxHost \o Unsent) \o u = rxHost \o (Unsent \o u)
            <6>1. rxHost \in Seq(Nat) /\ Unsent \in Seq(Nat) /\ u \in Seq(Nat)
              BY <1>s, <3>2
            <6> QED
              BY <6>1, ConcatAssoc, Zenon
          <5> QED
            BY <2>1, <4>1, <5>1 DEF Got
        <4>3. Line' = Line
          BY <3>1, <3>4, <4>2 DEF Line
        <4>4. ASSUME ~gap PROVE rxSeen' = rxFrom + Len(Got')
          <5>1. Line = From(rxFrom, rxSent) /\ rxFrom <= rxSent
            BY <3>6, <4>4 DEF LineInv
          <5>2. /\ Len(Line) = Len(Got) + Len(fifo)
                /\ \A i \in 1..(Len(Got) + Len(fifo)) :
                     Line[i] = IF i <= Len(Got) THEN Got[i] ELSE fifo[i - Len(Got)]
            BY <1>s, ConcatProperties DEF Line
          <5>3. /\ Len(From(rxFrom, rxSent)) = rxSent - rxFrom
                /\ \A i \in 1..(rxSent - rxFrom) : From(rxFrom, rxSent)[i] = rxFrom + i
            BY <1>n, <5>1, FromProperties
          <5> DEFINE k == Len(Got) + n
          <5>4. /\ k \in 1..(Len(Got) + Len(fifo)) /\ ~(k <= Len(Got)) /\ k - Len(Got) = n
                /\ k \in 1..(rxSent - rxFrom)
            <6>1. Len(Got) \in Nat /\ Len(fifo) \in Nat
              BY <1>s
            <6>2. rxSent - rxFrom = Len(Got) + Len(fifo)
              BY <5>1, <5>2, <5>3
            <6> QED
              BY <6>1, <6>2
          <5> HIDE DEF k
          <5>5. Line[k] = fifo[n] /\ Line[k] = rxFrom + k
            BY <5>1, <5>2, <5>3, <5>4
          <5>6. Len(Got') = k
            BY <1>s, <3>2, <4>2, ConcatProperties DEF k
          <5> QED
            BY <3>1, <5>5, <5>6
        <4>5. /\ rxFrom' <= rxSent' /\ Increasing(Line', rxFrom', rxSent')
              /\ (~gap' => Line' = From(rxFrom', rxSent') /\ rxSeen' = rxFrom' + Len(Got'))
          BY <2>1, <3>1, <3>6, <4>3, <4>4 DEF LineInv
        <4> QED
          BY <2>1, <3>5, <4>5 DEF LineInv
      <3>7. CASE ~configured
        BY <2>1, <3>5, <3>7 DEF LineInv
      <3> QED
        BY <3>6, <3>7
    <2> QED
      BY <1>5, <2>2, <2>3, Received
  <1>6. CASE Configure
    <2>1. /\ rx' = <<>> /\ q' = "claim" /\ rxHost' = <<>> /\ fifo' = fifo /\ rxSent' = rxSent
          /\ rxSeen' = (IF fifo = <<>> THEN rxSent ELSE fifo[1] - 1) /\ rxFrom' = rxSeen'
      BY <1>6, Zenon DEF Configure, EmptyRings
    <2>2. ~gap' => fifo = From(rxFrom', rxSent)
      BY <1>6 DEF Configure
    <2>3. Got' = <<>> /\ Len(Got') = 0
      BY <2>1 DEF Got, Unsent
    <2>4. Line' = fifo
      BY <1>s, <2>1, <2>3, ConcatEmptySeq DEF Line
    <2>5. Increasing(fifo, 0, rxSent)
      BY DEF LineInv
    <2>6. rxFrom' \in Nat /\ rxFrom' <= rxSent /\ Increasing(fifo, rxFrom', rxSent)
      <3>1. CASE fifo = <<>>
        BY <1>n, <2>1, <3>1 DEF Increasing
      <3>2. CASE fifo # <<>>
        <4>1. Len(fifo) \in Nat /\ 1 \in 1..Len(fifo)
          BY <1>s, <3>2, EmptySeq
        <4>2. /\ \A i \in 1..Len(fifo) : fifo[i] \in 1..rxSent
              /\ \A i \in 1..Len(fifo) : 1 < i => fifo[1] < fifo[i]
          BY <2>5, <4>1 DEF Increasing
        <4>3. rxFrom' = fifo[1] - 1
          BY <2>1, <3>2
        <4>4. \A i \in 1..Len(fifo) : fifo[i] \in (rxFrom' + 1)..rxSent
          <5> SUFFICES ASSUME NEW i \in 1..Len(fifo) PROVE fifo[i] \in (rxFrom' + 1)..rxSent
            OBVIOUS
          <5>1. i = 1 \/ 1 < i
            OBVIOUS
          <5>2. fifo[1] <= fifo[i]
            BY <4>1, <4>2, <5>1
          <5> QED
            BY <4>1, <4>2, <4>3, <5>2
        <4>5. Increasing(fifo, rxFrom', rxSent)
          BY <2>5, <4>4 DEF Increasing
        <4> QED
          BY <1>n, <4>1, <4>2, <4>3, <4>5
      <3> QED
        BY <3>1, <3>2
    <2> QED
      BY <2>1, <2>2, <2>3, <2>4, <2>5, <2>6 DEF LineInv
  <1> QED
    BY <1>2, <1>3, <1>4, <1>5, <1>6, Zenon DEF Next, Environment

LEMMA LineInvGivesRxInOrder == TypeOK /\ LineInv => RxInOrder
  <1> SUFFICES ASSUME TypeOK, LineInv, configured
               PROVE  /\ \A i \in 1..Len(Got) : Got[i] > (IF i = 1 THEN rxFrom ELSE Got[i - 1])
                      /\ ~gap => Got = From(rxFrom, rxSeen)
    BY DEF RxInOrder, Got
  <1>0. /\ rxFrom \in Nat /\ rxSent \in Nat /\ rxSeen \in Nat /\ fifo \in Seq(Nat)
        /\ Got \in Seq(Nat) /\ Len(Got) \in Nat
    <2>1. fifo \in Seq(Nat \ {0}) /\ rxFrom \in Nat /\ rxSent \in Nat /\ rxSeen \in Nat
      BY DEF TypeOK, TypeRx, TypeHist
    <2> QED
      BY <2>1, SeqMonotonic, GotIsSeq
  <1>1. Increasing(Got, rxFrom, rxSent)
    BY <1>0, IncreasingParts DEF LineInv, Line
  <1>2. ASSUME NEW i \in 1..Len(Got)
        PROVE  Got[i] > (IF i = 1 THEN rxFrom ELSE Got[i - 1])
    <2>1. CASE i = 1
      BY <1>0, <1>1, <2>1 DEF Increasing
    <2>2. CASE i # 1
      <3>1. i - 1 \in 1..Len(Got) /\ i - 1 < i
        BY <1>0, <2>2
      <3>2. Got[i - 1] < Got[i] /\ Got[i] \in Nat /\ Got[i - 1] \in Nat
        BY <1>0, <1>1, <3>1 DEF Increasing
      <3> QED
        BY <2>2, <3>2
    <2> QED
      BY <2>1, <2>2
  <1>3. ASSUME ~gap PROVE Got = From(rxFrom, rxSeen)
    <2>1. Got \o fifo = From(rxFrom, rxSent) /\ rxSeen = rxFrom + Len(Got) /\ rxFrom <= rxSent
      BY <1>3 DEF LineInv, Line
    <2>2. Len(Got \o fifo) = Len(Got) + Len(fifo)
      BY <1>0, ConcatProperties
    <2>3. Len(Got \o fifo) = rxSent - rxFrom
      BY <1>0, <2>1, FromProperties
    <2>4. rxFrom <= rxSeen /\ rxSeen <= rxSent /\ rxSeen - rxFrom = Len(Got)
      <3>1. Len(fifo) \in Nat
        BY <1>0
      <3> QED
        BY <1>0, <2>1, <2>2, <2>3, <3>1
    <2>5. SubSeq(Got \o fifo, 1, Len(Got)) = SubSeq(Got, 1, Len(Got))
      BY <1>0, PrefixOfConcat
    <2>6. SubSeq(From(rxFrom, rxSent), 1, Len(Got)) = From(rxFrom, rxSeen)
      BY <1>0, <2>4, FromPrefix
    <2>7. SubSeq(Got, 1, Len(Got)) = Got
      BY <1>0, SubSeqFull
    <2> QED
      BY <2>1, <2>5, <2>6, <2>7
  <1> QED
    BY <1>2, <1>3

\* The host gets the bytes of the UART in order and none twice, those of its own
\* session only, and all of them unless the driver or the UART dropped some.
THEOREM RxInOrderHolds == Spec => []RxInOrder
  <1> DEFINE Inv == SessionInv /\ ClaimInv /\ LineInv
  <1>1. Init => Inv
    BY EmptySeq DEF Init, SessionInv, ClaimInv, LineInv, Increasing
  <1>2. Inv /\ TypeOK /\ [Next]_vars => Inv'
    BY SessionStep, ClaimStep, LineStep DEF TypeOK
  <1>3. Inv /\ TypeOK => RxInOrder
    BY LineInvGivesRxInOrder
  <1> QED
    BY Types, <1>1, <1>2, <1>3, PTL DEF Spec
=============================================================================
