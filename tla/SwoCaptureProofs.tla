-------------------------- MODULE SwoCaptureProofs --------------------------
(***************************************************************************)
(* Proofs about SwoCapture for every buffer size, FIFO depth, command      *)
(* argument and number of bytes.                                           *)
(*                                                                         *)
(* Type correctness is inductive as it stands.  That capture only runs on  *)
(* an SWO pin is not: it rests on CaptureInv below, which says, for each place    *)
(* the DAP thread can be at, which of the UART's interrupts may be live    *)
(* and what the command on its way has already made sure of.               *)
(***************************************************************************)
EXTENDS SwoCapture, SequenceTheorems, TLAPS

LEMMA LeastNat ==
  ASSUME NEW a \in Nat, NEW b \in Nat
  PROVE  /\ Least(a, b) \in Nat
         /\ Least(a, b) <= a
         /\ Least(a, b) <= b
  BY DEF Least

\* What one pass of the copy loop of swo_data takes is within the ring, the
\* array and the response.
LEMMA ClaimBounds ==
  ASSUME TypeData
  PROVE  /\ Claim \in Nat
         /\ Claim <= Len(ring)
         /\ get + Claim <= Size
         /\ count + Claim <= RespSpace
  BY SizesAreLegal DEF Claim, Contiguous, Least, TypeData

\* The interrupt handler keeps the ring within its size.
LEMMA ReceiveBounds ==
  ASSUME TypeData, ReceiveLoop
  PROVE  /\ ring' \in Seq(Nat)
         /\ Len(ring') <= Size
         /\ fifo' \in Seq(Nat)
         /\ Len(fifo') <= FifoDepth
  <1> DEFINE n == Least(Len(fifo), Size - Len(ring))
  <1>1. n \in Nat /\ n <= Len(fifo) /\ n <= Size - Len(ring)
    BY SizesAreLegal DEF Least, TypeData
  <1>2. SubSeq(fifo, 1, n) \in Seq(Nat) /\ Len(SubSeq(fifo, 1, n)) = n
    BY <1>1 DEF TypeData
  <1>3. ring' = ring \o SubSeq(fifo, 1, n) /\ fifo' = <<>>
    BY DEF ReceiveLoop
  <1>4. ring' \in Seq(Nat) /\ Len(ring') = Len(ring) + n
    BY <1>2, <1>3 DEF TypeData
  <1> QED
    BY <1>1, <1>3, <1>4, SizesAreLegal DEF TypeData

LEMMA TypeInit == Init => TypeOK /\ OnTrack
  <1>1. Init => TypeData
    BY SizesAreLegal, RatesAreLegal DEF Init, TypeData, Labels, Cmds, Args
  <1>2. Init => TypeBits
    BY DEF Init, TypeBits
  <1>3. Init => OnTrack
    BY DEF Init, OnTrack
  <1> QED
    BY <1>1, <1>2, <1>3 DEF TypeOK

\* Every action assigns the flags and enables a truth value.
LEMMA BitsStep == TypeBits /\ [Next]_vars => TypeBits'
  <1> SUFFICES ASSUME TypeBits, [Next]_vars PROVE TypeBits'
    OBVIOUS
  <1> USE DEF TypeBits, link, rate, flags, irqs, wire, buf, call
  <1>1. CASE TargetSends
    BY <1>1, Zenon DEF TargetSends
  <1>2. CASE LineError
    BY <1>2, Zenon DEF LineError
  <1>3. CASE Isr
    BY <1>3, Zenon DEF Isr, ReceiveLoop
  <1>4. CASE Command
    <2>1. CASE ResetBegin
      BY <2>1, Zenon DEF ResetBegin
    <2>2. CASE Command /\ ~ResetBegin
      BY <2>2, Zenon DEF Command, Connect, Disconnect, SwoMode, SwoBaudrate, SwoControl,
                         SwoData
    <2> QED
      BY <1>4, <2>1, <2>2
  <1>5. CASE Statement
    <2>1. CASE OnFlags \/ OnErr \/ OnRx
      BY <2>1, Zenon DEF OnFlags, OnErr, OnRx
    <2>2. CASE OffRx \/ OffErr \/ OffFlags
      BY <2>2, Zenon DEF OffRx, OffErr, OffFlags
    <2>3. CASE ResetRx \/ ResetErr \/ ResetRing
      BY <2>3, Zenon DEF ResetRx, ResetErr, ResetRing
    <2>4. CASE OnRing \/ Finish \/ Again
      BY <2>4, Zenon DEF OnRing, Finish, Again
    <2>5. CASE Copy
      BY <2>5, Zenon DEF Copy
    <2> QED
      BY <1>5, <2>1, <2>2, <2>3, <2>4, <2>5 DEF Statement
  <1>6. CASE UNCHANGED vars
    BY <1>6, Zenon DEF vars
  <1> QED
    BY <1>1, <1>2, <1>3, <1>4, <1>5, <1>6 DEF Next

\* Types of the data, with what the place of the thread says about its command.
LEMMA DataStep == TypeData /\ OnTrack /\ [Next]_vars => TypeData' /\ OnTrack'
  <1> SUFFICES ASSUME TypeData, OnTrack, [Next]_vars PROVE TypeData' /\ OnTrack'
    OBVIOUS
  <1> USE SizesAreLegal, RatesAreLegal, CountsAreLegal
        DEF TypeData, OnTrack, Labels, Cmds, Args, link, rate, buf, call
  <1>1. CASE TargetSends
    <2>1. /\ sent < MaxBytes /\ sent' = sent + 1
          /\ \/ Len(fifo) < FifoDepth /\ fifo' = Append(fifo, sent + 1) /\ lost' = lost
             \/ fifo' = fifo /\ lost' = lost \cup {sent + 1}
          /\ UNCHANGED <<link, rate, buf, pc, call>>
      BY <1>1, Zenon DEF TargetSends
    <2>2. sent' \in 0..MaxBytes /\ sent + 1 \in Nat
      BY <2>1
    <2>3. fifo' \in Seq(Nat) /\ Len(fifo') <= FifoDepth
      <3>1. CASE fifo' = fifo
        BY <3>1
      <3>2. CASE fifo' = Append(fifo, sent + 1) /\ Len(fifo) < FifoDepth
        BY <3>2, <2>2
      <3> QED
        BY <2>1, <3>1, <3>2
    <2>4. lost' \subseteq Nat
      <3>1. CASE lost' = lost
        BY <3>1
      <3>2. CASE lost' = lost \cup {sent + 1}
        BY <3>2, <2>2
      <3> QED
        BY <2>1, <3>1, <3>2
    <2> QED
      BY <2>1, <2>2, <2>3, <2>4
  <1>2. CASE LineError
    BY <1>2 DEF LineError
  <1>3. CASE Isr
    <2>1. /\ ring' \in Seq(Nat) /\ Len(ring') <= Size
          /\ fifo' \in Seq(Nat) /\ Len(fifo') <= FifoDepth
      <3>1. CASE ReceiveLoop
        BY <3>1, ReceiveBounds
      <3>2. CASE ~ReceiveLoop
        BY <1>3, <3>2 DEF Isr
      <3> QED
        BY <3>1, <3>2
    <2> QED
      BY <1>3, <2>1 DEF Isr
  <1>4. CASE Command
    <2> USE DEF Arrive, wire
    <2>1. ASSUME NEW p \in {"swd", "jtag"}, Connect(p) PROVE TypeData' /\ OnTrack'
      BY <2>1 DEF Connect
    <2>2. CASE Disconnect
      BY <2>2 DEF Disconnect
    <2>3. ASSUME NEW m \in {"off", "uart"}, SwoMode(m) PROVE TypeData' /\ OnTrack'
      BY <2>3 DEF SwoMode
    <2>4. ASSUME NEW r \in Rates, SwoBaudrate(r) PROVE TypeData' /\ OnTrack'
      BY <2>4 DEF SwoBaudrate
    <2>5. ASSUME NEW start \in BOOLEAN, SwoControl(start) PROVE TypeData' /\ OnTrack'
      BY <2>5 DEF SwoControl
    <2>6. ASSUME NEW n \in Counts, SwoData(n) PROVE TypeData' /\ OnTrack'
      BY <2>6 DEF SwoData
    <2>7. CASE ResetBegin
      BY <2>7 DEF ResetBegin
    <2> QED
      BY <1>4, <2>1, <2>2, <2>3, <2>4, <2>5, <2>6, <2>7 DEF Command
  <1>5. CASE Statement
    <2> USE DEF wire
    <2>1. CASE OnFlags \/ OnErr \/ OffRx \/ OffErr \/ ResetRx \/ ResetErr
      <3>1. UNCHANGED <<port, tdo, mode, baudrate, uartRate, ring, get, out, fifo,
                        sent, lost, cmd, arg, max, count>>
        BY <2>1 DEF OnFlags, OnErr, OffRx, OffErr, ResetRx, ResetErr
      <3>2. \/ pc' \in {"on_ring", "on_rx", "reset_err", "reset_ring"}
            \/ pc \in {"off_rx", "off_err"} /\ pc' \in {"off_err", "off_flags"}
        BY <2>1, Zenon DEF OnFlags, OnErr, OffRx, OffErr, ResetRx, ResetErr
      <3> QED
        BY <3>1, <3>2
    <2>2. CASE OnRing
      BY <2>2 DEF OnRing, RingReset
    <2>7. CASE ResetRing
      BY <2>7 DEF ResetRing, RingReset, Return
    <2>3. CASE OnRx \/ OffFlags
      <3>1. /\ Return \/ (pc = "off_flags" /\ cmd # "control"
                          /\ pc' = "finish" /\ UNCHANGED call)
            /\ UNCHANGED <<link, rate, wire, buf>>
        BY <2>3, Zenon DEF OnRx, OffFlags
      <3> QED
        BY <3>1 DEF Return
    <2>4. CASE Finish
      BY <2>4 DEF Finish, ConnectPort, DisconnectPort, Return
    <2>5. CASE Again
      BY <2>5 DEF Again, Return
    <2>6. CASE Copy
      <3> DEFINE n == Claim
      <3>1. n \in Nat /\ n <= Len(ring) /\ get + n <= Size /\ count + n <= RespSpace
        BY ClaimBounds
      <3>2. /\ out' = out \o SubSeq(ring, 1, n)
            /\ ring' = SubSeq(ring, n + 1, Len(ring))
            /\ get' = (get + n) % Size
            /\ count' = count + n
        BY <2>6 DEF Copy
      <3> HIDE DEF n
      <3>3. SubSeq(ring, 1, n) \in Seq(Nat) /\ SubSeq(ring, n + 1, Len(ring)) \in Seq(Nat)
            /\ Len(SubSeq(ring, n + 1, Len(ring))) = Len(ring) - n
        BY <3>1
      <3>4. get' \in 0..(Size - 1)
        BY <3>1, <3>2
      <3>5. count' \in 0..RespSpace
        BY <3>1, <3>2
      <3>6. out' \in Seq(Nat) /\ ring' \in Seq(Nat) /\ Len(ring') <= Size
        BY <3>1, <3>2, <3>3
      <3> QED
        BY <2>6, <3>4, <3>5, <3>6 DEF Copy
    <2> QED
      BY <1>5, <2>1, <2>2, <2>3, <2>4, <2>5, <2>6, <2>7 DEF Statement
  <1>6. CASE UNCHANGED vars
    BY <1>6 DEF vars, wire
  <1> QED
    BY <1>1, <1>2, <1>3, <1>4, <1>5, <1>6 DEF Next

\* Every variable keeps its type; in particular the ring never holds more than
\* its size and swo_data never copies more than the response has room for.
THEOREM Types == Spec => []TypeOK
  <1>1. Init => TypeOK /\ OnTrack
    BY TypeInit
  <1>2. TypeOK /\ OnTrack /\ [Next]_vars => (TypeOK /\ OnTrack)'
    BY BitsStep, DataStep DEF TypeOK
  <1> QED
    BY <1>1, <1>2, PTL DEF Spec

(***************************************************************************)
(* Capture runs only on an SWO pin.                                        *)
(***************************************************************************)
LEMMA InvInit == Init => CaptureInv
  BY Zenon DEF Init, CaptureInv, OnTrack, PinFollowsPort, CaptureOnlyOnSwo, Armed, Resetting

LEMMA InvStep == TypeOK /\ CaptureInv /\ [Next]_vars => CaptureInv'
  <1> SUFFICES ASSUME TypeOK, CaptureInv, [Next]_vars PROVE CaptureInv'
    OBVIOUS
  <1>t. OnTrack'
    BY DataStep DEF TypeOK, CaptureInv
  <1> USE DEF CaptureInv, PinFollowsPort, CaptureOnlyOnSwo, Armed, Resetting
  <1>1. CASE UNCHANGED <<link, capture, irqs, pc, call>>
    BY <1>1, <1>t, Zenon DEF link, irqs, call
  <1>2. CASE Command
    <2> USE DEF Arrive, link, irqs, flags
    <2>1. ASSUME NEW p \in {"swd", "jtag"}, Connect(p) PROVE CaptureInv'
      BY <2>1, <1>t, Zenon DEF Connect
    <2>2. CASE Disconnect
      BY <2>2, <1>t, Zenon DEF Disconnect
    <2>3. ASSUME NEW m \in {"off", "uart"}, SwoMode(m) PROVE CaptureInv'
      BY <2>3, <1>t, Zenon DEF SwoMode
    <2>4. ASSUME NEW r \in Rates, SwoBaudrate(r) PROVE CaptureInv'
      BY <2>4, <1>1, Zenon DEF SwoBaudrate
    <2>5. ASSUME NEW start \in BOOLEAN, SwoControl(start) PROVE CaptureInv'
      BY <2>5, <1>t, Zenon DEF SwoControl
    <2>6. ASSUME NEW n \in Counts, SwoData(n) PROVE CaptureInv'
      BY <2>6, <1>t, Zenon DEF SwoData
    <2>7. CASE ResetBegin
      <3>1. pc' = "reset_rx" /\ port' = "disabled" /\ ~capture'
        BY <2>7, Zenon DEF ResetBegin
      <3> QED
        BY <3>1, <1>t
    <2> QED
      BY <1>2, <2>1, <2>2, <2>3, <2>4, <2>5, <2>6, <2>7 DEF Command
  <1>3. CASE Statement
    <2> USE DEF link, irqs, flags, call
    <2>1. CASE OnFlags
      BY <2>1, <1>t, Zenon DEF OnFlags
    <2>2. CASE OnRing
      BY <2>2, <1>t, Zenon DEF OnRing
    <2>3. CASE OnErr
      BY <2>3, <1>t, Zenon DEF OnErr
    <2>4. CASE OnRx
      BY <2>4, <1>t, Zenon DEF OnRx, Return
    <2>5. CASE OffRx
      BY <2>5, <1>t, Zenon DEF OffRx
    <2>6. CASE OffErr
      BY <2>6, <1>t, Zenon DEF OffErr
    <2>7. CASE OffFlags
      BY <2>7, <1>t, Zenon DEF OffFlags, Return
    <2>8. CASE Finish
      BY <2>8, <1>t, Zenon DEF Finish, ConnectPort, DisconnectPort, Return
    <2>9. CASE Copy
      BY <2>9, <1>t, Zenon DEF Copy
    <2>10. CASE Again
      BY <2>10, <1>t, Zenon DEF Again, Return
    <2>11. CASE ResetRx
      BY <2>11, <1>t, Zenon DEF ResetRx
    <2>12. CASE ResetErr
      BY <2>12, <1>t, Zenon DEF ResetErr
    <2>13. CASE ResetRing
      BY <2>13, <1>t, Zenon DEF ResetRing, Return
    <2> QED
      BY <1>3, <2>1, <2>2, <2>3, <2>4, <2>5, <2>6, <2>7, <2>8, <2>9, <2>10, <2>11, <2>12,
         <2>13 DEF Statement
  <1>4. CASE TargetSends \/ LineError \/ Isr \/ UNCHANGED vars
    BY <1>1, <1>4, Zenon DEF TargetSends, LineError, Isr, vars, flags
  <1> QED
    BY <1>2, <1>3, <1>4 DEF Next

\* The invariant that carries the properties below, together with the types.
LEMMA Invariance == Spec => [](TypeOK /\ CaptureInv)
  <1>1. Init => TypeOK /\ CaptureInv
    BY TypeInit, InvInit
  <1>2. TypeOK /\ CaptureInv /\ [Next]_vars => (TypeOK /\ CaptureInv)'
    <2> SUFFICES ASSUME TypeOK, CaptureInv, [Next]_vars PROVE (TypeOK /\ CaptureInv)'
      OBVIOUS
    <2>1. TypeOK'
      BY BitsStep, DataStep DEF TypeOK, CaptureInv
    <2> QED
      BY <2>1, InvStep
  <1> QED
    BY <1>1, <1>2, PTL DEF Spec

\* The interrupt handler is never live, and capture never on, while the pin
\* carries anything but the SWO signal of an SWD port in UART mode.
THEOREM CaptureOnlyOnSwoHolds == Spec => []CaptureOnlyOnSwo
  <1>1. CaptureInv => CaptureOnlyOnSwo
    BY DEF CaptureInv
  <1> QED
    BY <1>1, Invariance, PTL

\* The pin's function and the port agree whatever the pin controller answers.
THEOREM PinFollowsPortHolds == Spec => []PinFollowsPort
  <1>1. CaptureInv => PinFollowsPort
    BY DEF CaptureInv
  <1> QED
    BY <1>1, Invariance, PTL

\* Between commands the capture flag and both interrupt enables agree.
THEOREM CaptureMeansArmedHolds == Spec => []CaptureMeansArmed
  <1>1. CaptureInv => CaptureMeansArmed
    BY DEF CaptureInv, CaptureMeansArmed
  <1> QED
    BY <1>1, Invariance, PTL

(***************************************************************************)
(* No trace byte is lost silently.  GapInv looks at the line, the bytes    *)
(* delivered, buffered and waiting in the UART taken as one sequence: the  *)
(* copy loop leaves it alone, the interrupt handler leaves it alone or     *)
(* cuts its end and raises the overrun flag, and only the target adds to   *)
(* it.                                                                     *)
(***************************************************************************)
LEMMA OrderedAppend ==
  ASSUME NEW s \in Seq(Nat), NEW n \in Nat, Ordered(s, n)
  PROVE  Ordered(Append(s, n + 1), n + 1)
  <1> DEFINE t == Append(s, n + 1)
  <1>1. /\ t \in Seq(Nat) /\ Len(t) = Len(s) + 1
        /\ \A i \in 1..Len(s) : t[i] = s[i]
        /\ t[Len(s) + 1] = n + 1
    BY AppendProperties
  <1>2. \A i \in 1..Len(s) : s[i] \in 1..n
    BY DEF Ordered
  <1>3. \A i \in 1..Len(t) : t[i] \in 1..(n + 1)
    BY <1>1, <1>2
  <1>4. Increasing(t)
    BY <1>1, <1>2 DEF Ordered, Increasing
  <1> QED
    BY <1>3, <1>4 DEF Ordered

LEMMA CompleteAppend ==
  ASSUME NEW s \in Seq(Nat), NEW n \in Nat, NEW m, Complete(s, n, m)
  PROVE  Complete(Append(s, n + 1), n + 1, m)
  <1> DEFINE t == Append(s, n + 1)
  <1>1. /\ t \in Seq(Nat) /\ Len(t) = Len(s) + 1
        /\ \A i \in 1..Len(s) : t[i] = s[i]
        /\ t[Len(s) + 1] = n + 1
    BY AppendProperties
  <1> HIDE DEF t
  <1> SUFFICES ASSUME NEW b \in t[1]..(n + 1), b \notin m PROVE In(b, t)
    BY DEF Complete, t
  <1>2. CASE b = n + 1
    BY <1>1, <1>2 DEF In
  <1>3. CASE b # n + 1
    <2>1. s # <<>>
      BY <1>1, <1>3
    <2>2. t[1] = s[1]
      BY <1>1, <2>1
    <2>3. b \in s[1]..n
      BY <1>1, <1>3, <2>2
    <2>4. In(b, s)
      BY <2>1, <2>3 DEF Complete
    <2> QED
      BY <1>1, <2>4 DEF In
  <1> QED
    BY <1>2, <1>3

LEMMA CompleteLost ==
  ASSUME NEW s \in Seq(Nat), NEW n \in Nat, NEW m, Complete(s, n, m)
  PROVE  Complete(s, n + 1, m \cup {n + 1})
  BY DEF Complete, In

LEMMA OrderedMore ==
  ASSUME NEW s \in Seq(Nat), NEW n \in Nat, Ordered(s, n)
  PROVE  Ordered(s, n + 1)
  BY DEF Ordered

\* Cutting the end or the beginning of an ordered sequence keeps it ordered.
LEMMA OrderedPrefix ==
  ASSUME NEW s \in Seq(Nat), NEW t \in Seq(Nat), NEW n \in Nat, Ordered(s \o t, n),
         NEW k \in 0..Len(t)
  PROVE  Ordered(s \o SubSeq(t, 1, k), n)
  <1> DEFINE u == SubSeq(t, 1, k)
  <1>1. u \in Seq(Nat) /\ Len(u) = k /\ \A i \in 1..k : u[i] = t[i]
    <2>1. \A i \in 1..k : t[i] \in Nat
      OBVIOUS
    <2> QED
      BY <2>1, SubSeqProperties
  <1> HIDE DEF u
  <1>2. /\ s \o u \in Seq(Nat) /\ Len(s \o u) = Len(s) + k
        /\ \A i \in 1..(Len(s) + k) :
             (s \o u)[i] = IF i <= Len(s) THEN s[i] ELSE u[i - Len(s)]
    BY <1>1, ConcatProperties
  <1>3. /\ Len(s \o t) = Len(s) + Len(t)
        /\ \A i \in 1..(Len(s) + Len(t)) :
             (s \o t)[i] = IF i <= Len(s) THEN s[i] ELSE t[i - Len(s)]
    BY ConcatProperties
  <1>4. \A i \in 1..(Len(s) + k) : (s \o u)[i] = (s \o t)[i]
    BY <1>1, <1>2, <1>3
  <1> DEFINE v == s \o u
             w == s \o t
  <1>5. v \in Seq(Nat) /\ Len(v) <= Len(w) /\ \A i \in 1..Len(v) : v[i] = w[i]
    BY <1>1, <1>2, <1>3, <1>4
  <1>6. Ordered(w, n) /\ w \in Seq(Nat)
    OBVIOUS
  <1> HIDE DEF v, w
  <1>7. ASSUME NEW i \in 1..Len(v), NEW j \in 1..Len(v), i < j PROVE v[i] < v[j]
    <2>1. i \in 1..Len(w) /\ j \in 1..Len(w)
      BY <1>5, <1>6
    <2>2. w[i] < w[j]
      BY <1>6, <1>7, <2>1 DEF Ordered, Increasing
    <2> QED
      BY <1>5, <2>2
  <1>8. ASSUME NEW i \in 1..Len(v) PROVE v[i] \in 1..n
    <2>1. i \in 1..Len(w)
      BY <1>5, <1>6
    <2> QED
      BY <1>5, <1>6, <2>1 DEF Ordered
  <1>9. Ordered(v, n)
    BY <1>7, <1>8 DEF Ordered, Increasing
  <1> QED
    BY <1>9 DEF v, u

LEMMA OrderedSuffix ==
  ASSUME NEW s \in Seq(Nat), NEW t \in Seq(Nat), NEW n \in Nat, Ordered(s \o t, n)
  PROVE  Ordered(t, n)
  <1>0. /\ Len(s \o t) = Len(s) + Len(t)
        /\ \A i \in 1..(Len(s) + Len(t)) :
             (s \o t)[i] = IF i <= Len(s) THEN s[i] ELSE t[i - Len(s)]
    BY ConcatProperties
  <1>1. /\ Len(s \o t) = Len(s) + Len(t)
        /\ \A i \in 1..Len(t) : (s \o t)[Len(s) + i] = t[i]
    BY <1>0
  <1> DEFINE w == s \o t
             k == Len(s)
  <1>2. k \in Nat /\ Len(w) = k + Len(t) /\ \A i \in 1..Len(t) : w[k + i] = t[i]
    BY <1>1
  <1>3. Ordered(w, n)
    OBVIOUS
  <1> HIDE DEF w, k
  <1>4. ASSUME NEW i \in 1..Len(t), NEW j \in 1..Len(t), i < j PROVE t[i] < t[j]
    <2>1. k + i \in 1..Len(w) /\ k + j \in 1..Len(w) /\ k + i < k + j
      BY <1>2, <1>4
    <2>2. w[k + i] < w[k + j]
      BY <1>3, <2>1 DEF Ordered, Increasing
    <2> QED
      BY <1>2, <2>2
  <1>5. ASSUME NEW i \in 1..Len(t) PROVE t[i] \in 1..n
    <2>1. k + i \in 1..Len(w)
      BY <1>2
    <2> QED
      BY <1>2, <1>3, <2>1 DEF Ordered
  <1> QED
    BY <1>4, <1>5 DEF Ordered, Increasing

LEMMA Assoc ==
  ASSUME NEW s \in Seq(Nat), NEW t \in Seq(Nat), NEW u \in Seq(Nat)
  PROVE  (s \o t) \o u = s \o (t \o u)
  BY ConcatAssociative

\* What each kind of step makes of the line.
LEMMA LineAppend ==
  ASSUME TypeData, fifo' = Append(fifo, sent + 1), UNCHANGED buf
  PROVE  Line' = Append(Line, sent + 1)
  <1>1. /\ out \in Seq(Nat) /\ ring \in Seq(Nat) /\ fifo \in Seq(Nat)
        /\ sent + 1 \in Nat /\ <<sent + 1>> \in Seq(Nat)
    BY SizesAreLegal DEF TypeData
  <1>2. Stream \in Seq(Nat) /\ Line \in Seq(Nat)
    BY <1>1, ConcatProperties DEF Stream, Line
  <1>3. Line' = Stream \o Append(fifo, sent + 1)
    BY DEF Line, Stream, buf
  <1>4. Append(fifo, sent + 1) = fifo \o <<sent + 1>>
        /\ Append(Line, sent + 1) = Line \o <<sent + 1>>
    BY <1>1, <1>2, AppendIsConcat
  <1>5. (Stream \o fifo) \o <<sent + 1>> = Stream \o (fifo \o <<sent + 1>>)
    BY <1>1, <1>2, Assoc
  <1> QED
    BY <1>3, <1>4, <1>5 DEF Line

LEMMA LineReceive ==
  ASSUME TypeData, NEW n \in 0..Len(fifo), UNCHANGED out,
         ring' = ring \o SubSeq(fifo, 1, n), fifo' = <<>>
  PROVE  Line' = Stream \o SubSeq(fifo, 1, n)
  <1> DEFINE u == SubSeq(fifo, 1, n)
  <1>1. /\ out \in Seq(Nat) /\ ring \in Seq(Nat) /\ u \in Seq(Nat)
    BY DEF TypeData
  <1>2. (out \o ring) \o u = out \o (ring \o u)
    BY <1>1, Assoc
  <1>3. Stream \o u \in Seq(Nat)
    BY <1>1, ConcatProperties DEF Stream
  <1>4. Line' = (out \o (ring \o u)) \o <<>>
    BY DEF Line, Stream
  <1>5. (Stream \o u) \o <<>> = Stream \o u
    BY <1>3, ConcatEmptySeq
  <1> QED
    BY <1>2, <1>4, <1>5 DEF Stream

LEMMA StreamCopy ==
  ASSUME TypeData, Copy
  PROVE  Stream' = Stream
  <1> DEFINE n == Claim
             u == SubSeq(ring, 1, n)
             v == SubSeq(ring, n + 1, Len(ring))
  <1>1. n \in 0..Len(ring)
    BY ClaimBounds DEF TypeData
  <1>2. /\ out \in Seq(Nat) /\ ring \in Seq(Nat) /\ u \in Seq(Nat) /\ v \in Seq(Nat)
    BY <1>1 DEF TypeData
  <1>3. u \o v = ring
    <2>1. /\ 1 \in 1..(Len(ring) + 1) /\ n \in (1 - 1)..Len(ring)
          /\ Len(ring) \in n..Len(ring)
      BY <1>1, <1>2
    <2>2. u \o v = SubSeq(ring, 1, Len(ring))
      BY <1>2, <2>1, ConcatAdjacentSubSeq
    <2> QED
      BY <1>2, <2>2, SubSeqFull
  <1>4. Stream' = (out \o u) \o v
    BY DEF Copy, Stream
  <1>5. (out \o u) \o v = out \o (u \o v)
    BY <1>2, Assoc
  <1> QED
    BY <1>3, <1>4, <1>5 DEF Stream

LEMMA LineReset ==
  ASSUME TypeData, RingReset, UNCHANGED fifo
  PROVE  Line' = fifo
  <1>1. <<>> \in Seq(Nat) /\ fifo \in Seq(Nat)
    BY DEF TypeData
  <1>2. <<>> \o <<>> = <<>> /\ <<>> \o fifo = fifo
    BY <1>1, ConcatEmptySeq
  <1> QED
    BY <1>2 DEF RingReset, Line, Stream

LEMMA GapInit == Init => GapInv
  <1> SUFFICES ASSUME Init PROVE GapInv
    OBVIOUS
  <1>1. Line = <<>> /\ fifo = <<>>
    <2>1. <<>> \o <<>> = <<>>
      BY ConcatEmptySeq
    <2> QED
      BY <2>1 DEF Init, Line, Stream
  <1> QED
    BY <1>1 DEF GapInv, Ordered, Increasing, Complete

LEMMA GapStep == TypeData /\ GapInv /\ [Next]_vars => GapInv'
  <1> SUFFICES ASSUME TypeData, GapInv, [Next]_vars PROVE GapInv'
    OBVIOUS
  <1>0. /\ out \in Seq(Nat) /\ ring \in Seq(Nat) /\ fifo \in Seq(Nat)
        /\ sent \in Nat /\ Stream \in Seq(Nat) /\ Line \in Seq(Nat)
    BY SizesAreLegal, ConcatProperties DEF TypeData, Stream, Line
  \* Steps that leave the line, and may raise the overrun flag or begin to
  \* clear it.
  <1>1. ASSUME Line' = Line, UNCHANGED <<fifo, sent, lost>>,
               \/ UNCHANGED overrun /\ ~Clearing
               \/ overrun'
               \/ Clearing'
        PROVE  GapInv'
    BY <1>1 DEF GapInv, Ordered, Increasing, Complete, In
  <1>2. CASE TargetSends
    <2>1. CASE fifo' = Append(fifo, sent + 1) /\ UNCHANGED lost
      <3>1. Line' = Append(Line, sent + 1) /\ sent' = sent + 1
            /\ UNCHANGED <<overrun, pc>>
        BY <1>2, <2>1, LineAppend DEF TargetSends, flags
      <3>2. Ordered(Append(Line, sent + 1), sent + 1)
        BY <1>0, OrderedAppend DEF GapInv
      <3>3. Complete(Append(fifo, sent + 1), sent + 1, lost)
        BY <1>0, CompleteAppend DEF GapInv
      <3>4. overrun \/ Clearing \/ Complete(Append(Line, sent + 1), sent + 1, lost)
        BY <1>0, CompleteAppend DEF GapInv
      <3> QED
        BY <2>1, <3>1, <3>2, <3>3, <3>4, Zenon DEF GapInv, Clearing
    <2>2. CASE UNCHANGED fifo /\ lost' = lost \cup {sent + 1}
      <3>1. Line' = Line /\ sent' = sent + 1 /\ UNCHANGED <<overrun, pc>>
        BY <1>2, <2>2 DEF TargetSends, Line, Stream, buf, flags
      <3>2. Ordered(Line, sent + 1)
        BY <1>0, OrderedMore DEF GapInv
      <3>3. Complete(fifo, sent + 1, lost \cup {sent + 1})
        BY <1>0, CompleteLost DEF GapInv
      <3>4. overrun \/ Clearing \/ Complete(Line, sent + 1, lost \cup {sent + 1})
        BY <1>0, CompleteLost DEF GapInv
      <3> QED
        BY <2>2, <3>1, <3>2, <3>3, <3>4, Zenon DEF GapInv, Clearing
    <2> QED
      <3>1. \/ fifo' = Append(fifo, sent + 1) /\ lost' = lost
            \/ fifo' = fifo /\ lost' = lost \cup {sent + 1}
        BY <1>2, Zenon DEF TargetSends
      <3> QED
        BY <3>1, <2>1, <2>2
  <1>3. CASE Isr
    <2>1. /\ sent' = sent /\ lost' = lost /\ pc' = pc /\ out' = out
          /\ overrun => overrun'
      <3>1. sent' = sent /\ lost' = lost /\ pc' = pc /\ out' = out
        BY <1>3 DEF Isr
      <3>2. ReceiveLoop \/ overrun' = overrun
        BY <1>3, Zenon DEF Isr
      <3>3. ASSUME ReceiveLoop PROVE overrun' \/ overrun' = overrun
        BY <3>3, Zenon DEF ReceiveLoop
      <3>4. overrun' \/ overrun' = overrun
        BY <3>2, <3>3, Zenon
      <3>5. overrun => overrun'
        BY <3>4
      <3> QED
        BY <3>1, <3>5, Zenon
    <2>2. CASE ReceiveLoop
      <3> DEFINE n == Least(Len(fifo), Size - Len(ring))
      <3>1. n \in 0..Len(fifo) /\ (n = Len(fifo) \/ Len(fifo) > Size - Len(ring))
        <4>1. Len(fifo) \in Nat /\ Size - Len(ring) \in Nat
          BY <1>0, SizesAreLegal DEF TypeData
        <4> QED
          BY <4>1 DEF Least
      <3>2. ring' = ring \o SubSeq(fifo, 1, n) /\ fifo' = <<>>
        BY <2>2 DEF ReceiveLoop
      <3>3. Len(fifo) > Size - Len(ring) => overrun'
        BY <2>2, Zenon DEF ReceiveLoop
      <3> HIDE DEF n
      <3>4. Line' = Stream \o SubSeq(fifo, 1, n)
        BY <2>1, <3>1, <3>2, LineReceive
      <3>5. Ordered(Line', sent')
        BY <1>0, <2>1, <3>1, <3>4, OrderedPrefix DEF GapInv, Line
      <3>6. Complete(fifo', sent', lost')
        BY <3>2 DEF Complete
      <3>7. overrun' \/ Clearing' \/ Complete(Line', sent', lost')
        <4>1. CASE n = Len(fifo)
          <5>1. Line' = Line
            BY <1>0, <3>4, <4>1, SubSeqFull DEF Line
          <5>2. overrun \/ Clearing \/ Complete(Line, sent, lost)
            BY DEF GapInv
          <5> QED
            BY <2>1, <5>1, <5>2, Zenon DEF Clearing
        <4> QED
          BY <3>1, <3>3, <4>1
      <3> QED
        BY <3>5, <3>6, <3>7 DEF GapInv
    <2>3. CASE UNCHANGED <<ring, overrun, fifo>>
      <3>1. Line' = Line
        BY <2>1, <2>3 DEF Line, Stream
      <3> QED
        BY <1>1, <2>1, <2>3, <3>1, Zenon DEF GapInv, Clearing
    <2> QED
      BY <1>3, <2>2, <2>3, Zenon DEF Isr
  <1>4. CASE OnRing \/ ResetRing
    <2>1. RingReset /\ UNCHANGED <<fifo, sent, lost>>
      BY <1>4, Zenon DEF OnRing, ResetRing, wire
    <2>2. Line' = fifo
      BY <2>1, LineReset
    <2>3. Ordered(fifo, sent)
      BY <1>0, OrderedSuffix DEF GapInv, Line
    <2> QED
      BY <2>1, <2>2, <2>3, Zenon DEF GapInv
  <1>5. CASE Copy
    <2>1. Line' = Line /\ UNCHANGED <<fifo, sent, lost, overrun>> /\ ~Clearing
      BY <1>5, StreamCopy DEF Copy, Line, wire, flags, Clearing
    <2> QED
      BY <1>1, <2>1
  <1>6. CASE OnFlags \/ ResetBegin
    <2>1. UNCHANGED <<buf, fifo, sent, lost>> /\ Clearing'
      BY <1>6, Zenon DEF OnFlags, ResetBegin, Arrive, wire, Clearing
    <2> QED
      BY <1>1, <2>1 DEF Line, Stream, buf
  <1>7. CASE LineError \/ UNCHANGED vars
    <2>1. UNCHANGED <<buf, fifo, sent, lost, overrun, pc>>
      BY <1>7, Zenon DEF LineError, vars, flags, wire
    <2>2. Line' = Line
      BY <2>1 DEF Line, Stream, buf
    <2> QED
      BY <2>1, <2>2, Zenon DEF GapInv, Clearing
  <1>8. CASE Command /\ ~ResetBegin
    <2>1. UNCHANGED <<buf, fifo, sent, lost, overrun>> /\ ~Clearing
      BY <1>8 DEF Command, Connect, Disconnect, SwoMode, SwoBaudrate, SwoControl, SwoData,
                  Arrive, wire, flags, Clearing
    <2> QED
      BY <1>1, <2>1 DEF Line, Stream, buf
  <1>9. CASE OnErr \/ OnRx \/ OffRx \/ OffErr \/ OffFlags \/ Finish \/ Again
    <2>1. UNCHANGED <<buf, fifo, sent, lost, overrun>> /\ ~Clearing
      BY <1>9 DEF OnErr, OnRx, OffRx, OffErr, OffFlags, Finish, Again, wire, flags, Clearing
    <2> QED
      BY <1>1, <2>1 DEF Line, Stream, buf
  <1>10. CASE ResetRx \/ ResetErr
    <2>1. UNCHANGED <<buf, fifo, sent, lost, overrun>> /\ Clearing'
      BY <1>10 DEF ResetRx, ResetErr, wire, flags, Clearing
    <2> QED
      BY <1>1, <2>1 DEF Line, Stream, buf
  <1> QED
    BY <1>2, <1>3, <1>4, <1>5, <1>6, <1>7, <1>8, <1>9, <1>10 DEF Next, Statement

LEMMA GapInvGivesNoSilentGap == TypeData /\ GapInv => NoSilentGap
  <1> SUFFICES ASSUME TypeData, GapInv, pc = "idle"
               PROVE  /\ Increasing(Stream)
                      /\ Stream # <<>> /\ ~overrun =>
                           \A b \in Stream[1]..Stream[Len(Stream)] :
                             In(b, Stream) \/ b \in lost
    BY DEF NoSilentGap
  <1>0. /\ fifo \in Seq(Nat) /\ sent \in Nat /\ Stream \in Seq(Nat) /\ Line \in Seq(Nat)
        /\ Len(Line) = Len(Stream) + Len(fifo)
    BY SizesAreLegal, ConcatProperties DEF TypeData, Stream, Line
  <1>1. \A i \in 1..Len(Stream) : Line[i] = Stream[i]
    <2>1. \A i \in 1..(Len(Stream) + Len(fifo)) :
            Line[i] = IF i <= Len(Stream) THEN Stream[i] ELSE fifo[i - Len(Stream)]
      BY <1>0, ConcatProperties DEF Line
    <2> QED
      BY <1>0, <2>1
  <1>2. Increasing(Line) /\ \A i \in 1..Len(Line) : Line[i] \in 1..sent
    BY DEF GapInv, Ordered
  <1>3. ASSUME NEW i \in 1..Len(Stream), NEW j \in 1..Len(Stream), i < j
        PROVE  Stream[i] < Stream[j]
    <2>1. i \in 1..Len(Line) /\ j \in 1..Len(Line)
      BY <1>0
    <2> QED
      BY <1>1, <1>2, <1>3, <2>1 DEF Increasing
  <1>4. ASSUME Stream # <<>>, ~overrun,
               NEW b \in Stream[1]..Stream[Len(Stream)], b \notin lost
        PROVE  In(b, Stream)
    <2> DEFINE m == Len(Stream)
    <2>1. m \in Nat \ {0} /\ m \in 1..Len(Line) /\ 1 \in 1..m /\ Line # <<>>
      BY <1>0, <1>4, EmptySeq
    <2>2. Line[1] = Stream[1] /\ Line[m] = Stream[m] /\ Line[m] \in 1..sent
      BY <1>1, <1>2, <2>1
    <2>3. b \in Line[1]..sent /\ b <= Line[m]
      BY <1>0, <2>1, <2>2
    <2>4. Complete(Line, sent, lost)
      BY <1>4 DEF GapInv, Clearing
    <2>5. PICK i \in 1..Len(Line) : Line[i] = b
      BY <1>4, <2>1, <2>3, <2>4 DEF Complete, In
    <2>6. i <= m
      <3>1. m < i => Line[m] < Line[i]
        BY <1>2, <2>1, <2>5, Zenon DEF Increasing
      <3>2. Line[m] \in Nat /\ Line[i] \in Nat
        BY <1>0, <1>2, <2>1
      <3> QED
        BY <1>0, <2>1, <2>3, <2>5, <3>1, <3>2
    <2>7. i \in 1..m
      BY <1>0, <2>1, <2>6
    <2> QED
      BY <1>1, <2>5, <2>7 DEF In
  <1> QED
    BY <1>3, <1>4 DEF Increasing

\* Of the trace bytes sent between the first and the last that the host has
\* read or can still read, none is missing unless the UART lost it or the
\* overrun flag says so.
THEOREM NoSilentGapHolds == Spec => []NoSilentGap
  <1>1. Init => TypeOK /\ OnTrack /\ GapInv
    BY TypeInit, GapInit
  <1>2. TypeOK /\ OnTrack /\ GapInv /\ [Next]_vars => (TypeOK /\ OnTrack /\ GapInv)'
    BY BitsStep, DataStep, GapStep DEF TypeOK
  <1>3. TypeOK /\ GapInv => NoSilentGap
    BY GapInvGivesNoSilentGap DEF TypeOK
  <1> QED
    BY <1>1, <1>2, <1>3, PTL DEF Spec
=============================================================================
