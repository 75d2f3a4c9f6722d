---------------------------- MODULE TransferProofs ----------------------------
(***************************************************************************)
(* Proofs about the transfer commands, for any requests, registers, limits *)
(* and sizes of the buffers, whatever the target answers:                  *)
(*   - the types of the handler's state, the bounds of its retries and of  *)
(*     both buffers;                                                       *)
(*   - a command leaves the request at the command that follows;           *)
(*   - the target is accessed as a Transfer asks, and matches are real;    *)
(*   - a block is exact, word by word;                                     *)
(*   - the commands implement the port of atomic accesses of DebugPort;    *)
(*   - the words that a Transfer collects are in order and none is missing.*)
(* The last follows from the one before it: the port's own order, carried  *)
(* over to the words in the buffer.                                        *)
(***************************************************************************)
EXTENDS Transfer, FiniteSetTheorems, SequenceLemmas

AccessRecord == [by : Nat, reg : Registers, read : BOOLEAN, value : Nat]
AttemptRecord == [reg : Registers, read : BOOLEAN, rdbuff : BOOLEAN]

\* What an attempt on the wire changes.  The handler's idea of the instruction
\* register is right, once it has one: a register accessed has a name.
WireTypes ==
  /\ ir \in Registers \cup {"none"} /\ lastIr \in Registers \cup {"none"}
  /\ port = "jtag" /\ lastIr # "none" => ir = lastIr
  /\ posted \in Nat /\ transferData \in Nat
  /\ accesses \in Seq(AccessRecord)

\* What comes from the host.
InputTypes ==
  /\ port \in {"disabled", "jtag", "swd"} /\ whole \in BOOLEAN
  /\ waitRetries \in Nat /\ matchRetries \in Nat
  /\ ring \in Seq(Nat) /\ count \in Nat /\ request \in Nat /\ taken \in Nat

\* What the handler keeps for itself and returns.
LocalTypes ==
  /\ mask \in Nat /\ matchValue \in Nat /\ ack \in Nat
  /\ completed \in Nat /\ readPending \in BOOLEAN /\ ackPending \in BOOLEAN
  /\ respCount \in Nat /\ respAck \in Nat
  /\ out \in Seq(Nat) /\ Len(out) <= ResponseSpace
  /\ data \in Seq(Nat) /\ Len(data) <= RequestSpace

\* Limits are changed between commands only, when nothing has been tried; and
\* a transfer is only ever taken when there is one.
LoopBounds ==
  /\ pc \in Labels
  /\ tries \in 0..waitRetries /\ matches \in 0..matchRetries
  /\ pc = "idle" => tries = 0 /\ matches = 0
  /\ pc \in {"next", "cancel", "blockread", "blockword"} => count > 0

TypeInv == WireTypes /\ InputTypes /\ LocalTypes /\ LoopBounds

LEMMA TypeInvIsTypeOK == TypeInv => TypeOK
  BY DEF TypeInv, WireTypes, InputTypes, LocalTypes, LoopBounds, TypeOK, AccessRecord

LEMMA NumbersAreNat ==
  /\ Units \subseteq Nat /\ Values \subseteq Nat /\ Junk \in Nat
  /\ Answers \subseteq Nat /\ Ok \in Nat /\ Mismatch \in Nat
  /\ Ok # Wait
  BY SMT, UnitsAreLegal DEF Answers, Ok, Wait, Fault, ParityError, Mismatch

LEMMA AttemptsAreTyped ==
  /\ \A r : Access(r) \in AttemptRecord
  /\ Rdbuff \in AttemptRecord /\ Abort \in AttemptRecord
  <1>1. \A r : (IF r \in Aps THEN "ap" ELSE "dp") \in Registers
    BY DEF Registers
  <1>2. \A r : (r \in Reads) \in BOOLEAN
    OBVIOUS
  <1>3. {"dp", "abort"} \subseteq Registers
    BY DEF Registers
  <1> QED BY <1>1, <1>2, <1>3 DEF Access, Rdbuff, Abort, AttemptRecord

LEMMA PerformIsTyped ==
  ASSUME accesses \in Seq(AccessRecord), taken \in Nat, NEW a \in AttemptRecord,
         NEW reg \in Registers, NEW v \in Nat, Perform(a, reg, v)
  PROVE  accesses' \in Seq(AccessRecord)
  <1>1. [by |-> taken, reg |-> reg, read |-> a.read, value |-> v] \in AccessRecord
    BY DEF AttemptRecord, AccessRecord
  <1> QED BY <1>1 DEF Perform

\* An attempt, whatever the answer.
LEMMA AttemptKeepsWire ==
  ASSUME WireTypes, taken \in Nat, port' = port, NEW a \in AttemptRecord, NEW k, Attempt(a, k)
  PROVE  WireTypes'
  <1>a. a.reg \in Registers /\ a.read \in BOOLEAN
    BY DEF AttemptRecord
  <1>n. "none" \notin Registers
    BY DEF Registers
  <1>1. /\ ir' \in Registers \cup {"none"} /\ lastIr' \in Registers \cup {"none"}
        /\ port = "jtag" => ir' = a.reg /\ lastIr' = a.reg
    <2>1. SetIr(a.reg)
      BY DEF Attempt
    <2> QED BY <2>1, <1>a, <1>n DEF SetIr, WireTypes
  <1>2. posted' \in Nat /\ transferData' \in Nat /\ accesses' \in Seq(AccessRecord)
    <2>1. CASE Accept(a)
      <3> DEFINE reg == IF port = "jtag" THEN ir' ELSE a.reg
                 direct == port = "swd" /\ reg = "dp"
      <3>1. reg \in Registers
        BY <1>1, <1>a
      <3>2. CASE Collects(a, reg)
        BY <2>1, <3>2, NumbersAreNat DEF Accept, WireTypes
      <3>3. CASE ~Collects(a, reg)
        <4>1. PICK v \in IF a.read THEN Values ELSE {transferData} :
                /\ Perform(a, reg, v)
                /\ transferData' = IF ~a.read \/ direct THEN v ELSE posted
                /\ posted' = IF ~a.read THEN Junk ELSE IF direct THEN posted ELSE v
          BY <2>1, <3>3 DEF Accept
        <4>2. v \in Nat
          BY <1>a, NumbersAreNat DEF WireTypes
        <4>3. accesses' \in Seq(AccessRecord)
          BY <4>1, <4>2, <3>1, PerformIsTyped DEF WireTypes
        <4> HIDE DEF direct, reg
        <4> QED BY <4>1, <4>2, <4>3, NumbersAreNat DEF WireTypes
      <3> QED BY <3>2, <3>3
    <2>2. CASE Damaged(a)
      <3>1. CASE Collects(a, a.reg)
        BY <2>2, <3>1, NumbersAreNat DEF Damaged, WireTypes
      <3>2. CASE ~Collects(a, a.reg)
        <4>1. PICK v \in Values : Perform(a, a.reg, v) /\ posted' = v
          BY <2>2, <3>2 DEF Damaged
        <4>2. v \in Nat
          BY NumbersAreNat
        <4>3. accesses' \in Seq(AccessRecord)
          BY <4>1, <4>2, <1>a, PerformIsTyped DEF WireTypes
        <4> QED BY <2>2, <4>1, <4>2, <4>3, NumbersAreNat DEF Damaged
      <3> QED BY <3>1, <3>2
    <2>3. CASE UNCHANGED <<transferData, posted, accesses>>
      BY <2>3 DEF WireTypes
    <2> QED BY <2>1, <2>2, <2>3 DEF Attempt
  <1> QED BY <1>1, <1>2, <1>a, <1>n DEF WireTypes

\* A sequence without its first units.
LEMMA WithoutFirst ==
  ASSUME NEW s \in Seq(Nat), NEW n \in Nat
  PROVE  SubSeq(s, n + 1, Len(s)) \in Seq(Nat)
  <1>1. Len(s) \in Nat
    OBVIOUS
  <1> QED BY SMT, <1>1

-----------------------------------------------------------------------------
(***************************************************************************)
(* Transfer.                                                               *)
(***************************************************************************)
LEMMA StartIsLabel == \A r : Start(r) \in Labels /\ Start(r) \notin {"idle", "next", "cancel", "blockread", "blockword"}
  BY DEF Start, Labels

LEMMA BeginKeepsTypes == TypeInv /\ Begin => TypeInv'
  <1> SUFFICES ASSUME TypeInv, Begin PROVE TypeInv'
    OBVIOUS
  <1>1. ring[2] \in Nat /\ ring' \in Seq(Nat)
    BY WithoutFirst, SMT DEF TypeInv, InputTypes, Begin
  <1>2. WireTypes' /\ LocalTypes'
    BY DEF Begin, TypeInv, WireTypes, LocalTypes, fixed, wire, pending, resp
  <1>3. InputTypes'
    BY <1>1 DEF Begin, TypeInv, InputTypes, fixed, limits
  <1>4. LoopBounds'
    BY <1>1 DEF Begin, TypeInv, LoopBounds, Labels, fixed, limits
  <1> QED BY <1>2, <1>3, <1>4 DEF TypeInv

LEMMA TakeKeepsTypes == TypeInv /\ Take => TypeInv'
  <1> SUFFICES ASSUME TypeInv, Take PROVE TypeInv'
    OBVIOUS
  <1>r. ring \in Seq(Nat) /\ ring # <<>> /\ ring[1] \in Nat /\ count \in Nat /\ count > 0
    BY SMT DEF TypeInv, InputTypes, Take, LoopBounds
  <1>1. PICK n \in {1, 2} :
          /\ Len(ring) >= n
          /\ transferData' = IF n = 2 THEN ring[2] ELSE transferData
          /\ ring' = SubSeq(ring, n + 1, Len(ring))
    <2>1. CASE HasWord(ring[1])
      BY <2>1 DEF Take
    <2>2. CASE ~HasWord(ring[1])
      BY <2>2 DEF Take
    <2> QED BY <2>1, <2>2
  <1>2. ring' \in Seq(Nat)
    BY <1>1, <1>r, WithoutFirst, SMT
  <1>3. transferData' \in Nat
    BY SMT, <1>1, <1>r DEF TypeInv, WireTypes
  <1>4. matchValue' \in Nat /\ pc' \in Labels /\ pc' \notin {"idle", "next", "cancel", "blockread", "blockword"}
    BY <1>3, StartIsLabel DEF Take, Dispatch, TypeInv, LocalTypes, Labels
  <1>5. WireTypes'
    BY <1>3 DEF Take, TypeInv, WireTypes, fixed
  <1>6. InputTypes'
    BY <1>2, <1>r, SMT DEF Take, TypeInv, InputTypes, fixed, limits
  <1>7. LocalTypes'
    BY <1>4 DEF Take, TypeInv, LocalTypes, pending, resp
  <1>8. LoopBounds'
    BY <1>4 DEF Take, TypeInv, LoopBounds, fixed, limits
  <1> QED BY <1>5, <1>6, <1>7, <1>8 DEF TypeInv

\* An attempt that is repeated leaves the counter within the limit.
LEMMA RetryIsBounded ==
  ASSUME TypeInv, NEW k, Again(k), Retry
  PROVE  tries' \in 0..waitRetries
  BY SMT DEF TypeInv, LoopBounds, InputTypes, Again, Retry

LEMMA StoreKeepsTypes ==
  ASSUME InputTypes, LocalTypes, NEW v \in Nat, NEW next, Store(v, next)
  PROVE  /\ ring' \in Seq(Nat)
         /\ data' \in Seq(Nat) /\ Len(data') <= RequestSpace
         /\ pc' \in {next, "failed"}
  <1>1. RequestSpace \in Nat
    BY LimitsAreLegal
  <1>2. ring \in Seq(Nat) /\ data \in Seq(Nat) /\ Len(data) <= RequestSpace
    BY DEF InputTypes, LocalTypes
  <1>3. /\ Append(ring, v) \in Seq(Nat) /\ Append(data, v) \in Seq(Nat)
        /\ Len(data) < RequestSpace => Len(Append(data, v)) <= RequestSpace
    BY SMT, <1>1, <1>2
  <1>4. CASE Len(data) < RequestSpace
    BY <1>3, <1>4 DEF Store
  <1>5. CASE ~(Len(data) < RequestSpace)
    BY <1>2, <1>5 DEF Store
  <1> QED BY <1>4, <1>5

LEMMA LoopIsLabel ==
  /\ Loop \in Labels /\ Loop \notin {"idle", "cancel", "blockread", "blockword"}
  /\ Loop = "next" => count > 0
  BY DEF Loop, Labels

\* What every attempt leaves typed: the wire, the acknowledgement, the counter.
LEMMA AttemptKeepsTypes ==
  ASSUME TypeInv, UNCHANGED fixed, NEW a \in AttemptRecord, NEW k \in Answers, Attempt(a, k), ack' = k,
         (Again(k) /\ Retry) \/ tries' = 0
  PROVE  WireTypes' /\ transferData' \in Nat /\ ack' \in Nat /\ tries' \in 0..waitRetries
  <1>1. WireTypes'
    BY AttemptKeepsWire DEF TypeInv, InputTypes, fixed
  <1>2. 0 \in 0..waitRetries
    BY SMT DEF TypeInv, InputTypes
  <1> QED BY <1>1, <1>2, RetryIsBounded, NumbersAreNat DEF WireTypes

LEMMA CollectKeepsTypes == TypeInv /\ Collect => TypeInv'
  <1> SUFFICES ASSUME TypeInv, Collect PROVE TypeInv'
    OBVIOUS
  <1>1. PICK k \in Answers :
          /\ Attempt(Rdbuff, k)
          /\ ack' = k
          /\ IF Again(k)
               THEN Retry /\ UNCHANGED <<pc, ring, matchValue, readPending, data>>
               ELSE /\ tries' = 0 /\ readPending' = FALSE
                    /\ IF k = Ok
                         THEN /\ Store(transferData', Start(request))
                              /\ matchValue' = IF request \in Reads \cap Matches
                                                 THEN transferData' ELSE matchValue
                         ELSE pc' = "end" /\ UNCHANGED <<ring, matchValue, data>>
    BY DEF Collect
  <1>2. /\ pc = "collect"
        /\ UNCHANGED <<fixed, mask, count, request, taken, completed, ackPending, matches, resp>>
    BY DEF Collect
  <1>3. WireTypes'
    BY <1>1, <1>2, AttemptKeepsWire, AttemptsAreTyped DEF TypeInv, InputTypes, fixed
  <1>4. transferData' \in Nat /\ ack' \in Nat
    BY <1>1, <1>3, NumbersAreNat DEF WireTypes
  <1>5. /\ ring' \in Seq(Nat) /\ matchValue' \in Nat /\ readPending' \in BOOLEAN
        /\ data' \in Seq(Nat) /\ Len(data') <= RequestSpace
        /\ tries' \in 0..waitRetries
        /\ pc' \in Labels /\ pc' \notin {"idle", "next", "cancel", "blockread", "blockword"}
    <2>1. CASE Again(k)
      BY <2>1, <1>1, <1>2, RetryIsBounded DEF TypeInv, InputTypes, LocalTypes, Labels
    <2>2. CASE ~Again(k) /\ k = Ok
      <3>1. Store(transferData', Start(request)) /\ tries' = 0 /\ readPending' = FALSE
        BY <2>2, <1>1
      <3>2. matchValue' \in Nat
        BY <2>2, <1>1, <1>4 DEF TypeInv, LocalTypes
      <3>3. 0 \in 0..waitRetries
        BY SMT DEF TypeInv, InputTypes
      <3>4. "failed" \in Labels
        BY DEF Labels
      <3> QED BY <3>1, <3>2, <3>3, <3>4, <1>4, StoreKeepsTypes, StartIsLabel DEF TypeInv
    <2>3. CASE ~Again(k) /\ k # Ok
      <3>3. 0 \in 0..waitRetries
        BY SMT DEF TypeInv, InputTypes
      <3> QED BY <2>3, <3>3, <1>1 DEF TypeInv, InputTypes, LocalTypes, Labels
    <2> QED BY <2>1, <2>2, <2>3
  <1>6. InputTypes'
    BY <1>2, <1>5 DEF TypeInv, InputTypes, fixed, limits
  <1>7. LocalTypes'
    BY <1>2, <1>4, <1>5 DEF TypeInv, LocalTypes, resp
  <1>8. LoopBounds'
    BY <1>2, <1>5 DEF TypeInv, LoopBounds, fixed, limits
  <1> QED BY <1>3, <1>6, <1>7, <1>8 DEF TypeInv

LEMMA ReadKeepsTypes == TypeInv /\ Read => TypeInv'
  <1> SUFFICES ASSUME TypeInv, Read PROVE TypeInv'
    OBVIOUS
  <1>1. PICK k \in Answers :
          /\ Attempt(Access(request), k)
          /\ ack' = k
          /\ \/ /\ Again(k) /\ Retry
                /\ UNCHANGED <<pc, ring, completed, pending, data>>
             \/ /\ ~Again(k) /\ k # Ok
                /\ tries' = 0 /\ pc' = "end"
                /\ UNCHANGED <<ring, completed, pending, data>>
             \/ /\ k = Ok
                /\ tries' = 0 /\ completed' = completed + 1
                /\ ackPending' = FALSE
                /\ IF Posts(request)
                     THEN readPending' = TRUE /\ pc' = Loop /\ UNCHANGED <<ring, data>>
                     ELSE Store(transferData', Loop) /\ UNCHANGED readPending
    BY DEF Read
  <1>2. pc = "read" /\ UNCHANGED <<fixed, mask, count, request, taken, matchValue, matches, resp>>
    BY DEF Read
  <1>3. WireTypes' /\ transferData' \in Nat /\ ack' \in Nat /\ tries' \in 0..waitRetries
    BY <1>1, <1>2, AttemptsAreTyped, AttemptKeepsTypes
  <1>c. completed \in Nat /\ completed + 1 \in Nat
    BY SMT DEF TypeInv, LocalTypes
  <1>4. completed' \in Nat /\ readPending' \in BOOLEAN /\ ackPending' \in BOOLEAN
    BY <1>1, <1>c, Zenon DEF TypeInv, LocalTypes, pending
  <1>5. /\ ring' \in Seq(Nat) /\ data' \in Seq(Nat) /\ Len(data') <= RequestSpace
        /\ pc' \in {"read", "end", "failed", Loop}
    <2>1. CASE UNCHANGED <<ring, data>> /\ pc' \in {"read", "end", Loop}
      BY <2>1 DEF TypeInv, InputTypes, LocalTypes
    <2>2. CASE Store(transferData', Loop)
      BY <2>2, <1>3, StoreKeepsTypes DEF TypeInv
    <2> QED BY <1>1, <1>2, <2>1, <2>2
  <1>6. InputTypes'
    BY <1>2, <1>5 DEF TypeInv, InputTypes, fixed, limits
  <1>7. LocalTypes'
    BY <1>2, <1>3, <1>4, <1>5 DEF TypeInv, LocalTypes, resp
  <1>8. LoopBounds'
    BY <1>2, <1>3, <1>5, LoopIsLabel DEF TypeInv, LoopBounds, fixed, limits, Labels
  <1> QED BY <1>3, <1>6, <1>7, <1>8 DEF TypeInv

LEMMA PostKeepsTypes == TypeInv /\ Post => TypeInv'
  <1> SUFFICES ASSUME TypeInv, Post PROVE TypeInv'
    OBVIOUS
  <1>1. PICK k \in Answers :
          /\ Attempt(Access(request), k)
          /\ ack' = k
          /\ IF Again(k)
               THEN Retry /\ UNCHANGED pc
               ELSE tries' = 0 /\ pc' = IF k = Ok THEN "match" ELSE "end"
    BY DEF Post
  <1>2. /\ pc = "post"
        /\ UNCHANGED <<fixed, mask, cursor, completed, matchValue, pending, matches, resp, data>>
    BY DEF Post
  <1>3. WireTypes' /\ transferData' \in Nat /\ ack' \in Nat /\ tries' \in 0..waitRetries
    BY <1>1, <1>2, AttemptsAreTyped, AttemptKeepsTypes
  <1>4. pc' \in {"post", "match", "end"}
    BY <1>1, <1>2
  <1>6. InputTypes' /\ LocalTypes'
    BY <1>2, <1>3 DEF TypeInv, InputTypes, LocalTypes, fixed, limits, cursor, pending, resp
  <1>8. LoopBounds'
    BY <1>2, <1>3, <1>4 DEF TypeInv, LoopBounds, fixed, limits, cursor, Labels
  <1> QED BY <1>3, <1>6, <1>8 DEF TypeInv

LEMMA MatchKeepsTypes == TypeInv /\ Match => TypeInv'
  <1> SUFFICES ASSUME TypeInv, Match PROVE TypeInv'
    OBVIOUS
  <1> DEFINE equal == And(transferData', mask) = matchValue
  <1>1. PICK k \in Answers :
          /\ Attempt(Access(request), k)
          /\ \/ /\ Again(k) /\ Retry
                /\ ack' = k
                /\ UNCHANGED <<pc, completed, ackPending, matches>>
             \/ /\ k = Ok /\ ~equal /\ matches < matchRetries
                /\ tries' = 0 /\ matches' = matches + 1
                /\ ack' = k
                /\ UNCHANGED <<pc, completed, ackPending>>
             \/ /\ k = Ok /\ equal
                /\ tries' = 0 /\ matches' = 0
                /\ ack' = k
                /\ completed' = completed + 1 /\ ackPending' = FALSE
                /\ pc' = Loop
             \/ /\ ~Again(k) /\ (k # Ok \/ (~equal /\ matches = matchRetries))
                /\ tries' = 0 /\ matches' = 0
                /\ ack' = IF equal THEN k ELSE k + Mismatch
                /\ pc' = "end"
                /\ UNCHANGED <<completed, ackPending>>
    BY DEF Match
  <1>2. pc = "match" /\ UNCHANGED <<fixed, mask, cursor, matchValue, readPending, resp, data>>
    BY DEF Match
  <1> HIDE DEF equal
  <1>3. WireTypes'
    BY <1>1, <1>2, AttemptsAreTyped, AttemptKeepsWire DEF TypeInv, InputTypes, fixed
  <1>k. k \in Nat /\ Mismatch \in Nat
    BY NumbersAreNat
  <1>4. ack' \in Nat
    BY SMT, <1>1, <1>k
  <1>t. tries' \in 0..waitRetries
    <2>1. 0 \in 0..waitRetries
      BY SMT DEF TypeInv, InputTypes
    <2> QED BY <1>1, <2>1, RetryIsBounded
  <1>m. matches' \in 0..matchRetries
    BY SMT, <1>1 DEF TypeInv, InputTypes, LoopBounds
  <1>c. completed \in Nat /\ completed + 1 \in Nat
    BY SMT DEF TypeInv, LocalTypes
  <1>5. completed' \in Nat /\ ackPending' \in BOOLEAN
    BY <1>1, <1>c, Zenon DEF TypeInv, LocalTypes
  <1>6. InputTypes' /\ LocalTypes'
    BY <1>2, <1>4, <1>5 DEF TypeInv, InputTypes, LocalTypes, fixed, limits, cursor, resp
  <1>7. pc' \in {"match", "end", Loop}
    BY <1>1, <1>2
  <1>8. LoopBounds'
    BY <1>2, <1>t, <1>m, <1>7, LoopIsLabel DEF TypeInv, LoopBounds, fixed, limits, cursor, Labels
  <1> QED BY <1>3, <1>6, <1>8 DEF TypeInv

LEMMA SetMaskKeepsTypes == TypeInv /\ SetMask => TypeInv'
  <1> SUFFICES ASSUME TypeInv, SetMask PROVE TypeInv'
    OBVIOUS
  <1>1. /\ pc = "mask" /\ pc' = Loop
        /\ mask' = transferData /\ ack' = Ok /\ completed' = completed + 1
        /\ UNCHANGED <<fixed, wire, cursor, matchValue, pending, tries, matches, resp, data>>
    BY DEF SetMask
  <1>2. mask' \in Nat /\ ack' \in Nat /\ completed' \in Nat
    BY SMT, <1>1, NumbersAreNat DEF TypeInv, WireTypes, LocalTypes
  <1>3. WireTypes'
    BY <1>1 DEF TypeInv, WireTypes, wire, fixed
  <1>4. InputTypes' /\ LocalTypes'
    BY <1>1, <1>2 DEF TypeInv, InputTypes, LocalTypes, fixed, limits, cursor, pending, resp
  <1>5. LoopBounds'
    BY <1>1, LoopIsLabel DEF TypeInv, LoopBounds, fixed, limits, cursor
  <1> QED BY <1>3, <1>4, <1>5 DEF TypeInv

LEMMA WriteKeepsTypes == TypeInv /\ Write => TypeInv'
  <1> SUFFICES ASSUME TypeInv, Write PROVE TypeInv'
    OBVIOUS
  <1>1. PICK k \in Answers :
          /\ Attempt(Access(request), k)
          /\ ack' = k
          /\ \/ /\ Again(k) /\ Retry
                /\ UNCHANGED <<pc, completed, ackPending>>
             \/ /\ ~Again(k) /\ k # Ok
                /\ tries' = 0 /\ pc' = "end"
                /\ UNCHANGED <<completed, ackPending>>
             \/ /\ k = Ok
                /\ tries' = 0 /\ pc' = Loop
                /\ completed' = completed + 1 /\ ackPending' = TRUE
    BY DEF Write
  <1>2. /\ pc = "write"
        /\ UNCHANGED <<fixed, mask, cursor, matchValue, readPending, matches, resp, data>>
    BY DEF Write
  <1>3. WireTypes' /\ transferData' \in Nat /\ ack' \in Nat /\ tries' \in 0..waitRetries
    BY <1>1, <1>2, AttemptsAreTyped, AttemptKeepsTypes
  <1>c. completed \in Nat /\ completed + 1 \in Nat
    BY SMT DEF TypeInv, LocalTypes
  <1>4. completed' \in Nat /\ ackPending' \in BOOLEAN
    BY <1>1, <1>c, Zenon DEF TypeInv, LocalTypes
  <1>5. pc' \in {"write", "end", Loop}
    BY <1>1, <1>2
  <1>6. InputTypes' /\ LocalTypes'
    BY <1>2, <1>3, <1>4 DEF TypeInv, InputTypes, LocalTypes, fixed, limits, cursor, resp
  <1>8. LoopBounds'
    BY <1>2, <1>3, <1>5, LoopIsLabel DEF TypeInv, LoopBounds, fixed, limits, cursor, Labels
  <1> QED BY <1>3, <1>6, <1>8 DEF TypeInv

LEMMA EndKeepsTypes == TypeInv /\ End => TypeInv'
  <1> SUFFICES ASSUME TypeInv, End PROVE TypeInv'
    OBVIOUS
  <1>1. /\ pc = "end"
        /\ pc' \in {"cancel", "last", "done"} /\ (pc' = "cancel" => count > 0)
        /\ respCount' = completed /\ respAck' = ack
        /\ UNCHANGED <<fixed, mask, wire, cursor, completed, matchValue, pending, ack, tries,
                       matches, out, data>>
    BY DEF End
  <1>3. WireTypes'
    BY <1>1 DEF TypeInv, WireTypes, wire, fixed
  <1>4. InputTypes' /\ LocalTypes'
    BY <1>1 DEF TypeInv, InputTypes, LocalTypes, fixed, limits, cursor, pending
  <1>5. LoopBounds'
    BY <1>1 DEF TypeInv, LoopBounds, fixed, limits, cursor, Labels
  <1> QED BY <1>3, <1>4, <1>5 DEF TypeInv

LEMMA CancelKeepsTypes == TypeInv /\ Cancel => TypeInv'
  <1> SUFFICES ASSUME TypeInv, Cancel PROVE TypeInv'
    OBVIOUS
  <1>1. /\ pc = "cancel"
        /\ ring' = SubSeq(ring, UnitsOf(ring[1]) + 1, Len(ring)) /\ count' = count - 1
        /\ pc' \in {"cancel", "last", "done"} /\ (pc' = "cancel" => count' > 0)
        /\ UNCHANGED <<fixed, mask, wire, request, taken, completed, matchValue, pending, ack,
                       tries, matches, resp, data>>
    BY DEF Cancel
  <1>2. UnitsOf(ring[1]) \in Nat
    BY SMT DEF UnitsOf
  <1>3. ring' \in Seq(Nat)
    BY <1>1, <1>2, WithoutFirst DEF TypeInv, InputTypes
  <1>4. count' \in Nat
    BY SMT, <1>1 DEF TypeInv, InputTypes, LoopBounds
  <1>5. WireTypes'
    BY <1>1 DEF TypeInv, WireTypes, wire, fixed
  <1>6. InputTypes' /\ LocalTypes'
    BY <1>1, <1>3, <1>4 DEF TypeInv, InputTypes, LocalTypes, fixed, limits, pending, resp
  <1>7. LoopBounds'
    BY <1>1 DEF TypeInv, LoopBounds, fixed, limits, Labels
  <1> QED BY <1>5, <1>6, <1>7 DEF TypeInv

LEMMA LastReadKeepsTypes == TypeInv /\ LastRead => TypeInv'
  <1> SUFFICES ASSUME TypeInv, LastRead PROVE TypeInv'
    OBVIOUS
  <1>1. PICK k \in Answers :
          /\ Attempt(Rdbuff, k)
          /\ ack' = k
          /\ IF Again(k)
               THEN Retry /\ UNCHANGED <<pc, ring, respAck, data>>
               ELSE /\ tries' = 0
                    /\ IF k = Ok /\ readPending
                         THEN Store(transferData', "done")
                         ELSE pc' = "done" /\ UNCHANGED <<ring, data>>
                    /\ respAck' = IF pc' = "done" THEN k ELSE respAck
    BY DEF LastRead
  <1>2. /\ pc = "last"
        /\ UNCHANGED <<fixed, mask, count, request, taken, completed, matchValue, pending, matches,
                       respCount, out>>
    BY DEF LastRead
  <1>3. WireTypes' /\ transferData' \in Nat /\ ack' \in Nat /\ tries' \in 0..waitRetries
    BY <1>1, <1>2, AttemptsAreTyped, AttemptKeepsTypes
  <1>4. respAck' \in Nat
    BY <1>1, <1>3 DEF TypeInv, LocalTypes
  <1>5. /\ ring' \in Seq(Nat) /\ data' \in Seq(Nat) /\ Len(data') <= RequestSpace
        /\ pc' \in {"last", "failed", "done"}
    <2>1. CASE UNCHANGED <<ring, data>> /\ pc' \in {"last", "done"}
      BY <2>1 DEF TypeInv, InputTypes, LocalTypes
    <2>2. CASE Store(transferData', "done")
      BY <2>2, <1>3, StoreKeepsTypes DEF TypeInv
    <2> QED BY <1>1, <1>2, <2>1, <2>2
  <1>6. InputTypes' /\ LocalTypes'
    BY <1>2, <1>3, <1>4, <1>5 DEF TypeInv, InputTypes, LocalTypes, fixed, limits, pending
  <1>8. LoopBounds'
    BY <1>2, <1>3, <1>5 DEF TypeInv, LoopBounds, fixed, limits, Labels
  <1> QED BY <1>3, <1>6, <1>8 DEF TypeInv

-----------------------------------------------------------------------------
(***************************************************************************)
(* TransferBlock, WriteAbort and the rest.                                 *)
(***************************************************************************)
LEMMA BlockLoopIsLabel ==
  ASSUME NEW r, NEW n
  PROVE  /\ BlockLoop(r, n) \in Labels /\ BlockLoop(r, n) \notin {"idle", "next", "cancel"}
         /\ BlockLoop(r, n) \in {"blockread", "blockword"} => n > 0
  BY DEF BlockLoop, Labels

LEMMA BlockBeginKeepsTypes == TypeInv /\ BlockBegin => TypeInv'
  <1> SUFFICES ASSUME TypeInv, BlockBegin PROVE TypeInv'
    OBVIOUS
  <1>1. /\ pc = "block" /\ Len(ring) >= 3
        /\ count' = ring[2] /\ request' = ring[3] /\ ring' = SubSeq(ring, 3 + 1, Len(ring))
        /\ \/ SetIr(Access(request').reg) \/ UNCHANGED <<ir, lastIr>>
        /\ pc' \in {"blockpost", "blockend", BlockLoop(request', count')}
        /\ UNCHANGED <<fixed, mask, posted, accesses, transferData, taken, completed, matchValue,
                       pending, ack, tries, matches, resp, data>>
    <2>1. 3 + 1 = 4
      BY SMT
    <2> QED BY <2>1, Zenon DEF BlockBegin
  <1>2. ring' \in Seq(Nat) /\ count' \in Nat /\ request' \in Nat
    <2>1. ring \in Seq(Nat)
      BY DEF TypeInv, InputTypes
    <2>2. ring[2] \in Nat /\ ring[3] \in Nat
      BY SMT, <1>1, <2>1
    <2> QED BY <1>1, <2>1, <2>2, WithoutFirst
  <1>3. WireTypes'
    <2>1. Access(request').reg \in Registers
      BY AttemptsAreTyped DEF AttemptRecord
    <2>2. "none" \notin Registers
      BY DEF Registers
    <2> HIDE DEF Access
    <2> QED BY <1>1, <2>1, <2>2 DEF SetIr, TypeInv, WireTypes, fixed
  <1>4. InputTypes' /\ LocalTypes'
    BY <1>1, <1>2 DEF TypeInv, InputTypes, LocalTypes, fixed, limits, pending, resp
  <1>5. LoopBounds'
    BY <1>1, BlockLoopIsLabel DEF TypeInv, LoopBounds, fixed, limits, Labels
  <1> QED BY <1>3, <1>4, <1>5 DEF TypeInv

LEMMA BlockPostKeepsTypes == TypeInv /\ BlockPost => TypeInv'
  <1> SUFFICES ASSUME TypeInv, BlockPost PROVE TypeInv'
    OBVIOUS
  <1>1. PICK k \in Answers :
          /\ Attempt(Access(request), k)
          /\ ack' = k
          /\ IF Again(k)
               THEN Retry /\ UNCHANGED pc
               ELSE tries' = 0 /\ pc' = IF k = Ok THEN BlockLoop(request, count) ELSE "blockend"
    BY DEF BlockPost
  <1>2. /\ pc = "blockpost"
        /\ UNCHANGED <<fixed, mask, cursor, completed, matchValue, pending, matches, resp, data>>
    BY DEF BlockPost
  <1>3. WireTypes' /\ transferData' \in Nat /\ ack' \in Nat /\ tries' \in 0..waitRetries
    BY <1>1, <1>2, AttemptsAreTyped, AttemptKeepsTypes
  <1>4. pc' \in {"blockpost", "blockend", BlockLoop(request, count)}
    BY <1>1, <1>2
  <1>6. InputTypes' /\ LocalTypes'
    BY <1>2, <1>3 DEF TypeInv, InputTypes, LocalTypes, fixed, limits, cursor, pending, resp
  <1>8. LoopBounds'
    BY <1>2, <1>3, <1>4, BlockLoopIsLabel DEF TypeInv, LoopBounds, fixed, limits, cursor, Labels
  <1> QED BY <1>3, <1>6, <1>8 DEF TypeInv

LEMMA BlockReadKeepsTypes == TypeInv /\ BlockRead => TypeInv'
  <1> SUFFICES ASSUME TypeInv, BlockRead PROVE TypeInv'
    OBVIOUS
  <1>1. PICK k \in Answers :
          /\ Attempt(BlockAccess, k)
          /\ ack' = k
          /\ IF Again(k)
               THEN Retry /\ UNCHANGED <<pc, count, completed, out>>
               ELSE /\ tries' = 0 /\ count' = count - 1
                    /\ IF k = Ok /\ Len(out) < ResponseSpace
                         THEN /\ out' = Append(out, transferData')
                              /\ completed' = completed + 1
                              /\ pc' = BlockLoop(request, count')
                         ELSE /\ pc' = IF k = Ok THEN "failed" ELSE "blockend"
                              /\ UNCHANGED <<completed, out>>
    BY DEF BlockRead
  <1>2. /\ pc = "blockread"
        /\ UNCHANGED <<fixed, mask, ring, request, taken, matchValue, pending, matches, respCount,
                       respAck, data>>
    BY DEF BlockRead
  <1>a. BlockAccess \in AttemptRecord
    BY AttemptsAreTyped DEF BlockAccess
  <1>3. WireTypes' /\ transferData' \in Nat /\ ack' \in Nat /\ tries' \in 0..waitRetries
    BY <1>1, <1>2, <1>a, AttemptKeepsTypes
  <1>4. count' \in Nat /\ (count' = count \/ count' = count - 1)
    BY SMT, <1>1, <1>2 DEF TypeInv, InputTypes, LoopBounds
  <1>5. completed' \in Nat /\ out' \in Seq(Nat) /\ Len(out') <= ResponseSpace
    <2>1. completed \in Nat /\ out \in Seq(Nat) /\ Len(out) <= ResponseSpace
      BY DEF TypeInv, LocalTypes
    <2>2. ResponseSpace \in Nat
      BY LimitsAreLegal
    <2>3. UNCHANGED <<completed, out>> \/
          (/\ Len(out) < ResponseSpace /\ out' = Append(out, transferData')
           /\ completed' = completed + 1)
      BY <1>1
    <2>4. transferData' \in Nat
      BY <1>3
    <2>5. /\ Append(out, transferData') \in Seq(Nat) /\ completed + 1 \in Nat
          /\ Len(out) < ResponseSpace => Len(Append(out, transferData')) <= ResponseSpace
      BY SMT, <2>1, <2>2, <2>4
    <2> QED BY <2>1, <2>3, <2>5
  <1>6. InputTypes' /\ LocalTypes'
    BY <1>2, <1>3, <1>4, <1>5 DEF TypeInv, InputTypes, LocalTypes, fixed, limits, pending
  <1>7. LoopBounds'
    <2>1. CASE UNCHANGED <<pc, count>>
      BY <2>1, <1>2, <1>3 DEF TypeInv, LoopBounds, fixed, limits
    <2>2. CASE pc' \in {"failed", "blockend", BlockLoop(request, count')}
      BY <2>2, <1>2, <1>3, BlockLoopIsLabel DEF TypeInv, LoopBounds, fixed, limits, Labels
    <2> QED BY <1>1, <2>1, <2>2
  <1> QED BY <1>3, <1>6, <1>7 DEF TypeInv

LEMMA BlockWordKeepsTypes == TypeInv /\ BlockWord => TypeInv'
  <1> SUFFICES ASSUME TypeInv, BlockWord PROVE TypeInv'
    OBVIOUS
  <1>1. /\ pc = "blockword" /\ ring # <<>> /\ pc' = "blockwrite"
        /\ count' = count - 1 /\ transferData' = ring[1] /\ ring' = Tail(ring)
        /\ taken' = taken + 1
        /\ UNCHANGED <<fixed, mask, ir, lastIr, posted, accesses, request, completed, matchValue,
                       pending, ack, tries, matches, resp, data>>
    BY DEF BlockWord
  <1>2. /\ count' \in Nat /\ taken' \in Nat /\ transferData' \in Nat /\ ring' \in Seq(Nat)
    BY SMT, <1>1 DEF TypeInv, InputTypes, LoopBounds
  <1>3. WireTypes'
    BY <1>1, <1>2 DEF TypeInv, WireTypes, fixed
  <1>4. InputTypes' /\ LocalTypes'
    BY <1>1, <1>2 DEF TypeInv, InputTypes, LocalTypes, fixed, limits, pending, resp
  <1>5. LoopBounds'
    BY <1>1 DEF TypeInv, LoopBounds, fixed, limits, Labels
  <1> QED BY <1>3, <1>4, <1>5 DEF TypeInv

LEMMA BlockWriteKeepsTypes == TypeInv /\ BlockWrite => TypeInv'
  <1> SUFFICES ASSUME TypeInv, BlockWrite PROVE TypeInv'
    OBVIOUS
  <1>1. PICK k \in Answers :
          /\ Attempt(Access(request), k)
          /\ ack' = k
          /\ IF Again(k)
               THEN Retry /\ UNCHANGED <<pc, completed>>
               ELSE /\ tries' = 0
                    /\ IF k = Ok
                         THEN completed' = completed + 1 /\ pc' = BlockLoop(request, count)
                         ELSE pc' = "blockend" /\ UNCHANGED completed
    BY DEF BlockWrite
  <1>2. /\ pc = "blockwrite"
        /\ UNCHANGED <<fixed, mask, cursor, matchValue, pending, matches, resp, data>>
    BY DEF BlockWrite
  <1>3. WireTypes' /\ transferData' \in Nat /\ ack' \in Nat /\ tries' \in 0..waitRetries
    BY <1>1, <1>2, AttemptsAreTyped, AttemptKeepsTypes
  <1>4. completed' \in Nat
    BY SMT, <1>1 DEF TypeInv, LocalTypes
  <1>5. pc' \in {"blockwrite", "blockend", BlockLoop(request, count)}
    BY <1>1, <1>2
  <1>6. InputTypes' /\ LocalTypes'
    BY <1>2, <1>3, <1>4 DEF TypeInv, InputTypes, LocalTypes, fixed, limits, cursor, pending, resp
  <1>8. LoopBounds'
    BY <1>2, <1>3, <1>5, BlockLoopIsLabel DEF TypeInv, LoopBounds, fixed, limits, cursor, Labels
  <1> QED BY <1>3, <1>6, <1>8 DEF TypeInv

\* The attempts that return nothing but an acknowledgement.
LEMMA LastAttemptsKeepTypes == TypeInv /\ (BlockLast \/ WriteAbort) => TypeInv'
  <1> SUFFICES ASSUME TypeInv, BlockLast \/ WriteAbort PROVE TypeInv'
    OBVIOUS
  <1>1. PICK a \in {Rdbuff, Abort}, k \in Answers :
          /\ Attempt(a, k)
          /\ ack' = k
          /\ (Again(k) /\ Retry) \/ tries' = 0
    BY DEF BlockLast, WriteAbort
  <1>2. /\ pc' \in {"blocklast", "blockend", "aborting", "done"}
        /\ UNCHANGED <<fixed, mask, cursor, completed, matchValue, pending, matches, resp, data>>
    BY DEF BlockLast, WriteAbort
  <1>3. WireTypes' /\ transferData' \in Nat /\ ack' \in Nat /\ tries' \in 0..waitRetries
    BY <1>1, <1>2, AttemptsAreTyped, AttemptKeepsTypes
  <1>6. InputTypes' /\ LocalTypes'
    BY <1>2, <1>3 DEF TypeInv, InputTypes, LocalTypes, fixed, limits, cursor, pending, resp
  <1>8. LoopBounds'
    BY <1>2, <1>3 DEF TypeInv, LoopBounds, fixed, limits, cursor, Labels
  <1> QED BY <1>3, <1>6, <1>8 DEF TypeInv

LEMMA BlockEndKeepsTypes == TypeInv /\ BlockEnd => TypeInv'
  <1> SUFFICES ASSUME TypeInv, BlockEnd PROVE TypeInv'
    OBVIOUS
  <1>1. /\ pc' = "done" /\ respCount' = completed /\ respAck' = ack
        /\ ring' = SubSeq(ring, Unwritten + 1, Len(ring))
        /\ UNCHANGED <<fixed, mask, wire, count, request, taken, completed, matchValue, pending,
                       ack, tries, matches, out, data>>
    BY DEF BlockEnd
  <1>2. Unwritten \in Nat
    BY SMT, LimitsAreLegal DEF Unwritten, TypeInv, InputTypes
  <1>3. ring' \in Seq(Nat)
    BY <1>1, <1>2, WithoutFirst DEF TypeInv, InputTypes
  <1>4. WireTypes'
    BY <1>1 DEF TypeInv, WireTypes, wire, fixed
  <1>5. InputTypes' /\ LocalTypes'
    BY <1>1, <1>3 DEF TypeInv, InputTypes, LocalTypes, fixed, limits, pending
  <1>6. LoopBounds'
    BY <1>1 DEF TypeInv, LoopBounds, fixed, limits, Labels
  <1> QED BY <1>4, <1>5, <1>6 DEF TypeInv

LEMMA AbortBeginKeepsTypes == TypeInv /\ AbortBegin => TypeInv'
  <1> SUFFICES ASSUME TypeInv, AbortBegin PROVE TypeInv'
    OBVIOUS
  <1>1. /\ Len(ring) >= 2
        /\ transferData' = ring[2] /\ ring' = SubSeq(ring, 2 + 1, Len(ring))
        /\ pc' \in {"aborting", "done"}
        /\ UNCHANGED <<fixed, mask, ir, lastIr, posted, accesses, count, request, taken, completed,
                       matchValue, pending, ack, tries, matches, resp, data>>
    BY DEF AbortBegin
  <1>2. ring' \in Seq(Nat) /\ transferData' \in Nat
    <2>1. ring \in Seq(Nat)
      BY DEF TypeInv, InputTypes
    <2>2. ring[2] \in Nat
      BY SMT, <1>1, <2>1
    <2> QED BY <1>1, <2>1, <2>2, WithoutFirst
  <1>3. WireTypes'
    BY <1>1, <1>2 DEF TypeInv, WireTypes, fixed
  <1>4. InputTypes' /\ LocalTypes'
    BY <1>1, <1>2 DEF TypeInv, InputTypes, LocalTypes, fixed, limits, pending, resp
  <1>5. LoopBounds'
    BY <1>1 DEF TypeInv, LoopBounds, fixed, limits, Labels
  <1> QED BY <1>3, <1>4, <1>5 DEF TypeInv

-----------------------------------------------------------------------------
(***************************************************************************)
(* What the host sends.                                                    *)
(***************************************************************************)
LEMMA ItemIsUnits ==
  ASSUME NEW x \in [request : Units, word : Units]
  PROVE  /\ ItemOf(x) \in Seq(Units) /\ ItemOf(x)[1] = x.request
         /\ Len(ItemOf(x)) = IF HasWord(x.request) THEN 2 ELSE 1
  <1>1. x.request \in Units /\ x.word \in Units
    OBVIOUS
  <1>2. CASE HasWord(x.request)
    BY SMT, <1>1, <1>2 DEF ItemOf
  <1>3. CASE ~HasWord(x.request)
    BY SMT, <1>1, <1>3 DEF ItemOf
  <1> QED BY <1>2, <1>3

\* What is left of a batch: an item and its rest, and nothing at the end.
LEMMA RestIsUnits ==
  ASSUME NEW c \in Commands, c.kind = "transfer"
  PROVE  /\ Len(c.batch) \in Nat /\ c.batch \in Seq([request : Units, word : Units])
         /\ Rest(c, Len(c.batch)) = <<>>
         /\ \A i \in 0..Len(c.batch) : Rest(c, i) \in Seq(Units)
         /\ \A i \in 0..(Len(c.batch) - 1) : Rest(c, i) = ItemOf(c.batch[i + 1]) \o Rest(c, i + 1)
  <1> DEFINE b == c.batch
             n == Len(b)
             T == [request : Units, word : Units]
             Items(i) == [j \in 1..(n - i) |-> ItemOf(b[i + j])]
  <1>1. b \in Seq(T)
    BY CommandsAreLegal
  <1>2. n \in Nat /\ \A i \in 1..n : b[i] \in T
    <2> HIDE DEF b, T
    <2> QED BY SMT, <1>1
  <1>3. \A i : Rest(c, i) = FlattenSeq(Items(i))
    BY Zenon DEF Rest
  <1> HIDE DEF b
  <1>4. \A i \in 0..n : Items(i) \in Seq(Seq(Units)) /\ Len(Items(i)) = n - i
    <2> SUFFICES ASSUME NEW i \in 0..n
                 PROVE  Items(i) \in Seq(Seq(Units)) /\ Len(Items(i)) = n - i
      OBVIOUS
    <2>1. \A j \in 1..(n - i) : ItemOf(b[i + j]) \in Seq(Units)
      <3> HIDE DEF n
      <3>1. \A j \in 1..(n - i) : i + j \in 1..n
        BY SMT, <1>2
      <3> QED BY <1>2, <3>1, ItemIsUnits
    <2> HIDE DEF n
    <2>2. n - i \in Nat
      BY SMT, <1>2
    <2> QED BY <2>1, <2>2
  <1>5. Rest(c, n) = <<>>
    <2> HIDE DEF n
    <2>1. n - n = 0 /\ n \in 0..n
      BY SMT, <1>2
    <2>2. Items(n) \in Seq(Seq(Units)) /\ Len(Items(n)) = 0
      BY <1>4, <2>1
    <2> HIDE DEF Items
    <2>3. Items(n) = <<>>
      BY <2>2
    <2> QED BY <1>3, <2>3, FlattenOfNone
  <1>6. \A i \in 0..n : Rest(c, i) \in Seq(Units)
    BY <1>3, <1>4, FlattenIsSequence
  <1>7. \A i \in 0..(n - 1) : Rest(c, i) = ItemOf(b[i + 1]) \o Rest(c, i + 1)
    <2> SUFFICES ASSUME NEW i \in 0..(n - 1)
                 PROVE  Rest(c, i) = ItemOf(b[i + 1]) \o Rest(c, i + 1)
      OBVIOUS
    <2> HIDE DEF n
    <2>1. /\ i \in 0..n /\ i + 1 \in 0..n /\ 1 \in 1..(n - i) /\ n - i > 0
          /\ (n - i) - 1 = n - (i + 1) /\ n - (i + 1) \in Nat
          /\ \A j \in 1..(n - (i + 1)) : j + 1 \in 1..(n - i) /\ i + (j + 1) = (i + 1) + j
      BY SMT, <1>2
    <2>2. /\ Items(i) \in Seq(Seq(Units)) /\ Len(Items(i)) = n - i
          /\ Items(i + 1) \in Seq(Seq(Units)) /\ Len(Items(i + 1)) = n - (i + 1)
      BY <1>4, <2>1
    <2>3. /\ Items(i)[1] = ItemOf(b[i + 1])
          /\ \A j \in 1..(n - (i + 1)) : Items(i)[j + 1] = Items(i + 1)[j]
      <3>1. \A j \in 1..(n - i) : Items(i)[j] = ItemOf(b[i + j])
        OBVIOUS
      <3>2. \A j \in 1..(n - (i + 1)) : Items(i + 1)[j] = ItemOf(b[(i + 1) + j])
        OBVIOUS
      <3> HIDE DEF Items
      <3> QED BY <2>1, <3>1, <3>2
    <2> HIDE DEF Items
    <2>4. Tail(Items(i)) = Items(i + 1)
      <3>0. n - i = (n - (i + 1)) + 1
        BY SMT, <1>2
      <3> DEFINE s == Items(i)   t == Items(i + 1)   m == n - (i + 1)
      <3>1. /\ s \in Seq(Seq(Units)) /\ Len(s) = m + 1 /\ m \in Nat
            /\ t \in Seq(Seq(Units)) /\ Len(t) = m
            /\ \A j \in 1..m : s[j + 1] = t[j]
        BY <2>1, <2>2, <2>3, <3>0
      <3> HIDE DEF s, t, m
      <3>2. Tail(s) \in Seq(Seq(Units)) /\ Len(Tail(s)) = m /\ \A j \in 1..m : Tail(s)[j] = t[j]
        BY SMT, <3>1
      <3>3. Tail(s) = t
        BY <3>1, <3>2
      <3> QED BY <3>3 DEF s, t
    <2>5. FlattenSeq(Items(i)) = Items(i)[1] \o FlattenSeq(Tail(Items(i)))
      BY <2>1, <2>2, FlattenBegins
    <2> QED BY <1>3, <2>3, <2>4, <2>5
  <1> QED BY <1>1, <1>2, <1>5, <1>6, <1>7 DEF b

LEMMA UnitsAreNumbers == \A s \in Seq(Units) : s \in Seq(Nat)
  <1> SUFFICES ASSUME NEW s \in Seq(Units) PROVE s \in Seq(Nat)
    OBVIOUS
  <1>1. Len(s) \in Nat /\ s = [i \in 1..Len(s) |-> s[i]] /\ \A i \in 1..Len(s) : s[i] \in Units
    BY SMT
  <1>2. \A i \in 1..Len(s) : s[i] \in Nat
    BY <1>1, NumbersAreNat
  <1> QED BY SMT, <1>1, <1>2

\* A host sends numbers.
LEMMA EncodingIsUnits ==
  /\ \A c \in Commands : Encode(c) \in Seq(Nat)
  /\ Following \in Seq(Nat)
  <1>0. \A s \in Seq(Units) : s \in Seq(Nat)
    BY UnitsAreNumbers
  <1>1. Following \in Seq(Nat)
    BY <1>0, CommandsAreLegal
  <1>2. \A s, t \in Seq(Nat) : s \o t \in Seq(Nat)
    OBVIOUS
  <1>3. ASSUME NEW c \in Commands PROVE Encode(c) \in Seq(Nat)
    <2>0. c.index \in Nat
      BY CommandsAreLegal
    <2>1. CASE c.kind = "transfer"
      <3>1. Len(c.batch) \in Nat /\ Rest(c, 0) \in Seq(Nat)
        <4>1. Len(c.batch) \in Nat /\ \A i \in 0..Len(c.batch) : Rest(c, i) \in Seq(Units)
          BY <2>1, RestIsUnits
        <4>2. 0 \in 0..Len(c.batch)
          BY SMT, <4>1
        <4> QED BY <4>1, <4>2, <1>0
      <3>2. <<c.index, Len(c.batch)>> \in Seq(Nat)
        BY <2>0, <3>1
      <3> QED BY <2>1, <3>1, <3>2, <1>2 DEF Encode
    <2>2. CASE c.kind = "block"
      <3>1. c.count \in Nat /\ c.request \in Nat /\ c.words \in Seq(Nat)
        BY <2>2, <1>0, CommandsAreLegal, NumbersAreNat
      <3>2. <<c.index, c.count, c.request>> \in Seq(Nat)
        BY <2>0, <3>1
      <3> QED BY <2>2, <3>1, <3>2, <1>2 DEF Encode
    <2>3. CASE c.kind = "abort"
      <3>1. c.word \in Nat
        BY <2>3, CommandsAreLegal, NumbersAreNat
      <3> QED BY <2>3, <2>0, <3>1 DEF Encode
    <2> QED BY <2>1, <2>2, <2>3, CommandsAreLegal
  <1> QED BY <1>1, <1>3

LEMMA SendKeepsTypes ==
  ASSUME TypeInv, NEW c \in Commands, Send(c)
  PROVE  TypeInv'
  <1>1. /\ pc = "idle" /\ pc' = c.kind
        /\ UNCHANGED <<port, limits, mask, wire, count, request, taken, completed, matchValue,
                       pending, ack, tries, matches, resp, data>>
    BY DEF Send
  <1>2. whole' \in BOOLEAN
    BY DEF Send
  <1>3. ring' \in Seq(Nat)
    <2>1. Encode(c) \in Seq(Nat) /\ Following \in Seq(Nat)
      BY EncodingIsUnits
    <2>2. CASE ring' = Encode(c) \o Following
      BY SMT, <2>1, <2>2
    <2>3. CASE \E n \in 0..(Len(Encode(c)) - 1) : ring' = SubSeq(Encode(c), 1, n)
      <3>1. PICK n \in 0..(Len(Encode(c)) - 1) : ring' = SubSeq(Encode(c), 1, n)
        BY <2>3
      <3> DEFINE e == Encode(c)
      <3>2. e \in Seq(Nat) /\ n \in 0..(Len(e) - 1) /\ ring' = SubSeq(e, 1, n)
        BY <2>1, <3>1
      <3> HIDE DEF e
      <3>3. Len(e) \in Nat
        BY <3>2
      <3> QED BY SMT, <3>2, <3>3
    <2> QED BY <2>2, <2>3 DEF Send
  <1>4. WireTypes'
    BY <1>1 DEF TypeInv, WireTypes, wire
  <1>5. InputTypes' /\ LocalTypes'
    BY <1>1, <1>2, <1>3 DEF TypeInv, InputTypes, LocalTypes, limits, pending, resp
  <1>6. LoopBounds'
    <2>1. pc' \in {"transfer", "block", "abort"}
      BY <1>1, CommandsAreLegal
    <2> QED BY <1>1, <2>1 DEF TypeInv, LoopBounds, limits, Labels
  <1> QED BY <1>4, <1>5, <1>6 DEF TypeInv

LEMMA ConfigureKeepsTypes ==
  ASSUME TypeInv, NEW l \in Limits, TransferConfigure(l)
  PROVE  TypeInv'
  <1>1. /\ pc = "idle"
        /\ UNCHANGED <<port, sent, whole, mask, wire, pc, cursor, completed, matchValue, pending,
                       ack, tries, matches, resp, data>>
    BY DEF TransferConfigure
  <1>2. waitRetries' \in Nat /\ matchRetries' \in Nat
    BY CommandsAreLegal DEF TransferConfigure, TypeInv, InputTypes
  <1>3. WireTypes'
    BY <1>1 DEF TypeInv, WireTypes, wire
  <1>4. InputTypes' /\ LocalTypes'
    BY <1>1, <1>2 DEF TypeInv, InputTypes, LocalTypes, cursor, pending, resp
  <1>5. LoopBounds'
    <2>1. 0 \in 0..(waitRetries') /\ 0 \in 0..(matchRetries')
      BY SMT, <1>2
    <2> QED BY <1>1, <2>1 DEF TypeInv, LoopBounds, cursor
  <1> QED BY <1>3, <1>4, <1>5 DEF TypeInv

LEMMA AnsweredKeepsTypes == TypeInv /\ Answered => TypeInv'
  <1> SUFFICES ASSUME TypeInv, Answered PROVE TypeInv'
    OBVIOUS
  <1>1. 0 \in 0..waitRetries /\ 0 \in 0..matchRetries /\ 0 \in Nat
    BY SMT DEF TypeInv, InputTypes
  <1>2. <<>> \in Seq(Nat) /\ Len(<<>>) <= ResponseSpace /\ Len(<<>>) <= RequestSpace
    BY SMT, LimitsAreLegal
  <1>3. WireTypes'
    BY NumbersAreNat DEF Answered, TypeInv, WireTypes
  <1>4. InputTypes'
    BY <1>1, <1>2, NumbersAreNat DEF Answered, TypeInv, InputTypes, limits
  <1>5. LocalTypes'
    BY <1>1, <1>2, NumbersAreNat DEF Answered, TypeInv, LocalTypes
  <1>6. LoopBounds'
    BY <1>1 DEF Answered, TypeInv, LoopBounds, Labels, limits
  <1> QED BY <1>3, <1>4, <1>5, <1>6 DEF TypeInv

LEMMA TooShortKeepsTypes == TypeInv /\ TooShort => TypeInv'
  BY DEF TooShort, TypeInv, WireTypes, InputTypes, LocalTypes, LoopBounds, fixed, limits, wire,
         cursor, pending, resp, Labels

LEMMA InitHasTypes == Init => TypeInv
  <1> SUFFICES ASSUME Init PROVE TypeInv
    OBVIOUS
  <1>0. DefaultWait \in Nat /\ RequestSpace \in Nat /\ ResponseSpace \in Nat
    BY LimitsAreLegal
  <1>1. 0 \in 0..waitRetries /\ 0 \in 0..matchRetries /\ 0 \in Nat
    BY SMT, <1>0 DEF Init
  <1>2. <<>> \in Seq(Nat) /\ Len(<<>>) <= ResponseSpace /\ Len(<<>>) <= RequestSpace
    BY SMT, <1>0
  <1>3. WireTypes
    BY NumbersAreNat DEF Init, WireTypes
  <1>4. InputTypes
    BY <1>0, <1>1, <1>2, NumbersAreNat DEF Init, InputTypes
  <1>5. LocalTypes
    BY <1>1, <1>2, NumbersAreNat DEF Init, LocalTypes
  <1>6. LoopBounds
    BY <1>1 DEF Init, LoopBounds, Labels
  <1> QED BY <1>3, <1>4, <1>5, <1>6 DEF TypeInv

LEMMA StepKeepsTypes == TypeInv /\ [Next]_vars => TypeInv'
  <1> SUFFICES ASSUME TypeInv, [Next]_vars PROVE TypeInv'
    OBVIOUS
  <1>1. CASE Handler
    BY <1>1, BeginKeepsTypes, TakeKeepsTypes, CollectKeepsTypes, ReadKeepsTypes, PostKeepsTypes,
       MatchKeepsTypes, SetMaskKeepsTypes, WriteKeepsTypes, EndKeepsTypes, CancelKeepsTypes,
       LastReadKeepsTypes, BlockBeginKeepsTypes, BlockPostKeepsTypes, BlockReadKeepsTypes,
       BlockWordKeepsTypes, BlockWriteKeepsTypes, LastAttemptsKeepTypes, BlockEndKeepsTypes,
       AbortBeginKeepsTypes, AnsweredKeepsTypes, TooShortKeepsTypes, Zenon DEF Handler
  <1>2. CASE \E c \in Commands : Send(c)
    BY <1>2, SendKeepsTypes
  <1>3. CASE \E l \in Limits : TransferConfigure(l)
    BY <1>3, ConfigureKeepsTypes
  <1>4. CASE UNCHANGED vars
    BY <1>4 DEF vars, TypeInv, WireTypes, InputTypes, LocalTypes, LoopBounds, fixed, limits, wire,
                cursor, pending, resp
  <1> QED BY <1>1, <1>2, <1>3, <1>4 DEF Next

\* The handler's state is well typed: however often the target makes it wait or
\* does not match, its retries stay within the limits the host has set, and what
\* it reads within the two buffers (port_transfer and the loops of
\* dap_handle_cmd_transfer and dap_handle_cmd_transfer_block).
THEOREM RetriesAndBuffersAreBounded == Spec => []TypeOK
  <1>1. Spec => []TypeInv
    BY InitHasTypes, StepKeepsTypes, PTL DEF Spec
  <1> QED BY <1>1, TypeInvIsTypeOK, PTL

-----------------------------------------------------------------------------
(***************************************************************************)
(* The request is left at the next command.                                *)
(***************************************************************************)
TransferPlaces == {"next", "collect", "read", "post", "match", "mask", "write", "end", "cancel",
                   "last"}
BlockPlaces == {"blockpost", "blockread", "blockword", "blockwrite", "blocklast", "blockend"}

\* The units of command s that are still to be taken from the buffer at place p,
\* with count n, of a block with request r.
LeftOf(p, s, n, r) ==
  IF p \in {"transfer", "block", "abort"} THEN Encode(s)
  ELSE IF p \in TransferPlaces THEN Rest(s, Len(s.batch) - n)
  ELSE IF p \in BlockPlaces /\ r \notin Reads
    THEN SubSeq(s.words, Len(s.words) - n + 1, Len(s.words))
  ELSE <<>>

\* What the count and the request then say of the command.
Consistent(p, s, n, r) ==
  \/ p \in {"transfer", "block", "abort"} /\ s.kind = p
  \/ p \in TransferPlaces /\ s.kind = "transfer" /\ n \in 0..Len(s.batch) /\ (p = "last" => n = 0)
  \/ /\ p \in BlockPlaces /\ s.kind = "block" /\ r = s.request
     /\ r \notin Reads => n \in 0..Len(s.words) /\ p # "blockread"
     /\ r \in Reads => p \notin {"blockword", "blockwrite"}
  \/ p \in {"aborting", "done"}

Left == LeftOf(pc, sent, count, request)

\* What is left of the command comes first, then the next command, then the words
\* read so far.
RestShape ==
  /\ sent \in Commands
  /\ Consistent(pc, sent, count, request)
  /\ ring = Left \o (Following \o data)

RestInv ==
  /\ pc = "idle" => data = <<>>
  /\ whole /\ pc \notin {"idle", "failed"} => RestShape

\* Each place is of one kind.
LEMMA PlacesAreApart ==
  ASSUME NEW p
  PROVE  /\ p \in TransferPlaces => p \notin {"transfer", "block", "abort"} \cup BlockPlaces
                                   /\ p \notin {"aborting", "done", "idle", "failed"}
         /\ p \in BlockPlaces => p \notin {"transfer", "block", "abort"} \cup TransferPlaces
                                /\ p \notin {"aborting", "done", "idle", "failed"}
         /\ p \in {"aborting", "done"} =>
              p \notin {"transfer", "block", "abort", "idle", "failed"} \cup TransferPlaces \cup BlockPlaces
         /\ p \in {"transfer", "block", "abort"} =>
              p \notin {"aborting", "done", "idle", "failed"} \cup TransferPlaces \cup BlockPlaces
  BY DEF TransferPlaces, BlockPlaces

LEMMA AtStart ==
  ASSUME NEW p \in {"transfer", "block", "abort"}, NEW s, NEW n, NEW r
  PROVE  /\ LeftOf(p, s, n, r) = Encode(s)
         /\ Consistent(p, s, n, r) <=> s.kind = p
  BY PlacesAreApart, Zenon DEF LeftOf, Consistent

LEMMA AtTransfer ==
  ASSUME NEW p \in TransferPlaces, NEW s, NEW n, NEW r
  PROVE  /\ LeftOf(p, s, n, r) = Rest(s, Len(s.batch) - n)
         /\ Consistent(p, s, n, r) <=>
              s.kind = "transfer" /\ n \in 0..Len(s.batch) /\ (p = "last" => n = 0)
  <1>1. /\ p \notin {"transfer", "block", "abort"} /\ p \notin BlockPlaces
        /\ p \notin {"aborting", "done"}
    BY DEF TransferPlaces, BlockPlaces
  <1>2. LeftOf(p, s, n, r) = Rest(s, Len(s.batch) - n)
    BY <1>1, Zenon DEF LeftOf
  <1> QED BY <1>1, <1>2, Zenon DEF Consistent

LEMMA AtBlock ==
  ASSUME NEW p \in BlockPlaces, NEW s, NEW n, NEW r
  PROVE  /\ r \in Reads => LeftOf(p, s, n, r) = <<>>
         /\ r \notin Reads =>
              LeftOf(p, s, n, r) = SubSeq(s.words, Len(s.words) - n + 1, Len(s.words))
         /\ Consistent(p, s, n, r) <=>
              /\ s.kind = "block" /\ r = s.request
              /\ r \notin Reads => n \in 0..Len(s.words) /\ p # "blockread"
              /\ r \in Reads => p \notin {"blockword", "blockwrite"}
  <1>1. /\ p \notin {"transfer", "block", "abort"} /\ p \notin TransferPlaces
        /\ p \notin {"aborting", "done"}
    BY DEF TransferPlaces, BlockPlaces
  <1>2. LeftOf(p, s, n, r) = IF r \notin Reads
                               THEN SubSeq(s.words, Len(s.words) - n + 1, Len(s.words)) ELSE <<>>
    BY <1>1, Zenon DEF LeftOf
  <1>3. Consistent(p, s, n, r) <=>
          /\ s.kind = "block" /\ r = s.request
          /\ r \notin Reads => n \in 0..Len(s.words) /\ p # "blockread"
          /\ r \in Reads => p \notin {"blockword", "blockwrite"}
    BY <1>1, Zenon DEF Consistent
  <1> QED BY <1>2, <1>3, Zenon

LEMMA AtEnd ==
  ASSUME NEW p \in {"aborting", "done"}, NEW s, NEW n, NEW r
  PROVE  LeftOf(p, s, n, r) = <<>> /\ Consistent(p, s, n, r)
  <1>1. p \notin {"transfer", "block", "abort"} /\ p \notin TransferPlaces /\ p \notin BlockPlaces
    BY DEF TransferPlaces, BlockPlaces
  <1> QED BY <1>1, Zenon DEF LeftOf, Consistent

\* Sequences: what is taken from the front, what is put at the end.
LEMMA DropFirst ==
  ASSUME NEW a \in Seq(Nat), NEW b \in Seq(Nat)
  PROVE  /\ Len(a \o b) = Len(a) + Len(b)
         /\ SubSeq(a \o b, Len(a) + 1, Len(a \o b)) = b
         /\ \A i \in 1..Len(a) : (a \o b)[i] = a[i]
  BY SMT

LEMMA Regroup ==
  ASSUME NEW a \in Seq(Nat), NEW b \in Seq(Nat), NEW c \in Seq(Nat)
  PROVE  (a \o b) \o c = a \o (b \o c)
  BY ConcatAssociative

LEMMA Joined == \A s, u \in Seq(Nat) : s \o u \in Seq(Nat)
  OBVIOUS

LEMMA AppendTo ==
  ASSUME NEW s \in Seq(Nat), NEW u \in Seq(Nat), NEW v \in Nat
  PROVE  Append(s \o u, v) = s \o Append(u, v)
  <1>1. Append(u, v) = u \o <<v>> /\ <<v>> \in Seq(Nat)
    BY AppendIsConcat
  <1>2. Append(s \o u, v) = (s \o u) \o <<v>>
    BY Joined, AppendIsConcat
  <1>3. (s \o u) \o <<v>> = s \o (u \o <<v>>)
    BY <1>1, Regroup
  <1> QED BY <1>1, <1>2, <1>3

LEMMA AppendBehind ==
  ASSUME NEW a \in Seq(Nat), NEW b \in Seq(Nat), NEW c \in Seq(Nat), NEW v \in Nat
  PROVE  Append(a \o (b \o c), v) = a \o (b \o Append(c, v))
  <1>1. b \o c \in Seq(Nat)
    BY Joined
  <1>2. Append(a \o (b \o c), v) = a \o Append(b \o c, v)
    BY <1>1, AppendTo
  <1>3. Append(b \o c, v) = b \o Append(c, v)
    BY AppendTo
  <1> QED BY <1>2, <1>3

LEMMA NothingBefore == \A s \in Seq(Nat) : <<>> \o s = s /\ s \o <<>> = s
  BY SMT

LEMMA RestInvIsRestIsNext == RestInv /\ TypeInv => RestIsNext
  <1> SUFFICES ASSUME RestInv, TypeInv, pc = "done", whole
               PROVE  ring = Following \o data
    BY DEF RestIsNext
  <1>1. ring = <<>> \o (Following \o data)
    BY AtEnd DEF RestInv, RestShape, Left
  <1>2. Following \o data \in Seq(Nat)
    BY EncodingIsUnits, Joined DEF TypeInv, LocalTypes
  <1> QED BY <1>1, <1>2, NothingBefore

\* A step that takes nothing from the buffer.
LEMMA RestStays ==
  ASSUME RestInv, UNCHANGED <<sent, whole, ring, count, request, data>>,
         \/ pc' = pc
         \/ pc' = "failed"
         \/ pc \in TransferPlaces /\ pc' \in TransferPlaces /\ (pc' = "last" => count = 0)
         \/ /\ pc \in BlockPlaces /\ pc' \in BlockPlaces
            /\ request \notin Reads => pc' # "blockread"
            /\ request \in Reads => pc' \notin {"blockword", "blockwrite"}
         \/ pc = "aborting" /\ pc' = "done"
  PROVE  RestInv'
  <1>1. CASE pc' = pc
    BY <1>1 DEF RestInv, RestShape, Left
  <1>2. CASE pc' = "failed"
    BY <1>2 DEF RestInv
  <1>3. CASE pc \in TransferPlaces /\ pc' \in TransferPlaces /\ (pc' = "last" => count = 0)
    <2>1. pc \notin {"idle", "failed"} /\ pc' # "idle"
      BY <1>3 DEF TransferPlaces
    <2>2. /\ Left = Rest(sent, Len(sent.batch) - count)
          /\ Consistent(pc, sent, count, request) =>
               sent.kind = "transfer" /\ count \in 0..Len(sent.batch)
      BY <1>3, AtTransfer DEF Left
    <2>3. /\ Left' = Rest(sent, Len(sent.batch) - count)
          /\ Consistent(pc', sent, count, request) <=>
               sent.kind = "transfer" /\ count \in 0..Len(sent.batch) /\ (pc' = "last" => count = 0)
      BY <1>3, AtTransfer DEF Left
    <2> QED BY <1>3, <2>1, <2>2, <2>3 DEF RestInv, RestShape
  <1>4. CASE /\ pc \in BlockPlaces /\ pc' \in BlockPlaces
             /\ request \notin Reads => pc' # "blockread"
             /\ request \in Reads => pc' \notin {"blockword", "blockwrite"}
    <2>1. pc \notin {"idle", "failed"} /\ pc' # "idle"
      BY <1>4 DEF BlockPlaces
    <2>2. Left' = Left
      <3>1. CASE request \in Reads
        BY <3>1, <1>4, AtBlock DEF Left
      <3>2. CASE request \notin Reads
        <4> DEFINE w == SubSeq(sent.words, Len(sent.words) - count + 1, Len(sent.words))
        <4>1. LeftOf(pc, sent, count, request) = w
          BY <3>2, <1>4, AtBlock
        <4>2. LeftOf(pc', sent, count, request) = w
          BY <3>2, <1>4, AtBlock
        <4> QED BY <4>1, <4>2 DEF Left
      <3> QED BY <3>1, <3>2
    <2>3. Consistent(pc, sent, count, request) => Consistent(pc', sent, count, request)
      BY <1>4, AtBlock
    <2> QED BY <1>4, <2>1, <2>2, <2>3 DEF RestInv, RestShape
  <1>5. CASE pc = "aborting" /\ pc' = "done"
    <2>1. Left' = Left /\ Consistent(pc', sent, count, request)
      BY <1>5, AtEnd DEF Left
    <2> QED BY <1>5, <2>1 DEF RestInv, RestShape
  <1> QED BY <1>1, <1>2, <1>3, <1>4, <1>5

\* In the middle of a Transfer.
LEMMA RestOfTransfer ==
  ASSUME RestInv, whole, pc \in TransferPlaces
  PROVE  /\ sent \in Commands /\ sent.kind = "transfer"
         /\ Len(sent.batch) \in Nat /\ count \in 0..Len(sent.batch)
         /\ Left = Rest(sent, Len(sent.batch) - count) /\ Left \in Seq(Nat)
         /\ ring = Left \o (Following \o data)
         /\ count = 0 => Left = <<>>
  <1>1. RestShape
    BY DEF RestInv, TransferPlaces
  <1>2. /\ sent \in Commands /\ sent.kind = "transfer" /\ count \in 0..Len(sent.batch)
        /\ Left = Rest(sent, Len(sent.batch) - count)
        /\ ring = Left \o (Following \o data)
    BY <1>1, AtTransfer DEF RestShape, Left
  <1>3. Len(sent.batch) \in Nat /\ \A i \in 0..Len(sent.batch) : Rest(sent, i) \in Seq(Units)
    BY <1>2, RestIsUnits
  <1>4. /\ Len(sent.batch) - count \in 0..Len(sent.batch)
        /\ count = 0 => Len(sent.batch) - count = Len(sent.batch)
    BY SMT, <1>2, <1>3
  <1>5. Rest(sent, Len(sent.batch)) = <<>>
    BY <1>2, RestIsUnits
  <1> QED BY <1>2, <1>3, <1>4, <1>5, UnitsAreNumbers

\* A Transfer without anything left is done.
LEMMA TransferIsDone ==
  ASSUME RestInv, UNCHANGED <<sent, whole, ring, count, request, data>>,
         pc \in TransferPlaces, count = 0, pc' = "done"
  PROVE  RestInv'
  <1> SUFFICES ASSUME whole PROVE RestShape'
    BY DEF RestInv
  <1>1. sent \in Commands /\ Left = <<>> /\ ring = Left \o (Following \o data)
    BY RestOfTransfer
  <1>2. Left' = <<>> /\ Consistent(pc', sent', count', request')
    BY AtEnd DEF Left
  <1> QED BY <1>1, <1>2 DEF RestShape

\* A word read is put behind everything else.
LEMMA StoreKeepsRest ==
  ASSUME RestInv, TypeInv, UNCHANGED <<sent, whole, count, request>>,
         pc \in TransferPlaces, NEW v \in Nat, NEW next, Store(v, next),
         next \in TransferPlaces \ {"last"} \/ (next = "done" /\ count = 0)
  PROVE  RestInv'
  <1>1. CASE Len(data) < RequestSpace
    <2>1. ring' = Append(ring, v) /\ data' = Append(data, v) /\ pc' = next
      BY <1>1 DEF Store
    <2> SUFFICES ASSUME whole PROVE RestShape'
      BY <2>1 DEF RestInv, TransferPlaces
    <2>2. /\ sent \in Commands /\ sent.kind = "transfer" /\ count \in 0..Len(sent.batch)
          /\ Left = Rest(sent, Len(sent.batch) - count) /\ Left \in Seq(Nat)
          /\ ring = Left \o (Following \o data)
          /\ count = 0 => Left = <<>>
      BY RestOfTransfer
    <2>3. Left' = Left /\ Consistent(pc', sent', count', request')
      <3>1. CASE next \in TransferPlaces \ {"last"}
        <4>1. pc' \in TransferPlaces /\ pc' # "last" /\ UNCHANGED <<sent, count, request>>
          BY <3>1, <2>1
        <4>2. Left' = Rest(sent, Len(sent.batch) - count)
          BY <4>1, AtTransfer DEF Left
        <4>3. Consistent(pc', sent, count, request)
          BY <4>1, <2>2, AtTransfer
        <4> QED BY <4>1, <4>2, <4>3, <2>2
      <3>2. CASE next = "done" /\ count = 0
        BY <3>2, <2>1, <2>2, AtEnd DEF Left
      <3> QED BY <3>1, <3>2
    <2>4. ring' = Left \o (Following \o data')
      <3>1. data \in Seq(Nat) /\ Following \in Seq(Nat)
        BY EncodingIsUnits DEF TypeInv, LocalTypes
      <3> QED BY <2>1, <2>2, <3>1, AppendBehind
    <2> QED BY <2>1, <2>2, <2>3, <2>4 DEF RestShape
  <1>2. CASE ~(Len(data) < RequestSpace)
    BY <1>2 DEF Store, RestInv
  <1> QED BY <1>1, <1>2

\* Units u are taken from the front of what is left, and l stays.
LEMMA TakenFromFront ==
  ASSUME TypeInv, NEW u \in Seq(Nat), NEW l \in Seq(Nat), ring = (u \o l) \o (Following \o data)
  PROVE  /\ Len(ring) >= Len(u) /\ \A i \in 1..Len(u) : ring[i] = u[i]
         /\ SubSeq(ring, Len(u) + 1, Len(ring)) = l \o (Following \o data)
  <1>1. Following \o data \in Seq(Nat)
    BY EncodingIsUnits, Joined DEF TypeInv, LocalTypes
  <1>2. l \o (Following \o data) \in Seq(Nat)
    BY <1>1, Joined
  <1>3. ring = u \o (l \o (Following \o data))
    BY <1>1, Regroup
  <1> DEFINE b == l \o (Following \o data)
  <1> HIDE DEF b
  <1>4. b \in Seq(Nat) /\ ring = u \o b
    BY <1>2, <1>3 DEF b
  <1>5. Len(ring) >= Len(u)
    <2>1. Len(ring) = Len(u) + Len(b)
      BY <1>4, DropFirst
    <2>2. Len(b) \in Nat /\ Len(u) \in Nat
      BY <1>4
    <2> QED BY SMT, <2>1, <2>2
  <1>6. /\ \A i \in 1..Len(u) : ring[i] = u[i]
        /\ SubSeq(ring, Len(u) + 1, Len(ring)) = b
    BY <1>4, DropFirst
  <1> QED BY <1>5, <1>6 DEF b

LEMMA LoopIsInTransfer == Loop \in TransferPlaces \ {"last"}
  BY DEF Loop, TransferPlaces

LEMMA StartIsInTransfer == \A r : Start(r) \in TransferPlaces \ {"last"}
  BY DEF Start, TransferPlaces

LEMMA BlockLoopIsInBlock ==
  \A r, n :
    /\ BlockLoop(r, n) \in BlockPlaces /\ BlockLoop(r, n) # "idle"
    /\ r \notin Reads => BlockLoop(r, n) # "blockread"
    /\ r \in Reads => BlockLoop(r, n) \notin {"blockword", "blockwrite"}
  BY DEF BlockLoop, BlockPlaces

\* An attempt leaves a number.
LEMMA AttemptLeavesNumber ==
  ASSUME TypeInv, port' = port, NEW a \in AttemptRecord, NEW k, Attempt(a, k)
  PROVE  transferData' \in Nat
  <1>1. WireTypes'
    BY AttemptKeepsWire DEF TypeInv, InputTypes
  <1> QED BY <1>1 DEF WireTypes

\* What is taken from the front of a Transfer.
LEMMA BeginTakes ==
  ASSUME TypeInv, RestInv, Begin, whole
  PROVE  /\ sent \in Commands /\ sent.kind = "transfer" /\ Len(sent.batch) \in Nat
         /\ count' = Len(sent.batch) /\ ring' = Rest(sent, 0) \o (Following \o data)
  <1>0. /\ pc = "transfer"
        /\ count' = ring[2] /\ ring' = SubSeq(ring, 3, Len(ring))
    BY DEF Begin
  <1>1. sent \in Commands /\ sent.kind = "transfer" /\ ring = Encode(sent) \o (Following \o data)
    BY <1>0, AtStart DEF RestInv, RestShape, Left
  <1>2. /\ Len(sent.batch) \in Nat /\ Rest(sent, 0) \in Seq(Nat)
        /\ Encode(sent) = <<sent.index, Len(sent.batch)>> \o Rest(sent, 0)
    <2>1. Len(sent.batch) \in Nat /\ \A i \in 0..Len(sent.batch) : Rest(sent, i) \in Seq(Units)
      BY <1>1, RestIsUnits
    <2>2. 0 \in 0..Len(sent.batch)
      BY SMT, <2>1
    <2> QED BY <1>1, <2>1, <2>2, UnitsAreNumbers DEF Encode
  <1> DEFINE u == <<sent.index, Len(sent.batch)>>
  <1>3. u \in Seq(Nat) /\ Len(u) = 2 /\ u[2] = Len(sent.batch)
    BY <1>1, <1>2, CommandsAreLegal
  <1>4. ring = (u \o Rest(sent, 0)) \o (Following \o data)
    BY <1>1, <1>2
  <1> HIDE DEF u
  <1>5. /\ \A i \in 1..Len(u) : ring[i] = u[i]
        /\ SubSeq(ring, Len(u) + 1, Len(ring)) = Rest(sent, 0) \o (Following \o data)
    BY <1>2, <1>3, <1>4, TakenFromFront
  <1>6. 2 \in 1..Len(u) /\ Len(u) + 1 = 3
    BY SMT, <1>3
  <1>7. count' = Len(sent.batch) /\ ring' = Rest(sent, 0) \o (Following \o data)
    BY <1>0, <1>3, <1>5, <1>6
  <1> QED BY <1>1, <1>2, <1>7

LEMMA BeginKeepsRest == TypeInv /\ RestInv /\ Begin => RestInv'
  <1> SUFFICES ASSUME TypeInv, RestInv, Begin, whole PROVE RestInv'
    BY DEF Begin, fixed, RestInv
  <1>0. pc = "transfer" /\ pc' \in {"next", "end"} /\ UNCHANGED <<sent, whole, data>>
    BY DEF Begin, fixed
  <1>7. /\ sent \in Commands /\ sent.kind = "transfer" /\ Len(sent.batch) \in Nat
        /\ count' = Len(sent.batch) /\ ring' = Rest(sent, 0) \o (Following \o data)
    BY BeginTakes
  <1>8. Len(sent.batch) - count' = 0 /\ count' \in 0..Len(sent.batch)
    BY SMT, <1>7
  <1>9. pc' \in TransferPlaces /\ pc' # "last" /\ pc' # "idle"
    BY <1>0 DEF TransferPlaces
  <1>10. Left' = Rest(sent, 0) /\ Consistent(pc', sent', count', request')
    <2>1. Left' = Rest(sent, Len(sent.batch) - count')
      BY <1>0, <1>9, AtTransfer DEF Left
    <2>2. Consistent(pc', sent, count', request')
      BY <1>7, <1>8, <1>9, AtTransfer
    <2> QED BY <1>0, <1>8, <2>1, <2>2
  <1> QED BY <1>0, <1>7, <1>9, <1>10 DEF RestInv, RestShape

\* A transfer is taken out of the buffer, carried out or not.
LEMMA ItemIsDropped ==
  ASSUME TypeInv, RestInv, pc \in TransferPlaces, count > 0, UNCHANGED <<sent, whole, data>>,
         count' = count - 1,
         ring' = SubSeq(ring, (IF HasWord(ring[1]) THEN 2 ELSE 1) + 1, Len(ring)),
         pc' \in TransferPlaces \cup {"done"}, pc' \in {"last", "done"} => count' = 0
  PROVE  RestInv'
  <1>0. pc' # "idle"
    BY DEF TransferPlaces
  <1> SUFFICES ASSUME whole PROVE RestShape'
    BY <1>0 DEF RestInv
  <1> DEFINE n == Len(sent.batch)
             x == sent.batch[n - count + 1]
             u == ItemOf(x)
             l == Rest(sent, n - count + 1)
  <1>1. /\ sent \in Commands /\ sent.kind = "transfer"
        /\ n \in Nat /\ count \in 0..n
        /\ Left = Rest(sent, n - count) /\ ring = Left \o (Following \o data)
    BY RestOfTransfer
  <1>2. /\ \A i \in 0..n : Rest(sent, i) \in Seq(Units)
        /\ \A i \in 0..(n - 1) : Rest(sent, i) = ItemOf(sent.batch[i + 1]) \o Rest(sent, i + 1)
        /\ sent.batch \in Seq([request : Units, word : Units])
    BY <1>1, RestIsUnits
  <1>3. x \in [request : Units, word : Units]
    <2>1. n - count + 1 \in 1..n
      BY SMT, <1>1
    <2> QED BY <1>2, <2>1, ElementOfSeq
  <1>4. /\ n - count \in 0..(n - 1) /\ n - count + 1 \in 0..n /\ n - count + 1 = n - (count - 1)
        /\ count - 1 \in 0..n
    <2> HIDE DEF n
    <2> QED BY SMT, <1>1
  <1>5. u \in Seq(Nat) /\ u[1] = x.request /\ Len(u) = IF HasWord(x.request) THEN 2 ELSE 1
    BY <1>3, ItemIsUnits, UnitsAreNumbers
  <1>6. l \in Seq(Nat) /\ Left = u \o l
    BY <1>1, <1>2, <1>4, UnitsAreNumbers
  <1> HIDE DEF n, u, l, x
  <1>7. /\ \A i \in 1..Len(u) : ring[i] = u[i]
        /\ SubSeq(ring, Len(u) + 1, Len(ring)) = l \o (Following \o data)
    BY <1>1, <1>5, <1>6, TakenFromFront
  <1>8. 1 \in 1..Len(u)
    BY SMT, <1>5
  <1>9. ring' = l \o (Following \o data)
    BY <1>5, <1>7, <1>8
  <1>10. l = Rest(sent, n - (count - 1))
    BY <1>4 DEF l
  <1>11. CASE pc' \in TransferPlaces
    <2>1. Left' = l /\ Consistent(pc', sent', count', request')
      <3>1. Left' = Rest(sent, n - (count - 1))
        BY <1>11, AtTransfer DEF Left, n
      <3>2. Consistent(pc', sent, count - 1, request')
        BY <1>11, <1>1, <1>4, AtTransfer DEF n
      <3> QED BY <1>10, <3>1, <3>2
    <2> QED BY <1>1, <1>9, <2>1 DEF RestShape
  <1>12. CASE pc' = "done"
    <2>1. count' = 0 /\ n - (count - 1) = n
      BY SMT, <1>12, <1>1
    <2>2. l = <<>>
      BY <1>1, <1>10, <2>1, RestIsUnits DEF n
    <2>3. Left' = <<>> /\ Consistent(pc', sent', count', request')
      BY <1>12, AtEnd DEF Left
    <2> QED BY <1>1, <1>9, <2>2, <2>3 DEF RestShape
  <1> QED BY <1>11, <1>12

LEMMA TakeKeepsRest == TypeInv /\ RestInv /\ Take => RestInv'
  <1> SUFFICES ASSUME TypeInv, RestInv, Take PROVE RestInv'
    OBVIOUS
  <1>1. pc = "next" /\ count' = count - 1 /\ UNCHANGED <<sent, whole, data>>
    BY DEF Take, fixed
  <1>2. count > 0
    BY <1>1 DEF TypeInv, LoopBounds
  <1>3. ring' = SubSeq(ring, (IF HasWord(ring[1]) THEN 2 ELSE 1) + 1, Len(ring))
    BY DEF Take
  <1>4. pc' = "collect" \/ \E r : pc' = Start(r)
    BY DEF Take, Dispatch
  <1>5. pc \in TransferPlaces /\ pc' \in TransferPlaces \ {"last"} /\ pc' # "done"
    BY <1>1, <1>4, StartIsInTransfer DEF TransferPlaces
  <1> QED BY <1>1, <1>2, <1>3, <1>5, ItemIsDropped

LEMMA CancelKeepsRest == TypeInv /\ RestInv /\ Cancel => RestInv'
  <1> SUFFICES ASSUME TypeInv, RestInv, Cancel PROVE RestInv'
    OBVIOUS
  <1>1. /\ pc = "cancel" /\ count' = count - 1 /\ UNCHANGED <<sent, whole, data>>
        /\ pc' = IF count' > 0 THEN "cancel" ELSE IF Remains THEN "last" ELSE "done"
    BY DEF Cancel, fixed
  <1>2. count > 0 /\ count \in Nat
    BY <1>1 DEF TypeInv, LoopBounds, InputTypes
  <1>3. ring' = SubSeq(ring, (IF HasWord(ring[1]) THEN 2 ELSE 1) + 1, Len(ring))
    <2>1. UnitsOf(ring[1]) = IF HasWord(ring[1]) THEN 2 ELSE 1
      BY DEF UnitsOf, HasWord
    <2> QED BY <2>1 DEF Cancel
  <1>4. pc' \in {"last", "done"} => count' = 0
    <2>1. count' > 0 \/ count' = 0
      BY SMT, <1>1, <1>2
    <2> QED BY <2>1, <1>1
  <1>5. pc \in TransferPlaces /\ pc' \in TransferPlaces \cup {"done"}
    BY <1>1 DEF TransferPlaces
  <1> QED BY <1>1, <1>2, <1>3, <1>4, <1>5, ItemIsDropped

LEMMA CollectKeepsRest == TypeInv /\ RestInv /\ Collect => RestInv'
  <1> SUFFICES ASSUME TypeInv, RestInv, Collect PROVE RestInv'
    OBVIOUS
  <1>1. PICK k \in Answers :
          /\ Attempt(Rdbuff, k)
          /\ IF Again(k)
               THEN UNCHANGED <<pc, ring, data>>
               ELSE IF k = Ok THEN Store(transferData', Start(request))
                              ELSE pc' = "end" /\ UNCHANGED <<ring, data>>
    BY DEF Collect
  <1>2. pc = "collect" /\ UNCHANGED <<sent, whole, count, request, port>>
    BY DEF Collect, fixed
  <1>3. pc \in TransferPlaces /\ "end" \in TransferPlaces
    BY <1>2 DEF TransferPlaces
  <1>4. CASE UNCHANGED <<pc, ring, data>> \/ (pc' = "end" /\ UNCHANGED <<ring, data>>)
    BY <1>2, <1>3, <1>4, RestStays
  <1>5. CASE Store(transferData', Start(request))
    <2>1. transferData' \in Nat
      BY <1>1, <1>2, AttemptsAreTyped, AttemptLeavesNumber
    <2> QED BY <1>2, <1>3, <1>5, <2>1, StartIsInTransfer, StoreKeepsRest
  <1> QED BY <1>1, <1>4, <1>5

LEMMA ReadKeepsRest == TypeInv /\ RestInv /\ Read => RestInv'
  <1> SUFFICES ASSUME TypeInv, RestInv, Read PROVE RestInv'
    OBVIOUS
  <1>1. PICK k \in Answers :
          /\ Attempt(Access(request), k)
          /\ \/ UNCHANGED <<pc, ring, data>>
             \/ pc' = "end" /\ UNCHANGED <<ring, data>>
             \/ IF Posts(request)
                  THEN pc' = Loop /\ UNCHANGED <<ring, data>>
                  ELSE Store(transferData', Loop)
    BY DEF Read
  <1>2. pc = "read" /\ UNCHANGED <<sent, whole, count, request, port>>
    BY DEF Read, fixed
  <1>3. pc \in TransferPlaces /\ "end" \in TransferPlaces
    BY <1>2 DEF TransferPlaces
  <1>4. CASE \/ UNCHANGED <<pc, ring, data>>
             \/ pc' = "end" /\ UNCHANGED <<ring, data>>
             \/ pc' = Loop /\ UNCHANGED <<ring, data>>
    BY <1>2, <1>3, <1>4, LoopIsInTransfer, RestStays
  <1>5. CASE Store(transferData', Loop)
    <2>1. transferData' \in Nat
      BY <1>1, <1>2, AttemptsAreTyped, AttemptLeavesNumber
    <2> QED BY <1>2, <1>3, <1>5, <2>1, LoopIsInTransfer, StoreKeepsRest
  <1> QED BY <1>1, <1>4, <1>5

\* What the handler does with a request that it has taken, the buffer apart.
LEMMA TransferKeepsRest == TypeInv /\ RestInv /\ (Post \/ Match \/ SetMask \/ Write) => RestInv'
  <1> SUFFICES ASSUME TypeInv, RestInv, Post \/ Match \/ SetMask \/ Write PROVE RestInv'
    OBVIOUS
  <1>1. UNCHANGED <<sent, whole, ring, count, request, data>>
    BY DEF Post, Match, SetMask, Write, fixed, cursor
  <1>2. pc' = pc \/ pc' \in {"match", "end"} \/ pc' = Loop
    BY DEF Post, Match, SetMask, Write
  <1>3. pc \in TransferPlaces /\ {"match", "end"} \subseteq TransferPlaces \ {"last"}
    BY DEF Post, Match, SetMask, Write, TransferPlaces
  <1> QED BY <1>1, <1>2, <1>3, LoopIsInTransfer, RestStays

LEMMA EndKeepsRest == TypeInv /\ RestInv /\ End => RestInv'
  <1> SUFFICES ASSUME TypeInv, RestInv, End PROVE RestInv'
    OBVIOUS
  <1>1. /\ pc = "end" /\ UNCHANGED <<sent, whole, ring, count, request, data>>
        /\ pc' = IF count > 0 THEN "cancel" ELSE IF Remains THEN "last" ELSE "done"
    BY DEF End, fixed, cursor
  <1>2. pc \in TransferPlaces /\ "cancel" \in TransferPlaces /\ "last" \in TransferPlaces
    BY <1>1 DEF TransferPlaces
  <1>3. count > 0 \/ count = 0
    BY SMT DEF TypeInv, InputTypes
  <1> QED BY <1>1, <1>2, <1>3, RestStays, TransferIsDone

LEMMA LastReadKeepsRest == TypeInv /\ RestInv /\ LastRead => RestInv'
  <1> SUFFICES ASSUME TypeInv, RestInv, LastRead PROVE RestInv'
    OBVIOUS
  <1>1. PICK k \in Answers :
          /\ Attempt(Rdbuff, k)
          /\ \/ UNCHANGED <<pc, ring, data>>
             \/ Store(transferData', "done")
             \/ pc' = "done" /\ UNCHANGED <<ring, data>>
    BY DEF LastRead
  <1>2. pc = "last" /\ UNCHANGED <<sent, whole, count, request, port>>
    BY DEF LastRead, fixed
  <1>3. pc \in TransferPlaces /\ pc' # "idle"
    BY <1>1, <1>2 DEF TransferPlaces, Store
  <1>4. CASE UNCHANGED <<pc, ring, data>>
    BY <1>2, <1>4, RestStays
  <1> SUFFICES ASSUME whole PROVE RestInv'
    BY <1>2, <1>3 DEF RestInv
  <1>5. count = 0
    BY <1>2, <1>3, AtTransfer DEF RestInv, RestShape
  <1>6. CASE Store(transferData', "done")
    <2>1. transferData' \in Nat
      BY <1>1, <1>2, AttemptsAreTyped, AttemptLeavesNumber
    <2> QED BY <1>2, <1>3, <1>5, <1>6, <2>1, StoreKeepsRest
  <1>7. CASE pc' = "done" /\ UNCHANGED <<ring, data>>
    BY <1>2, <1>3, <1>5, <1>7, TransferIsDone
  <1> QED BY <1>1, <1>4, <1>6, <1>7

\* In the middle of a block: the words to write are counted down, those read are
\* not in this buffer.
LEMMA RestOfBlock ==
  ASSUME RestInv, whole, pc \in BlockPlaces
  PROVE  /\ sent \in Commands /\ sent.kind = "block" /\ request = sent.request
         /\ sent.words \in Seq(Nat) /\ ring = Left \o (Following \o data)
         /\ request \in Reads => Left = <<>>
         /\ request \notin Reads =>
              /\ count \in 0..Len(sent.words) /\ Len(sent.words) < SkipWrap
              /\ Left = SubSeq(sent.words, Len(sent.words) - count + 1, Len(sent.words))
              /\ pc # "blockread"
         /\ pc \in {"blockword", "blockwrite"} => request \notin Reads
  <1>1. RestShape
    BY DEF RestInv, BlockPlaces
  <1>2. sent.kind = "block" /\ sent \in Commands
    BY <1>1, AtBlock DEF RestShape
  <1>3. sent.words \in Seq(Nat)
    BY <1>2, CommandsAreLegal, UnitsAreNumbers
  <1>4. sent.request \notin Reads => Len(sent.words) < SkipWrap
    BY <1>2, CommandsAreLegal
  <1>5. /\ request = sent.request
        /\ request \notin Reads => count \in 0..Len(sent.words) /\ pc # "blockread"
        /\ request \in Reads => pc \notin {"blockword", "blockwrite"}
    BY <1>1, AtBlock DEF RestShape
  <1>6. CASE request \in Reads
    <2>1. Left = <<>>
      BY <1>6, AtBlock DEF Left
    <2> QED BY <1>1, <1>2, <1>3, <1>5, <1>6, <2>1 DEF RestShape
  <1>7. CASE request \notin Reads
    <2>1. Left = SubSeq(sent.words, Len(sent.words) - count + 1, Len(sent.words))
      BY <1>7, AtBlock DEF Left
    <2> QED BY <1>1, <1>2, <1>3, <1>4, <1>5, <1>7, <2>1 DEF RestShape
  <1> QED BY <1>6, <1>7

\* What is taken from the front of a block.
LEMMA BlockBeginTakes ==
  ASSUME TypeInv, RestInv, BlockBegin, whole
  PROVE  /\ sent \in Commands /\ sent.kind = "block" /\ sent.words \in Seq(Nat)
         /\ count' = sent.count /\ request' = sent.request
         /\ ring' = sent.words \o (Following \o data)
  <1>0. /\ pc = "block"
        /\ count' = ring[2] /\ request' = ring[3] /\ ring' = SubSeq(ring, 4, Len(ring))
    BY DEF BlockBegin
  <1>1. sent \in Commands /\ sent.kind = "block" /\ ring = Encode(sent) \o (Following \o data)
    BY <1>0, AtStart DEF RestInv, RestShape, Left
  <1> DEFINE u == <<sent.index, sent.count, sent.request>>
  <1>2. /\ sent.words \in Seq(Nat)
        /\ IF sent.request \in Reads THEN sent.words = <<>> ELSE sent.count = Len(sent.words)
        /\ sent.count \in Nat /\ sent.request \in Nat /\ sent.index \in Nat
    BY <1>1, CommandsAreLegal, UnitsAreNumbers, NumbersAreNat
  <1>3. u \in Seq(Nat) /\ Len(u) = 3 /\ u[2] = sent.count /\ u[3] = sent.request
    BY <1>2
  <1>4. ring = (u \o sent.words) \o (Following \o data)
    BY <1>1, Zenon DEF Encode
  <1> HIDE DEF u
  <1>5. /\ \A i \in 1..Len(u) : ring[i] = u[i]
        /\ SubSeq(ring, Len(u) + 1, Len(ring)) = sent.words \o (Following \o data)
    BY <1>2, <1>3, <1>4, TakenFromFront
  <1>6. 2 \in 1..Len(u) /\ 3 \in 1..Len(u) /\ Len(u) + 1 = 4
    BY SMT, <1>3
  <1>7. /\ count' = sent.count /\ request' = sent.request
        /\ ring' = sent.words \o (Following \o data)
    BY <1>0, <1>3, <1>5, <1>6
  <1> QED BY <1>1, <1>2, <1>7

LEMMA BlockBeginKeepsRest == TypeInv /\ RestInv /\ BlockBegin => RestInv'
  <1> SUFFICES ASSUME TypeInv, RestInv, BlockBegin PROVE RestInv'
    OBVIOUS
  <1>p. pc' \in {"blockpost", "blockend"} \/ pc' = BlockLoop(request', count')
    BY DEF BlockBegin
  <1>i. pc' # "idle"
    BY <1>p, BlockLoopIsInBlock, Zenon
  <1> SUFFICES ASSUME whole PROVE RestInv'
    BY <1>i DEF BlockBegin, fixed, RestInv
  <1>0. UNCHANGED <<sent, whole, data>>
    BY DEF BlockBegin, fixed
  <1>1. sent \in Commands /\ sent.kind = "block" /\ sent.words \in Seq(Nat)
    BY BlockBeginTakes
  <1>2. IF sent.request \in Reads THEN sent.words = <<>> ELSE sent.count = Len(sent.words)
    BY <1>1, CommandsAreLegal
  <1>7. /\ count' = sent.count /\ request' = sent.request
        /\ ring' = sent.words \o (Following \o data)
    BY BlockBeginTakes
  <1>8. /\ pc' \in BlockPlaces /\ pc' # "idle"
        /\ request' \notin Reads => pc' # "blockread"
        /\ request' \in Reads => pc' \notin {"blockword", "blockwrite"}
    <2>1. CASE pc' \in {"blockpost", "blockend"}
      BY <2>1 DEF BlockPlaces
    <2>2. CASE pc' = BlockLoop(request', count')
      BY <2>2, BlockLoopIsInBlock, Zenon
    <2> QED BY <1>p, <2>1, <2>2
  <1>9. Left' = sent.words /\ Consistent(pc', sent', count', request')
    <2>1. CASE request' \in Reads
      <3>1. Left' = <<>>
        BY <1>8, <2>1, AtBlock DEF Left
      <3>2. Consistent(pc', sent, count', request')
        BY <1>1, <1>7, <1>8, <2>1, AtBlock
      <3> QED BY <1>0, <1>2, <1>7, <2>1, <3>1, <3>2
    <2>2. CASE request' \notin Reads
      <3>1. count' = Len(sent.words) /\ Len(sent.words) \in Nat
        BY <1>2, <1>7, <2>2, LenProperties
      <3>2. count' \in 0..Len(sent.words) /\ Len(sent.words) - count' + 1 = 1
        BY SMT, <3>1
      <3>3. Left' = SubSeq(sent.words, 1, Len(sent.words))
        <4>1. Left' = SubSeq(sent.words, Len(sent.words) - count' + 1, Len(sent.words))
          BY <1>0, <1>8, <2>2, AtBlock DEF Left
        <4> QED BY <4>1, <3>2
      <3>4. Consistent(pc', sent, count', request')
        BY <1>1, <1>7, <1>8, <2>2, <3>2, AtBlock
      <3> QED BY <1>0, <1>1, <1>2, <3>3, <3>4, SubSeqFull
    <2> QED BY <2>1, <2>2
  <1> QED BY <1>0, <1>1, <1>7, <1>8, <1>9 DEF RestInv, RestShape

\* Attempts of a block: only those that read words count.
LEMMA BlockAttemptsKeepRest == TypeInv /\ RestInv /\ (BlockPost \/ BlockWrite \/ BlockLast) => RestInv'
  <1> SUFFICES ASSUME TypeInv, RestInv, BlockPost \/ BlockWrite \/ BlockLast PROVE RestInv'
    OBVIOUS
  <1>1. UNCHANGED <<sent, whole, ring, count, request, data>>
    BY DEF BlockPost, BlockWrite, BlockLast, fixed, cursor
  <1>2. pc' = pc \/ pc' = "blockend" \/ pc' = BlockLoop(request, count)
    BY DEF BlockPost, BlockWrite, BlockLast
  <1>3. pc \in BlockPlaces /\ "blockend" \in BlockPlaces
    BY DEF BlockPost, BlockWrite, BlockLast, BlockPlaces
  <1>4. CASE pc' = pc
    BY <1>1, <1>4, RestStays
  <1>5. CASE pc' = "blockend"
    BY <1>1, <1>3, <1>5, RestStays
  <1>6. CASE pc' = BlockLoop(request, count)
    <2>1. /\ pc' \in BlockPlaces
          /\ request \notin Reads => pc' # "blockread"
          /\ request \in Reads => pc' \notin {"blockword", "blockwrite"}
      BY <1>6, BlockLoopIsInBlock, Zenon
    <2> QED BY <1>1, <1>3, <2>1, RestStays
  <1> QED BY <1>2, <1>4, <1>5, <1>6

LEMMA BlockReadKeepsRest == TypeInv /\ RestInv /\ BlockRead => RestInv'
  <1> SUFFICES ASSUME TypeInv, RestInv, BlockRead PROVE RestInv'
    OBVIOUS
  <1>1. pc = "blockread" /\ UNCHANGED <<sent, whole, ring, request, data>>
    BY DEF BlockRead, fixed
  <1>2. \/ pc' = pc /\ count' = count
        \/ pc' \in {"failed", "blockend"}
        \/ pc' = BlockLoop(request, count')
    BY DEF BlockRead
  <1>3. pc \in BlockPlaces /\ "blockend" \in BlockPlaces
    BY <1>1 DEF BlockPlaces
  <1>4. CASE pc' = pc /\ count' = count
    BY <1>1, <1>4, RestStays
  <1>5. CASE pc' = "failed"
    BY <1>5 DEF RestInv
  <1>6. CASE pc' = "blockend" \/ pc' = BlockLoop(request, count')
    <2>1. /\ pc' \in BlockPlaces /\ pc' # "idle"
          /\ request \in Reads => pc' \notin {"blockword", "blockwrite"}
      <3>1. CASE pc' = "blockend"
        BY <1>3, <3>1
      <3>2. CASE pc' = BlockLoop(request, count')
        BY <3>2, BlockLoopIsInBlock, Zenon
      <3> QED BY <1>6, <3>1, <3>2
    <2> SUFFICES ASSUME whole PROVE RestShape'
      BY <2>1, <1>1 DEF RestInv
    <2>2. /\ sent \in Commands /\ sent.kind = "block" /\ request = sent.request
          /\ request \in Reads /\ Left = <<>> /\ ring = Left \o (Following \o data)
      BY <1>1, <1>3, RestOfBlock
    <2>3. Left' = <<>>
      BY <1>1, <2>1, <2>2, AtBlock DEF Left
    <2>4. Consistent(pc', sent, count', request)
      BY <2>1, <2>2, AtBlock
    <2> QED BY <1>1, <2>2, <2>3, <2>4 DEF RestShape
  <1> QED BY <1>2, <1>4, <1>5, <1>6

LEMMA BlockWordKeepsRest == TypeInv /\ RestInv /\ BlockWord => RestInv'
  <1> SUFFICES ASSUME TypeInv, RestInv, BlockWord, whole PROVE RestInv'
    BY DEF BlockWord, fixed, RestInv
  <1>1. /\ pc = "blockword" /\ pc' = "blockwrite" /\ UNCHANGED <<sent, whole, request, data>>
        /\ count' = count - 1 /\ ring' = Tail(ring) /\ ring # <<>> /\ count > 0 /\ ring \in Seq(Nat)
    BY DEF BlockWord, fixed, TypeInv, LoopBounds, InputTypes
  <1> DEFINE w == sent.words
             n == Len(w)
             l == SubSeq(w, n - count + 2, n)
  <1>2. pc \in BlockPlaces /\ pc' \in BlockPlaces
    BY <1>1 DEF BlockPlaces
  <1>3. /\ sent \in Commands /\ sent.kind = "block" /\ request = sent.request /\ w \in Seq(Nat)
        /\ request \notin Reads /\ count \in 0..n
        /\ Left = SubSeq(w, n - count + 1, n) /\ ring = Left \o (Following \o data)
    BY <1>1, <1>2, RestOfBlock
  <1>4. n \in Nat
    BY <1>3, LenProperties
  <1> HIDE DEF w, n
  <1>5. /\ n - count + 1 \in 1..n /\ n - count + 1 + 1 = n - count + 2
        /\ n \in (n - count + 1)..n
        /\ n - count + 2 = n - (count - 1) + 1 /\ count - 1 \in 0..n
    BY SMT, <1>1, <1>3, <1>4
  <1>6. l \in Seq(Nat)
    <2>1. \A i \in (n - count + 2)..n : i \in 1..n
      BY SMT, <1>5, <1>4
    <2>2. \A i \in (n - count + 2)..n : w[i] \in Nat
      BY <1>3, <2>1, ElementOfSeq DEF n
    <2>3. n - count + 2 \in Int /\ n \in Int
      BY SMT, <1>3, <1>4
    <2> QED BY <2>2, <2>3, SubSeqProperties
  <1>7. Left = <<w[n - count + 1]>> \o l
    <2>1. SubSeq(w, n - count + 1, n) = <<w[n - count + 1]>> \o SubSeq(w, n - count + 1 + 1, n)
      BY <1>3, <1>5, SubSeqRecursiveFirst DEF n
    <2> QED BY <1>3, <1>5, <2>1
  <1>8. <<w[n - count + 1]>> \in Seq(Nat) /\ Len(<<w[n - count + 1]>>) = 1
    <2>1. w[n - count + 1] \in Nat
      BY <1>3, <1>5, ElementOfSeq DEF n
    <2> QED BY <2>1
  <1>9. ring' = l \o (Following \o data)
    <2>1. SubSeq(ring, Len(<<w[n - count + 1]>>) + 1, Len(ring)) = l \o (Following \o data)
      BY <1>3, <1>6, <1>7, <1>8, TakenFromFront
    <2>2. Len(<<w[n - count + 1]>>) + 1 = 2
      BY SMT, <1>8
    <2>3. Tail(ring) = SubSeq(ring, 2, Len(ring))
      BY <1>1, TailIsSubSeq
    <2> QED BY <1>1, <2>1, <2>2, <2>3
  <1>10. Left' = l
    <2>1. Left' = LeftOf(pc', sent, count - 1, request)
      BY <1>1 DEF Left
    <2>2. LeftOf(pc', sent, count - 1, request) = SubSeq(w, n - (count - 1) + 1, n)
      <3>1. request \notin Reads =>
              LeftOf(pc', sent, count - 1, request) =
                SubSeq(sent.words, Len(sent.words) - (count - 1) + 1, Len(sent.words))
        BY <1>2, AtBlock, Zenon
      <3> QED BY <1>3, <3>1 DEF w, n
    <2> QED BY <2>1, <2>2, <1>5
  <1>11. Consistent(pc', sent, count - 1, request)
    BY <1>1, <1>2, <1>3, <1>5, AtBlock DEF n, w
  <1> QED BY <1>1, <1>3, <1>9, <1>10, <1>11 DEF RestInv, RestShape

\* The words that were not written are skipped.
LEMMA BlockEndKeepsRest == TypeInv /\ RestInv /\ BlockEnd => RestInv'
  <1> SUFFICES ASSUME TypeInv, RestInv, BlockEnd, whole PROVE RestInv'
    BY DEF BlockEnd, fixed, RestInv
  <1>1. /\ pc = "blockend" /\ pc' = "done" /\ UNCHANGED <<sent, whole, data>>
        /\ ring' = SubSeq(ring, Unwritten + 1, Len(ring))
    BY DEF BlockEnd, fixed
  <1>2. pc \in BlockPlaces
    BY <1>1 DEF BlockPlaces
  <1> DEFINE w == sent.words
             n == Len(w)
  <1>3. /\ sent \in Commands /\ w \in Seq(Nat) /\ ring = Left \o (Following \o data)
        /\ request \in Reads => Left = <<>>
        /\ request \notin Reads =>
             count \in 0..n /\ n < SkipWrap /\ Left = SubSeq(w, n - count + 1, n)
    BY <1>2, RestOfBlock
  <1>4. n \in Nat
    BY <1>3, LenProperties
  <1>5. Left \in Seq(Nat) /\ Len(Left) = Unwritten
    <2>1. CASE request \in Reads
      <3>1. Left = <<>> /\ Unwritten = 0
        BY <1>3, <2>1 DEF Unwritten
      <3> QED BY <3>1, EmptySeq
    <2>2. CASE request \notin Reads
      <3>1. Unwritten = count % SkipWrap /\ count \in 0..n /\ n < SkipWrap
        BY <1>3, <2>2 DEF Unwritten
      <3> HIDE DEF n, w
      <3>2. SkipWrap \in Nat \ {0}
        BY LimitsAreLegal
      <3>3. /\ count % SkipWrap = count /\ n - count + 1 \in Int /\ n \in Int
            /\ \A i \in (n - count + 1)..n : i \in 1..n
            /\ count = IF n - count + 1 <= n THEN n - (n - count + 1) + 1 ELSE 0
        BY SMT, <1>4, <3>1, <3>2
      <3>4. \A i \in (n - count + 1)..n : w[i] \in Nat
        BY <1>3, <3>3, ElementOfSeq DEF n
      <3>5. /\ SubSeq(w, n - count + 1, n) \in Seq(Nat)
            /\ Len(SubSeq(w, n - count + 1, n)) =
                 IF n - count + 1 <= n THEN n - (n - count + 1) + 1 ELSE 0
        BY <3>3, <3>4, SubSeqProperties
      <3> QED BY <1>3, <2>2, <3>1, <3>3, <3>5
    <2> QED BY <2>1, <2>2
  <1>6. ring = (Left \o <<>>) \o (Following \o data) /\ <<>> \in Seq(Nat)
    BY <1>3, <1>5, NothingBefore, EmptySeq
  <1>7. ring' = <<>> \o (Following \o data)
    BY <1>1, <1>5, <1>6, TakenFromFront
  <1>8. Left' = <<>> /\ Consistent(pc', sent', count', request')
    BY <1>1, AtEnd DEF Left
  <1> QED BY <1>1, <1>3, <1>7, <1>8 DEF RestInv, RestShape

LEMMA AbortBeginKeepsRest == TypeInv /\ RestInv /\ AbortBegin => RestInv'
  <1> SUFFICES ASSUME TypeInv, RestInv, AbortBegin, whole PROVE RestInv'
    BY DEF AbortBegin, fixed, RestInv
  <1>1. /\ pc = "abort" /\ pc' \in {"aborting", "done"} /\ UNCHANGED <<sent, whole, data>>
        /\ ring' = SubSeq(ring, 3, Len(ring))
    BY DEF AbortBegin, fixed
  <1>2. sent \in Commands /\ sent.kind = "abort" /\ ring = Encode(sent) \o (Following \o data)
    BY <1>1, AtStart DEF RestInv, RestShape, Left
  <1> DEFINE u == <<sent.index, sent.word>>
  <1>3. u \in Seq(Nat) /\ Len(u) = 2
    <2>1. sent.index \in Nat /\ sent.word \in Nat
      BY <1>2, CommandsAreLegal, NumbersAreNat
    <2> QED BY <2>1
  <1>4. Encode(sent) = u
    BY <1>2, Zenon DEF Encode
  <1> HIDE DEF u
  <1>5. ring = (u \o <<>>) \o (Following \o data) /\ <<>> \in Seq(Nat)
    BY <1>2, <1>3, <1>4, NothingBefore, EmptySeq
  <1>6. ring' = <<>> \o (Following \o data)
    <2>1. SubSeq(ring, Len(u) + 1, Len(ring)) = <<>> \o (Following \o data)
      BY <1>3, <1>5, TakenFromFront
    <2> QED BY SMT, <1>1, <1>3, <2>1
  <1>7. Left' = <<>> /\ Consistent(pc', sent', count', request') /\ pc' # "idle"
    BY <1>1, AtEnd DEF Left
  <1> QED BY <1>1, <1>2, <1>6, <1>7 DEF RestInv, RestShape

LEMMA WriteAbortKeepsRest == RestInv /\ WriteAbort => RestInv'
  <1> SUFFICES ASSUME RestInv, WriteAbort PROVE RestInv'
    OBVIOUS
  <1>1. pc = "aborting" /\ UNCHANGED <<sent, whole, ring, count, request, data>>
    BY DEF WriteAbort, fixed, cursor
  <1>2. pc' = pc \/ pc' = "done"
    BY DEF WriteAbort
  <1> QED BY <1>1, <1>2, RestStays

LEMMA SendKeepsRest ==
  ASSUME TypeInv, RestInv, NEW c \in Commands, Send(c)
  PROVE  RestInv'
  <1>1. pc = "idle" /\ pc' = c.kind /\ sent' = c /\ UNCHANGED data
    BY DEF Send
  <1>2. pc' \in {"transfer", "block", "abort"}
    BY <1>1, CommandsAreLegal
  <1> SUFFICES ASSUME whole' PROVE RestShape'
    BY <1>1, <1>2 DEF RestInv
  <1>3. ring' = Encode(c) \o Following /\ data = <<>>
    BY <1>1 DEF Send, RestInv
  <1>4. Following \o data' = Following
    BY <1>1, <1>3, EncodingIsUnits, NothingBefore
  <1>5. Left' = Encode(c) /\ Consistent(pc', sent', count', request')
    BY <1>1, <1>2, AtStart DEF Left
  <1> QED BY <1>1, <1>3, <1>4, <1>5 DEF RestShape

LEMMA StepKeepsRest == TypeInv /\ RestInv /\ [Next]_vars => RestInv'
  <1> SUFFICES ASSUME TypeInv, RestInv, [Next]_vars PROVE RestInv'
    OBVIOUS
  <1>1. CASE Handler
    <2>1. CASE TooShort
      BY <2>1, RestStays DEF TooShort, fixed, cursor
    <2>2. CASE Answered
      BY <2>2 DEF Answered, RestInv
    <2> QED
      BY <1>1, <2>1, <2>2, BeginKeepsRest, TakeKeepsRest, CollectKeepsRest, ReadKeepsRest,
         TransferKeepsRest, EndKeepsRest, CancelKeepsRest, LastReadKeepsRest, BlockBeginKeepsRest,
         BlockAttemptsKeepRest, BlockReadKeepsRest, BlockWordKeepsRest, BlockEndKeepsRest,
         AbortBeginKeepsRest, WriteAbortKeepsRest, Zenon DEF Handler
  <1>2. CASE \E c \in Commands : Send(c)
    BY <1>2, SendKeepsRest
  <1>3. CASE \E l \in Limits : TransferConfigure(l)
    BY <1>3, RestStays DEF TransferConfigure, cursor
  <1>4. CASE UNCHANGED vars
    BY <1>4, RestStays DEF vars, fixed, cursor
  <1> QED BY <1>1, <1>2, <1>3, <1>4 DEF Next

\* However a command ends, by success, in the middle of its transfers or of its
\* words or refused, it has taken exactly its own units from the request: the next
\* command is read at its first (the loops that cancel transfers and the skip of
\* the words not written, commands_transfer.c:400-413 and 511-517).
THEOREM RequestIsLeftAtTheNextCommand == Spec => []RestIsNext
  <1>1. Init => RestInv
    BY DEF Init, RestInv
  <1>2. Spec => [](TypeInv /\ RestInv)
    BY <1>1, InitHasTypes, StepKeepsTypes, StepKeepsRest, PTL DEF Spec
  <1> QED BY <1>2, RestInvIsRestIsNext, PTL

-----------------------------------------------------------------------------
(***************************************************************************)
(* What an attempt does to the target, and where the handler is.           *)
(***************************************************************************)
\* The entry of an access in the history.
Entry(a, v) == [by |-> taken, reg |-> a.reg, read |-> a.read, value |-> v]

\* Reads whose value comes with the access itself.
Direct(a) == port = "swd" /\ a.reg = "dp"

\* The attempt a, answered by k, accesses its register, which holds or is given v.
Performed(a, k, v) ==
  /\ k \in {Ok, ParityError} /\ (k = ParityError => a.read)
  /\ v \in IF a.read THEN Values ELSE {transferData}
  /\ accesses' = Append(accesses, Entry(a, v))
  /\ k = Ok /\ a.read /\ Direct(a) => transferData' = v
  /\ k = Ok /\ a.read /\ ~Direct(a) => transferData' = posted /\ posted' = v

Refused(k) == k # Ok /\ UNCHANGED <<accesses, posted, transferData>>

LEMMA AnswersAreApart == Ok # Wait /\ Ok # Fault /\ Ok # ParityError /\ ParityError # Wait
                         /\ Ok # 0
  BY DEF Ok, Wait, Fault, ParityError

\* Over JTAG the instruction register is the one asked for when the target answers.
LEMMA RegisterIsSet ==
  ASSUME WireTypes, NEW a \in AttemptRecord, SetIr(a.reg)
  PROVE  port = "jtag" => ir' = a.reg
  BY DEF SetIr, WireTypes, AttemptRecord, Registers

LEMMA AccessIsPerformed ==
  ASSUME WireTypes, NEW a \in AttemptRecord, ~a.rdbuff, NEW k, Attempt(a, k)
  PROVE  (\E v : Performed(a, k, v)) \/ Refused(k)
  <1>1. port = "jtag" => ir' = a.reg
    BY RegisterIsSet DEF Attempt
  <1>a. a.read \in BOOLEAN
    BY DEF AttemptRecord
  <1>2. CASE k = Ok /\ Accept(a)
    <2> DEFINE reg == IF port = "jtag" THEN ir' ELSE a.reg
    <2>1. reg = a.reg /\ ~Collects(a, reg)
      BY <1>1 DEF Collects
    <2>2. PICK v \in IF a.read THEN Values ELSE {transferData} :
            /\ Perform(a, reg, v)
            /\ transferData' = IF ~a.read \/ (port = "swd" /\ reg = "dp") THEN v ELSE posted
            /\ posted' = IF ~a.read THEN Junk ELSE IF port = "swd" /\ reg = "dp" THEN posted ELSE v
      BY <1>2, <2>1 DEF Accept
    <2> HIDE DEF reg
    <2>3. Performed(a, k, v)
      BY <1>2, <1>a, <2>1, <2>2, AnswersAreApart DEF Performed, Perform, Entry, Direct
    <2> QED BY <2>3
  <1>3. CASE k = ParityError /\ Damaged(a)
    <2>1. PICK v \in Values : Perform(a, a.reg, v) /\ posted' = v
      BY <1>3 DEF Damaged, Collects
    <2>2. a.read
      BY <1>3 DEF Damaged
    <2>3. Performed(a, k, v)
      BY <1>3, <2>1, <2>2, AnswersAreApart DEF Performed, Perform, Entry
    <2> QED BY <2>3
  <1>4. CASE k \in {Wait, Fault} /\ UNCHANGED <<transferData, posted, accesses>>
    BY <1>4, AnswersAreApart DEF Refused
  <1> QED BY <1>2, <1>3, <1>4 DEF Attempt

\* A read of RDBUFF accesses no register and collects what was posted.
LEMMA RdbuffIsNoAccess ==
  ASSUME WireTypes, NEW k, Attempt(Rdbuff, k)
  PROVE  /\ UNCHANGED accesses
         /\ k = Ok => transferData' = posted
         /\ k \notin {Ok, ParityError} => UNCHANGED <<posted, transferData>>
  <1>0. Rdbuff.reg = "dp" /\ Rdbuff.rdbuff
    BY DEF Rdbuff
  <1>1. port = "jtag" => ir' = "dp"
    BY <1>0, AttemptsAreTyped, RegisterIsSet DEF Attempt
  <1>2. CASE k = Ok /\ Accept(Rdbuff)
    <2>1. Collects(Rdbuff, IF port = "jtag" THEN ir' ELSE Rdbuff.reg)
      BY <1>0, <1>1 DEF Collects
    <2> QED BY <1>2, <2>1 DEF Accept
  <1>3. CASE k = ParityError /\ Damaged(Rdbuff)
    <2>1. Collects(Rdbuff, Rdbuff.reg)
      BY <1>0 DEF Collects
    <2> QED BY <1>3, <2>1, AnswersAreApart DEF Damaged
  <1>4. CASE k \in {Wait, Fault} /\ UNCHANGED <<transferData, posted, accesses>>
    BY <1>4, AnswersAreApart
  <1> QED BY <1>2, <1>3, <1>4 DEF Attempt

\* An attempt that is made again has changed nothing the target holds.
LEMMA AgainIsRefused ==
  ASSUME NEW a, NEW k, Attempt(a, k), Again(k)
  PROVE  k = Wait /\ UNCHANGED <<accesses, posted, transferData>>
  BY AnswersAreApart DEF Attempt, Again

LEMMA DirectOrPosted ==
  ASSUME port \in {"jtag", "swd"}, NEW r
  PROVE  /\ Direct(Access(r)) <=> ~Posts(r)
         /\ Access(r).reg = RegisterOf(r) /\ Access(r).read = (r \in Reads) /\ ~Access(r).rdbuff
  BY DEF Direct, Access, Posts, RegisterOf

Working == {"collect", "read", "post", "match", "mask", "write"}
StartPlaces == {"idle", "transfer", "block", "abort"}

\* A handler that has just got a command, or none, has done nothing yet.
Fresh ==
  /\ pc = "idle" => sent = [kind |-> "none"] /\ whole
  /\ pc \in StartPlaces =>
       /\ taken = 0 /\ completed = 0 /\ accesses = <<>> /\ data = <<>> /\ out = <<>>
       /\ ~readPending /\ ack = 0 /\ transferData = Junk

\* What the place of the handler says of the request at hand and of a pending read.
Placed ==
  /\ pc \in Working \cup {"next", "last"} \cup (BlockPlaces \ {"blockend"}) => port # "disabled"
  /\ pc = "collect" => readPending
  /\ pc \in BlockPlaces \cup {"aborting"} \cup (Working \ {"collect"}) => ~readPending
  /\ pc = "read" => request \in Reads \ Matches
  /\ pc \in {"post", "match"} => request \in Reads \cap Matches
  /\ pc = "post" => Posts(request)
  /\ pc = "mask" => request \in Masks \ Reads
  /\ pc = "write" => request \notin Reads \cup Masks
  /\ pc = "cancel" => ~readPending
  /\ pc \in {"end", "cancel"} /\ ack = Ok => port # "disabled"
  /\ pc = "end" /\ readPending => ack = Ok /\ count = 0

UnitInv ==
  /\ posted \in Values \cup {Junk}
  /\ whole => transferData \in Units

BaseInv == Fresh /\ Placed /\ UnitInv

LEMMA AttemptKeepsUnits ==
  ASSUME UnitInv, UNCHANGED <<whole, port>>, NEW a, NEW k, Attempt(a, k)
  PROVE  UnitInv'
  <1>0. Values \subseteq Units /\ Junk \in Units
    BY UnitsAreLegal
  <1>1. CASE Accept(a)
    <2> DEFINE reg == IF port = "jtag" THEN ir' ELSE a.reg
               direct == port = "swd" /\ reg = "dp"
    <2>1. CASE Collects(a, reg)
      BY <1>0, <1>1, <2>1 DEF Accept, UnitInv
    <2>2. CASE ~Collects(a, reg)
      <3>1. PICK v \in IF a.read THEN Values ELSE {transferData} :
              /\ transferData' = IF ~a.read \/ direct THEN v ELSE posted
              /\ posted' = IF ~a.read THEN Junk ELSE IF direct THEN posted ELSE v
        BY <1>1, <2>2 DEF Accept
      <3> HIDE DEF direct
      <3> QED BY <1>0, <3>1 DEF UnitInv
    <2> QED BY <2>1, <2>2
  <1>2. CASE Damaged(a)
    BY <1>0, <1>2 DEF Damaged, UnitInv
  <1>3. CASE UNCHANGED <<transferData, posted, accesses>>
    BY <1>3 DEF UnitInv
  <1> QED BY <1>1, <1>2, <1>3 DEF Attempt

LEMMA StartFits ==
  ASSUME NEW r
  PROVE  LET s == Start(r)
         IN  /\ s \in Working \ {"collect"}
             /\ s = "read" => r \in Reads \ Matches
             /\ s \in {"post", "match"} => r \in Reads \cap Matches
             /\ s = "post" => Posts(r)
             /\ s = "match" => ~Posts(r)
             /\ s = "mask" => r \in Masks \ Reads
             /\ s = "write" => r \notin Reads \cup Masks
  BY DEF Start, Working

\* Fresh says nothing of a handler at work.
LEMMA FreshAtWork == pc' \notin StartPlaces => Fresh'
  BY DEF Fresh, StartPlaces

LEMMA BeginKeepsBase == TypeInv /\ BaseInv /\ Begin => BaseInv'
  <1> SUFFICES ASSUME BaseInv, Begin PROVE BaseInv'
    OBVIOUS
  <1>1. /\ pc = "transfer" /\ pc' \in {"next", "end"}
        /\ UNCHANGED <<port, whole, transferData, posted, readPending>>
        /\ pc' = "next" => Usable(ring[1])
        /\ ack' = ack
    BY DEF Begin, fixed, wire, pending
  <1>2. Fresh'
    BY <1>1, FreshAtWork DEF StartPlaces
  <1>3. Placed'
    BY <1>1, AnswersAreApart DEF BaseInv, Fresh, Placed, StartPlaces, Working, BlockPlaces, Usable
  <1> QED BY <1>1, <1>2, <1>3 DEF BaseInv, UnitInv

\* The unit in front of the buffer, while there are transfers to be taken.
LEMMA NextItem ==
  ASSUME TypeInv, RestInv, Transferring, pc \in TransferPlaces, count > 0
  PROVE  LET n == Len(sent.batch)
             x == sent.batch[n - count + 1]
         IN  /\ n \in Nat /\ count \in 1..n /\ n - count + 1 \in 1..n
             /\ x \in [request : Units, word : Units]
             /\ ring[1] = x.request
             /\ HasWord(x.request) => ring[2] = x.word
  <1> DEFINE n == Len(sent.batch)
             x == sent.batch[n - count + 1]
             u == ItemOf(x)
             l == Rest(sent, n - count + 1)
  <1>1. /\ sent \in Commands /\ sent.kind = "transfer"
        /\ n \in Nat /\ count \in 0..n
        /\ Left = Rest(sent, n - count) /\ ring = Left \o (Following \o data)
    BY RestOfTransfer DEF Transferring
  <1>2. /\ \A i \in 0..n : Rest(sent, i) \in Seq(Units)
        /\ \A i \in 0..(n - 1) : Rest(sent, i) = ItemOf(sent.batch[i + 1]) \o Rest(sent, i + 1)
        /\ sent.batch \in Seq([request : Units, word : Units])
    BY <1>1, RestIsUnits
  <1>4. /\ n - count \in 0..(n - 1) /\ n - count + 1 \in 0..n /\ n - count + 1 \in 1..n
        /\ count \in 1..n
    <2> HIDE DEF n
    <2> QED BY SMT, <1>1
  <1>3. x \in [request : Units, word : Units]
    BY <1>2, <1>4, ElementOfSeq
  <1>5. u \in Seq(Nat) /\ u[1] = x.request /\ Len(u) = IF HasWord(x.request) THEN 2 ELSE 1
    BY <1>3, ItemIsUnits, UnitsAreNumbers
  <1>w. HasWord(x.request) => u[2] = x.word
    BY SMT, <1>3 DEF ItemOf
  <1>6. l \in Seq(Nat) /\ Left = u \o l
    BY <1>1, <1>2, <1>4, UnitsAreNumbers
  <1> HIDE DEF n, u, l, x
  <1>7. \A i \in 1..Len(u) : ring[i] = u[i]
    BY <1>1, <1>5, <1>6, TakenFromFront
  <1>8. 1 \in 1..Len(u) /\ (HasWord(x.request) => 2 \in 1..Len(u))
    BY SMT, <1>5
  <1> QED BY <1>1, <1>3, <1>4, <1>5, <1>w, <1>7, <1>8 DEF n, x

LEMMA TakeKeepsBase == TypeInv /\ RestInv /\ BaseInv /\ Take => BaseInv'
  <1> SUFFICES ASSUME TypeInv, RestInv, BaseInv, Take PROVE BaseInv'
    OBVIOUS
  <1>1. /\ pc = "next"
        /\ UNCHANGED <<port, sent, whole, posted, readPending>>
        /\ request' = ring[1]
        /\ transferData' = IF HasWord(ring[1]) THEN ring[2] ELSE transferData
        /\ readPending => pc' = "collect"
        /\ ~readPending => pc' = Start(ring[1])
    BY DEF Take, fixed, pending, Dispatch
  <1>2. pc' \in Working
    BY <1>1, StartFits DEF Working
  <1>3. Placed'
    <2>1. port # "disabled"
      BY <1>1 DEF BaseInv, Placed
    <2>2. CASE readPending
      BY <1>1, <2>1, <2>2 DEF Placed, Working, BlockPlaces
    <2>3. CASE ~readPending
      BY <1>1, <2>1, <2>3, StartFits DEF Placed, Working, BlockPlaces, Posts
    <2> QED BY <2>2, <2>3
  <1>4. UnitInv'
    <2> SUFFICES ASSUME whole PROVE transferData' \in Units
      BY <1>1 DEF BaseInv, UnitInv
    <2>1. CASE HasWord(ring[1])
      <3>1. count > 0 /\ pc \in TransferPlaces
        BY <1>1 DEF TypeInv, LoopBounds, TransferPlaces
      <3>2. sent.kind = "transfer"
        BY <3>1, RestOfTransfer
      <3>3. ring[2] \in Units
        BY <2>1, <3>1, <3>2, NextItem DEF Transferring
      <3> QED BY <1>1, <2>1, <3>3
    <2>2. CASE ~HasWord(ring[1])
      BY <1>1, <2>2 DEF BaseInv, UnitInv
    <2> QED BY <2>1, <2>2
  <1> QED BY <1>2, <1>3, <1>4, FreshAtWork DEF BaseInv, StartPlaces, Working

\* Putting a word away only decides where to go on.
LEMMA StoreGoesOn == \A v, next : Store(v, next) => pc' \in {next, "failed"}
  BY DEF Store

LEMMA CollectKeepsBase == TypeInv /\ BaseInv /\ Collect => BaseInv'
  <1> SUFFICES ASSUME BaseInv, Collect PROVE BaseInv'
    OBVIOUS
  <1>1. PICK k \in Answers :
          /\ Attempt(Rdbuff, k)
          /\ IF Again(k)
               THEN UNCHANGED <<pc, readPending>>
               ELSE /\ readPending' = FALSE
                    /\ IF k = Ok THEN Store(transferData', Start(request)) ELSE pc' = "end"
    BY DEF Collect
  <1>2. /\ pc = "collect"
        /\ UNCHANGED <<port, sent, whole, count, request>>
    BY DEF Collect, fixed
  <1>3. \/ pc' = "collect" /\ readPending' = readPending
        \/ pc' \in {"end", "failed", Start(request)} /\ ~readPending'
    BY <1>1, <1>2, StoreGoesOn
  <1>4. Placed'
    BY <1>2, <1>3, StartFits DEF BaseInv, Placed, Working, BlockPlaces, Posts
  <1>5. pc' \notin StartPlaces
    BY <1>3, StartFits DEF StartPlaces, Working
  <1> QED BY <1>1, <1>2, <1>4, <1>5, FreshAtWork, AttemptKeepsUnits DEF BaseInv

LEMMA ReadKeepsBase == TypeInv /\ BaseInv /\ Read => BaseInv'
  <1> SUFFICES ASSUME TypeInv, BaseInv, Read PROVE BaseInv'
    OBVIOUS
  <1>1. PICK k \in Answers :
          /\ Attempt(Access(request), k)
          /\ ack' = k
          /\ \/ UNCHANGED <<pc, pending>>
             \/ k # Ok /\ pc' = "end" /\ UNCHANGED pending
             \/ /\ k = Ok
                /\ IF Posts(request)
                     THEN readPending' = TRUE /\ pc' = Loop
                     ELSE Store(transferData', Loop) /\ UNCHANGED readPending
    BY DEF Read
  <1>2. pc = "read" /\ UNCHANGED <<port, sent, whole, count, request>> /\ count \in Nat
    BY DEF Read, fixed, TypeInv, InputTypes
  <1>3. ~readPending
    BY <1>2 DEF BaseInv, Placed, Working
  <1>4. \/ pc' = "read" /\ ~readPending'
        \/ pc' \in {"next", "end", "failed"} /\ ~readPending'
        \/ pc' = "next"
        \/ pc' = "end" /\ ack' = Ok /\ count = 0
    BY <1>1, <1>2, <1>3, StoreGoesOn DEF Loop, pending
  <1>5. Placed'
    BY <1>2, <1>4 DEF BaseInv, Placed, Working, BlockPlaces
  <1>6. pc' \notin StartPlaces
    BY <1>4 DEF StartPlaces
  <1> QED BY <1>1, <1>2, <1>5, <1>6, FreshAtWork, AttemptKeepsUnits DEF BaseInv

LEMMA AccessesKeepBase == BaseInv /\ (Post \/ Match \/ Write) => BaseInv'
  <1> SUFFICES ASSUME BaseInv, Post \/ Match \/ Write PROVE BaseInv'
    OBVIOUS
  <1>1. /\ \E k \in Answers : Attempt(Access(request), k)
        /\ UNCHANGED <<port, sent, whole, count, request, readPending>>
        /\ pc \in {"post", "match", "write"}
        /\ \/ pc' = pc
           \/ pc = "post" /\ pc' = "match"
           \/ pc' \in {"next", "end"}
    BY DEF Post, Match, Write, fixed, cursor, pending, Loop
  <1>2. Placed'
    BY <1>1 DEF BaseInv, Placed, Working, BlockPlaces, Posts
  <1>3. pc' \notin StartPlaces
    BY <1>1 DEF StartPlaces
  <1>4. UnitInv'
    BY <1>1, AttemptKeepsUnits DEF BaseInv
  <1> QED BY <1>2, <1>3, <1>4, FreshAtWork DEF BaseInv

LEMMA SetMaskKeepsBase == BaseInv /\ SetMask => BaseInv'
  <1> SUFFICES ASSUME BaseInv, SetMask PROVE BaseInv'
    OBVIOUS
  <1>1. /\ UNCHANGED <<port, sent, whole, count, request, readPending, posted, transferData>>
        /\ pc = "mask" /\ pc' \in {"next", "end"}
    BY DEF SetMask, fixed, cursor, pending, wire, Loop
  <1>2. Placed'
    BY <1>1 DEF BaseInv, Placed, Working, BlockPlaces
  <1>3. pc' \notin StartPlaces
    BY <1>1 DEF StartPlaces
  <1> QED BY <1>1, <1>2, <1>3, FreshAtWork DEF BaseInv, UnitInv

LEMMA EndKeepsBase == TypeInv /\ BaseInv /\ (End \/ Cancel) => BaseInv'
  <1> SUFFICES ASSUME TypeInv, BaseInv, End \/ Cancel PROVE BaseInv'
    OBVIOUS
  <1>1. /\ UNCHANGED <<port, sent, whole, request, readPending, posted, transferData, ack>>
        /\ pc \in {"end", "cancel"}
        /\ \/ pc' = "cancel" /\ (pc = "end" => count > 0)
           \/ pc' = "done"
           \/ pc' = "last" /\ ack = Ok
    BY DEF End, Cancel, fixed, pending, wire, cursor, Remains
  <1>2. count = 0 => ~(count > 0)
    BY SMT
  <1>3. pc' = "cancel" => ~readPending
    BY <1>1, <1>2 DEF BaseInv, Placed
  <1>4. ack = Ok => port # "disabled"
    BY <1>1 DEF BaseInv, Placed
  <1>5. Placed'
    BY <1>1, <1>3, <1>4 DEF BaseInv, Placed, Working, BlockPlaces
  <1>6. pc' \notin StartPlaces
    BY <1>1 DEF StartPlaces
  <1> QED BY <1>1, <1>5, <1>6, FreshAtWork DEF BaseInv, UnitInv

LEMMA LastReadKeepsBase == BaseInv /\ LastRead => BaseInv'
  <1> SUFFICES ASSUME BaseInv, LastRead PROVE BaseInv'
    OBVIOUS
  <1>1. /\ \E k \in Answers : Attempt(Rdbuff, k)
        /\ UNCHANGED <<port, whole>>
        /\ pc = "last" /\ pc' \in {"last", "failed", "done"}
    BY StoreGoesOn, Zenon DEF LastRead, fixed
  <1>2. Placed'
    BY <1>1 DEF BaseInv, Placed, Working, BlockPlaces
  <1>3. pc' \notin StartPlaces
    BY <1>1 DEF StartPlaces
  <1>4. UnitInv'
    BY <1>1, AttemptKeepsUnits DEF BaseInv
  <1> QED BY <1>2, <1>3, <1>4, FreshAtWork DEF BaseInv

LEMMA BlockBeginKeepsBase == BaseInv /\ BlockBegin => BaseInv'
  <1> SUFFICES ASSUME BaseInv, BlockBegin PROVE BaseInv'
    OBVIOUS
  <1>1. /\ pc = "block"
        /\ UNCHANGED <<port, whole, posted, transferData, readPending>>
        /\ pc' \in BlockPlaces
        /\ pc' # "blockend" => Usable(ring[1])
    <2>1. /\ pc = "block" /\ UNCHANGED <<fixed, posted, transferData, pending>>
          /\ pc' \in {"blockpost", "blockend", BlockLoop(request', count')}
          /\ ~Usable(ring[1]) => pc' = "blockend"
      BY DEF BlockBegin
    <2>2. "blockpost" \in BlockPlaces /\ "blockend" \in BlockPlaces
      BY DEF BlockPlaces
    <2> QED BY <2>1, <2>2, BlockLoopIsInBlock DEF fixed, pending
  <1>2. Placed'
    BY <1>1 DEF BaseInv, Fresh, Placed, StartPlaces, Working, BlockPlaces, Usable
  <1>3. pc' \notin StartPlaces
    BY <1>1 DEF StartPlaces, BlockPlaces
  <1> QED BY <1>1, <1>2, <1>3, FreshAtWork DEF BaseInv, UnitInv

LEMMA BlockAttemptsKeepBase ==
  BaseInv /\ (BlockPost \/ BlockRead \/ BlockWrite \/ BlockLast) => BaseInv'
  <1> SUFFICES ASSUME BaseInv, BlockPost \/ BlockRead \/ BlockWrite \/ BlockLast PROVE BaseInv'
    OBVIOUS
  <1>1. /\ \E a, k : Attempt(a, k)
        /\ UNCHANGED <<port, whole, readPending>>
        /\ pc \in {"blockpost", "blockread", "blockwrite", "blocklast"}
        /\ pc' \in {pc, "failed", "blockend", BlockLoop(request, count), BlockLoop(request, count')}
    <2>1. CASE BlockPost
      BY <2>1, Zenon DEF BlockPost, fixed, pending
    <2>2. CASE BlockRead
      BY <2>2, Zenon DEF BlockRead, fixed, pending
    <2>3. CASE BlockWrite
      BY <2>3, Zenon DEF BlockWrite, fixed, pending
    <2>4. CASE BlockLast
      BY <2>4, Zenon DEF BlockLast, fixed, pending
    <2> QED BY <2>1, <2>2, <2>3, <2>4
  <1>2. pc' = "failed" \/ pc' \in BlockPlaces
    BY <1>1, BlockLoopIsInBlock DEF BlockPlaces
  <1>p. port # "disabled" /\ ~readPending
    BY <1>1 DEF BaseInv, Placed, BlockPlaces
  <1>3. Placed'
    BY <1>1, <1>2, <1>p DEF Placed, Working, BlockPlaces
  <1>4. pc' \notin StartPlaces
    BY <1>2 DEF StartPlaces, BlockPlaces
  <1>5. UnitInv'
    BY <1>1, AttemptKeepsUnits DEF BaseInv
  <1> QED BY <1>3, <1>4, <1>5, FreshAtWork DEF BaseInv

\* The next word of a block.
LEMMA NextWord ==
  ASSUME TypeInv, RestInv, whole, pc = "blockword"
  PROVE  LET n == Len(sent.words)
         IN  /\ sent \in Commands /\ sent.kind = "block" /\ request = sent.request
             /\ request \notin Reads /\ sent.words \in Seq(Units)
             /\ n \in Nat /\ count \in 1..n /\ n - count + 1 \in 1..n
             /\ ring[1] = sent.words[n - count + 1] /\ ring[1] \in Units
  <1>1. count > 0 /\ pc \in BlockPlaces
    BY DEF TypeInv, LoopBounds, BlockPlaces
  <1> DEFINE w == sent.words
             n == Len(w)
             l == SubSeq(w, n - count + 2, n)
  <1>3. /\ sent \in Commands /\ sent.kind = "block" /\ request = sent.request /\ w \in Seq(Nat)
        /\ request \notin Reads /\ count \in 0..n
        /\ Left = SubSeq(w, n - count + 1, n) /\ ring = Left \o (Following \o data)
    BY <1>1, RestOfBlock
  <1>u. w \in Seq(Units)
    BY <1>3, CommandsAreLegal
  <1>4. n \in Nat
    BY <1>3, LenProperties
  <1>0. w[n - count + 1] \in Units
    <2>1. n - count + 1 \in 1..n
      <3> HIDE DEF n
      <3> QED BY SMT, <1>1, <1>3, <1>4
    <2> QED BY <1>u, <2>1, ElementOfSeq
  <1> HIDE DEF w, n
  <1>5. /\ n - count + 1 \in 1..n /\ n - count + 1 + 1 = n - count + 2
        /\ n \in (n - count + 1)..n /\ count \in 1..n
        /\ n - count + 2 = n - (count - 1) + 1 /\ count - 1 \in 0..n
    BY SMT, <1>1, <1>3, <1>4
  <1>6. l \in Seq(Nat)
    <2>1. \A i \in (n - count + 2)..n : i \in 1..n
      BY SMT, <1>5, <1>4
    <2>2. \A i \in (n - count + 2)..n : w[i] \in Nat
      BY <1>3, <2>1, ElementOfSeq DEF n
    <2>3. n - count + 2 \in Int /\ n \in Int
      BY SMT, <1>3, <1>4
    <2> QED BY <2>2, <2>3, SubSeqProperties
  <1>7. Left = <<w[n - count + 1]>> \o l
    <2>1. SubSeq(w, n - count + 1, n) = <<w[n - count + 1]>> \o SubSeq(w, n - count + 1 + 1, n)
      BY <1>3, <1>5, SubSeqRecursiveFirst DEF n
    <2> QED BY <1>3, <1>5, <2>1
  <1>8. <<w[n - count + 1]>> \in Seq(Nat) /\ Len(<<w[n - count + 1]>>) = 1
    <2>1. w[n - count + 1] \in Nat
      BY <1>3, <1>5, ElementOfSeq DEF n
    <2> QED BY <2>1
  <1>9. ring[1] = w[n - count + 1]
    <2>1. \A i \in 1..Len(<<w[n - count + 1]>>) : ring[i] = <<w[n - count + 1]>>[i]
      BY <1>3, <1>6, <1>7, <1>8, TakenFromFront
    <2>2. 1 \in 1..Len(<<w[n - count + 1]>>)
      BY SMT, <1>8
    <2> QED BY <2>1, <2>2
  <1> QED BY <1>3, <1>4, <1>5, <1>9, <1>0, <1>u DEF n, w

LEMMA BlockWordKeepsBase == TypeInv /\ RestInv /\ BaseInv /\ BlockWord => BaseInv'
  <1> SUFFICES ASSUME TypeInv, RestInv, BaseInv, BlockWord PROVE BaseInv'
    OBVIOUS
  <1>1. /\ pc = "blockword" /\ pc' = "blockwrite" /\ transferData' = ring[1]
        /\ UNCHANGED <<port, whole, posted, readPending>>
    BY DEF BlockWord, fixed, pending
  <1>2. Placed'
    BY <1>1 DEF BaseInv, Placed, Working, BlockPlaces
  <1>3. pc' \notin StartPlaces
    BY <1>1 DEF StartPlaces
  <1>4. whole => ring[1] \in Units
    BY <1>1, NextWord
  <1> QED BY <1>1, <1>2, <1>3, <1>4, FreshAtWork DEF BaseInv, UnitInv

LEMMA BlockEndKeepsBase == BaseInv /\ BlockEnd => BaseInv'
  <1> SUFFICES ASSUME BaseInv, BlockEnd PROVE BaseInv'
    OBVIOUS
  <1>1. pc' = "done" /\ UNCHANGED <<whole, transferData, posted>>
    BY DEF BlockEnd, fixed, wire
  <1>2. Placed' /\ pc' \notin StartPlaces
    BY <1>1 DEF Placed, Working, BlockPlaces, StartPlaces
  <1> QED BY <1>1, <1>2, FreshAtWork DEF BaseInv, UnitInv

LEMMA AbortBeginKeepsBase == TypeInv /\ RestInv /\ BaseInv /\ AbortBegin => BaseInv'
  <1> SUFFICES ASSUME TypeInv, RestInv, BaseInv, AbortBegin PROVE BaseInv'
    OBVIOUS
  <1>1. /\ pc = "abort" /\ pc' \in {"aborting", "done"} /\ transferData' = ring[2]
        /\ UNCHANGED <<whole, posted, readPending>>
    BY DEF AbortBegin, fixed, pending
  <1>2. Placed' /\ pc' \notin StartPlaces
    BY <1>1 DEF BaseInv, Fresh, Placed, Working, BlockPlaces, StartPlaces
  <1>3. ASSUME whole PROVE ring[2] \in Units
    <2>1. /\ sent \in Commands /\ sent.kind = "abort" /\ ring = Encode(sent) \o (Following \o data)
      BY <1>1, <1>3, AtStart DEF RestInv, RestShape, Left
    <2> DEFINE u == <<sent.index, sent.word>>
    <2>2. sent.index \in Nat /\ sent.word \in Units /\ sent.word \in Nat
      BY <2>1, CommandsAreLegal, NumbersAreNat
    <2>3. u \in Seq(Nat) /\ Len(u) = 2 /\ u[2] = sent.word /\ Encode(sent) = u
      BY <2>1, <2>2 DEF Encode
    <2> HIDE DEF u
    <2>4. <<>> \in Seq(Nat) /\ u = u \o <<>>
      BY <2>3, NothingBefore
    <2>5. \A i \in 1..Len(u) : ring[i] = u[i]
      BY <2>1, <2>3, <2>4, TakenFromFront
    <2>6. 2 \in 1..Len(u)
      BY SMT, <2>3
    <2> QED BY <2>2, <2>3, <2>5, <2>6
  <1> QED BY <1>1, <1>2, <1>3, FreshAtWork DEF BaseInv, UnitInv

LEMMA WriteAbortKeepsBase == BaseInv /\ WriteAbort => BaseInv'
  <1> SUFFICES ASSUME BaseInv, WriteAbort PROVE BaseInv'
    OBVIOUS
  <1>1. /\ \E k \in Answers : Attempt(Abort, k)
        /\ UNCHANGED <<port, whole, readPending>> /\ pc = "aborting" /\ pc' \in {"aborting", "done"}
    BY DEF WriteAbort, fixed, pending
  <1>2. Placed' /\ pc' \notin StartPlaces
    BY <1>1 DEF BaseInv, Placed, Working, BlockPlaces, StartPlaces
  <1>3. UnitInv'
    BY <1>1, AttemptKeepsUnits DEF BaseInv
  <1> QED BY <1>2, <1>3, FreshAtWork DEF BaseInv

LEMMA TooShortKeepsBase == BaseInv /\ TooShort => BaseInv'
  <1> SUFFICES ASSUME BaseInv, TooShort PROVE BaseInv'
    OBVIOUS
  <1>1. pc' = "failed" /\ UNCHANGED <<whole, posted, transferData>>
    BY DEF TooShort, fixed, wire
  <1>2. Placed' /\ pc' \notin StartPlaces
    BY <1>1 DEF Placed, Working, BlockPlaces, StartPlaces
  <1> QED BY <1>1, <1>2, FreshAtWork DEF BaseInv, UnitInv

LEMMA AnsweredKeepsBase == BaseInv /\ Answered => BaseInv'
  <1> SUFFICES ASSUME BaseInv, Answered PROVE BaseInv'
    OBVIOUS
  <1>1. Fresh' /\ Placed'
    BY DEF Answered, Fresh, Placed, Working, BlockPlaces, StartPlaces
  <1>2. UnitInv'
    BY UnitsAreLegal DEF Answered, BaseInv, UnitInv
  <1> QED BY <1>1, <1>2 DEF BaseInv

LEMMA SendKeepsBase ==
  ASSUME BaseInv, NEW c \in Commands, Send(c)
  PROVE  BaseInv'
  <1>1. /\ pc = "idle" /\ pc' = c.kind
        /\ UNCHANGED <<taken, completed, accesses, data, out, readPending, ack, transferData, posted>>
    BY DEF Send, wire, pending, resp
  <1>2. pc' \in {"transfer", "block", "abort"}
    BY <1>1, CommandsAreLegal
  <1>3. Fresh'
    BY <1>1, <1>2 DEF BaseInv, Fresh, StartPlaces
  <1>4. Placed'
    BY <1>2 DEF Placed, Working, BlockPlaces
  <1>5. UnitInv'
    BY <1>1, UnitsAreLegal DEF BaseInv, Fresh, UnitInv, StartPlaces
  <1> QED BY <1>3, <1>4, <1>5 DEF BaseInv

LEMMA ConfigureKeepsBase ==
  ASSUME BaseInv, NEW l \in Limits, TransferConfigure(l)
  PROVE  BaseInv'
  <1>1. /\ pc = "idle"
        /\ UNCHANGED <<sent, whole, pc, taken, completed, accesses, data, out, readPending, ack,
                       transferData, posted>>
    BY DEF TransferConfigure, wire, cursor, pending, resp
  <1>2. Fresh' /\ UnitInv'
    BY <1>1 DEF BaseInv, Fresh, UnitInv
  <1>3. Placed'
    BY <1>1 DEF Placed, Working, BlockPlaces
  <1> QED BY <1>2, <1>3 DEF BaseInv

LEMMA StepKeepsBase == TypeInv /\ RestInv /\ BaseInv /\ [Next]_vars => BaseInv'
  <1> SUFFICES ASSUME TypeInv, RestInv, BaseInv, [Next]_vars PROVE BaseInv'
    OBVIOUS
  <1>1. CASE Handler
    BY <1>1, BeginKeepsBase, TakeKeepsBase, CollectKeepsBase, ReadKeepsBase, AccessesKeepBase,
       SetMaskKeepsBase, EndKeepsBase, LastReadKeepsBase, BlockBeginKeepsBase, BlockAttemptsKeepBase,
       BlockWordKeepsBase, BlockEndKeepsBase, AbortBeginKeepsBase, WriteAbortKeepsBase,
       TooShortKeepsBase, AnsweredKeepsBase, Zenon DEF Handler
  <1>2. CASE \E c \in Commands : Send(c)
    BY <1>2, SendKeepsBase
  <1>3. CASE \E l \in Limits : TransferConfigure(l)
    BY <1>3, ConfigureKeepsBase
  <1>4. CASE UNCHANGED vars
    BY <1>4 DEF vars, BaseInv, Fresh, Placed, UnitInv, fixed, wire, cursor, pending, resp, Posts
  <1> QED BY <1>1, <1>2, <1>3, <1>4 DEF Next

LEMMA InitIsBase == Init => BaseInv
  <1> SUFFICES ASSUME Init PROVE BaseInv
    OBVIOUS
  <1>1. Fresh /\ Placed
    BY DEF Init, Fresh, Placed, Working, BlockPlaces, StartPlaces
  <1>2. UnitInv
    BY UnitsAreLegal DEF Init, UnitInv
  <1> QED BY <1>1, <1>2 DEF BaseInv

\* Every place belongs to one kind of command.
OfKind ==
  /\ pc \in TransferPlaces \cup {"transfer"} => sent.kind = "transfer"
  /\ pc \in BlockPlaces \cup {"block"} => sent.kind = "block"
  /\ pc \in {"abort", "aborting"} => sent.kind = "abort"

LEMMA KindStays ==
  ASSUME OfKind, UNCHANGED sent,
         \/ pc' = pc
         \/ pc' \in {"done", "failed", "idle"}
         \/ pc \in TransferPlaces \cup {"transfer"} /\ pc' \in TransferPlaces
         \/ pc \in BlockPlaces \cup {"block"} /\ pc' \in BlockPlaces
         \/ pc = "abort" /\ pc' = "aborting"
  PROVE  OfKind'
  BY DEF OfKind, TransferPlaces, BlockPlaces

LEMMA TransferKeepsKind ==
  ASSUME OfKind, Begin \/ Take \/ Collect \/ Read \/ Post \/ Match \/ SetMask \/ Write
                 \/ End \/ Cancel \/ LastRead
  PROVE  OfKind'
  <1>1. UNCHANGED sent /\ pc \in TransferPlaces \cup {"transfer"}
    BY DEF Begin, Take, Collect, Read, Post, Match, SetMask, Write, End, Cancel, LastRead, fixed,
           TransferPlaces
  <1>2. pc' = pc \/ pc' \in TransferPlaces \/ pc' \in {"done", "failed"}
    <2>0. {"next", "end", "collect", "last", "cancel", "match"} \subseteq TransferPlaces
      BY DEF TransferPlaces
    <2>1. CASE Begin
      BY <2>0, <2>1 DEF Begin
    <2>2. CASE Take
      BY <2>0, <2>2, StartIsInTransfer, Zenon DEF Take, Dispatch
    <2>3. CASE Collect
      <3>1. PICK k \in Answers :
              IF Again(k) THEN UNCHANGED <<pc, ring, matchValue, readPending, data>>
                ELSE IF k = Ok THEN Store(transferData', Start(request)) ELSE pc' = "end"
        BY <2>3 DEF Collect
      <3>2. pc' = pc \/ pc' = Start(request) \/ pc' \in {"end", "failed"}
        BY <3>1, StoreGoesOn
      <3> QED BY <2>0, <3>2, StartIsInTransfer
    <2>4. CASE Read
      BY <2>0, <2>4, LoopIsInTransfer, StoreGoesOn, Zenon DEF Read
    <2>5. CASE Post \/ Write
      BY <2>0, <2>5, LoopIsInTransfer DEF Post, Write
    <2>6. CASE Match
      BY <2>0, <2>6, LoopIsInTransfer DEF Match
    <2>7. CASE SetMask \/ End \/ Cancel
      BY <2>0, <2>7, LoopIsInTransfer DEF SetMask, End, Cancel
    <2>8. CASE LastRead
      BY <2>0, <2>8, StoreGoesOn, Zenon DEF LastRead
    <2> QED BY <2>1, <2>2, <2>3, <2>4, <2>5, <2>6, <2>7, <2>8
  <1> QED BY <1>1, <1>2, KindStays

LEMMA BlockKeepsKind ==
  ASSUME OfKind, BlockBegin \/ BlockPost \/ BlockRead \/ BlockWord \/ BlockWrite \/ BlockLast
                 \/ BlockEnd
  PROVE  OfKind'
  <1>1. UNCHANGED sent /\ pc \in BlockPlaces \cup {"block"}
    BY DEF BlockBegin, BlockPost, BlockRead, BlockWord, BlockWrite, BlockLast, BlockEnd, fixed,
           BlockPlaces
  <1>2. pc' = pc \/ pc' \in BlockPlaces \/ pc' \in {"done", "failed"}
    <2>0. {"blockpost", "blockend", "blockwrite"} \subseteq BlockPlaces
      BY DEF BlockPlaces
    <2>1. CASE BlockBegin
      BY <2>0, <2>1, BlockLoopIsInBlock, Zenon DEF BlockBegin
    <2>2. CASE BlockPost
      BY <2>0, <2>2, BlockLoopIsInBlock, Zenon DEF BlockPost
    <2>3. CASE BlockRead
      BY <2>0, <2>3, BlockLoopIsInBlock, Zenon DEF BlockRead
    <2>4. CASE BlockWrite
      BY <2>0, <2>4, BlockLoopIsInBlock, Zenon DEF BlockWrite
    <2>5. CASE BlockWord \/ BlockLast \/ BlockEnd
      BY <2>0, <2>5 DEF BlockWord, BlockLast, BlockEnd
    <2> QED BY <2>1, <2>2, <2>3, <2>4, <2>5
  <1> QED BY <1>1, <1>2, KindStays

LEMMA StepKeepsKind == OfKind /\ [Next]_vars => OfKind'
  <1> SUFFICES ASSUME OfKind, [Next]_vars PROVE OfKind'
    OBVIOUS
  <1>1. CASE AbortBegin \/ WriteAbort \/ TooShort \/ UNCHANGED vars
    BY <1>1, KindStays, Zenon DEF AbortBegin, WriteAbort, TooShort, vars, fixed
  <1>2. CASE Answered
    BY <1>2 DEF Answered, OfKind, TransferPlaces, BlockPlaces
  <1>3. CASE \E c \in Commands : Send(c)
    BY <1>3, CommandsAreLegal DEF Send, OfKind, TransferPlaces, BlockPlaces
  <1>4. CASE \E l \in Limits : TransferConfigure(l)
    BY <1>4, KindStays DEF TransferConfigure
  <1>5. CASE Handler
    BY <1>1, <1>2, <1>5, TransferKeepsKind, BlockKeepsKind, Zenon DEF Handler
  <1> QED BY <1>1, <1>3, <1>4, <1>5 DEF Next

LEMMA InitIsOfKind == Init => OfKind
  BY DEF Init, OfKind, TransferPlaces, BlockPlaces

-----------------------------------------------------------------------------
(***************************************************************************)
(* The accesses of a Transfer.                                             *)
(***************************************************************************)
\* The maximum of a set of numbers with an upper bound is one of them.
LEMMA MaxIsLargest ==
  ASSUME NEW S, S # {}, NEW n \in Nat, \A x \in S : x \in Nat /\ x <= n
  PROVE  Max(S) \in S /\ \A x \in S : x <= Max(S)
  <1> DEFINE T == {n - x : x \in S}
             R == {ss \in Nat \X Nat : ss[1] < ss[2]}
  <1>1. IsWellFoundedOn(R, Nat)
    BY NatLessThanWellFounded DEF OpToRel
  <1>2. T \subseteq Nat /\ T # {}
    BY SMT
  <1>3. PICK t \in T : \A y \in T : ~(<<y, t>> \in R)
    <2> HIDE DEF T, R
    <2> QED BY <1>1, <1>2, WFMin
  <1>4. PICK x \in S : t = n - x
    BY <1>3
  <1>5. \A y \in S : n - y \in T
    OBVIOUS
  <1>6. \A y \in T : ~(y < t)
    <2> SUFFICES ASSUME NEW y \in T PROVE ~(y < t)
      OBVIOUS
    <2>1. y \in Nat /\ t \in Nat
      BY <1>2
    <2> HIDE DEF T
    <2>2. <<y, t>> \in R <=> y < t
      BY <2>1
    <2> QED BY <1>3, <2>2
  <1> HIDE DEF T
  <1>7. \A y \in S : x >= y
    BY SMT, <1>4, <1>5, <1>6
  <1>8. Max(S) \in S /\ \A y \in S : Max(S) >= y
    BY <1>4, <1>7 DEF Max
  <1> QED BY SMT, <1>8

\* The accesses by transfer k.
By(k) == {i \in 1..Len(accesses) : accesses[i].by = k}

\* Where the handler is in the list of transfers.
Counted ==
  /\ taken \in 0..Len(sent.batch) /\ completed \in 0..taken
  /\ pc \in Working \cup {"next"} => count = Len(sent.batch) - taken
  /\ pc \in Working => taken >= 1 /\ request = sent.batch[taken].request /\ completed = taken - 1
  /\ pc = "next" => completed = taken

\* A word is where it belongs, unless a pending read takes its place.
Words ==
  /\ pc = "next" /\ readPending => ~Undisturbed(taken + 1)
  /\ pc = "collect" => ~Undisturbed(taken)
  /\ pc \in {"write", "mask"} /\ Undisturbed(taken) => transferData = sent.batch[taken].word
  /\ pc \in {"post", "match"} /\ Undisturbed(taken) => matchValue = sent.batch[taken].word

\* The transfer at hand has accessed nothing yet, except that a match has read
\* what it named as often as it was repeated, and once more to post the first.
Behind ==
  /\ \A i \in 1..Len(accesses) : accesses[i].by \in 1..taken
  /\ pc \in Working \ {"match"} => \A i \in 1..Len(accesses) : accesses[i].by < taken
  /\ pc = "match" => /\ Cardinality(By(taken)) <= matches + 1
                     /\ Posts(request) => \E i \in By(taken) : accesses[i].value = posted

\* What AccessesAsAsked says of one entry and of two next to each other, of the
\* number of accesses of one transfer, and of every transfer that is completed.
Asked ==
  \A i \in 1..Len(accesses) :
    LET a == accesses[i]
        x == sent.batch[a.by]
    IN  /\ ~IsMask(x)
        /\ a.reg = RegisterOf(x.request) /\ a.read = (x.request \in Reads)
        /\ IsWrite(x) /\ Undisturbed(a.by) => a.value = x.word

InTurn ==
  \A i \in 1..Len(accesses) :
    i > 1 => \/ accesses[i - 1].by < accesses[i].by
             \/ IsMatch(sent.batch[accesses[i].by]) /\ accesses[i - 1].by = accesses[i].by

FewAccesses == \A k \in 1..taken : Cardinality(By(k)) <= matchRetries + 2

NoneSkipped ==
  \A k \in 1..completed :
    ~IsMask(sent.batch[k]) => \E i \in 1..Len(accesses) : accesses[i].by = k

\* The mask is the one last written.
Masked ==
  LET M == MaskWrites(completed + 1)
  IN  M # {} /\ Undisturbed(Max(M)) => mask = sent.batch[Max(M)].word

RealMatch(k) ==
  (IsMatch(sent.batch[k]) /\ MaskWrites(k) # {} /\
   \A j \in MaskWrites(k) \cup {k} : Undisturbed(j)) =>
     \E i \in 1..Len(accesses) :
       /\ accesses[i].by = k
       /\ And(accesses[i].value, sent.batch[Max(MaskWrites(k))].word) = sent.batch[k].word

History ==
  /\ Asked /\ InTurn /\ FewAccesses /\ NoneSkipped /\ Masked
  /\ \A k \in 1..completed : RealMatch(k)

HistoryInv == Transferring => Counted /\ Words /\ Behind /\ History

LEMMA HistoryIsAsAsked == HistoryInv => AccessesAsAsked /\ MatchIsReal
  <1>1. HistoryInv => AccessesAsAsked
    BY DEF HistoryInv, History, Asked, InTurn, FewAccesses, NoneSkipped, AccessesAsAsked, By
  <1>2. HistoryInv => MatchIsReal
    BY Zenon DEF HistoryInv, History, RealMatch, MatchIsReal
  <1> QED BY <1>1, <1>2

\* What does not change while the command is carried out.
LEMMA UndisturbedStays ==
  ASSUME UNCHANGED <<sent, port>>
  PROVE  \A k : Undisturbed(k)' = Undisturbed(k) /\ MaskWrites(k)' = MaskWrites(k)
  BY DEF Undisturbed, MaskWrites, Posts

\* A step without an access or a completed transfer.
LEMMA HistoryStays ==
  ASSUME History, UNCHANGED <<accesses, taken, completed, sent, port, mask, matchRetries>>
  PROVE  History'
  <1>1. \A k : Undisturbed(k)' = Undisturbed(k) /\ MaskWrites(k)' = MaskWrites(k)
    BY UndisturbedStays
  <1>2. \A k : By(k)' = By(k)
    BY DEF By
  <1>3. Asked' /\ InTurn' /\ FewAccesses' /\ NoneSkipped' /\ Masked'
    BY <1>1, <1>2 DEF History, Asked, InTurn, FewAccesses, NoneSkipped, Masked
  <1>4. \A k : RealMatch(k) => RealMatch(k)'
    BY <1>1 DEF RealMatch
  <1> QED BY <1>3, <1>4 DEF History

\* Numbers of accesses are numbers.
LEMMA ByIsFinite ==
  ASSUME accesses \in Seq(AccessRecord), NEW k
  PROVE  IsFiniteSet(By(k)) /\ Cardinality(By(k)) \in Nat
  <1>1. Len(accesses) \in Int /\ 1 \in Int
    BY LenProperties
  <1>2. IsFiniteSet(1..Len(accesses))
    BY <1>1, FS_Interval
  <1>3. By(k) \in SUBSET (1..Len(accesses))
    BY DEF By
  <1> QED BY <1>2, <1>3, FS_Subset, FS_CardinalityType

\* The history with one more entry e.
LEMMA OneMore ==
  ASSUME accesses \in Seq(AccessRecord), NEW e, accesses' = Append(accesses, e)
  PROVE  LET n == Len(accesses)
         IN  /\ n \in Nat /\ Len(accesses') = n + 1 /\ accesses'[n + 1] = e
             /\ \A i \in 1..n : accesses'[i] = accesses[i]
             /\ 1..Len(accesses') = (1..n) \cup {n + 1} /\ n + 1 \notin 1..n
  BY SMT

LEMMA OneMoreBy ==
  ASSUME accesses \in Seq(AccessRecord), NEW e, accesses' = Append(accesses, e)
  PROVE  /\ \A k : k # e.by => By(k)' = By(k)
         /\ By(e.by)' = By(e.by) \cup {Len(accesses) + 1}
         /\ Cardinality(By(e.by)') = Cardinality(By(e.by)) + 1
  <1> DEFINE n == Len(accesses)
  <1>1. /\ n \in Nat /\ accesses'[n + 1] = e
        /\ \A i \in 1..n : accesses'[i] = accesses[i]
        /\ 1..Len(accesses') = (1..n) \cup {n + 1} /\ n + 1 \notin 1..n
    BY OneMore
  <1> HIDE DEF n
  <1>2. \A k : k # e.by => By(k)' = By(k)
    BY <1>1 DEF By, n
  <1>3. By(e.by)' = By(e.by) \cup {n + 1} /\ n + 1 \notin By(e.by)
    BY <1>1 DEF By, n
  <1>4. Cardinality(By(e.by) \cup {n + 1}) = Cardinality(By(e.by)) + 1
    BY <1>3, ByIsFinite, FS_AddElement
  <1> QED BY <1>2, <1>3, <1>4 DEF n

\* The request at hand is that of the transfer at hand.
LEMMA AtHand ==
  ASSUME Placed, Counted, pc \in {"read", "post", "match", "write"}
  PROVE  LET x == sent.batch[taken]
         IN  /\ request = x.request /\ completed + 1 = taken /\ taken \in 1..Len(sent.batch)
             /\ ~IsMask(x) /\ (IsWrite(x) <=> pc = "write") /\ (pc = "match" => IsMatch(x))
             /\ pc = "write" <=> request \notin Reads
             /\ IsPlainRead(x) <=> pc = "read"
  <1>1. pc \in Working /\ pc # "mask" /\ pc # "collect"
    BY DEF Working
  <1>2. request = sent.batch[taken].request /\ taken \in 1..Len(sent.batch)
    BY SMT, <1>1 DEF Counted
  <1>3. completed + 1 = taken
    BY SMT, <1>1 DEF Counted
  <1>4. /\ pc = "read" => request \in Reads \ Matches
        /\ pc \in {"post", "match"} => request \in Reads \cap Matches
        /\ pc = "write" => request \notin Reads \cup Masks
    BY DEF Placed
  <1> QED BY <1>1, <1>2, <1>3, <1>4 DEF IsMask, IsWrite, IsMatch, IsPlainRead

\* What an access by the transfer at hand does to the history.
LEMMA AccessKeepsHistory ==
  ASSUME TypeInv, Placed, Counted, Words, Behind, History,
         UNCHANGED <<sent, port, mask, matchRetries, taken>>,
         pc \in {"read", "post", "match", "write"},
         NEW k, NEW v, Performed(Access(request), k, v),
         completed' \in {completed, completed + 1},
         completed' = completed + 1 => RealMatch(taken)'
  PROVE  History'
  <1> DEFINE n == Len(accesses)
             e == Entry(Access(request), v)
             x == sent.batch[taken]
  <1>1. /\ request = x.request /\ completed + 1 = taken /\ taken \in 1..Len(sent.batch)
        /\ ~IsMask(x) /\ (IsWrite(x) <=> pc = "write") /\ (pc = "match" => IsMatch(x))
        /\ pc = "write" <=> request \notin Reads
    BY AtHand
  <1>2. accesses \in Seq(AccessRecord) /\ accesses' = Append(accesses, e) /\ taken \in Nat /\ completed \in Nat
    BY DEF TypeInv, WireTypes, InputTypes, LocalTypes, Performed
  <1>3. /\ n \in Nat /\ Len(accesses') = n + 1 /\ accesses'[n + 1] = e
        /\ \A i \in 1..n : accesses'[i] = accesses[i]
        /\ 1..Len(accesses') = (1..n) \cup {n + 1} /\ n + 1 \notin 1..n
    BY <1>2, OneMore
  <1>4. /\ e.by = taken /\ e.reg = RegisterOf(request) /\ e.read = (request \in Reads)
        /\ e.value = v
    BY DEF Entry, Access, RegisterOf
  <1>5. /\ \A j : j # taken => By(j)' = By(j)
        /\ Cardinality(By(taken)') = Cardinality(By(taken)) + 1
    BY <1>2, <1>4, OneMoreBy
  <1>6. pc \in Working /\ pc # "mask" /\ pc # "collect"
    BY DEF Working
  <1> HIDE DEF n, e
  <1>7. \A j : Undisturbed(j)' = Undisturbed(j) /\ MaskWrites(j)' = MaskWrites(j)
    BY UndisturbedStays
  <1>8. Asked'
    <2>1. IsWrite(x) /\ Undisturbed(taken) => v = x.word
      <3>1. ASSUME IsWrite(x) PROVE v = transferData
        BY <1>1, <3>1 DEF Performed, Access
      <3> QED BY <1>1, <3>1 DEF Words
    <2> QED BY <1>1, <1>3, <1>4, <1>7, <2>1 DEF History, Asked, n
  <1>9. InTurn'
    <2> SUFFICES ASSUME NEW i \in 1..Len(accesses'), i > 1
                 PROVE  \/ accesses'[i - 1].by < accesses'[i].by
                        \/ IsMatch(sent.batch[accesses'[i].by]) /\ accesses'[i - 1].by = accesses'[i].by
      BY DEF InTurn
    <2>1. CASE i \in 1..n
      <3>1. i - 1 \in 1..n
        BY SMT, <2>1, <1>3
      <3> QED BY <1>3, <2>1, <3>1 DEF History, InTurn, n
    <2>2. CASE i = n + 1
      <3>1. i - 1 = n /\ n \in 1..n
        BY SMT, <2>2, <1>3
      <3>2. accesses[n].by \in 1..taken /\ (pc # "match" => accesses[n].by < taken)
        BY <1>6, <3>1 DEF Behind, n
      <3>3. accesses[n].by < taken \/ (pc = "match" /\ accesses[n].by = taken)
        BY SMT, <1>2, <3>2
      <3>4. accesses'[i].by = taken /\ accesses'[i - 1] = accesses[n]
        BY <1>3, <1>4, <2>2, <3>1
      <3> QED BY <1>1, <3>3, <3>4
    <2> QED BY <1>3, <2>1, <2>2
  <1>10. FewAccesses'
    <2>1. Cardinality(By(taken)) + 1 <= matchRetries + 2
      <3>0. matches \in 0..matchRetries /\ matchRetries \in Nat
        BY DEF TypeInv, LoopBounds, InputTypes
      <3>1. CASE pc = "match"
        <4>1. Cardinality(By(taken)) <= matches + 1 /\ Cardinality(By(taken)) \in Nat
          BY <1>2, <3>1, ByIsFinite DEF Behind
        <4> QED BY SMT, <3>0, <4>1
      <3>2. CASE pc # "match"
        <4>1. \A i \in 1..Len(accesses) : accesses[i].by # taken
          BY SMT, <1>2, <1>6, <3>2 DEF Behind
        <4>2. Cardinality(By(taken)) = 0
          BY <4>1, FS_EmptySet DEF By
        <4> QED BY SMT, <3>0, <4>2
      <3> QED BY <3>1, <3>2
    <2> QED BY <1>5, <2>1 DEF History, FewAccesses
  <1>11. NoneSkipped'
    <2> SUFFICES ASSUME NEW j \in 1..completed', ~IsMask(sent.batch[j])
                 PROVE  \E i \in 1..Len(accesses') : accesses'[i].by = j
      BY DEF NoneSkipped
    <2>1. j \in 1..completed \/ j = taken
      BY SMT, <1>1, <1>2
    <2>2. CASE j \in 1..completed
      <3>1. PICK i \in 1..n : accesses[i].by = j
        BY <2>2 DEF History, NoneSkipped, n
      <3> QED BY <1>3, <3>1
    <2>3. CASE j = taken
      BY <1>3, <1>4, <2>3
    <2> QED BY <2>1, <2>2, <2>3
  <1>12. Masked'
    <2>1. MaskWrites(completed' + 1) = MaskWrites(completed + 1)
      <3>1. CASE completed' = completed
        BY <3>1
      <3>2. CASE completed' = completed + 1
        <4>1. 1..(completed' + 1 - 1) = (1..completed) \cup {taken} /\ 1..(completed + 1 - 1) = 1..completed
          BY SMT, <1>1, <1>2, <3>2
        <4> QED BY <1>1, <4>1 DEF MaskWrites
      <3> QED BY <3>1, <3>2
    <2>2. MaskWrites(completed + 1)' = MaskWrites(completed' + 1)
      BY <1>7 DEF MaskWrites
    <2> QED BY <1>7, <2>1, <2>2 DEF History, Masked
  <1>13. \A j \in 1..completed' : RealMatch(j)'
    <2> SUFFICES ASSUME NEW j \in 1..completed', j # taken \/ completed' = completed
                 PROVE  RealMatch(j)'
      BY SMT, <1>1, <1>2
    <2>1. j \in 1..completed
      BY SMT, <1>1, <1>2
    <2>2. RealMatch(j)
      BY <2>1 DEF History
    <2>3. \A i \in 1..n : i \in 1..Len(accesses') /\ accesses'[i] = accesses[i]
      BY <1>3
    <2> QED BY <1>7, <2>2, <2>3 DEF RealMatch, n
  <1> QED BY <1>8, <1>9, <1>10, <1>11, <1>12, <1>13 DEF History

TransferShape == Counted /\ Words /\ Behind /\ History

\* The entries so far and a new one, by the transfer at hand.
LEMMA NewEntry ==
  ASSUME TypeInv, Counted, Behind, taken' = taken, taken >= 1, NEW k, NEW v,
         Performed(Access(request), k, v)
  PROVE  \A i \in 1..Len(accesses') : accesses'[i].by \in 1..taken'
  <1> DEFINE e == Entry(Access(request), v)
             n == Len(accesses)
  <1>1. /\ accesses \in Seq(AccessRecord) /\ accesses' = Append(accesses, e) /\ e.by = taken
        /\ taken \in Nat
    BY DEF TypeInv, WireTypes, InputTypes, Performed, Entry
  <1> HIDE DEF e, n
  <1>2. /\ accesses'[n + 1] = e /\ \A i \in 1..n : accesses'[i] = accesses[i]
        /\ 1..Len(accesses') = (1..n) \cup {n + 1}
    BY <1>1, OneMore DEF n
  <1>3. taken \in 1..taken
    BY SMT, <1>1
  <1> QED BY <1>1, <1>2, <1>3 DEF Behind, n

\* The command goes on, or ends, without an access and without a completed transfer.
LEMMA TransferEnds ==
  ASSUME TransferShape, pc' \notin Working \cup {"next"},
         UNCHANGED <<accesses, taken, completed, sent, port, mask, matchRetries>>
  PROVE  TransferShape'
  <1>1. History'
    BY HistoryStays DEF TransferShape
  <1>2. Counted'
    BY DEF TransferShape, Counted
  <1>3. Words' /\ Behind'
    BY DEF TransferShape, Words, Behind, Working
  <1> QED BY <1>1, <1>2, <1>3 DEF TransferShape

LEMMA TransferIsTriedAgain ==
  ASSUME TransferShape,
         UNCHANGED <<accesses, taken, completed, sent, port, mask, matchRetries, pc, count, request,
                     readPending, transferData, matchValue, matches, posted>>
  PROVE  TransferShape'
  <1>1. History'
    BY HistoryStays DEF TransferShape
  <1>2. Counted'
    BY DEF TransferShape, Counted
  <1>3. Words'
    BY UndisturbedStays DEF TransferShape, Words
  <1>4. Behind'
    BY DEF TransferShape, Behind, By, Posts
  <1> QED BY <1>1, <1>2, <1>3, <1>4 DEF TransferShape

\* An access that ends the command.
LEMMA AccessFails ==
  ASSUME TypeInv, Placed, TransferShape, UNCHANGED <<sent, port, mask, matchRetries, taken, completed>>,
         pc \in {"read", "post", "match", "write"}, pc' \notin Working \cup {"next"},
         NEW k, (\E v : Performed(Access(request), k, v)) \/ Refused(k)
  PROVE  TransferShape'
  <1>1. CASE Refused(k)
    BY <1>1, TransferEnds DEF Refused
  <1>2. ASSUME NEW v, Performed(Access(request), k, v) PROVE TransferShape'
    <2>0. completed' \in {completed, completed + 1} /\ completed' # completed + 1
      BY SMT DEF TypeInv, LocalTypes
    <2>1. History'
      BY <1>2, <2>0, AccessKeepsHistory DEF TransferShape
    <2>2. Counted' /\ taken >= 1
      BY DEF TransferShape, Counted, Working
    <2>3. Behind'
      BY <1>2, <2>2, NewEntry DEF TransferShape, Behind, Working
    <2>4. Words'
      BY DEF Words, Working
    <2> QED BY <2>1, <2>2, <2>3, <2>4 DEF TransferShape
  <1> QED BY <1>1, <1>2

\* An access that completes its transfer.
LEMMA AccessCompletes ==
  ASSUME TypeInv, Placed, TransferShape, UNCHANGED <<sent, port, mask, matchRetries, taken, count>>,
         completed' = completed + 1,
         pc \in {"read", "match", "write"}, pc' \notin Working,
         pc' = "next" /\ readPending' => ~Undisturbed(taken + 1),
         NEW k, NEW v, Performed(Access(request), k, v), RealMatch(taken)'
  PROVE  TransferShape'
  <1>0. completed' \in {completed, completed + 1}
    OBVIOUS
  <1>1. History'
    BY <1>0, AccessKeepsHistory DEF TransferShape
  <1>2. Counted' /\ taken >= 1
    <2>1. /\ taken \in 0..Len(sent.batch) /\ taken >= 1 /\ completed = taken - 1
          /\ count = Len(sent.batch) - taken
      BY DEF TransferShape, Counted, Working
    <2>2. taken \in Nat
      BY DEF TypeInv, InputTypes
    <2>3. completed' = taken /\ completed' \in 0..taken
      BY SMT, <2>1, <2>2
    <2> QED BY <2>1, <2>3 DEF Counted
  <1>3. Behind'
    BY <1>2, NewEntry DEF TransferShape, Behind, Working
  <1>4. Words'
    BY UndisturbedStays DEF Words, Working
  <1> QED BY <1>1, <1>2, <1>3, <1>4 DEF TransferShape

\* A Transfer of which nothing has been done.
LEMMA NothingDone ==
  ASSUME Len(sent'.batch) \in Nat, taken' = 0, completed' = 0, accesses' = <<>>, ~readPending',
         pc' \notin Working, pc' = "next" => count' = Len(sent'.batch)
  PROVE  TransferShape'
  <1>1. Counted'
    <2>1. 0 \in 0..Len(sent'.batch) /\ 0 \in 0..0 /\ Len(sent'.batch) - 0 = Len(sent'.batch)
      BY SMT
    <2> QED BY <2>1 DEF Counted
  <1>2. Words'
    BY DEF Words, Working
  <1>3. 1..Len(accesses') = {} /\ 1..taken' = {} /\ 1..completed' = {}
    BY SMT
  <1>4. Behind'
    BY <1>3 DEF Behind, Working
  <1>5. MaskWrites(completed + 1)' = {}
    <2>1. 1..(completed' + 1 - 1) = {}
      BY SMT
    <2> QED BY <2>1 DEF MaskWrites
  <1>6. History'
    BY <1>3, <1>5 DEF History, Asked, InTurn, FewAccesses, NoneSkipped, Masked
  <1> QED BY <1>1, <1>2, <1>4, <1>6 DEF TransferShape

LEMMA BeginKeepsTransfers ==
  ASSUME TypeInv, RestInv, BaseInv, Transferring, Begin
  PROVE  TransferShape'
  <1>1. /\ pc' \in {"next", "end"} /\ UNCHANGED sent
        /\ taken' = 0 /\ completed' = 0 /\ accesses' = <<>> /\ ~readPending'
    BY DEF Begin, fixed, wire, pending, BaseInv, Fresh, StartPlaces
  <1>2. count' = Len(sent.batch) /\ Len(sent.batch) \in Nat
    BY BeginTakes DEF Transferring
  <1> QED BY <1>1, <1>2, NothingDone DEF Working

LEMMA TakeKeepsTransfers ==
  ASSUME TypeInv, RestInv, BaseInv, Transferring, TransferShape, Take
  PROVE  TransferShape'
  <1> DEFINE n == Len(sent.batch)
             x == sent.batch[taken + 1]
  <1>1. /\ pc = "next" /\ UNCHANGED <<port, sent, mask, matchRetries, accesses, completed, readPending>>
        /\ request' = ring[1] /\ count' = count - 1 /\ taken' = taken + 1
        /\ transferData' = IF HasWord(ring[1]) THEN ring[2] ELSE transferData
        /\ readPending => pc' = "collect"
        /\ ~readPending => /\ pc' = Start(ring[1])
                           /\ ring[1] \in Reads \cap Matches => matchValue' = transferData'
    BY DEF Take, fixed, pending, limits, Dispatch
  <1>2. /\ taken \in Nat /\ completed = taken /\ count = n - taken /\ count > 0
        /\ accesses \in Seq(AccessRecord)
    BY <1>1 DEF TypeInv, InputTypes, LoopBounds, WireTypes, TransferShape, Counted
  <1>3. /\ n \in Nat /\ n - count + 1 = taken + 1 /\ taken + 1 \in 1..n
        /\ ring[1] = x.request /\ (HasWord(x.request) => ring[2] = x.word)
    <2>1. /\ n \in Nat
          /\ LET y == sent.batch[n - count + 1]
             IN  ring[1] = y.request /\ (HasWord(y.request) => ring[2] = y.word)
      BY <1>1, <1>2, NextItem DEF TransferPlaces
    <2>2. n - count + 1 = taken + 1 /\ taken + 1 \in 1..n
      <3> HIDE DEF n
      <3> QED BY SMT, <1>2, <2>1
    <2> QED BY <2>1, <2>2
  <1> HIDE DEF n, x
  <1>4. pc' \in Working /\ (pc' = "collect" <=> readPending)
    BY <1>1, StartFits DEF Working
  <1>5. Counted'
    <2>0. taken' = taken + 1 /\ completed' = completed /\ count' = count - 1
      BY <1>1
    <2>1. /\ taken' \in 0..n /\ completed' \in 0..taken' /\ taken' >= 1
          /\ completed' = taken' - 1 /\ count' = n - taken'
      BY SMT, <1>2, <1>3, <2>0
    <2>2. Len(sent'.batch) = n /\ sent'.batch[taken'].request = x.request
      BY <1>1 DEF n, x
    <2>3. pc' # "next" /\ request' = x.request
      BY <1>1, <1>3, <1>4 DEF Working
    <2> QED BY <2>1, <2>2, <2>3 DEF Counted
  <1>6. Words'
    <2>1. CASE readPending
      <3>1. pc' = "collect" /\ ~Undisturbed(taken + 1)
        BY <1>1, <2>1 DEF TransferShape, Words
      <3>2. ~Undisturbed(taken)'
        BY <1>1, <3>1 DEF Undisturbed, Posts
      <3> QED BY <3>1, <3>2 DEF Words
    <2>2. CASE ~readPending
      <3>1. pc' \in {"write", "mask"} => transferData' = x.word
        BY <1>1, <1>3, <2>2, StartFits DEF HasWord
      <3>2. pc' \in {"post", "match"} => matchValue' = x.word
        BY <1>1, <1>3, <2>2, StartFits DEF HasWord
      <3>3. pc' # "next" /\ pc' # "collect"
        BY <1>4, <2>2 DEF Working
      <3> QED BY <1>1, <3>1, <3>2, <3>3 DEF Words, x
    <2> QED BY <2>1, <2>2
  <1>7. \A i \in 1..Len(accesses) : accesses[i].by \in 1..taken /\ accesses[i].by \in 1..(taken + 1)
                                    /\ accesses[i].by < taken + 1
    BY SMT, <1>2 DEF TransferShape, Behind
  <1>8. By(taken + 1) = {} /\ Cardinality(By(taken + 1)) = 0
    <2>1. \A i \in 1..Len(accesses) : accesses[i].by # taken + 1
      BY SMT, <1>2, <1>7
    <2>2. By(taken + 1) = {}
      BY <2>1 DEF By
    <2> QED BY <2>2, FS_EmptySet
  <1>9. Behind'
    <2>1. pc' = "match" => ~Posts(request)'
      BY <1>1, <1>4, StartFits DEF Posts
    <2>2. matches' \in Nat
      BY DEF Take, TypeInv, LoopBounds
    <2>3. Cardinality(By(taken + 1)) <= matches' + 1
      BY SMT, <1>8, <2>2
    <2>4. By(taken)' = By(taken + 1)
      BY <1>1 DEF By
    <2> QED BY <1>1, <1>7, <2>1, <2>3, <2>4 DEF Behind
  <1>10. History'
    <2>1. \A k : Undisturbed(k)' = Undisturbed(k) /\ MaskWrites(k)' = MaskWrites(k)
      BY <1>1, UndisturbedStays
    <2>2. \A k : By(k)' = By(k)
      BY <1>1 DEF By
    <2>3. Asked' /\ InTurn' /\ NoneSkipped' /\ Masked'
      BY <1>1, <2>1 DEF TransferShape, History, Asked, InTurn, NoneSkipped, Masked
    <2>4. \A k : RealMatch(k) => RealMatch(k)'
      BY <1>1, <2>1 DEF RealMatch
    <2>5. FewAccesses'
      <3>1. \A k \in 1..(taken + 1) : k \in 1..taken \/ k = taken + 1
        BY SMT, <1>2
      <3>2. Cardinality(By(taken + 1)) <= matchRetries + 2
        <4>1. matchRetries \in Nat
          BY DEF TypeInv, InputTypes
        <4> QED BY SMT, <1>8, <4>1
      <3> QED BY <1>1, <2>2, <3>1, <3>2 DEF TransferShape, History, FewAccesses
    <2> QED BY <1>1, <2>3, <2>4, <2>5 DEF TransferShape, History
  <1> QED BY <1>5, <1>6, <1>9, <1>10 DEF TransferShape

LEMMA CollectKeepsTransfers ==
  ASSUME TypeInv, BaseInv, TransferShape, Collect
  PROVE  TransferShape'
  <1>1. PICK k \in Answers :
          /\ Attempt(Rdbuff, k)
          /\ IF Again(k)
               THEN UNCHANGED <<pc, matchValue, readPending>>
               ELSE IF k = Ok THEN Store(transferData', Start(request)) ELSE pc' = "end"
    BY DEF Collect
  <1>2. /\ pc = "collect"
        /\ UNCHANGED <<port, sent, mask, matchRetries, count, request, taken, completed, matches>>
    BY DEF Collect, fixed, limits
  <1>3. UNCHANGED accesses
    BY <1>1, RdbuffIsNoAccess DEF TypeInv
  <1>4. CASE Again(k)
    BY <1>1, <1>2, <1>3, <1>4, AgainIsRefused, TransferIsTriedAgain
  <1>5. CASE pc' \in {"end", "failed"}
    <2>1. pc' \notin Working \cup {"next"}
      BY <1>5 DEF Working
    <2> QED BY <1>2, <1>3, <2>1, TransferEnds
  <1>6. CASE pc' = Start(request)
    <2>1. /\ pc' \in Working \ {"collect"} /\ (pc' = "match" => ~Posts(request))
          /\ pc \in Working
      BY <1>2, <1>6, StartFits DEF Working
    <2>2. History'
      BY <1>2, <1>3, HistoryStays DEF TransferShape
    <2>3. Counted'
      BY <1>2, <2>1 DEF TransferShape, Counted, Working
    <2>4. Words'
      <3>1. ~Undisturbed(taken)
        BY <1>2 DEF TransferShape, Words
      <3>2. ~Undisturbed(taken)'
        BY <1>2, <3>1 DEF Undisturbed, Posts
      <3> QED BY <2>1, <3>2 DEF Words, Working
    <2>5. \A i \in 1..Len(accesses) : accesses[i].by < taken
      BY <1>2 DEF TransferShape, Behind, Working
    <2>6. Cardinality(By(taken)) = 0
      <3>1. \A i \in 1..Len(accesses) : accesses[i].by # taken
        BY SMT, <2>5 DEF TypeInv, InputTypes
      <3> QED BY <3>1, FS_EmptySet DEF By
    <2>7. Cardinality(By(taken)) <= matches + 1
      BY SMT, <2>6 DEF TypeInv, LoopBounds
    <2>8. Behind'
      <3>1. By(taken)' = By(taken) /\ ~Posts(request)' = ~Posts(request)
        BY <1>2, <1>3 DEF By, Posts
      <3> QED BY <1>2, <1>3, <2>1, <2>5, <2>7, <3>1 DEF TransferShape, Behind
    <2> QED BY <2>2, <2>3, <2>4, <2>8 DEF TransferShape
  <1> QED BY <1>1, <1>4, <1>5, <1>6, StoreGoesOn

LEMMA ReadKeepsTransfers ==
  ASSUME TypeInv, BaseInv, TransferShape, Read
  PROVE  TransferShape'
  <1>1. PICK k \in Answers :
          /\ Attempt(Access(request), k)
          /\ \/ /\ Again(k)
                /\ UNCHANGED <<pc, completed, pending>>
             \/ /\ ~Again(k) /\ k # Ok /\ pc' = "end"
                /\ UNCHANGED <<completed, pending>>
             \/ /\ k = Ok /\ completed' = completed + 1
                /\ IF Posts(request)
                     THEN readPending' = TRUE /\ pc' = Loop
                     ELSE Store(transferData', Loop) /\ UNCHANGED readPending
    BY DEF Read
  <1>2. /\ pc = "read" /\ request \in Reads \ Matches /\ ~readPending
        /\ UNCHANGED <<port, sent, mask, matchRetries, count, request, taken, matches, matchValue>>
    BY DEF Read, fixed, limits, BaseInv, Placed, Working
  <1>3. (\E v : Performed(Access(request), k, v)) \/ Refused(k)
    BY <1>1, AttemptsAreTyped, AccessIsPerformed DEF TypeInv, Access
  <1>4. CASE Again(k)
    BY <1>1, <1>2, <1>4, AgainIsRefused, TransferIsTriedAgain, AnswersAreApart DEF pending
  <1>5. CASE pc' = "end" /\ completed' = completed
    <2>1. pc' \notin Working \cup {"next"} /\ pc \in {"read", "post", "match", "write"}
      BY <1>2, <1>5 DEF Working
    <2> QED BY <1>2, <1>3, <1>5, <2>1, AccessFails DEF BaseInv
  <1>6. CASE k = Ok /\ ~Again(k)
    <2>1. PICK v : Performed(Access(request), k, v)
      BY <1>3, <1>6 DEF Refused
    <2>2. /\ completed' = completed + 1 /\ pc' \in {Loop, "failed"}
          /\ readPending' => Posts(request)
      BY <1>1, <1>2, <1>6, StoreGoesOn
    <2>3. pc \in {"read", "match", "write"} /\ pc' \notin Working
      BY <1>2, <2>2 DEF Loop, Working
    <2>4. /\ taken \in Nat /\ taken >= 1 /\ request = sent.batch[taken].request
      BY <1>2 DEF TypeInv, InputTypes, TransferShape, Counted, Working
    <2>5. ~IsMatch(sent.batch[taken]) /\ IsPlainRead(sent.batch[taken])
      BY <1>2, <2>4 DEF IsMatch, IsPlainRead
    <2>6. readPending' => ~Undisturbed(taken + 1)
      <3>1. taken + 1 # 1 /\ taken + 1 - 1 = taken
        BY SMT, <2>4
      <3> QED BY <2>2, <2>4, <2>5, <3>1 DEF Undisturbed
    <2>7. RealMatch(taken)'
      BY <1>2, <2>5 DEF RealMatch, IsMatch
    <2> QED BY <1>2, <2>1, <2>2, <2>3, <2>6, <2>7, AccessCompletes DEF BaseInv
  <1> QED BY <1>1, <1>4, <1>5, <1>6

LEMMA WriteKeepsTransfers ==
  ASSUME TypeInv, BaseInv, TransferShape, Write
  PROVE  TransferShape'
  <1>1. PICK k \in Answers :
          /\ Attempt(Access(request), k)
          /\ \/ /\ Again(k)
                /\ UNCHANGED <<pc, completed>>
             \/ ~Again(k) /\ k # Ok /\ pc' = "end" /\ UNCHANGED completed
             \/ k = Ok /\ pc' = Loop /\ completed' = completed + 1
    BY DEF Write
  <1>2. /\ pc = "write" /\ request \notin Reads \cup Masks /\ ~readPending
        /\ UNCHANGED <<port, sent, mask, matchRetries, count, request, taken, matches, matchValue,
                       readPending>>
    BY DEF Write, fixed, limits, cursor, BaseInv, Placed, Working
  <1>3. (\E v : Performed(Access(request), k, v)) \/ Refused(k)
    BY <1>1, AttemptsAreTyped, AccessIsPerformed DEF TypeInv, Access
  <1>4. CASE Again(k)
    BY <1>1, <1>2, <1>4, AgainIsRefused, TransferIsTriedAgain, AnswersAreApart
  <1>5. CASE pc' = "end" /\ completed' = completed
    <2>1. pc' \notin Working \cup {"next"} /\ pc \in {"read", "post", "match", "write"}
      BY <1>2, <1>5 DEF Working
    <2> QED BY <1>2, <1>3, <1>5, <2>1, AccessFails DEF BaseInv
  <1>6. CASE k = Ok /\ ~Again(k)
    <2>1. PICK v : Performed(Access(request), k, v)
      BY <1>3, <1>6 DEF Refused
    <2>2. completed' = completed + 1 /\ pc' = Loop
      BY <1>1, <1>6
    <2>3. pc \in {"read", "match", "write"} /\ pc' \notin Working
      BY <1>2, <2>2 DEF Loop, Working
    <2>4. request = sent.batch[taken].request
      BY <1>2 DEF TransferShape, Counted, Working
    <2>5. RealMatch(taken)'
      BY <1>2, <2>4 DEF RealMatch, IsMatch
    <2> QED BY <1>2, <2>1, <2>2, <2>3, <2>5, AccessCompletes DEF BaseInv
  <1> QED BY <1>1, <1>4, <1>5, <1>6

\* A value the target had posted is one that this match has read.
LEMMA PostKeepsTransfers ==
  ASSUME TypeInv, BaseInv, TransferShape, Post
  PROVE  TransferShape'
  <1>1. PICK k \in Answers :
          /\ Attempt(Access(request), k)
          /\ IF Again(k) THEN UNCHANGED pc ELSE pc' = IF k = Ok THEN "match" ELSE "end"
    BY DEF Post
  <1>2. /\ pc = "post" /\ request \in Reads /\ Posts(request) /\ port # "disabled"
        /\ UNCHANGED <<port, sent, mask, matchRetries, count, request, taken, matches, matchValue,
                       readPending, completed>>
    BY DEF Post, fixed, limits, cursor, pending, BaseInv, Placed, Working
  <1>3. (\E v : Performed(Access(request), k, v)) \/ Refused(k)
    BY <1>1, AttemptsAreTyped, AccessIsPerformed DEF TypeInv, Access
  <1>4. CASE Again(k)
    BY <1>1, <1>2, <1>4, AgainIsRefused, TransferIsTriedAgain
  <1>5. CASE pc' = "end"
    <2>1. pc' \notin Working \cup {"next"} /\ pc \in {"read", "post", "match", "write"}
      BY <1>2, <1>5 DEF Working
    <2> QED BY <1>2, <1>3, <1>5, <2>1, AccessFails DEF BaseInv
  <1>6. CASE k = Ok /\ pc' = "match"
    <2>1. PICK v : Performed(Access(request), k, v)
      BY <1>3, <1>6 DEF Refused
    <2>2. posted' = v
      <3>1. port \in {"jtag", "swd"}
        BY <1>2 DEF TypeInv, InputTypes
      <3>2. ~Direct(Access(request)) /\ Access(request).read
        BY <1>2, <3>1, DirectOrPosted
      <3> QED BY <1>6, <2>1, <3>2 DEF Performed
    <2> DEFINE e == Entry(Access(request), v)
               n == Len(accesses)
    <2>3. accesses \in Seq(AccessRecord) /\ accesses' = Append(accesses, e) /\ e.by = taken /\ e.value = v
      BY <2>1 DEF TypeInv, WireTypes, Performed, Entry
    <2> HIDE DEF e, n
    <2>4. completed' \in {completed, completed + 1} /\ completed' # completed + 1
      BY SMT, <1>2 DEF TypeInv, LocalTypes
    <2>5. History'
      BY <1>2, <2>1, <2>4, AccessKeepsHistory DEF TransferShape, BaseInv
    <2>6. Counted' /\ taken >= 1
      BY <1>2, <1>6 DEF TransferShape, Counted, Working
    <2>7. Words'
      <3>1. Undisturbed(taken)' => Undisturbed(taken)
        BY <1>2 DEF Undisturbed, Posts
      <3> QED BY <1>2, <1>6, <3>1 DEF TransferShape, Words
    <2>8. Cardinality(By(taken)) = 0
      <3>1. \A i \in 1..Len(accesses) : accesses[i].by < taken
        BY <1>2 DEF TransferShape, Behind, Working
      <3>2. \A i \in 1..Len(accesses) : accesses[i].by # taken
        BY SMT, <3>1 DEF TypeInv, InputTypes
      <3> QED BY <3>2, FS_EmptySet DEF By
    <2>9. Cardinality(By(taken)') <= matches + 1
      <3>1. Cardinality(By(taken)') = Cardinality(By(taken)) + 1
        BY <1>2, <2>3, OneMoreBy
      <3>2. matches \in Nat
        BY DEF TypeInv, LoopBounds
      <3> QED BY SMT, <2>8, <3>1, <3>2
    <2>10. \E i \in By(taken)' : accesses'[i].value = posted'
      <3>1. n + 1 \in 1..Len(accesses') /\ accesses'[n + 1] = e
        BY <2>3, OneMore DEF n
      <3> QED BY <1>2, <2>2, <2>3, <3>1 DEF By
    <2>11. Behind'
      BY <1>2, <1>6, <2>1, <2>6, <2>9, <2>10, NewEntry DEF TransferShape, Behind, Working
    <2> QED BY <2>5, <2>6, <2>7, <2>11 DEF TransferShape
  <1> QED BY <1>1, <1>4, <1>5, <1>6

\* The mask that counts for transfer k is one of those set before it.
LEMMA LastMask ==
  ASSUME NEW k \in Nat, MaskWrites(k) # {}
  PROVE  Max(MaskWrites(k)) \in MaskWrites(k) /\ \A j \in MaskWrites(k) : j <= Max(MaskWrites(k))
  <1>1. \A j \in MaskWrites(k) : j \in Nat /\ j <= k
    BY SMT DEF MaskWrites
  <1> QED BY <1>1, MaxIsLargest

\* The value compared is one that this match has read, its own or the one posted.
LEMMA EqualIsReal ==
  ASSUME TypeInv, Placed, TransferShape, UNCHANGED <<sent, port, taken>>,
         pc = "match", NEW v, Performed(Access(request), Ok, v),
         And(transferData', mask) = matchValue
  PROVE  RealMatch(taken)'
  <1> DEFINE e == Entry(Access(request), v)
             n == Len(accesses)
             x == sent.batch[taken]
             M == MaskWrites(taken)
  <1>1. accesses \in Seq(AccessRecord) /\ accesses' = Append(accesses, e) /\ e.by = taken /\ e.value = v
    BY DEF TypeInv, WireTypes, Performed, Entry
  <1>2. /\ n \in Nat /\ Len(accesses') = n + 1 /\ accesses'[n + 1] = e
        /\ \A i \in 1..n : accesses'[i] = accesses[i]
        /\ 1..Len(accesses') = (1..n) \cup {n + 1}
    BY <1>1, OneMore
  <1>3. port \in {"jtag", "swd"} /\ request \in Reads /\ completed + 1 = taken /\ taken \in Nat
    BY AtHand DEF TypeInv, InputTypes, Placed, Working, TransferShape
  <1>4. \E i \in 1..Len(accesses') : accesses'[i].by = taken /\ accesses'[i].value = transferData'
    <2>1. CASE Direct(Access(request))
      <3>1. transferData' = v
        BY <1>3, <2>1, DirectOrPosted DEF Performed
      <3> QED BY <1>1, <1>2, <3>1
    <2>2. CASE ~Direct(Access(request))
      <3>1. transferData' = posted /\ Posts(request)
        BY <1>3, <2>2, DirectOrPosted DEF Performed
      <3>2. PICK i \in By(taken) : accesses[i].value = posted
        BY <3>1 DEF TransferShape, Behind
      <3> QED BY <1>2, <3>1, <3>2 DEF By
    <2> QED BY <2>1, <2>2
  <1> HIDE DEF e, n
  <1>5. ASSUME M # {}, \A j \in M \cup {taken} : Undisturbed(j)
        PROVE  mask = sent.batch[Max(M)].word /\ matchValue = x.word
    <2>1. Max(M) \in M
      BY <1>3, <1>5, LastMask
    <2>2. M = MaskWrites(completed + 1)
      BY <1>3
    <2>3. Undisturbed(Max(M)) /\ Undisturbed(taken)
      BY <1>5, <2>1
    <2> QED BY <1>5, <2>2, <2>3 DEF TransferShape, History, Masked, Words
  <1>6. /\ MaskWrites(taken)' = M
        /\ (\A j \in M \cup {taken} : Undisturbed(j)')
             => \A j \in M \cup {taken} : Undisturbed(j)
    <2>1. MaskWrites(taken)' = M
      BY DEF MaskWrites
    <2> QED BY <2>1, UndisturbedStays
  <1> HIDE DEF M
  <1> QED BY <1>4, <1>5, <1>6 DEF RealMatch

LEMMA MatchKeepsTransfers ==
  ASSUME TypeInv, BaseInv, TransferShape, Match
  PROVE  TransferShape'
  <1> DEFINE equal == And(transferData', mask) = matchValue
  <1>1. PICK k \in Answers :
          /\ Attempt(Access(request), k)
          /\ \/ Again(k) /\ UNCHANGED <<pc, completed, matches>>
             \/ k = Ok /\ matches' = matches + 1 /\ UNCHANGED <<pc, completed>>
             \/ k = Ok /\ equal /\ completed' = completed + 1 /\ pc' = Loop
             \/ pc' = "end" /\ UNCHANGED completed
    BY DEF Match
  <1>2. /\ pc = "match" /\ request \in Reads /\ port # "disabled" /\ ~readPending
        /\ UNCHANGED <<port, sent, mask, matchRetries, count, request, taken, matchValue,
                       readPending>>
    BY DEF Match, fixed, limits, cursor, BaseInv, Placed, Working
  <1>3. (\E v : Performed(Access(request), k, v)) \/ Refused(k)
    BY <1>1, AttemptsAreTyped, AccessIsPerformed DEF TypeInv, Access
  <1>4. CASE Again(k) /\ UNCHANGED <<pc, completed, matches>>
    BY <1>1, <1>2, <1>4, AgainIsRefused, TransferIsTriedAgain
  <1>5. CASE pc' = "end" /\ completed' = completed
    <2>1. pc' \notin Working \cup {"next"} /\ pc \in {"read", "post", "match", "write"}
      BY <1>2, <1>5 DEF Working
    <2> QED BY <1>2, <1>3, <1>5, <2>1, AccessFails DEF BaseInv
  <1>6. CASE k = Ok /\ matches' = matches + 1 /\ UNCHANGED <<pc, completed>>
    <2>1. PICK v : Performed(Access(request), k, v)
      BY <1>3, <1>6 DEF Refused
    <2> DEFINE e == Entry(Access(request), v)
               n == Len(accesses)
    <2>3. accesses \in Seq(AccessRecord) /\ accesses' = Append(accesses, e) /\ e.by = taken /\ e.value = v
      BY <2>1 DEF TypeInv, WireTypes, Performed, Entry
    <2> HIDE DEF e, n
    <2>4. completed' \in {completed, completed + 1} /\ completed' # completed + 1
      BY SMT, <1>6 DEF TypeInv, LocalTypes
    <2>5. History'
      BY <1>2, <2>1, <2>4, AccessKeepsHistory DEF TransferShape, BaseInv
    <2>6. Counted' /\ taken >= 1
      BY <1>2, <1>6 DEF TransferShape, Counted, Working
    <2>7. Words'
      <3>1. Undisturbed(taken)' => Undisturbed(taken)
        BY <1>2 DEF Undisturbed, Posts
      <3> QED BY <1>2, <1>6, <3>1 DEF TransferShape, Words
    <2>8. Cardinality(By(taken)') <= matches' + 1
      <3>1. Cardinality(By(taken)') = Cardinality(By(taken)) + 1
        BY <1>2, <2>3, OneMoreBy
      <3>2. Cardinality(By(taken)) \in Nat /\ Cardinality(By(taken)) <= matches + 1
        BY <1>2, <2>3, ByIsFinite DEF TransferShape, Behind
      <3>3. matches \in Nat
        BY DEF TypeInv, LoopBounds
      <3> QED BY SMT, <1>6, <3>1, <3>2, <3>3
    <2>9. Posts(request)' => \E i \in By(taken)' : accesses'[i].value = posted'
      <3>1. Posts(request)' => ~Direct(Access(request)) /\ Access(request).read
        <4>1. port \in {"jtag", "swd"}
          BY <1>2 DEF TypeInv, InputTypes
        <4>2. Posts(request)' => Posts(request)
          BY <1>2 DEF Posts
        <4> QED BY <1>2, <4>1, <4>2, DirectOrPosted
      <3>2. Posts(request)' => posted' = v
        BY <1>6, <2>1, <3>1 DEF Performed
      <3>3. n + 1 \in 1..Len(accesses') /\ accesses'[n + 1] = e
        BY <2>3, OneMore DEF n
      <3> QED BY <1>2, <2>3, <3>2, <3>3 DEF By
    <2>10. Behind'
      BY <1>2, <1>6, <2>1, <2>6, <2>8, <2>9, NewEntry DEF TransferShape, Behind, Working
    <2> QED BY <2>5, <2>6, <2>7, <2>10 DEF TransferShape
  <1>7. CASE k = Ok /\ equal /\ completed' = completed + 1 /\ pc' = Loop
    <2>1. PICK v : Performed(Access(request), k, v)
      BY <1>3, <1>7 DEF Refused
    <2>2. pc \in {"read", "match", "write"} /\ pc' \notin Working
      BY <1>2, <1>7 DEF Loop, Working
    <2>3. RealMatch(taken)'
      BY <1>2, <1>7, <2>1, EqualIsReal DEF BaseInv
    <2> QED BY <1>2, <1>7, <2>1, <2>2, <2>3, AccessCompletes DEF BaseInv
  <1> QED BY <1>1, <1>4, <1>5, <1>6, <1>7

LEMMA SetMaskKeepsTransfers ==
  ASSUME TypeInv, BaseInv, TransferShape, SetMask
  PROVE  TransferShape'
  <1> DEFINE x == sent.batch[taken]
             M == MaskWrites(taken + 1)
  <1>1. /\ pc = "mask" /\ pc' \in {"next", "end"} /\ mask' = transferData /\ ~readPending
        /\ completed' = completed + 1 /\ request \in Masks \ Reads
        /\ UNCHANGED <<port, sent, matchRetries, accesses, transferData, count, request, taken,
                       readPending>>
    BY DEF SetMask, fixed, limits, wire, cursor, pending, Loop, BaseInv, Placed, Working
  <1>2. /\ taken \in Nat /\ taken >= 1 /\ completed + 1 = taken /\ x.request = request
        /\ taken \in 0..Len(sent.batch) /\ count = Len(sent.batch) - taken
    <2>1. taken >= 1 /\ completed = taken - 1 /\ taken \in Nat
      BY <1>1 DEF TypeInv, InputTypes, TransferShape, Counted, Working
    <2>2. completed + 1 = taken
      BY SMT, <2>1
    <2> QED BY <1>1, <2>1, <2>2 DEF TransferShape, Counted, Working
  <1>3. IsMask(x) /\ ~IsMatch(x)
    BY <1>1, <1>2 DEF IsMask, IsMatch
  <1> HIDE DEF x
  <1>4. Counted'
    <2>1. completed' = taken /\ completed' \in 0..taken
      BY SMT, <1>1, <1>2
    <2> QED BY <1>1, <1>2, <2>1 DEF Counted, Working
  <1>5. Words'
    BY <1>1 DEF Words, Working
  <1>6. Behind'
    BY <1>1 DEF TransferShape, Behind, Working
  <1>7. History'
    <2>1. \A k : Undisturbed(k)' = Undisturbed(k) /\ MaskWrites(k)' = MaskWrites(k)
      BY <1>1, UndisturbedStays
    <2>2. \A k : By(k)' = By(k)
      BY <1>1 DEF By
    <2>3. Asked' /\ InTurn' /\ FewAccesses'
      BY <1>1, <2>1, <2>2 DEF TransferShape, History, Asked, InTurn, FewAccesses
    <2>4. \A k \in 1..completed' : k \in 1..completed \/ k = taken
      <3>1. completed' = completed + 1 /\ completed \in Nat
        BY <1>1 DEF TypeInv, LocalTypes
      <3> QED BY SMT, <1>2, <3>1
    <2>5. NoneSkipped'
      BY <1>1, <1>3, <2>4 DEF TransferShape, History, NoneSkipped, x
    <2>6. \A k \in 1..completed' : RealMatch(k)'
      <3>1. \A k \in 1..completed : RealMatch(k)'
        BY <1>1, <2>1 DEF TransferShape, History, RealMatch
      <3>2. RealMatch(taken)'
        BY <1>1, <1>3 DEF RealMatch, x, IsMatch
      <3> QED BY <1>1, <2>4, <3>1, <3>2
    <2>7. taken \in M /\ \A j \in M : j <= taken
      <3>1. taken \in 1..(taken + 1 - 1) /\ \A j \in 1..(taken + 1 - 1) : j <= taken
        BY SMT, <1>2
      <3> QED BY <1>3, <3>1 DEF MaskWrites, x
    <2>8. Max(M) = taken
      <3>0. taken + 1 \in Nat /\ M # {}
        BY <1>2, <2>7
      <3>1. Max(M) \in M /\ \A j \in M : j <= Max(M)
        BY <3>0, LastMask
      <3>2. \A j \in M : j \in Nat
        BY SMT, <1>2 DEF MaskWrites
      <3> HIDE DEF M
      <3>3. taken <= Max(M) /\ Max(M) <= taken /\ Max(M) \in Nat
        BY <2>7, <3>1, <3>2
      <3> QED BY SMT, <1>2, <3>3
    <2>9. Undisturbed(taken) => transferData = x.word
      BY <1>1 DEF TransferShape, Words, x
    <2>10. Masked'
      <3>1. MaskWrites(completed + 1)' = M
        BY <1>1, <1>2 DEF MaskWrites
      <3> HIDE DEF M
      <3>2. Undisturbed(Max(MaskWrites(completed + 1)))' => Undisturbed(taken)
        BY <1>1, <2>8, <3>1 DEF Undisturbed, Posts
      <3> QED BY <1>1, <2>8, <2>9, <3>1, <3>2 DEF Masked, x
    <2> QED BY <2>3, <2>5, <2>6, <2>10 DEF History
  <1> QED BY <1>4, <1>5, <1>6, <1>7 DEF TransferShape

LEMMA EndKeepsTransfers ==
  ASSUME TypeInv, TransferShape, End \/ Cancel \/ LastRead \/ TooShort
  PROVE  TransferShape'
  <1>1. /\ UNCHANGED <<port, sent, mask, matchRetries, taken, completed>>
        /\ pc' \in {"cancel", "last", "done", "failed"}
    BY StoreGoesOn, Zenon DEF End, Cancel, LastRead, TooShort, fixed, limits, cursor
  <1>2. UNCHANGED accesses
    <2>1. CASE End \/ Cancel \/ TooShort
      BY <2>1, Zenon DEF End, Cancel, TooShort, wire
    <2>2. CASE LastRead
      BY <2>2, RdbuffIsNoAccess DEF LastRead, TypeInv
    <2> QED BY <2>1, <2>2
  <1>3. pc' \notin Working \cup {"next"}
    BY <1>1 DEF Working
  <1> QED BY <1>1, <1>2, <1>3, TransferEnds

LEMMA StepKeepsHistory ==
  TypeInv /\ RestInv /\ BaseInv /\ OfKind /\ HistoryInv /\ [Next]_vars => HistoryInv'
  <1> SUFFICES ASSUME TypeInv, RestInv, BaseInv, OfKind, HistoryInv, [Next]_vars, Transferring'
               PROVE  TransferShape'
    BY DEF HistoryInv, TransferShape
  <1>1. CASE Handler
    <2>0. ~Answered
      BY DEF Answered, Transferring
    <2>1. UNCHANGED <<sent, whole>> /\ Transferring /\ TransferShape
      <3>1. UNCHANGED fixed
        BY <1>1, <2>0, Zenon DEF Handler, Begin, Take, Collect, Read, Post, Match, SetMask, Write, End,
           Cancel, LastRead, BlockBegin, BlockPost, BlockRead, BlockWord, BlockWrite, BlockLast,
           BlockEnd, AbortBegin, WriteAbort, TooShort
      <3>2. UNCHANGED <<sent, whole>>
        BY <3>1 DEF fixed
      <3> QED BY <3>2 DEF Transferring, HistoryInv, TransferShape
    <2>2. ~(BlockBegin \/ BlockPost \/ BlockRead \/ BlockWord \/ BlockWrite \/ BlockLast \/ BlockEnd)
      <3>1. pc \notin BlockPlaces \cup {"block"}
        BY <2>1 DEF OfKind, Transferring
      <3> QED BY <3>1 DEF BlockBegin, BlockPost, BlockRead, BlockWord, BlockWrite, BlockLast, BlockEnd,
                          BlockPlaces
    <2>3. ~(AbortBegin \/ WriteAbort)
      BY <2>1 DEF OfKind, Transferring, AbortBegin, WriteAbort
    <2> QED BY <1>1, <2>0, <2>1, <2>2, <2>3, BeginKeepsTransfers, TakeKeepsTransfers,
               CollectKeepsTransfers, ReadKeepsTransfers, PostKeepsTransfers, MatchKeepsTransfers,
               SetMaskKeepsTransfers, WriteKeepsTransfers, EndKeepsTransfers, Zenon DEF Handler
  <1>2. ASSUME NEW c \in Commands, Send(c) PROVE TransferShape'
    <2>1. /\ pc = "idle" /\ pc' = c.kind /\ sent' = c
          /\ UNCHANGED <<taken, completed, accesses, readPending>>
      BY <1>2 DEF Send, wire, pending
    <2>2. taken = 0 /\ completed = 0 /\ accesses = <<>> /\ ~readPending
      BY <2>1 DEF BaseInv, Fresh, StartPlaces
    <2>3. c.kind = "transfer"
      BY <2>1 DEF Transferring
    <2>4. Len(c.batch) \in Nat
      BY <2>3, RestIsUnits
    <2> QED BY <2>1, <2>2, <2>3, <2>4, NothingDone DEF Working
  <1>3. ~(\E l \in Limits : TransferConfigure(l))
    <2> SUFFICES ASSUME NEW l \in Limits, TransferConfigure(l) PROVE FALSE
      OBVIOUS
    <2>1. sent = [kind |-> "none"] /\ UNCHANGED sent
      BY DEF TransferConfigure, BaseInv, Fresh
    <2> QED BY <2>1 DEF Transferring
  <1>4. CASE UNCHANGED vars
    <2>1. TransferShape
      BY <1>4 DEF vars, fixed, Transferring, HistoryInv, TransferShape
    <2> QED BY <1>4, <2>1, TransferIsTriedAgain DEF vars, fixed, limits, wire, cursor, pending
  <1> QED BY <1>1, <1>2, <1>3, <1>4 DEF Next

LEMMA InitIsUntouched == Init => HistoryInv
  BY DEF Init, HistoryInv, Transferring

\* What is known of the handler and of the history of a Transfer in every state.
TransferInv == TypeInv /\ RestInv /\ BaseInv /\ OfKind /\ HistoryInv

LEMMA TransfersAreInvariant == Spec => []TransferInv
  <1>1. Init => TransferInv
    <2>1. Init => RestInv
      BY DEF Init, RestInv
    <2> QED BY <2>1, InitHasTypes, InitIsBase, InitIsOfKind, InitIsUntouched DEF TransferInv
  <1>2. TransferInv /\ [Next]_vars => TransferInv'
    BY StepKeepsTypes, StepKeepsRest, StepKeepsBase, StepKeepsKind, StepKeepsHistory DEF TransferInv
  <1> QED BY <1>1, <1>2, PTL DEF Spec

\* Every access of the target was asked for by a transfer: its register, its
\* direction and its word; transfers come in order, none that is counted was
\* skipped, and only a match accesses its register again, within its retries
\* (dap_handle_cmd_transfer, commands_transfer.c:298-424).
THEOREM AccessesAreThoseAskedFor == Spec => []AccessesAsAsked
  <1>1. TransferInv => AccessesAsAsked
    BY HistoryIsAsAsked DEF TransferInv
  <1> QED BY <1>1, TransfersAreInvariant, PTL

\* A match that is counted has seen its value under the mask last written, in a
\* read of its own register that it made itself: the word it compares is never one
\* that an earlier transfer left in the pipeline (commands_transfer.c:346-362).
THEOREM MatchesAreReal == Spec => []MatchIsReal
  <1>1. TransferInv => MatchIsReal
    BY HistoryIsAsAsked DEF TransferInv
  <1> QED BY <1>1, TransfersAreInvariant, PTL

-----------------------------------------------------------------------------
(***************************************************************************)
(* The accesses of a block.                                                *)
(***************************************************************************)
BlockAccesses ==
  \A i \in 1..Len(accesses) : /\ accesses[i].reg = RegisterOf(sent.request)
                              /\ accesses[i].read = (sent.request \in Reads)

\* The words read so far; one more may be on its way.
WordsRead ==
  sent.request \in Reads =>
    /\ pc # "blocklast"
    /\ completed = Len(out) /\ Len(out) <= Len(accesses)
    /\ \A i \in 1..Len(out) : out[i] = accesses[i].value
    /\ pc = "blockpost" => accesses = <<>> /\ out = <<>> /\ count = sent.count /\ Posts(request)
    /\ pc = "blockread" =>
         /\ count + Len(out) = sent.count
         /\ ~Posts(request) => Len(accesses) = Len(out)
         /\ Posts(request) => /\ Len(accesses) = Len(out) + 1
                              /\ posted = accesses[Len(accesses)].value

WordsWritten ==
  sent.request \notin Reads =>
    /\ pc # "blockpost"
    /\ completed = Len(accesses) /\ Len(accesses) <= Len(sent.words)
    /\ \A i \in 1..Len(accesses) : accesses[i].value = sent.words[i]
    /\ pc = "blockword" => taken = completed /\ count + taken = Len(sent.words)
    /\ pc = "blockwrite" => /\ taken = completed + 1 /\ count + taken = Len(sent.words)
                            /\ transferData = sent.words[taken]
    /\ pc = "blocklast" => completed = Len(sent.words)

BlockResult ==
  /\ pc \in {"blockend", "done"} /\ sent.count > 0 =>
       Len(accesses) <= sent.count /\ (ack = Ok => Len(accesses) = sent.count)
  /\ pc = "done" => respCount = completed /\ respAck = ack

BlockShape == BlockAccesses /\ WordsRead /\ WordsWritten /\ BlockResult
BlockInv == Blocking => BlockShape

LEMMA PrefixOf ==
  ASSUME NEW s \in Seq(Nat), NEW t \in Seq(Nat), Len(s) <= Len(t),
         \A i \in 1..Len(s) : s[i] = t[i]
  PROVE  IsPrefix(s, t)
  <1>1. Len(s) \in Nat /\ Len(t) \in Nat
    OBVIOUS
  <1>2. SubSeq(s, 1, Len(s)) = SubSeq(t, 1, Len(s))
    BY SMT, <1>1
  <1> QED BY <1>1, <1>2 DEF IsPrefix

\* The count of a block is a number, that of the words to write.
LEMMA BlockCounts ==
  ASSUME NEW c \in Commands, c.kind = "block"
  PROVE  /\ c.count \in Nat /\ c.request \in Units /\ c.words \in Seq(Nat) /\ Len(c.words) \in Nat
         /\ c.request \notin Reads => c.count = Len(c.words)
  <1>1. c.count \in Nat /\ c.request \in Units /\ c.words \in Seq(Nat)
    BY CommandsAreLegal, UnitsAreNumbers
  <1>2. Len(c.words) \in Nat
    BY <1>1, LenProperties
  <1> QED BY <1>1, <1>2, CommandsAreLegal

LEMMA BlockShapeIsExact ==
  ASSUME TypeInv, RestInv, BlockInv, OfKind
  PROVE  BlockIsExact
  <1> SUFFICES ASSUME pc = "done", Blocking PROVE BlockIsExact
    BY DEF BlockIsExact
  <1> DEFINE v == [i \in 1..Len(accesses) |-> accesses[i].value]
  <1>1. BlockShape /\ sent \in Commands /\ sent.kind = "block"
    BY DEF BlockInv, Blocking, RestInv, RestShape
  <1>2. sent.count \in Nat /\ sent.words \in Seq(Nat)
    BY <1>1, BlockCounts
  <1>3. accesses \in Seq(AccessRecord) /\ out \in Seq(Nat) /\ Len(accesses) \in Nat /\ completed \in Nat
    BY DEF TypeInv, WireTypes, LocalTypes
  <1>4. v \in Seq(Nat) /\ Len(v) = Len(accesses) /\ \A i \in 1..Len(accesses) : v[i] = accesses[i].value
    <2>1. \A i \in 1..Len(accesses) : accesses[i].value \in Nat
      <3>1. \A i \in 1..Len(accesses) : accesses[i] \in AccessRecord
        BY <1>3, ElementOfSeq
      <3> QED BY <3>1 DEF AccessRecord
    <2> QED BY <1>3, <2>1
  <1> HIDE DEF v
  <1>5. sent.request \in Reads => Len(out) = respCount /\ IsPrefix(out, v)
    <2> SUFFICES ASSUME sent.request \in Reads PROVE Len(out) = respCount /\ IsPrefix(out, v)
      OBVIOUS
    <2>1. /\ Len(out) = respCount /\ Len(out) <= Len(accesses)
          /\ \A i \in 1..Len(out) : out[i] = accesses[i].value
      BY <1>1 DEF BlockShape, WordsRead, BlockResult
    <2>2. \A i \in 1..Len(out) : i \in 1..Len(accesses)
      BY SMT, <1>3, <2>1
    <2> QED BY <1>3, <1>4, <2>1, <2>2, PrefixOf
  <1>6. sent.request \notin Reads => IsPrefix(v, sent.words)
    BY <1>1, <1>2, <1>4, PrefixOf DEF BlockShape, WordsWritten
  <1>7. sent.count > 0 => Len(accesses) \in respCount..sent.count
    <2>1. respCount = completed /\ completed <= Len(accesses)
      BY SMT, <1>1, <1>3 DEF BlockShape, WordsRead, WordsWritten, BlockResult
    <2>2. sent.count > 0 => Len(accesses) <= sent.count
      BY <1>1 DEF BlockShape, BlockResult
    <2> QED BY SMT, <1>2, <1>3, <2>1, <2>2
  <1>8. respAck = Ok /\ sent.count > 0 => Len(accesses) = sent.count
    BY <1>1 DEF BlockShape, BlockResult
  <1> QED BY <1>1, <1>5, <1>6, <1>7, <1>8 DEF BlockIsExact, BlockShape, BlockAccesses, v

\* A block of which nothing has been done.
LEMMA NoWordDone ==
  ASSUME accesses' = <<>>, out' = <<>>, completed' = 0, taken' = 0, ack' = 0,
         sent'.count \in Nat, sent'.words \in Seq(Nat),
         sent'.request \notin Reads => sent'.count = Len(sent'.words),
         pc' # "blockwrite", pc' # "done",
         pc' = "blocklast" => sent'.request \notin Reads /\ sent'.count = 0,
         pc' \in {"blockpost", "blockread", "blockword"} => count' = sent'.count,
         pc' = "blockpost" => sent'.request \in Reads /\ Posts(request)',
         pc' = "blockread" => ~Posts(request)'
  PROVE  BlockShape'
  <1>1. 1..Len(accesses') = {} /\ Len(accesses') = 0 /\ 1..Len(out') = {} /\ Len(out') = 0
    BY SMT
  <1>2. Len(sent'.words) \in Nat
    BY LenProperties
  <1>3. BlockAccesses'
    BY <1>1 DEF BlockAccesses
  <1>4. WordsRead'
    <2>1. count' = sent'.count => count' + 0 = sent'.count
      BY SMT
    <2> QED BY <1>1, <2>1 DEF WordsRead
  <1>5. WordsWritten'
    <2>1. /\ 0 <= Len(sent'.words) /\ (count' = Len(sent'.words) => count' + 0 = Len(sent'.words))
      BY SMT, <1>2
    <2> QED BY <1>1, <2>1 DEF WordsWritten
  <1>6. BlockResult'
    <2>1. 0 <= sent'.count /\ Ok # 0
      BY SMT DEF Ok
    <2> QED BY <1>1, <2>1 DEF BlockResult
  <1> QED BY <1>3, <1>4, <1>5, <1>6 DEF BlockShape

LEMMA BlockBeginKeepsBlocks ==
  ASSUME TypeInv, RestInv, BaseInv, Blocking, BlockBegin
  PROVE  BlockShape'
  <1>1. /\ sent \in Commands /\ sent.kind = "block"
        /\ count' = sent.count /\ request' = sent.request
    BY BlockBeginTakes DEF Blocking
  <1>2. /\ accesses' = <<>> /\ out' = <<>> /\ completed' = 0 /\ taken' = 0 /\ ack' = 0
        /\ UNCHANGED <<sent, port>>
    BY DEF BlockBegin, fixed, resp, BaseInv, Fresh, StartPlaces
  <1>3. /\ sent.count \in Nat /\ sent.request \in Units /\ sent.words \in Seq(Nat)
        /\ sent.request \notin Reads => sent.count = Len(sent.words)
    BY <1>1, BlockCounts
  <1>4. \/ pc' = "blockend"
        \/ pc' = "blockpost" /\ request' \in Reads /\ Posts(request')
        \/ pc' = BlockLoop(request', count') /\ ~(request' \in Reads /\ Posts(request'))
    BY DEF BlockBegin
  <1>5. ~(count' > 0) => sent.count = 0
    BY SMT, <1>1, <1>3
  <1>6. /\ pc' # "blockwrite" /\ pc' # "done"
        /\ pc' = "blocklast" => sent.request \notin Reads /\ sent.count = 0
        /\ pc' = "blockpost" => sent.request \in Reads /\ Posts(request')
        /\ pc' = "blockread" => ~Posts(request')
    BY <1>1, <1>4, <1>5 DEF BlockLoop
  <1>7. Posts(request)' <=> Posts(request')
    BY <1>2 DEF Posts
  <1> QED BY <1>1, <1>2, <1>3, <1>6, <1>7, NoWordDone

\* One more access of a block.
LEMMA OneMoreAccess ==
  ASSUME TypeInv, BlockAccesses, request = sent.request, sent' = sent, NEW k, NEW v,
         Performed(Access(request), k, v)
  PROVE  LET n == Len(accesses)
         IN  /\ n \in Nat /\ Len(accesses') = n + 1 /\ accesses'[n + 1].value = v
             /\ \A i \in 1..n : accesses'[i] = accesses[i]
             /\ BlockAccesses'
  <1> DEFINE e == Entry(Access(request), v)
             n == Len(accesses)
  <1>1. accesses \in Seq(AccessRecord) /\ accesses' = Append(accesses, e)
    BY DEF TypeInv, WireTypes, Performed
  <1>2. /\ e.reg = RegisterOf(sent.request) /\ e.read = (sent.request \in Reads) /\ e.value = v
    BY DEF Entry, Access, RegisterOf
  <1> HIDE DEF e, n
  <1>3. /\ n \in Nat /\ Len(accesses') = n + 1 /\ accesses'[n + 1] = e
        /\ \A i \in 1..n : accesses'[i] = accesses[i]
        /\ 1..Len(accesses') = (1..n) \cup {n + 1}
    BY <1>1, OneMore DEF n
  <1>4. BlockAccesses'
    BY <1>2, <1>3 DEF BlockAccesses, n
  <1> QED BY <1>2, <1>3, <1>4 DEF n

LEMMA BlockPostKeepsBlocks ==
  ASSUME TypeInv, RestInv, BaseInv, Blocking, BlockShape, BlockPost
  PROVE  BlockShape'
  <1>1. PICK k \in Answers :
          /\ Attempt(Access(request), k) /\ ack' = k
          /\ IF Again(k) THEN UNCHANGED pc
                         ELSE pc' = IF k = Ok THEN BlockLoop(request, count) ELSE "blockend"
    BY DEF BlockPost
  <1>2. /\ pc = "blockpost" /\ port # "disabled"
        /\ UNCHANGED <<port, sent, count, request, taken, completed, out>>
    BY DEF BlockPost, fixed, cursor, resp, BaseInv, Placed, BlockPlaces
  <1>3. sent \in Commands /\ sent.kind = "block" /\ request = sent.request
    BY <1>2, RestOfBlock DEF BlockPlaces, Blocking
  <1>4. /\ request \in Reads /\ Posts(request) /\ count = sent.count
        /\ accesses = <<>> /\ out = <<>> /\ completed = Len(out)
    BY <1>2, <1>3 DEF BlockShape, WordsRead, WordsWritten
  <1>5. (\E v : Performed(Access(request), k, v)) \/ Refused(k)
    BY <1>1, AttemptsAreTyped, AccessIsPerformed DEF TypeInv, Access
  <1>6. sent.count \in Nat /\ count \in Nat
    BY <1>3, BlockCounts DEF TypeInv, InputTypes
  <1>7. Len(accesses) = 0 /\ Len(out) = 0 /\ 1..Len(out) = {}
    BY SMT, <1>4
  <1>8. CASE Refused(k)
    <2>1. UNCHANGED <<accesses, posted>> /\ k # Ok /\ pc' \in {"blockpost", "blockend"}
      BY <1>1, <1>2, <1>8 DEF Refused
    <2>2. BlockAccesses' /\ WordsWritten'
      BY <1>2, <1>3, <1>4, <2>1 DEF BlockShape, BlockAccesses, WordsWritten
    <2>3. WordsRead'
      <3>1. Posts(request)' <=> Posts(request)
        BY <1>2 DEF Posts
      <3> QED BY <1>2, <1>4, <2>1, <3>1 DEF BlockShape, WordsRead
    <2>4. BlockResult'
      <3>1. Len(accesses') <= sent'.count
        BY SMT, <1>2, <1>6, <1>7, <2>1
      <3> QED BY <1>1, <2>1, <3>1 DEF BlockResult
    <2> QED BY <2>2, <2>3, <2>4 DEF BlockShape
  <1>9. ASSUME NEW v, Performed(Access(request), k, v) PROVE BlockShape'
    <2>1. BlockAccesses' /\ Len(accesses') = 1 /\ accesses'[1].value = v
      <3>1. 0 + 1 = 1
        OBVIOUS
      <3> QED BY <1>2, <1>3, <1>7, <1>9, <3>1, OneMoreAccess DEF BlockShape
    <2>2. k # Wait /\ ~Again(k)
      BY <1>9, AnswersAreApart DEF Performed, Again
    <2>3. /\ pc' \in {"blockread", "blockend"}
          /\ pc' = "blockread" => count > 0 /\ k = Ok
          /\ pc' = "blockend" => k # Ok \/ ~(count > 0)
      BY <1>1, <1>4, <2>2 DEF BlockLoop
    <2>4. k = Ok => posted' = v
      <3>1. ~Direct(Access(request)) /\ Access(request).read
        <4>1. port \in {"jtag", "swd"}
          BY <1>2 DEF TypeInv, InputTypes
        <4> QED BY <1>4, <4>1, DirectOrPosted
      <3> QED BY <1>9, <3>1 DEF Performed
    <2>5. WordsRead'
      <3>1. Posts(request)' <=> Posts(request)
        BY <1>2 DEF Posts
      <3>2. count + 0 = sent.count /\ 0 <= 1 /\ 1 = 0 + 1
        BY SMT, <1>4, <1>6
      <3> QED BY <1>2, <1>4, <1>7, <2>1, <2>3, <2>4, <3>1, <3>2 DEF WordsRead
    <2>6. WordsWritten'
      BY <1>2, <1>3, <1>4 DEF WordsWritten
    <2>7. BlockResult'
      <3>1. sent'.count > 0 => 1 <= sent'.count /\ count > 0
        BY SMT, <1>2, <1>4, <1>6
      <3> QED BY <1>1, <2>1, <2>3, <3>1 DEF BlockResult
    <2> QED BY <2>1, <2>5, <2>6, <2>7 DEF BlockShape
  <1> QED BY <1>5, <1>8, <1>9

\* An attempt of a block that is made again.
LEMMA BlockIsTriedAgain ==
  ASSUME BlockShape,
         UNCHANGED <<accesses, posted, transferData, out, sent, port, pc, count, request, taken,
                     completed>>,
         pc \notin {"blockend", "done"}
  PROVE  BlockShape'
  <1>1. BlockAccesses' /\ BlockResult'
    BY DEF BlockShape, BlockAccesses, BlockResult
  <1>2. Posts(request)' <=> Posts(request)
    BY DEF Posts
  <1>3. WordsRead' /\ WordsWritten'
    BY <1>2 DEF BlockShape, WordsRead, WordsWritten
  <1> QED BY <1>1, <1>3 DEF BlockShape

\* One attempt to read word m + 1 of a block, where m have been read.
LEMMA BlockReadAccess ==
  ASSUME TypeInv, BlockShape, request = sent.request, sent' = sent, sent.count \in Nat,
         request \in Reads, pc = "blockread", port # "disabled",
         NEW k \in Answers, Attempt(BlockAccess, k)
  PROVE  LET n == Len(accesses)
             m == Len(out)
         IN  /\ n \in Nat /\ m \in Nat /\ Len(accesses') \in Nat
             /\ BlockAccesses' /\ n <= Len(accesses') /\ Len(accesses') <= sent.count
             /\ \A i \in 1..n : accesses'[i] = accesses[i]
             /\ k = Ok => m + 1 <= Len(accesses') /\ accesses'[m + 1].value = transferData'
             /\ k = Ok /\ count = 1 => Len(accesses') = sent.count
             /\ k = Ok /\ count > 1 =>
                  /\ Len(accesses') = n + 1
                  /\ Posts(request) => posted' = accesses'[n + 1].value
  <1> DEFINE n == Len(accesses)
             m == Len(out)
  <1>1. /\ n \in Nat /\ m \in Nat /\ count \in Nat /\ count > 0 /\ port \in {"jtag", "swd"}
    BY LenProperties DEF TypeInv, WireTypes, InputTypes, LocalTypes, LoopBounds
  <1>2. /\ count + m = sent.count
        /\ ~Posts(request) => n = m
        /\ Posts(request) => n = m + 1 /\ posted = accesses[n].value
    BY DEF BlockShape, WordsRead
  <1>3. CASE count = 1 /\ Posts(request)
    <2>1. UNCHANGED accesses /\ (k = Ok => transferData' = posted)
      BY <1>3, RdbuffIsNoAccess DEF BlockAccess, TypeInv
    <2>2. BlockAccesses'
      BY <2>1 DEF BlockShape, BlockAccesses
    <2>3. n = m + 1 /\ sent.count = n /\ n <= n /\ ~(count > 1)
      <3> HIDE DEF n, m
      <3> QED BY SMT, <1>1, <1>2, <1>3
    <2> QED BY <1>1, <1>2, <1>3, <2>1, <2>2, <2>3
  <1>4. CASE ~(count = 1 /\ Posts(request))
    <2>1. (\E v : Performed(Access(request), k, v)) \/ Refused(k)
      <3>1. Attempt(Access(request), k)
        BY <1>4 DEF BlockAccess
      <3> QED BY <3>1, AttemptsAreTyped, AccessIsPerformed DEF TypeInv, Access
    <2>2. n + 1 <= sent.count /\ n <= n + 1 /\ n <= sent.count /\ (count = 1 => n + 1 = sent.count)
          /\ m + 1 <= n + 1
      <3> HIDE DEF n, m
      <3> QED BY SMT, <1>1, <1>2, <1>4
    <2>3. CASE Refused(k)
      <3>1. UNCHANGED accesses /\ k # Ok
        BY <2>3 DEF Refused
      <3>2. BlockAccesses' /\ n <= n
        BY <1>1, <3>1 DEF BlockShape, BlockAccesses
      <3> QED BY <1>1, <2>2, <3>1, <3>2
    <2>4. ASSUME NEW v, Performed(Access(request), k, v)
          PROVE  /\ BlockAccesses' /\ Len(accesses') = n + 1 /\ accesses'[n + 1].value = v
                 /\ \A i \in 1..n : accesses'[i] = accesses[i]
                 /\ k = Ok => accesses'[m + 1].value = transferData'
                 /\ k = Ok /\ Posts(request) => posted' = v
      <3>1. /\ BlockAccesses' /\ Len(accesses') = n + 1 /\ accesses'[n + 1].value = v
            /\ \A i \in 1..n : accesses'[i] = accesses[i]
        BY <2>4, OneMoreAccess DEF BlockShape
      <3>2. (Direct(Access(request)) <=> ~Posts(request)) /\ Access(request).read
        BY <1>1, DirectOrPosted
      <3>3. CASE Posts(request)
        <4>1. k = Ok => transferData' = posted /\ posted' = v
          BY <2>4, <3>2, <3>3 DEF Performed
        <4>2. n \in 1..n
          <5> HIDE DEF n, m
          <5> QED BY SMT, <1>1, <1>2, <3>3
        <4> HIDE DEF n, m
        <4> QED BY <1>2, <3>1, <3>3, <4>1, <4>2
      <3>4. CASE ~Posts(request)
        <4>1. k = Ok => transferData' = v
          BY <2>4, <3>2, <3>4 DEF Performed
        <4> QED BY <1>2, <3>1, <3>4, <4>1
      <3> QED BY <3>1, <3>3, <3>4
    <2> HIDE DEF n, m
    <2>5. n + 1 \in Nat
      BY <1>1
    <2> QED BY <1>1, <2>1, <2>2, <2>3, <2>4, <2>5 DEF n, m
  <1> QED BY <1>3, <1>4

LEMMA BlockReadKeepsBlocks ==
  ASSUME TypeInv, RestInv, BaseInv, Blocking, BlockShape, BlockRead
  PROVE  BlockShape'
  <1> DEFINE n == Len(accesses)
             m == Len(out)
             l == Len(accesses')
  <1>1. PICK k \in Answers :
          /\ Attempt(BlockAccess, k) /\ ack' = k
          /\ IF Again(k) THEN UNCHANGED <<pc, count, completed, out>>
             ELSE /\ count' = count - 1
                  /\ IF k = Ok /\ Len(out) < ResponseSpace
                       THEN /\ out' = Append(out, transferData')
                            /\ completed' = completed + 1
                            /\ pc' = BlockLoop(request, count')
                       ELSE /\ pc' = IF k = Ok THEN "failed" ELSE "blockend"
                            /\ UNCHANGED <<completed, out>>
    BY DEF BlockRead
  <1>2. /\ pc = "blockread" /\ port # "disabled"
        /\ UNCHANGED <<port, sent, request, taken>>
    BY DEF BlockRead, fixed, BaseInv, Placed, BlockPlaces
  <1>3. sent \in Commands /\ sent.kind = "block" /\ request = sent.request /\ request \in Reads
    BY <1>2, RestOfBlock DEF BlockPlaces, Blocking
  <1>4. sent.count \in Nat /\ count \in Nat /\ count > 0 /\ out \in Seq(Nat)
    BY <1>2, <1>3, BlockCounts DEF TypeInv, InputTypes, LocalTypes, LoopBounds
  <1>5. /\ n \in Nat /\ m \in Nat /\ l \in Nat /\ BlockAccesses' /\ n <= l /\ l <= sent.count
        /\ \A i \in 1..n : accesses'[i] = accesses[i]
        /\ k = Ok => m + 1 <= l /\ accesses'[m + 1].value = transferData'
        /\ k = Ok /\ count = 1 => l = sent.count
        /\ k = Ok /\ count > 1 => l = n + 1 /\ (Posts(request) => posted' = accesses'[n + 1].value)
    BY <1>1, <1>2, <1>3, <1>4, BlockReadAccess
  <1>6. /\ completed = m /\ m <= n /\ \A i \in 1..m : out[i] = accesses[i].value
        /\ count + m = sent.count
        /\ ~Posts(request) => n = m
        /\ Posts(request) => n = m + 1
    BY <1>2, <1>3 DEF BlockShape, WordsRead
  <1>7. WordsWritten'
    BY <1>2, <1>3 DEF WordsWritten
  <1>8. CASE Again(k)
    <2>1. UNCHANGED <<accesses, posted, transferData>>
      BY <1>1, <1>8, AgainIsRefused
    <2> QED BY <1>1, <1>2, <1>8, <2>1, BlockIsTriedAgain
  <1>9. CASE ~Again(k) /\ k = Ok /\ Len(out) < ResponseSpace
    <2>1. /\ out' = Append(out, transferData') /\ completed' = completed + 1
          /\ pc' = BlockLoop(request, count') /\ count' = count - 1
      BY <1>1, <1>9
    <2>2. transferData' \in Nat
      <3>1. Attempt(Access(request), k) \/ Attempt(Rdbuff, k)
        BY <1>1 DEF BlockAccess
      <3> QED BY <1>2, <3>1, AttemptsAreTyped, AttemptLeavesNumber
    <2>3. /\ Len(out') = m + 1 /\ \A i \in 1..m : out'[i] = out[i]
          /\ out'[m + 1] = transferData' /\ 1..(m + 1) = (1..m) \cup {m + 1}
      BY SMT, <1>4, <2>1, <2>2
    <2>4. \A i \in 1..m : i \in 1..n
      <3> HIDE DEF n, m, l
      <3> QED BY SMT, <1>5, <1>6
    <2>5. \A i \in 1..Len(out') : out'[i] = accesses'[i].value
      <3> HIDE DEF n, m, l
      <3> QED BY <1>5, <1>6, <1>9, <2>3, <2>4
    <2>6. CASE count = 1
      <3>1. pc' = "blockend"
        <4>1. ~(count' > 0)
          BY SMT, <2>1, <2>6
        <4> QED BY <1>3, <2>1, <4>1 DEF BlockLoop
      <3>2. WordsRead'
        BY <1>5, <1>6, <1>9, <2>1, <2>3, <2>5, <3>1 DEF WordsRead
      <3>3. BlockResult'
        BY <1>2, <1>5, <1>9, <2>6, <3>1 DEF BlockResult
      <3> QED BY <1>5, <1>7, <3>2, <3>3 DEF BlockShape
    <2>7. CASE count > 1
      <3>1. pc' = "blockread"
        <4>1. count' > 0
          BY SMT, <1>4, <2>1, <2>7
        <4> QED BY <1>3, <2>1, <4>1 DEF BlockLoop
      <3>2. /\ count' + (m + 1) = sent.count
            /\ ~Posts(request) => l = m + 1
            /\ Posts(request) => l = m + 1 + 1
        <4> HIDE DEF n, m, l
        <4> QED BY SMT, <1>4, <1>5, <1>6, <1>9, <2>1, <2>7
      <3>3. Posts(request)' <=> Posts(request)
        BY <1>2 DEF Posts
      <3>4. Posts(request) => posted' = accesses'[l].value
        BY <1>5, <1>9, <2>7
      <3>5. completed' = m + 1 /\ m + 1 <= l
        BY <1>5, <1>6, <1>9, <2>1
      <3>6. WordsRead'
        BY <1>2, <2>3, <2>5, <3>1, <3>2, <3>3, <3>4, <3>5 DEF WordsRead
      <3>7. BlockResult'
        BY <3>1 DEF BlockResult
      <3> QED BY <1>5, <1>7, <3>6, <3>7 DEF BlockShape
    <2> QED BY SMT, <1>4, <2>6, <2>7
  <1>10. CASE ~Again(k) /\ ~(k = Ok /\ Len(out) < ResponseSpace)
    <2>1. UNCHANGED <<completed, out>> /\ pc' = IF k = Ok THEN "failed" ELSE "blockend"
      BY <1>1, <1>10
    <2>2. \A i \in 1..m : i \in 1..n
      <3> HIDE DEF n, m, l
      <3> QED BY SMT, <1>5, <1>6
    <2>3. m <= l
      <3> HIDE DEF n, m, l
      <3> QED BY SMT, <1>5, <1>6
    <2>4. WordsRead'
      BY <1>5, <1>6, <2>1, <2>2, <2>3 DEF WordsRead
    <2>5. BlockResult'
      BY <1>1, <1>2, <1>5, <2>1 DEF BlockResult
    <2> QED BY <1>5, <1>7, <2>4, <2>5 DEF BlockShape
  <1> QED BY <1>8, <1>9, <1>10

LEMMA BlockWordKeepsBlocks ==
  ASSUME TypeInv, RestInv, BaseInv, Blocking, BlockShape, BlockWord
  PROVE  BlockShape'
  <1> DEFINE n == Len(sent.words)
  <1>1. /\ pc = "blockword" /\ pc' = "blockwrite" /\ count' = count - 1 /\ transferData' = ring[1]
        /\ taken' = taken + 1
        /\ UNCHANGED <<sent, accesses, completed, out>>
    BY DEF BlockWord, fixed, resp
  <1>2. /\ sent.request \notin Reads /\ n \in Nat /\ count \in 1..n
        /\ ring[1] = sent.words[n - count + 1]
    BY <1>1, NextWord DEF Blocking
  <1>3. /\ taken = completed /\ count + taken = n
    BY <1>1, <1>2 DEF BlockShape, WordsWritten
  <1> HIDE DEF n
  <1>4. taken' = completed' + 1 /\ count' + taken' = n /\ n - count + 1 = taken'
    <2>1. completed \in Nat /\ completed' = completed
      BY <1>1 DEF TypeInv, LocalTypes
    <2>2. count' = count - 1 /\ taken' = taken + 1
      BY <1>1
    <2> QED BY SMT, <1>2, <1>3, <2>1, <2>2
  <1>5. WordsWritten'
    BY <1>1, <1>2, <1>4 DEF BlockShape, WordsWritten, n
  <1>6. BlockAccesses' /\ WordsRead' /\ BlockResult'
    BY <1>1, <1>2 DEF BlockShape, BlockAccesses, WordsRead, BlockResult
  <1> QED BY <1>5, <1>6 DEF BlockShape

LEMMA BlockWriteKeepsBlocks ==
  ASSUME TypeInv, RestInv, BaseInv, Blocking, BlockShape, BlockWrite
  PROVE  BlockShape'
  <1> DEFINE n == Len(accesses)
             w == Len(sent.words)
  <1>1. PICK k \in Answers :
          /\ Attempt(Access(request), k) /\ ack' = k
          /\ IF Again(k) THEN UNCHANGED <<pc, completed>>
             ELSE IF k = Ok
               THEN completed' = completed + 1 /\ pc' = BlockLoop(request, count)
               ELSE pc' = "blockend" /\ UNCHANGED completed
    BY DEF BlockWrite
  <1>2. /\ pc = "blockwrite" /\ UNCHANGED <<port, sent, count, request, taken, out>>
    BY DEF BlockWrite, fixed, cursor, resp
  <1>3. /\ sent \in Commands /\ sent.kind = "block" /\ request = sent.request /\ request \notin Reads
    BY <1>2, RestOfBlock DEF BlockPlaces, Blocking
  <1>4. /\ sent.count = w /\ w \in Nat /\ count \in Nat /\ taken \in Nat /\ n \in Nat
    BY <1>3, BlockCounts, LenProperties DEF TypeInv, InputTypes, WireTypes
  <1>5. /\ completed = n /\ n <= w /\ taken = n + 1 /\ count + taken = w
        /\ transferData = sent.words[taken]
        /\ \A i \in 1..n : accesses[i].value = sent.words[i]
    BY <1>2, <1>3 DEF BlockShape, WordsWritten
  <1>6. (\E v : Performed(Access(request), k, v)) \/ Refused(k)
    BY <1>1, AttemptsAreTyped, AccessIsPerformed DEF TypeInv, Access
  <1>7. WordsRead'
    BY <1>2, <1>3 DEF WordsRead
  <1>8. CASE Again(k)
    <2>1. UNCHANGED <<accesses, posted, transferData>>
      BY <1>1, <1>8, AgainIsRefused
    <2> QED BY <1>1, <1>2, <1>8, <2>1, BlockIsTriedAgain
  <1>9. CASE ~Again(k) /\ k # Ok
    <2>1. UNCHANGED <<accesses, completed>> /\ pc' = "blockend"
      <3>1. ~(\E v : Performed(Access(request), k, v))
        <4>1. ~Access(request).read
          BY <1>3 DEF Access
        <4> QED BY <1>9, <4>1 DEF Performed
      <3> QED BY <1>1, <1>6, <1>9, <3>1 DEF Refused
    <2>2. BlockAccesses' /\ WordsWritten'
      BY <1>2, <2>1 DEF BlockShape, BlockAccesses, WordsWritten
    <2>3. BlockResult'
      BY <1>1, <1>2, <1>4, <1>5, <1>9, <2>1 DEF BlockResult
    <2> QED BY <1>7, <2>2, <2>3 DEF BlockShape
  <1>10. CASE ~Again(k) /\ k = Ok
    <2>1. PICK v : Performed(Access(request), k, v)
      BY <1>6, <1>10 DEF Refused
    <2>2. v = transferData
      <3>1. ~Access(request).read
        BY <1>3 DEF Access
      <3> QED BY <2>1, <3>1 DEF Performed
    <2>3. /\ BlockAccesses' /\ Len(accesses') = n + 1 /\ accesses'[n + 1].value = v
          /\ \A i \in 1..n : accesses'[i] = accesses[i]
      BY <1>2, <1>3, <2>1, OneMoreAccess DEF BlockShape
    <2>4. completed' = completed + 1 /\ pc' = BlockLoop(request, count)
      BY <1>1, <1>10
    <2> HIDE DEF n, w
    <2>5. /\ n + 1 <= w /\ 1..(n + 1) = (1..n) \cup {n + 1} /\ completed' = n + 1
          /\ ~(count > 0) => n + 1 = w
      BY SMT, <1>4, <1>5, <2>4
    <2>6. \A i \in 1..(n + 1) : accesses'[i].value = sent.words[i]
      BY <1>5, <2>2, <2>3, <2>5
    <2>7. pc' \in {"blockword", "blocklast"} /\ (pc' = "blocklast" => ~(count > 0))
      BY <1>3, <2>4 DEF BlockLoop
    <2>8. WordsWritten'
      BY <1>2, <1>5, <2>3, <2>5, <2>6, <2>7 DEF WordsWritten, n, w
    <2>9. BlockResult'
      BY <2>7 DEF BlockResult
    <2> QED BY <1>7, <2>3, <2>8, <2>9 DEF BlockShape
  <1> QED BY <1>8, <1>9, <1>10

LEMMA BlockLastKeepsBlocks ==
  ASSUME TypeInv, RestInv, BaseInv, Blocking, BlockShape, BlockLast
  PROVE  BlockShape'
  <1>1. PICK k \in Answers :
          Attempt(Rdbuff, k) /\ ack' = k /\ IF Again(k) THEN UNCHANGED pc ELSE pc' = "blockend"
    BY DEF BlockLast
  <1>2. /\ pc = "blocklast" /\ UNCHANGED <<port, sent, count, request, taken, completed, out>>
        /\ pc' \in {"blocklast", "blockend"}
    BY DEF BlockLast, fixed, cursor, resp
  <1>3. UNCHANGED accesses
    BY <1>1, RdbuffIsNoAccess DEF TypeInv
  <1>4. /\ sent \in Commands /\ sent.kind = "block" /\ sent.request \notin Reads
    BY <1>2, RestOfBlock DEF BlockPlaces, Blocking, BlockShape, WordsRead
  <1>5. sent.count = Len(sent.words) /\ sent.count \in Nat
    BY <1>4, BlockCounts
  <1>6. Len(accesses) = sent.count /\ Len(accesses) <= sent.count
    BY <1>2, <1>4, <1>5 DEF BlockShape, WordsWritten
  <1>7. BlockAccesses' /\ WordsRead' /\ WordsWritten'
    BY <1>2, <1>3, <1>4 DEF BlockShape, BlockAccesses, WordsRead, WordsWritten
  <1>8. BlockResult'
    BY <1>2, <1>3, <1>6 DEF BlockResult
  <1> QED BY <1>7, <1>8 DEF BlockShape

\* The answer of a block, or none.
LEMMA BlockEndKeepsBlocks ==
  ASSUME Blocking, BlockShape, BlockEnd \/ (TooShort /\ pc # "done")
  PROVE  BlockShape'
  <1>1. /\ UNCHANGED <<sent, accesses, out, completed, ack>>
        /\ \/ pc = "blockend" /\ pc' = "done" /\ respCount' = completed /\ respAck' = ack
           \/ pc' = "failed"
    BY DEF BlockEnd, TooShort, fixed, wire, resp
  <1>2. BlockAccesses' /\ WordsRead' /\ WordsWritten'
    BY <1>1 DEF BlockShape, BlockAccesses, WordsRead, WordsWritten
  <1>3. BlockResult'
    BY <1>1 DEF BlockShape, BlockResult
  <1> QED BY <1>2, <1>3 DEF BlockShape

LEMMA StepKeepsBlocks ==
  TypeInv /\ RestInv /\ BaseInv /\ OfKind /\ BlockInv /\ [Next]_vars => BlockInv'
  <1> SUFFICES ASSUME TypeInv, RestInv, BaseInv, OfKind, BlockInv, [Next]_vars, Blocking'
               PROVE  BlockShape'
    BY DEF BlockInv
  <1>1. CASE Handler
    <2>0. ~Answered
      BY DEF Answered, Blocking
    <2>1. UNCHANGED <<sent, whole>> /\ Blocking /\ BlockShape
      <3>1. UNCHANGED fixed
        BY <1>1, <2>0, Zenon DEF Handler, Begin, Take, Collect, Read, Post, Match, SetMask, Write, End,
           Cancel, LastRead, BlockBegin, BlockPost, BlockRead, BlockWord, BlockWrite, BlockLast,
           BlockEnd, AbortBegin, WriteAbort, TooShort
      <3>2. UNCHANGED <<sent, whole>>
        BY <3>1 DEF fixed
      <3> QED BY <3>2 DEF Blocking, BlockInv
    <2>2. ~(Begin \/ Take \/ Collect \/ Read \/ Post \/ Match \/ SetMask \/ Write \/ End \/ Cancel
            \/ LastRead)
      <3>1. pc \notin TransferPlaces \cup {"transfer"}
        BY <2>1 DEF OfKind, Blocking
      <3> QED BY <3>1 DEF Begin, Take, Collect, Read, Post, Match, SetMask, Write, End, Cancel,
                          LastRead, TransferPlaces
    <2>3. ~(AbortBegin \/ WriteAbort)
      BY <2>1 DEF OfKind, Blocking, AbortBegin, WriteAbort
    <2>4. pc = "done" => ~TooShort
      <3>1. pc = "done" => Needed = 0
        BY DEF Needed
      <3>2. ~(Len(ring) < 0)
        BY SMT DEF TypeInv, InputTypes
      <3> QED BY <3>1, <3>2 DEF TooShort
    <2> QED BY <1>1, <2>0, <2>1, <2>2, <2>3, <2>4, BlockBeginKeepsBlocks, BlockPostKeepsBlocks,
               BlockReadKeepsBlocks, BlockWordKeepsBlocks, BlockWriteKeepsBlocks,
               BlockLastKeepsBlocks, BlockEndKeepsBlocks, Zenon DEF Handler
  <1>2. ASSUME NEW c \in Commands, Send(c) PROVE BlockShape'
    <2>1. /\ pc = "idle" /\ pc' = c.kind /\ sent' = c
          /\ UNCHANGED <<taken, completed, accesses, out, ack>>
      BY <1>2 DEF Send, wire, resp
    <2>2. taken = 0 /\ completed = 0 /\ accesses = <<>> /\ out = <<>> /\ ack = 0
      BY <2>1 DEF BaseInv, Fresh, StartPlaces
    <2>3. c.kind = "block"
      BY <2>1 DEF Blocking
    <2>4. /\ c.count \in Nat /\ c.words \in Seq(Nat)
          /\ c.request \notin Reads => c.count = Len(c.words)
      BY <2>3, BlockCounts
    <2> QED BY <2>1, <2>2, <2>3, <2>4, NoWordDone
  <1>3. ~(\E l \in Limits : TransferConfigure(l))
    <2> SUFFICES ASSUME NEW l \in Limits, TransferConfigure(l) PROVE FALSE
      OBVIOUS
    <2>1. sent = [kind |-> "none"] /\ UNCHANGED sent
      BY DEF TransferConfigure, BaseInv, Fresh
    <2> QED BY <2>1 DEF Blocking
  <1>4. CASE UNCHANGED vars
    <2>1. BlockShape
      BY <1>4 DEF vars, fixed, Blocking, BlockInv
    <2>2. UNCHANGED <<accesses, posted, transferData, out, sent, port, pc, count, request, taken,
                      completed, ack, respCount, respAck>>
      BY <1>4 DEF vars, fixed, wire, cursor, resp
    <2>3. BlockAccesses' /\ WordsWritten' /\ BlockResult'
      BY <2>1, <2>2 DEF BlockShape, BlockAccesses, WordsWritten, BlockResult
    <2>4. Posts(request)' <=> Posts(request)
      BY <2>2 DEF Posts
    <2>5. WordsRead'
      BY <2>1, <2>2, <2>4 DEF BlockShape, WordsRead
    <2> QED BY <2>3, <2>5 DEF BlockShape
  <1> QED BY <1>1, <1>2, <1>3, <1>4 DEF Next

LEMMA BlocksAreInvariant == Spec => [](TransferInv /\ BlockInv)
  <1>1. Init => BlockInv
    BY DEF Init, BlockInv, Blocking
  <1>2. TransferInv /\ BlockInv /\ [Next]_vars => BlockInv'
    BY StepKeepsBlocks DEF TransferInv
  <1> QED BY <1>1, <1>2, TransfersAreInvariant, PTL DEF Spec

\* A block that reports success has accessed its one register once per word; the
\* words read are its values in order, the words written those of the request; and
\* the count of a block that failed tells how many of them are good
\* (dap_handle_cmd_transfer_block, commands_transfer.c:426-527).
THEOREM BlocksAreExact == Spec => []BlockIsExact
  <1>1. TransferInv /\ BlockInv => BlockIsExact
    BY BlockShapeIsExact DEF TransferInv
  <1> QED BY <1>1, BlocksAreInvariant, PTL

-----------------------------------------------------------------------------
(***************************************************************************)
(* The commands implement the debug port of atomic accesses.               *)
(***************************************************************************)
Succeeded == whole /\ pc = "done" /\ respAck = Ok

\* The words that have been collected, and whether one more is on its way.
Collected == IF sent.kind = "block" THEN out ELSE data

OnItsWay ==
  \/ readPending /\ pc \notin {"done", "failed"}
  \/ pc = "blockread" /\ Posts(request)

LogEntry(a) == [reg |-> a.reg, read |-> a.read, value |-> a.value, wanted |-> Returned(a)]

\* A step of the port, or none.
PortStep == [AtomicPort!Next]_(AtomicPort!vars)

LEMMA WithOneMore ==
  ASSUME NEW s \in Seq(Nat), NEW x \in Nat
  PROVE  /\ s \o <<x>> = Append(s, x) /\ s \o <<>> = s
         /\ Append(s, x) # <<>> /\ Front(Append(s, x)) = s
  <1>1. s \o <<x>> = Append(s, x) /\ s \o <<>> = s
    BY AppendIsConcat, NothingBefore
  <1>2. Append(s, x) \in Seq(Nat) /\ Len(Append(s, x)) = Len(s) + 1 /\ Len(s) \in Nat
    OBVIOUS
  <1>3. Append(s, x) # <<>>
    BY SMT, <1>2
  <1>4. Front(Append(s, x)) = s
    <2>1. Len(s) + 1 - 1 = Len(s)
      BY SMT, <1>2
    <2>2. SubSeq(Append(s, x), 1, Len(s)) = s
      BY SMT
    <2> QED BY <1>2, <2>1, <2>2 DEF Front
  <1> QED BY <1>1, <1>3, <1>4

LEMMA ResultsAre ==
  ASSUME TypeInv, whole
  PROVE  /\ Collected \in Seq(Nat) /\ posted \in Nat
         /\ OnItsWay => AbstractResults = Append(Collected, posted)
         /\ ~OnItsWay => AbstractResults = Collected
  <1>1. out \in Seq(Nat) /\ data \in Seq(Nat) /\ posted \in Nat
    BY DEF TypeInv, LocalTypes, WireTypes
  <1>2. Collected \in Seq(Nat)
    BY <1>1 DEF Collected
  <1>3. /\ Collected \o <<posted>> = Append(Collected, posted)
        /\ Collected \o <<>> = Collected
    BY <1>1, <1>2, WithOneMore
  <1>4. Pipeline = IF OnItsWay THEN <<posted>> ELSE <<>>
    BY DEF Pipeline, OnItsWay
  <1>5. AbstractResults = Collected \o Pipeline
    BY DEF AbstractResults, Collected
  <1> QED BY <1>1, <1>2, <1>3, <1>4, <1>5

LEMMA ResultsBecome ==
  ASSUME TypeInv', whole'
  PROVE  /\ Collected' \in Seq(Nat) /\ posted' \in Nat
         /\ OnItsWay' => AbstractResults' = Append(Collected', posted')
         /\ ~OnItsWay' => AbstractResults' = Collected'
  <1>1. out' \in Seq(Nat) /\ data' \in Seq(Nat) /\ posted' \in Nat
    BY DEF TypeInv, LocalTypes, WireTypes
  <1>2. Collected' \in Seq(Nat)
    BY <1>1 DEF Collected
  <1>3. /\ Collected' \o <<posted'>> = Append(Collected', posted')
        /\ Collected' \o <<>> = Collected'
    BY <1>1, <1>2, WithOneMore
  <1>4. Pipeline' = IF OnItsWay' THEN <<posted'>> ELSE <<>>
    BY DEF Pipeline, OnItsWay
  <1>5. AbstractResults' = Collected' \o Pipeline'
    BY DEF AbstractResults, Collected
  <1> QED BY <1>1, <1>2, <1>3, <1>4, <1>5

LEMMA LogStays == UNCHANGED <<accesses, sent, whole>> => UNCHANGED AbstractLog
  BY DEF AbstractLog, Returned

\* An access is one entry more, wanted or not.
LEMMA PerformedIsLogged ==
  ASSUME TypeInv, UnitInv, whole, UNCHANGED <<sent, whole>>,
         NEW a \in AttemptRecord, NEW k, NEW v, Performed(a, k, v)
  PROVE  LET l == LogEntry(Entry(a, v))
         IN  /\ l.wanted = Returned(Entry(a, v)) /\ l.value = v
             /\ l \in AtomicPort!Accesses(l.wanted) /\ l.wanted \in BOOLEAN
             /\ AbstractLog' = Append(AbstractLog, l)
  <1> DEFINE e == Entry(a, v)
             l == LogEntry(e)
             n == Len(accesses)
             S == [reg : Registers, read : BOOLEAN, value : Nat, wanted : BOOLEAN]
  <1>1. accesses \in Seq(AccessRecord) /\ accesses' = Append(accesses, e)
    BY DEF TypeInv, WireTypes, Performed
  <1>2. /\ n \in Nat /\ Len(accesses') = n + 1 /\ accesses'[n + 1] = e
        /\ \A i \in 1..n : accesses'[i] = accesses[i]
    BY <1>1, OneMore
  <1>3. /\ e.reg \in Registers /\ e.read \in BOOLEAN /\ e.value = v
    BY DEF Entry, AttemptRecord
  <1>4. v \in Units /\ v \in Nat
    BY UnitsAreLegal DEF Performed, UnitInv
  <1>5. Returned(e) \in BOOLEAN
    BY <1>3 DEF Returned
  <1> HIDE DEF e
  <1>6. /\ l.wanted = Returned(e) /\ l.value = v /\ l \in S
        /\ l \in AtomicPort!Accesses(l.wanted)
    BY <1>3, <1>4, <1>5 DEF LogEntry, AtomicPort!Accesses
  <1>7. AbstractLog = [i \in 1..n |-> LogEntry(accesses[i])]
    BY DEF AbstractLog, LogEntry
  <1>8. \A b : Returned(b)' <=> Returned(b)
    BY DEF Returned
  <1>9. AbstractLog' = [i \in 1..(n + 1) |-> LogEntry(accesses'[i])]
    BY <1>2, <1>8 DEF AbstractLog, LogEntry
  <1>10. \A i \in 1..n : LogEntry(accesses[i]) \in S
    <2> SUFFICES ASSUME NEW i \in 1..n PROVE LogEntry(accesses[i]) \in S
      OBVIOUS
    <2>1. accesses[i] \in AccessRecord
      BY <1>1, ElementOfSeq
    <2>2. Returned(accesses[i]) \in BOOLEAN
      BY <2>1 DEF Returned, AccessRecord
    <2> QED BY <2>1, <2>2 DEF LogEntry, AccessRecord
  <1> HIDE DEF n, l, S
  <1>11. AbstractLog \in Seq(S) /\ Len(AbstractLog) = n /\ \A i \in 1..n : AbstractLog[i] = LogEntry(accesses[i])
    BY <1>2, <1>7, <1>10
  <1>12. LogEntry(e) = l
    BY DEF l
  <1>13. /\ \A i \in 1..(n + 1) : i \in 1..n \/ i = n + 1
         /\ \A i \in 1..n : i \in 1..(n + 1)
    BY SMT, <1>2
  <1>14. /\ AbstractLog' \in Seq(S) /\ Len(AbstractLog') = n + 1
         /\ \A i \in 1..(n + 1) : AbstractLog'[i] = LogEntry(accesses'[i])
    <2>1. \A i \in 1..(n + 1) : LogEntry(accesses'[i]) \in S
      BY <1>2, <1>6, <1>10, <1>12, <1>13
    <2> QED BY <1>2, <1>9, <2>1
  <1>15. /\ Append(AbstractLog, l) \in Seq(S) /\ Len(Append(AbstractLog, l)) = n + 1
         /\ \A i \in 1..n : Append(AbstractLog, l)[i] = AbstractLog[i]
         /\ Append(AbstractLog, l)[n + 1] = l
    BY SMT, <1>2, <1>6, <1>11
  <1>16. \A i \in 1..(n + 1) : AbstractLog'[i] = Append(AbstractLog, l)[i]
    BY <1>2, <1>11, <1>12, <1>13, <1>14, <1>15
  <1>17. AbstractLog' = Append(AbstractLog, l)
    BY <1>14, <1>15, <1>16, SeqEqual
  <1> QED BY <1>5, <1>6, <1>17 DEF l, e

\* What the results become, by what is collected and what is on its way.
LEMMA ResultsChange ==
  ASSUME TypeInv, TypeInv', whole, whole'
  PROVE  LET one == AbstractResults
             two == AbstractResults'
         IN  /\ (Collected' = Collected /\ (OnItsWay' <=> OnItsWay)
                   /\ (OnItsWay => posted' = posted)) => two = one
             /\ (Collected' = Collected /\ OnItsWay /\ ~OnItsWay') =>
                  one # <<>> /\ two = Front(one)
             /\ (Collected' = Append(Collected, posted) /\ OnItsWay /\ ~OnItsWay') => two = one
             /\ (Collected' = Collected /\ ~OnItsWay /\ OnItsWay') => two = Append(one, posted')
             /\ (Collected' = Append(Collected, posted) /\ OnItsWay /\ OnItsWay') =>
                  two = Append(one, posted')
             /\ \A v : (Collected' = Append(Collected, v) /\ ~OnItsWay /\ ~OnItsWay') =>
                  two = Append(one, v)
  <1>1. /\ Collected \in Seq(Nat) /\ posted \in Nat
        /\ OnItsWay => AbstractResults = Append(Collected, posted)
        /\ ~OnItsWay => AbstractResults = Collected
    BY ResultsAre
  <1>2. /\ Collected' \in Seq(Nat) /\ posted' \in Nat
        /\ OnItsWay' => AbstractResults' = Append(Collected', posted')
        /\ ~OnItsWay' => AbstractResults' = Collected'
    BY ResultsBecome
  <1>3. Append(Collected, posted) # <<>> /\ Front(Append(Collected, posted)) = Collected
    BY <1>1, WithOneMore
  <1> QED BY <1>1, <1>2, <1>3, Zenon

\* A step without an access, seen from the port: nothing, the end of a command or
\* its failure.
LEMMA WithoutAccess ==
  ASSUME UNCHANGED <<accesses, sent, whole>>,
         \/ /\ AbstractResults' = AbstractResults
            /\ (AbstractBroken' <=> AbstractBroken) /\ (Succeeded' <=> Succeeded)
         \/ /\ ~AbstractBroken /\ ~Succeeded /\ ~AbstractBroken' /\ Succeeded'
            /\ AbstractResults' = AbstractResults
         \/ /\ ~AbstractBroken /\ ~Succeeded /\ AbstractBroken' /\ ~Succeeded'
            /\ \/ AbstractResults' = AbstractResults
               \/ AbstractResults # <<>> /\ AbstractResults' = Front(AbstractResults)
  PROVE  PortStep
  <1>1. AbstractLog' = AbstractLog
    BY LogStays
  <1>2. AbstractBroken \in BOOLEAN /\ AbstractBroken' \in BOOLEAN
    BY DEF AbstractBroken
  <1>3. Succeeded \in BOOLEAN /\ Succeeded' \in BOOLEAN
    BY DEF Succeeded
  <1>4. AtomicPort!vars = <<AbstractLog, AbstractResults, AbstractBroken, Succeeded>>
    BY DEF AtomicPort!vars, Succeeded
  <1>5. CASE /\ AbstractResults' = AbstractResults
             /\ (AbstractBroken' <=> AbstractBroken) /\ (Succeeded' <=> Succeeded)
    <2>1. UNCHANGED AtomicPort!vars
      BY <1>1, <1>2, <1>3, <1>5 DEF AtomicPort!vars, Succeeded
    <2> QED BY <2>1 DEF PortStep
  <1>6. CASE /\ ~AbstractBroken /\ ~Succeeded /\ ~AbstractBroken' /\ Succeeded'
             /\ AbstractResults' = AbstractResults
    <2>1. AtomicPort!Succeed
      BY <1>1, <1>2, <1>6 DEF AtomicPort!Succeed, Succeeded
    <2> QED BY <2>1 DEF PortStep, AtomicPort!Next
  <1>7. CASE /\ ~AbstractBroken /\ ~Succeeded /\ AbstractBroken' /\ ~Succeeded'
             /\ \/ AbstractResults' = AbstractResults
                \/ AbstractResults # <<>> /\ AbstractResults' = Front(AbstractResults)
    <2>1. AtomicPort!Break
      BY <1>1, <1>2, <1>7 DEF AtomicPort!Break, AtomicPort!Front, Front, Succeeded
    <2> QED BY <2>1 DEF PortStep, AtomicPort!Next
  <1> QED BY <1>5, <1>6, <1>7

\* A step with an access: a read for the host, any other access, or a failure.
LEMMA WithAccess ==
  ASSUME TypeInv, UnitInv, whole, UNCHANGED <<sent, whole>>,
         ~AbstractBroken, ~Succeeded, ~Succeeded',
         NEW a \in AttemptRecord, NEW k, NEW v, Performed(a, k, v),
         \/ ~AbstractBroken' /\ Returned(Entry(a, v)) /\ AbstractResults' = Append(AbstractResults, v)
         \/ ~AbstractBroken' /\ ~Returned(Entry(a, v)) /\ AbstractResults' = AbstractResults
         \/ /\ AbstractBroken'
            /\ \/ AbstractResults' = AbstractResults
               \/ AbstractResults # <<>> /\ AbstractResults' = Front(AbstractResults)
  PROVE  PortStep
  <1> DEFINE l == LogEntry(Entry(a, v))
  <1>1. /\ l.wanted = Returned(Entry(a, v)) /\ l.value = v /\ l.wanted \in BOOLEAN
        /\ l \in AtomicPort!Accesses(l.wanted)
        /\ AbstractLog' = Append(AbstractLog, l)
    BY PerformedIsLogged
  <1> HIDE DEF l
  <1>2. AbstractBroken \in BOOLEAN /\ AbstractBroken' \in BOOLEAN
    BY DEF AbstractBroken
  <1>3. Succeeded \in BOOLEAN /\ Succeeded' \in BOOLEAN /\ Succeeded' = Succeeded
    BY DEF Succeeded
  <1>4. CASE ~AbstractBroken' /\ Returned(Entry(a, v)) /\ AbstractResults' = Append(AbstractResults, v)
    <2>1. l \in AtomicPort!Accesses(TRUE)
      <3>1. l.wanted = TRUE
        BY <1>1, <1>4
      <3> QED BY <1>1, <3>1
    <2>2. AtomicPort!Read
      BY <1>1, <1>2, <1>3, <1>4, <2>1 DEF AtomicPort!Read, Succeeded
    <2> QED BY <2>2 DEF PortStep, AtomicPort!Next
  <1>5. CASE ~AbstractBroken' /\ ~Returned(Entry(a, v)) /\ AbstractResults' = AbstractResults
    <2>1. l \in AtomicPort!Accesses(FALSE)
      <3>1. l.wanted = FALSE
        BY <1>1, <1>5
      <3> QED BY <1>1, <3>1
    <2>2. AtomicPort!WriteOrCompare
      BY <1>1, <1>2, <1>3, <1>5, <2>1 DEF AtomicPort!WriteOrCompare, Succeeded
    <2> QED BY <2>2 DEF PortStep, AtomicPort!Next
  <1>6. CASE /\ AbstractBroken'
             /\ \/ AbstractResults' = AbstractResults
                \/ AbstractResults # <<>> /\ AbstractResults' = Front(AbstractResults)
    <2>1. AtomicPort!Break
      BY <1>1, <1>2, <1>3, <1>6 DEF AtomicPort!Break, AtomicPort!Front, Front, Succeeded
    <2> QED BY <2>1 DEF PortStep, AtomicPort!Next
  <1> QED BY <1>4, <1>5, <1>6

\* An attempt after which the command goes no further, whatever it has accessed.
LEMMA AttemptBreaks ==
  ASSUME TypeInv, UnitInv, whole, UNCHANGED <<sent, whole>>,
         ~AbstractBroken, ~Succeeded, AbstractBroken', ~Succeeded',
         NEW a \in AttemptRecord, NEW k, (\E v : Performed(a, k, v)) \/ Refused(k),
         \/ AbstractResults' = AbstractResults
         \/ AbstractResults # <<>> /\ AbstractResults' = Front(AbstractResults)
  PROVE  PortStep
  <1>1. ASSUME NEW v, Performed(a, k, v) PROVE PortStep
    BY <1>1, WithAccess
  <1>2. CASE Refused(k)
    BY <1>2, WithoutAccess DEF Refused
  <1> QED BY <1>1, <1>2

\* An attempt that is made again is nothing to the port.
LEMMA AgainIsNothing ==
  ASSUME TypeInv, TypeInv', whole,
         UNCHANGED <<accesses, posted, sent, whole, pc, port, request, readPending, out, data, respAck>>,
         ~AbstractBroken, ~AbstractBroken'
  PROVE  PortStep
  <1>1. UNCHANGED Collected /\ (OnItsWay' <=> OnItsWay) /\ (Succeeded' <=> Succeeded)
    BY DEF Collected, OnItsWay, Succeeded, Posts
  <1>2. AbstractResults' = AbstractResults
    BY <1>1, ResultsChange
  <1> QED BY <1>1, <1>2, WithoutAccess

\* The acknowledgement of a command is reported at its end, and once it is known
\* when transfers are cancelled.
Reported ==
  /\ pc \in {"idle", "abort", "aborting"} => respAck = 0
  /\ pc = "cancel" => respAck = ack

LEMMA StepKeepsReport == Reported /\ [Next]_vars => Reported'
  <1> SUFFICES ASSUME Reported, [Next]_vars PROVE Reported'
    OBVIOUS
  <1> DEFINE P == {"idle", "abort", "aborting", "cancel"}
  <1>1. CASE Begin \/ Take \/ Collect \/ Read \/ Post \/ Match \/ SetMask \/ Write \/ LastRead
    <2>0. \A r : Start(r) \notin P /\ Loop \notin P
      BY DEF Start, Loop
    <2>1. CASE Begin \/ Post \/ SetMask
      BY <2>0, <2>1, Zenon DEF Begin, Post, SetMask, Reported
    <2>2. CASE Take
      BY <2>0, <2>2, Zenon DEF Take, Dispatch, Reported
    <2>3. CASE Collect
      <3>1. pc = "collect" /\ (pc' = pc \/ pc' = Start(request) \/ pc' \in {"end", "failed"})
        BY <2>3, StoreGoesOn, Zenon DEF Collect
      <3> QED BY <2>0, <3>1 DEF Reported
    <2>4. CASE Read
      <3>1. pc = "read" /\ (pc' = pc \/ pc' = Loop \/ pc' \in {"end", "failed"})
        BY <2>4, StoreGoesOn, Zenon DEF Read
      <3> QED BY <2>0, <3>1 DEF Reported
    <2>5. CASE Match \/ Write
      <3>1. pc \in {"match", "write"} /\ (pc' = pc \/ pc' = Loop \/ pc' = "end")
        BY <2>5 DEF Match, Write
      <3> QED BY <2>0, <3>1 DEF Reported
    <2>6. CASE LastRead
      <3>1. pc = "last" /\ (pc' = pc \/ pc' \in {"done", "failed"})
        BY <2>6, StoreGoesOn, Zenon DEF LastRead
      <3> QED BY <2>0, <3>1 DEF Reported
    <2> QED BY <1>1, <2>1, <2>2, <2>3, <2>4, <2>5, <2>6
  <1>2. CASE BlockBegin \/ BlockPost \/ BlockRead \/ BlockWord \/ BlockWrite \/ BlockLast \/ BlockEnd
    <2>0. \A r, n : BlockLoop(r, n) \notin P
      BY DEF BlockLoop
    <2>1. CASE BlockBegin
      BY <2>0, <2>1, Zenon DEF BlockBegin, Reported
    <2>2. CASE BlockPost
      BY <2>0, <2>2, Zenon DEF BlockPost, Reported
    <2>3. CASE BlockRead
      BY <2>0, <2>3, Zenon DEF BlockRead, Reported
    <2>4. CASE BlockWrite
      BY <2>0, <2>4, Zenon DEF BlockWrite, Reported
    <2>5. CASE BlockWord \/ BlockLast \/ BlockEnd
      BY <2>0, <2>5 DEF BlockWord, BlockLast, BlockEnd, Reported
    <2> QED BY <1>2, <2>1, <2>2, <2>3, <2>4, <2>5
  <1>3. CASE End \/ Cancel
    BY <1>3 DEF End, Cancel, Reported, resp
  <1>4. CASE AbortBegin \/ WriteAbort \/ TooShort \/ Answered
    BY <1>4, Zenon DEF AbortBegin, WriteAbort, TooShort, Answered, Reported, resp
  <1>5. CASE \E c \in Commands : Send(c)
    BY <1>5, CommandsAreLegal DEF Send, Reported, resp
  <1>6. CASE \E l \in Limits : TransferConfigure(l)
    BY <1>6 DEF TransferConfigure, Reported, resp
  <1>7. CASE UNCHANGED vars
    BY <1>7 DEF vars, Reported, resp
  <1>8. CASE Handler
    BY <1>1, <1>2, <1>3, <1>4, <1>8, Zenon DEF Handler
  <1> QED BY <1>5, <1>6, <1>7, <1>8 DEF Next

\* A step of the handler between two attempts that goes on: the port does nothing.
LEMMA NothingHappens ==
  ASSUME TypeInv, TypeInv', whole,
         UNCHANGED <<accesses, posted, sent, whole, port, request, readPending, out, data>>,
         ~Succeeded, ~Succeeded', AbstractBroken' <=> AbstractBroken,
         pc \notin {"done", "failed", "blockread"}, pc' \notin {"done", "failed", "blockread"}
  PROVE  PortStep
  <1>1. UNCHANGED Collected /\ (OnItsWay' <=> OnItsWay)
    BY DEF Collected, OnItsWay
  <1>2. AbstractResults' = AbstractResults
    BY <1>1, ResultsChange
  <1> QED BY <1>1, <1>2, WithoutAccess

LEMMA BeginMaps ==
  ASSUME TransferInv, TypeInv', whole, Begin
  PROVE  PortStep
  <1>1. /\ pc = "transfer" /\ pc' \in {"next", "end"} /\ ack = 0 /\ ~readPending
        /\ UNCHANGED <<accesses, posted, sent, whole, readPending, out, data, ack>>
    BY DEF Begin, fixed, wire, pending, resp, TransferInv, BaseInv, Fresh, StartPlaces
  <1>2. UNCHANGED Collected /\ ~OnItsWay /\ ~OnItsWay'
    BY <1>1 DEF Collected, OnItsWay
  <1>3. AbstractResults' = AbstractResults
    BY <1>1, <1>2, ResultsChange DEF TransferInv
  <1>4. ~AbstractBroken /\ ~Succeeded /\ ~Succeeded'
    BY <1>1 DEF AbstractBroken, Succeeded
  <1> QED BY <1>1, <1>3, <1>4, WithoutAccess

LEMMA TakeMaps ==
  ASSUME TransferInv, TypeInv', whole, Take
  PROVE  PortStep
  <1>1. /\ pc = "next" /\ UNCHANGED <<accesses, posted, sent, whole, port, readPending, out, data>>
        /\ pc' = "collect" \/ pc' = Start(ring[1])
    BY DEF Take, fixed, pending, resp, Dispatch
  <1>2. pc' \in Working
    BY <1>1 DEF Start, Working
  <1>3. /\ ~Succeeded /\ ~Succeeded' /\ ~AbstractBroken /\ ~AbstractBroken'
        /\ UNCHANGED Collected /\ (OnItsWay' <=> OnItsWay)
    BY <1>1, <1>2 DEF Succeeded, AbstractBroken, Working, Collected, OnItsWay
  <1>4. AbstractResults' = AbstractResults
    BY <1>1, <1>3, ResultsChange DEF TransferInv
  <1> QED BY <1>1, <1>3, <1>4, WithoutAccess

LEMMA SetMaskMaps ==
  ASSUME TransferInv, TypeInv', whole, SetMask
  PROVE  PortStep
  <1>1. /\ pc = "mask" /\ pc' \in {"next", "end"} /\ ack' = Ok
        /\ UNCHANGED <<accesses, posted, sent, whole, port, request, readPending, out, data>>
    BY DEF SetMask, fixed, wire, cursor, pending, resp, Loop
  <1>2. ~Succeeded /\ ~Succeeded' /\ ~AbstractBroken /\ ~AbstractBroken'
    BY <1>1 DEF Succeeded, AbstractBroken
  <1> QED BY <1>1, <1>2, NothingHappens DEF TransferInv

\* An access of a Transfer is returned to the host when it is a read and no match.
LEMMA ReturnedByTransfer ==
  ASSUME TransferInv, whole, pc \in {"read", "post", "match", "write"}, NEW v
  PROVE  Returned(Entry(Access(request), v)) <=> pc = "read"
  <1>1. sent.kind = "transfer" /\ Transferring
    BY DEF TransferInv, OfKind, TransferPlaces, Transferring
  <1>2. /\ Placed /\ Counted
    BY <1>1 DEF TransferInv, BaseInv, HistoryInv
  <1>3. IsPlainRead(sent.batch[taken]) <=> pc = "read"
    BY <1>2, AtHand
  <1>4. pc = "read" => request \in Reads
    BY <1>2 DEF Placed
  <1>5. Entry(Access(request), v).by = taken /\ Entry(Access(request), v).read = (request \in Reads)
    BY DEF Entry, Access
  <1> QED BY <1>1, <1>3, <1>4, <1>5 DEF Returned

\* An attempt of a match or a write, which hands nothing to the host.
LEMMA NothingForHost ==
  ASSUME TransferInv, TypeInv', whole, pc \in {"post", "match", "write"}, ~Succeeded',
         pc' \notin {"done", "failed", "blockread"},
         UNCHANGED <<sent, whole, port, request, readPending, out, data>>,
         NEW k,
         \/ (\E v : Performed(Access(request), k, v)) /\ ~AbstractBroken'
         \/ ((\E v : Performed(Access(request), k, v)) \/ Refused(k)) /\ AbstractBroken'
  PROVE  PortStep
  <1>1. ~AbstractBroken /\ ~Succeeded /\ ~readPending
    BY DEF AbstractBroken, Succeeded, TransferInv, BaseInv, Placed, Working
  <1>2. UNCHANGED Collected /\ ~OnItsWay /\ ~OnItsWay'
    BY <1>1 DEF Collected, OnItsWay
  <1>3. AbstractResults' = AbstractResults
    BY <1>2, ResultsChange DEF TransferInv
  <1>4. Access(request) \in AttemptRecord
    BY AttemptsAreTyped
  <1>5. CASE AbstractBroken'
    BY <1>1, <1>3, <1>4, <1>5, AttemptBreaks DEF TransferInv, BaseInv
  <1>6. ASSUME NEW v, Performed(Access(request), k, v), ~AbstractBroken' PROVE PortStep
    <2>1. ~Returned(Entry(Access(request), v))
      BY ReturnedByTransfer
    <2> QED BY <1>1, <1>3, <1>4, <1>6, <2>1, WithAccess DEF TransferInv, BaseInv
  <1> QED BY <1>5, <1>6

LEMMA PostMaps ==
  ASSUME TransferInv, TypeInv', whole, Post
  PROVE  PortStep
  <1>1. PICK k \in Answers :
          /\ Attempt(Access(request), k) /\ ack' = k
          /\ IF Again(k) THEN UNCHANGED pc ELSE pc' = IF k = Ok THEN "match" ELSE "end"
    BY DEF Post
  <1>2. /\ pc = "post"
        /\ UNCHANGED <<sent, whole, port, request, readPending, out, data, respAck>>
    BY DEF Post, fixed, cursor, pending, resp
  <1>3. (\E v : Performed(Access(request), k, v)) \/ Refused(k)
    BY <1>1, AttemptsAreTyped, AccessIsPerformed DEF TransferInv, TypeInv, Access
  <1>4. ~Succeeded' /\ pc' \notin {"done", "failed", "blockread"}
    BY <1>1, <1>2 DEF Succeeded
  <1>5. CASE Again(k)
    <2>1. ~AbstractBroken /\ ~AbstractBroken' /\ UNCHANGED pc
      BY <1>1, <1>2, <1>5 DEF AbstractBroken
    <2> QED BY <1>1, <1>2, <1>5, <2>1, AgainIsRefused, AgainIsNothing DEF TransferInv
  <1>6. CASE k = Ok /\ ~Again(k)
    <2>1. ~AbstractBroken' /\ ~Refused(k)
      BY <1>1, <1>6 DEF AbstractBroken, Refused
    <2> QED BY <1>2, <1>3, <1>4, <2>1, NothingForHost
  <1>7. CASE k # Ok /\ ~Again(k)
    <2>1. AbstractBroken'
      BY <1>1, <1>2, <1>7 DEF AbstractBroken
    <2> QED BY <1>2, <1>3, <1>4, <2>1, NothingForHost
  <1> QED BY <1>5, <1>6, <1>7

LEMMA WriteMaps ==
  ASSUME TransferInv, TypeInv', whole, Write
  PROVE  PortStep
  <1>1. PICK k \in Answers :
          /\ Attempt(Access(request), k) /\ ack' = k
          /\ \/ Again(k) /\ UNCHANGED pc
             \/ ~Again(k) /\ k # Ok /\ pc' = "end"
             \/ k = Ok /\ pc' = Loop
    BY DEF Write
  <1>2. /\ pc = "write" /\ Loop \in {"next", "end"}
        /\ UNCHANGED <<sent, whole, port, request, readPending, out, data, respAck>>
    BY DEF Write, fixed, cursor, resp, Loop
  <1>3. (\E v : Performed(Access(request), k, v)) \/ Refused(k)
    BY <1>1, AttemptsAreTyped, AccessIsPerformed DEF TransferInv, TypeInv, Access
  <1>4. ~Succeeded' /\ pc' \notin {"done", "failed", "blockread"}
    BY <1>1, <1>2 DEF Succeeded
  <1>5. CASE Again(k)
    <2>1. ~AbstractBroken /\ ~AbstractBroken' /\ UNCHANGED pc
      BY <1>1, <1>2, <1>5, AnswersAreApart DEF AbstractBroken, Again
    <2> QED BY <1>1, <1>2, <1>5, <2>1, AgainIsRefused, AgainIsNothing DEF TransferInv
  <1>6. CASE k = Ok /\ ~Again(k)
    <2>1. ~AbstractBroken' /\ ~Refused(k)
      BY <1>1, <1>2, <1>6 DEF AbstractBroken, Refused
    <2> QED BY <1>2, <1>3, <1>4, <2>1, NothingForHost
  <1>7. CASE k # Ok /\ ~Again(k)
    <2>1. AbstractBroken'
      BY <1>1, <1>2, <1>7 DEF AbstractBroken
    <2> QED BY <1>2, <1>3, <1>4, <2>1, NothingForHost
  <1> QED BY <1>5, <1>6, <1>7

LEMMA MatchMaps ==
  ASSUME TransferInv, TypeInv', whole, Match
  PROVE  PortStep
  <1> DEFINE equal == And(transferData', mask) = matchValue
  <1>1. PICK k \in Answers :
          /\ Attempt(Access(request), k)
          /\ \/ Again(k) /\ UNCHANGED pc /\ ack' = k
             \/ k = Ok /\ UNCHANGED pc /\ ack' = k
             \/ k = Ok /\ pc' = Loop /\ ack' = k
             \/ /\ ~Again(k) /\ (k # Ok \/ ~equal)
                /\ ack' = IF equal THEN k ELSE k + Mismatch
                /\ pc' = "end"
    BY DEF Match
  <1> HIDE DEF equal
  <1>2. /\ pc = "match" /\ Loop \in {"next", "end"}
        /\ UNCHANGED <<sent, whole, port, request, readPending, out, data, respAck>>
    BY DEF Match, fixed, cursor, resp, Loop
  <1>3. (\E v : Performed(Access(request), k, v)) \/ Refused(k)
    BY <1>1, AttemptsAreTyped, AccessIsPerformed DEF TransferInv, TypeInv, Access
  <1>4. ~Succeeded' /\ pc' \notin {"done", "failed", "blockread"}
    BY <1>1, <1>2 DEF Succeeded
  <1>5. CASE Again(k) /\ UNCHANGED pc
    <2>1. ~AbstractBroken /\ ~AbstractBroken'
      BY <1>2, <1>5 DEF AbstractBroken
    <2> QED BY <1>1, <1>2, <1>5, <2>1, AgainIsRefused, AgainIsNothing DEF TransferInv
  <1>6. CASE k = Ok /\ ack' = k
    <2>1. ~AbstractBroken' /\ ~Refused(k)
      BY <1>1, <1>2, <1>6 DEF AbstractBroken, Refused
    <2> QED BY <1>2, <1>3, <1>4, <2>1, NothingForHost
  <1>7. CASE pc' = "end" /\ (k # Ok \/ ~equal) /\ ack' = IF equal THEN k ELSE k + Mismatch
    <2>1. ack' # Ok
      <3>1. k \in Nat
        BY NumbersAreNat
      <3>2. k + Mismatch # Ok
        BY SMT, <3>1 DEF Mismatch, Ok
      <3> QED BY <1>7, <3>2
    <2>2. AbstractBroken'
      BY <1>2, <1>7, <2>1 DEF AbstractBroken
    <2> QED BY <1>2, <1>3, <1>4, <2>2, NothingForHost
  <1> QED BY <1>1, <1>5, <1>6, <1>7

LEMMA ReadMaps ==
  ASSUME TransferInv, TypeInv', whole, Read
  PROVE  PortStep
  <1>1. PICK k \in Answers :
          /\ Attempt(Access(request), k) /\ ack' = k
          /\ \/ Again(k) /\ UNCHANGED <<pc, pending, data>>
             \/ ~Again(k) /\ k # Ok /\ pc' = "end" /\ UNCHANGED <<pending, data>>
             \/ /\ k = Ok
                /\ IF Posts(request)
                     THEN readPending' = TRUE /\ pc' = Loop /\ UNCHANGED <<ring, data>>
                     ELSE Store(transferData', Loop) /\ UNCHANGED readPending
    BY DEF Read
  <1>2. /\ pc = "read" /\ ~readPending /\ Loop \in {"next", "end"} /\ request \in Reads
        /\ sent.kind = "transfer" /\ port # "disabled"
        /\ UNCHANGED <<sent, whole, port, request, out, respAck>>
    BY DEF Read, fixed, resp, Loop, TransferInv, BaseInv, Placed, Working, OfKind, TransferPlaces
  <1>3. (\E v : Performed(Access(request), k, v)) \/ Refused(k)
    BY <1>1, AttemptsAreTyped, AccessIsPerformed DEF TransferInv, TypeInv, Access
  <1>4. Access(request) \in AttemptRecord
    BY AttemptsAreTyped
  <1>5. ~AbstractBroken /\ ~Succeeded /\ ~OnItsWay
    BY <1>2 DEF AbstractBroken, Succeeded, OnItsWay
  <1>6. CASE Again(k) /\ UNCHANGED <<pc, pending, data>>
    <2>1. ~AbstractBroken'
      BY <1>2, <1>6 DEF AbstractBroken
    <2> QED BY <1>1, <1>2, <1>5, <1>6, <2>1, AgainIsRefused, AgainIsNothing DEF TransferInv, pending
  <1>7. CASE k # Ok /\ pc' = "end" /\ UNCHANGED <<pending, data>>
    <2>1. AbstractBroken' /\ ~Succeeded' /\ ~OnItsWay' /\ UNCHANGED Collected
      BY <1>1, <1>2, <1>7 DEF AbstractBroken, Succeeded, OnItsWay, Collected, pending
    <2>2. AbstractResults' = AbstractResults
      BY <1>2, <1>5, <2>1, ResultsChange DEF TransferInv
    <2> QED BY <1>2, <1>3, <1>4, <1>5, <2>1, <2>2, AttemptBreaks DEF TransferInv, BaseInv
  <1>8. CASE /\ k = Ok
             /\ IF Posts(request)
                  THEN readPending' = TRUE /\ pc' = Loop /\ UNCHANGED <<ring, data>>
                  ELSE Store(transferData', Loop) /\ UNCHANGED readPending
    <2>1. PICK v : Performed(Access(request), k, v)
      BY <1>3, <1>8 DEF Refused
    <2>2. port \in {"jtag", "swd"}
      BY <1>2 DEF TransferInv, TypeInv, InputTypes
    <2>3. /\ Direct(Access(request)) <=> ~Posts(request)
          /\ Access(request).read
      BY <1>2, <2>2, DirectOrPosted
    <2>4. Returned(Entry(Access(request), v))
      BY <1>2, ReturnedByTransfer
    <2>5. ~Succeeded'
      BY <1>2, <1>8, StoreGoesOn DEF Succeeded
    <2>6. CASE Posts(request)
      <3>1. posted' = v
        BY <1>8, <2>1, <2>3, <2>6 DEF Performed
      <3>2. OnItsWay' /\ UNCHANGED Collected /\ ~AbstractBroken'
        BY <1>1, <1>2, <1>8, <2>6 DEF OnItsWay, Collected, AbstractBroken
      <3>3. AbstractResults' = Append(AbstractResults, v)
        BY <1>2, <1>5, <3>1, <3>2, ResultsChange DEF TransferInv
      <3> QED BY <1>2, <1>4, <1>5, <2>1, <2>4, <2>5, <3>2, <3>3, WithAccess DEF TransferInv, BaseInv
    <2>7. CASE ~Posts(request) /\ Len(data) < RequestSpace
      <3>1. transferData' = v /\ data' = Append(data, transferData') /\ pc' = Loop /\ ~readPending'
        BY <1>2, <1>8, <2>1, <2>3, <2>7 DEF Performed, Store
      <3>2. ~OnItsWay' /\ Collected' = Append(Collected, v) /\ ~AbstractBroken'
        BY <1>1, <1>2, <1>8, <3>1 DEF OnItsWay, Collected, AbstractBroken
      <3>3. AbstractResults' = Append(AbstractResults, v)
        BY <1>2, <1>5, <3>2, ResultsChange DEF TransferInv
      <3> QED BY <1>2, <1>4, <1>5, <2>1, <2>4, <2>5, <3>2, <3>3, WithAccess DEF TransferInv, BaseInv
    <2>8. CASE ~Posts(request) /\ ~(Len(data) < RequestSpace)
      <3>1. pc' = "failed" /\ UNCHANGED data /\ ~readPending'
        BY <1>2, <1>8, <2>8 DEF Store
      <3>2. ~OnItsWay' /\ UNCHANGED Collected /\ AbstractBroken'
        BY <1>2, <3>1 DEF OnItsWay, Collected, AbstractBroken
      <3>3. AbstractResults' = AbstractResults
        BY <1>2, <1>5, <3>2, ResultsChange DEF TransferInv
      <3> QED BY <1>2, <1>4, <1>5, <2>1, <2>5, <3>2, <3>3, WithAccess DEF TransferInv, BaseInv
    <2> QED BY <2>6, <2>7, <2>8
  <1> QED BY <1>1, <1>6, <1>7, <1>8

\* A read that was on its way is collected, or is lost when the command breaks.
LEMMA OnItsWayEnds ==
  ASSUME TransferInv, TypeInv', whole, UNCHANGED <<accesses, sent, whole>>,
         OnItsWay, ~OnItsWay', ~AbstractBroken, ~Succeeded,
         \/ /\ Collected' = Append(Collected, posted)
            /\ ~AbstractBroken' \/ ~Succeeded'
         \/ Collected' = Collected /\ AbstractBroken' /\ ~Succeeded'
  PROVE  PortStep
  <1>1. CASE Collected' = Append(Collected, posted) /\ (~AbstractBroken' \/ ~Succeeded')
    <2>1. AbstractResults' = AbstractResults
      BY <1>1, ResultsChange DEF TransferInv
    <2> QED BY <1>1, <2>1, WithoutAccess
  <1>2. CASE Collected' = Collected /\ AbstractBroken' /\ ~Succeeded'
    <2>1. AbstractResults # <<>> /\ AbstractResults' = Front(AbstractResults)
      BY <1>2, ResultsChange DEF TransferInv
    <2> QED BY <1>2, <2>1, WithoutAccess
  <1> QED BY <1>1, <1>2

LEMMA CollectMaps ==
  ASSUME TransferInv, TypeInv', whole, Collect
  PROVE  PortStep
  <1>1. PICK k \in Answers :
          /\ Attempt(Rdbuff, k) /\ ack' = k
          /\ IF Again(k) THEN UNCHANGED <<pc, readPending, data>>
             ELSE /\ readPending' = FALSE
                  /\ IF k = Ok THEN Store(transferData', Start(request))
                               ELSE pc' = "end" /\ UNCHANGED data
    BY DEF Collect
  <1>2. /\ pc = "collect" /\ readPending /\ sent.kind = "transfer"
        /\ UNCHANGED <<sent, whole, port, request, out, respAck>>
    BY DEF Collect, fixed, resp, TransferInv, BaseInv, Placed, OfKind, TransferPlaces
  <1>3. UNCHANGED accesses /\ (k = Ok => transferData' = posted)
    BY <1>1, RdbuffIsNoAccess DEF TransferInv, TypeInv
  <1>4. ~AbstractBroken /\ ~Succeeded /\ OnItsWay
    BY <1>2 DEF AbstractBroken, Succeeded, OnItsWay
  <1>5. CASE Again(k)
    <2>1. ~AbstractBroken'
      BY <1>1, <1>2, <1>5 DEF AbstractBroken
    <2> QED BY <1>1, <1>2, <1>4, <1>5, <2>1, AgainIsRefused, AgainIsNothing DEF TransferInv
  <1>6. CASE ~Again(k) /\ k = Ok /\ Len(data) < RequestSpace
    <2>1. data' = Append(data, posted) /\ pc' = Start(request) /\ ~readPending'
      BY <1>1, <1>3, <1>6 DEF Store
    <2>2. pc' \in Working
      BY <2>1 DEF Start, Working
    <2>3. ~OnItsWay' /\ Collected' = Append(Collected, posted) /\ ~AbstractBroken'
      BY <1>2, <2>1, <2>2 DEF OnItsWay, Collected, AbstractBroken, Working
    <2> QED BY <1>2, <1>3, <1>4, <2>3, OnItsWayEnds
  <1>7. CASE ~Again(k) /\ (k # Ok \/ ~(Len(data) < RequestSpace))
    <2>1. UNCHANGED data /\ pc' \in {"end", "failed"} /\ ~readPending' /\ (pc' = "end" => ack' # Ok)
      BY <1>1, <1>7 DEF Store
    <2>2. ~OnItsWay' /\ Collected' = Collected /\ AbstractBroken' /\ ~Succeeded'
      BY <1>2, <2>1 DEF OnItsWay, Collected, AbstractBroken, Succeeded
    <2> QED BY <1>2, <1>3, <1>4, <2>2, OnItsWayEnds
  <1> QED BY <1>5, <1>6, <1>7

LEMMA EndMaps ==
  ASSUME TransferInv, Reported, TypeInv', whole, End \/ Cancel
  PROVE  PortStep
  <1>1. /\ pc \in {"end", "cancel"} /\ pc' \in {"cancel", "last", "done"}
        /\ pc' = "last" => ack = Ok
        /\ pc' = "done" /\ ack = Ok => ~readPending
        /\ respAck' = ack
        /\ UNCHANGED <<accesses, posted, sent, whole, port, request, readPending, out, data, ack>>
    BY DEF End, Cancel, Remains, fixed, wire, cursor, pending, resp, Reported
  <1>2. ack # Ok => ~readPending
    BY <1>1 DEF TransferInv, BaseInv, Placed
  <1>3. UNCHANGED Collected /\ (OnItsWay' <=> OnItsWay)
    BY <1>1, <1>2 DEF Collected, OnItsWay
  <1>4. AbstractResults' = AbstractResults
    BY <1>1, <1>3, ResultsChange DEF TransferInv
  <1>5. /\ AbstractBroken <=> ack # Ok
        /\ AbstractBroken' <=> ack # Ok
        /\ ~Succeeded /\ (Succeeded' => ack = Ok)
    BY <1>1 DEF AbstractBroken, Succeeded
  <1> QED BY <1>1, <1>4, <1>5, WithoutAccess

LEMMA LastReadMaps ==
  ASSUME TransferInv, TypeInv', whole, LastRead
  PROVE  PortStep
  <1>1. PICK k \in Answers :
          /\ Attempt(Rdbuff, k) /\ ack' = k
          /\ IF Again(k) THEN UNCHANGED <<pc, respAck, data>>
             ELSE /\ IF k = Ok /\ readPending THEN Store(transferData', "done")
                                             ELSE pc' = "done" /\ UNCHANGED data
                  /\ respAck' = IF pc' = "done" THEN k ELSE respAck
    BY DEF LastRead
  <1>2. /\ pc = "last" /\ sent.kind = "transfer"
        /\ UNCHANGED <<sent, whole, port, request, out, readPending>>
    BY DEF LastRead, fixed, pending, TransferInv, OfKind, TransferPlaces
  <1>3. UNCHANGED accesses /\ (k = Ok => transferData' = posted)
    BY <1>1, RdbuffIsNoAccess DEF TransferInv, TypeInv
  <1>4. ~AbstractBroken /\ ~Succeeded /\ (OnItsWay <=> readPending)
    BY <1>2 DEF AbstractBroken, Succeeded, OnItsWay
  <1>5. CASE Again(k)
    <2>1. ~AbstractBroken'
      BY <1>1, <1>2, <1>5 DEF AbstractBroken
    <2> QED BY <1>1, <1>2, <1>4, <1>5, <2>1, AgainIsRefused, AgainIsNothing
            DEF TransferInv
  <1>6. CASE ~Again(k) /\ k = Ok /\ readPending /\ Len(data) < RequestSpace
    <2>1. data' = Append(data, posted) /\ pc' = "done" /\ respAck' = Ok /\ ack' = Ok
      BY <1>1, <1>3, <1>6 DEF Store
    <2>2. ~OnItsWay' /\ Collected' = Append(Collected, posted) /\ ~AbstractBroken'
      BY <1>2, <2>1 DEF OnItsWay, Collected, AbstractBroken
    <2> QED BY <1>2, <1>3, <1>4, <1>6, <2>2, OnItsWayEnds
  <1>7. CASE ~Again(k) /\ readPending /\ (k # Ok \/ ~(Len(data) < RequestSpace))
    <2>1. /\ UNCHANGED data
          /\ \/ pc' = "failed"
             \/ pc' = "done" /\ ack' # Ok /\ respAck' # Ok
      BY <1>1, <1>7 DEF Store
    <2>2. ~OnItsWay' /\ Collected' = Collected /\ AbstractBroken' /\ ~Succeeded'
      BY <1>2, <2>1 DEF OnItsWay, Collected, AbstractBroken, Succeeded
    <2> QED BY <1>2, <1>3, <1>4, <1>7, <2>2, OnItsWayEnds
  <1>8. CASE ~Again(k) /\ ~readPending
    <2>1. UNCHANGED data /\ pc' = "done" /\ respAck' = k /\ ack' = k
      BY <1>1, <1>8
    <2>2. /\ ~OnItsWay' /\ Collected' = Collected
          /\ AbstractBroken' <=> k # Ok
          /\ Succeeded' <=> k = Ok
      BY <1>2, <2>1 DEF OnItsWay, Collected, AbstractBroken, Succeeded
    <2>3. AbstractResults' = AbstractResults
      BY <1>2, <1>4, <1>8, <2>2, ResultsChange DEF TransferInv
    <2> QED BY <1>2, <1>3, <1>4, <2>2, <2>3, WithoutAccess
  <1> QED BY <1>5, <1>6, <1>7, <1>8

LEMMA BlockBeginMaps ==
  ASSUME TransferInv, TypeInv', whole, BlockBegin
  PROVE  PortStep
  <1>1. /\ pc = "block" /\ ack = 0 /\ ~readPending
        /\ UNCHANGED <<accesses, posted, sent, whole, port, readPending, out, data, ack>>
        /\ \/ pc' = "blockend"
           \/ pc' = "blockpost"
           \/ pc' = BlockLoop(request', count') /\ ~(request' \in Reads /\ Posts(request'))
    BY DEF BlockBegin, fixed, pending, resp, TransferInv, BaseInv, Fresh, StartPlaces
  <1>2. /\ pc' \in {"blockend", "blockpost", "blockread", "blockword", "blocklast"}
        /\ pc' = "blockread" => ~Posts(request')
    BY <1>1 DEF BlockLoop
  <1>3. Posts(request)' <=> Posts(request')
    BY <1>1 DEF Posts
  <1>4. UNCHANGED Collected /\ ~OnItsWay /\ ~OnItsWay'
    BY <1>1, <1>2, <1>3 DEF Collected, OnItsWay
  <1>5. AbstractResults' = AbstractResults
    BY <1>1, <1>4, ResultsChange DEF TransferInv
  <1>6. ~AbstractBroken /\ ~Succeeded /\ ~Succeeded'
    BY <1>1, <1>2 DEF AbstractBroken, Succeeded
  <1> QED BY <1>1, <1>5, <1>6, WithoutAccess

\* An access of a block is returned to the host when it is a read of a word.
LEMMA ReturnedByBlock ==
  ASSUME sent.kind = "block", NEW v
  PROVE  Returned(Entry(Access(request), v)) <=> request \in Reads /\ sent.count > 0
  BY DEF Returned, Entry, Access

LEMMA BlockPostMaps ==
  ASSUME TransferInv, BlockInv, TypeInv', whole, BlockPost
  PROVE  PortStep
  <1>1. PICK k \in Answers :
          /\ Attempt(Access(request), k) /\ ack' = k
          /\ IF Again(k) THEN UNCHANGED pc
                         ELSE pc' = IF k = Ok THEN BlockLoop(request, count) ELSE "blockend"
    BY DEF BlockPost
  <1>2. /\ pc = "blockpost" /\ ~readPending /\ port # "disabled"
        /\ UNCHANGED <<sent, whole, port, count, request, readPending, out, data, respAck>>
    BY DEF BlockPost, fixed, cursor, pending, resp, TransferInv, BaseInv, Placed, BlockPlaces
  <1>3. sent.kind = "block" /\ request = sent.request
    BY <1>2, RestOfBlock DEF TransferInv, BlockPlaces
  <1>4. request \in Reads /\ Posts(request) /\ count = sent.count
    BY <1>2, <1>3 DEF BlockInv, Blocking, BlockShape, WordsRead, WordsWritten
  <1>5. (\E v : Performed(Access(request), k, v)) \/ Refused(k)
    BY <1>1, AttemptsAreTyped, AccessIsPerformed DEF TransferInv, TypeInv, Access
  <1>6. Access(request) \in AttemptRecord
    BY AttemptsAreTyped
  <1>7. ~AbstractBroken /\ ~Succeeded /\ ~OnItsWay
    BY <1>2 DEF AbstractBroken, Succeeded, OnItsWay
  <1>8. CASE Again(k)
    <2>1. ~AbstractBroken'
      BY <1>1, <1>2, <1>8 DEF AbstractBroken
    <2> QED BY <1>1, <1>2, <1>7, <1>8, <2>1, AgainIsRefused, AgainIsNothing DEF TransferInv
  <1>9. CASE ~Again(k) /\ k # Ok
    <2>1. pc' = "blockend" /\ ack' # Ok
      BY <1>1, <1>9
    <2>2. AbstractBroken' /\ ~Succeeded' /\ ~OnItsWay' /\ UNCHANGED Collected
      BY <1>2, <2>1 DEF AbstractBroken, Succeeded, OnItsWay, Collected
    <2>3. AbstractResults' = AbstractResults
      BY <1>2, <1>7, <2>2, ResultsChange DEF TransferInv
    <2> QED BY <1>2, <1>5, <1>6, <1>7, <2>2, <2>3, AttemptBreaks DEF TransferInv, BaseInv
  <1>10. CASE ~Again(k) /\ k = Ok
    <2>1. PICK v : Performed(Access(request), k, v)
      BY <1>5, <1>10 DEF Refused
    <2>2. posted' = v
      <3>1. port \in {"jtag", "swd"}
        BY <1>2 DEF TransferInv, TypeInv, InputTypes
      <3>2. ~Direct(Access(request)) /\ Access(request).read
        BY <1>4, <3>1, DirectOrPosted
      <3> QED BY <1>10, <2>1, <3>2 DEF Performed
    <2>3. /\ pc' = (IF count > 0 THEN "blockread" ELSE "blockend") /\ ack' = Ok
      BY <1>1, <1>4, <1>10 DEF BlockLoop
    <2>4. Posts(request)' <=> Posts(request)
      BY <1>2 DEF Posts
    <2>5. ~AbstractBroken' /\ ~Succeeded' /\ UNCHANGED Collected /\ (OnItsWay' <=> count > 0)
      BY <1>2, <1>4, <2>3, <2>4 DEF AbstractBroken, Succeeded, Collected, OnItsWay
    <2>6. /\ count > 0 => AbstractResults' = Append(AbstractResults, v)
          /\ ~(count > 0) => AbstractResults' = AbstractResults
      BY <1>2, <1>7, <2>2, <2>5, ResultsChange DEF TransferInv
    <2>7. Returned(Entry(Access(request), v)) <=> count > 0
      BY <1>3, <1>4, ReturnedByBlock
    <2> QED BY <1>2, <1>6, <1>7, <2>1, <2>5, <2>6, <2>7, WithAccess DEF TransferInv, BaseInv
  <1> QED BY <1>8, <1>9, <1>10

LEMMA BlockReadMaps ==
  ASSUME TransferInv, BlockInv, TypeInv', whole, BlockRead
  PROVE  PortStep
  <1>1. PICK k \in Answers :
          /\ Attempt(BlockAccess, k) /\ ack' = k
          /\ IF Again(k) THEN UNCHANGED <<pc, count, out>>
             ELSE /\ count' = count - 1
                  /\ IF k = Ok /\ Len(out) < ResponseSpace
                       THEN /\ out' = Append(out, transferData')
                            /\ pc' = BlockLoop(request, count')
                       ELSE /\ pc' = IF k = Ok THEN "failed" ELSE "blockend"
                            /\ UNCHANGED out
    BY DEF BlockRead
  <1>2. /\ pc = "blockread" /\ ~readPending /\ port \in {"jtag", "swd"} /\ count \in Nat /\ count > 0
        /\ UNCHANGED <<sent, whole, port, request, readPending, data, respAck>>
    BY DEF BlockRead, fixed, pending, TransferInv, BaseInv, Placed, BlockPlaces, TypeInv, InputTypes,
           LoopBounds
  <1>3. sent \in Commands /\ sent.kind = "block" /\ request = sent.request /\ request \in Reads
    BY <1>2, RestOfBlock DEF TransferInv, BlockPlaces
  <1>4. sent.count > 0
    <2>1. count + Len(out) = sent.count
      BY <1>2, <1>3 DEF BlockInv, Blocking, BlockShape, WordsRead
    <2>2. Len(out) \in Nat
      BY LenProperties DEF TransferInv, TypeInv, LocalTypes
    <2> QED BY SMT, <1>2, <2>1, <2>2
  <1>5. Posts(request)' <=> Posts(request)
    BY <1>2 DEF Posts
  <1>6. ~AbstractBroken /\ ~Succeeded /\ (OnItsWay <=> Posts(request)) /\ Access(request) \in AttemptRecord
    BY <1>2, AttemptsAreTyped DEF AbstractBroken, Succeeded, OnItsWay
  <1>7. CASE Again(k)
    <2>1. ~AbstractBroken'
      BY <1>1, <1>2, <1>7 DEF AbstractBroken
    <2> QED BY <1>1, <1>2, <1>6, <1>7, <2>1, AgainIsRefused, AgainIsNothing DEF TransferInv
  <1>8. CASE ~Again(k) /\ k = Ok /\ Len(out) < ResponseSpace
    <2>1. /\ out' = Append(out, transferData') /\ ack' = Ok
          /\ pc' = IF count' > 0 THEN "blockread" ELSE "blockend"
      BY <1>1, <1>3, <1>8 DEF BlockLoop
    <2>2. count' > 0 <=> count # 1
      <3>1. count' = count - 1
        BY <1>1, <1>8
      <3> QED BY SMT, <1>2, <3>1
    <2>3. /\ Collected' = Append(Collected, transferData') /\ ~AbstractBroken' /\ ~Succeeded'
          /\ OnItsWay' <=> count # 1 /\ Posts(request)
      BY <1>2, <1>3, <1>5, <2>1, <2>2 DEF Collected, AbstractBroken, Succeeded, OnItsWay
    <2>4. CASE count = 1 /\ Posts(request)
      <3>1. UNCHANGED accesses /\ transferData' = posted
        BY <1>1, <1>8, <2>4, RdbuffIsNoAccess DEF BlockAccess, TransferInv, TypeInv
      <3> QED BY <1>2, <1>6, <2>3, <2>4, <3>1, OnItsWayEnds
    <2>5. CASE ~(count = 1 /\ Posts(request))
      <3>1. PICK v : Performed(Access(request), k, v)
        <4>1. Attempt(Access(request), k)
          BY <1>1, <2>5 DEF BlockAccess
        <4> QED BY <1>8, <4>1, AttemptsAreTyped, AccessIsPerformed DEF TransferInv, TypeInv, Access, Refused
      <3>2. Returned(Entry(Access(request), v))
        BY <1>3, <1>4, ReturnedByBlock
      <3>3. (Direct(Access(request)) <=> ~Posts(request)) /\ Access(request).read
        BY <1>2, <1>3, DirectOrPosted
      <3>4. AbstractResults' = Append(AbstractResults, v)
        <4>1. CASE Posts(request)
          <5>1. transferData' = posted /\ posted' = v
            BY <1>8, <3>1, <3>3, <4>1 DEF Performed
          <5> QED BY <1>2, <1>6, <2>3, <2>5, <4>1, <5>1, ResultsChange DEF TransferInv
        <4>2. CASE ~Posts(request)
          <5>1. transferData' = v
            BY <1>8, <3>1, <3>3, <4>2 DEF Performed
          <5> QED BY <1>2, <1>6, <2>3, <4>2, <5>1, ResultsChange DEF TransferInv
        <4> QED BY <4>1, <4>2
      <3> QED BY <1>2, <1>6, <2>3, <3>1, <3>2, <3>4, WithAccess DEF TransferInv, BaseInv
    <2> QED BY <2>4, <2>5
  <1>9. CASE ~Again(k) /\ ~(k = Ok /\ Len(out) < ResponseSpace)
    <2>1. UNCHANGED out /\ pc' \in {"failed", "blockend"} /\ (pc' = "blockend" => ack' # Ok)
      BY <1>1, <1>9
    <2>2. UNCHANGED Collected /\ AbstractBroken' /\ ~Succeeded' /\ ~OnItsWay'
      BY <1>2, <1>3, <2>1 DEF Collected, AbstractBroken, Succeeded, OnItsWay
    <2>3. \/ AbstractResults' = AbstractResults
          \/ AbstractResults # <<>> /\ AbstractResults' = Front(AbstractResults)
      BY <1>2, <1>6, <2>2, ResultsChange DEF TransferInv
    <2>4. CASE count = 1 /\ Posts(request)
      <3>1. UNCHANGED accesses
        BY <1>1, <2>4, RdbuffIsNoAccess DEF BlockAccess, TransferInv, TypeInv
      <3> QED BY <1>2, <1>6, <2>2, <2>3, <3>1, WithoutAccess
    <2>5. CASE ~(count = 1 /\ Posts(request))
      <3>1. (\E v : Performed(Access(request), k, v)) \/ Refused(k)
        <4>1. Attempt(Access(request), k)
          BY <1>1, <2>5 DEF BlockAccess
        <4> QED BY <4>1, AttemptsAreTyped, AccessIsPerformed DEF TransferInv, TypeInv, Access
      <3> QED BY <1>2, <1>6, <2>2, <2>3, <3>1, AttemptBreaks DEF TransferInv, BaseInv
    <2> QED BY <2>4, <2>5
  <1> QED BY <1>7, <1>8, <1>9

LEMMA BlockWordMaps ==
  ASSUME TransferInv, TypeInv', whole, BlockWord
  PROVE  PortStep
  <1>1. /\ pc = "blockword" /\ pc' = "blockwrite"
        /\ UNCHANGED <<accesses, posted, sent, whole, port, request, readPending, out, data>>
    BY DEF BlockWord, fixed, pending, resp
  <1>2. ~Succeeded /\ ~Succeeded' /\ ~AbstractBroken /\ ~AbstractBroken'
    BY <1>1 DEF Succeeded, AbstractBroken
  <1> QED BY <1>1, <1>2, NothingHappens DEF TransferInv

LEMMA BlockWriteMaps ==
  ASSUME TransferInv, TypeInv', whole, BlockWrite
  PROVE  PortStep
  <1>1. PICK k \in Answers :
          /\ Attempt(Access(request), k) /\ ack' = k
          /\ IF Again(k) THEN UNCHANGED pc
                         ELSE pc' = IF k = Ok THEN BlockLoop(request, count) ELSE "blockend"
    BY DEF BlockWrite
  <1>2. /\ pc = "blockwrite" /\ ~readPending
        /\ UNCHANGED <<sent, whole, port, request, readPending, out, data, respAck>>
    BY DEF BlockWrite, fixed, cursor, pending, resp, TransferInv, BaseInv, Placed, BlockPlaces
  <1>3. sent.kind = "block" /\ request \notin Reads
    BY <1>2, RestOfBlock DEF TransferInv, BlockPlaces
  <1>4. (\E v : Performed(Access(request), k, v)) \/ Refused(k)
    BY <1>1, AttemptsAreTyped, AccessIsPerformed DEF TransferInv, TypeInv, Access
  <1>5. Access(request) \in AttemptRecord
    BY AttemptsAreTyped
  <1>6. pc' \in {"blockwrite", "blockword", "blocklast", "blockend"} /\ (k = Ok => pc' # "blockend")
    BY <1>1, <1>2, <1>3, AnswersAreApart DEF BlockLoop, Again
  <1>7. /\ ~AbstractBroken /\ ~Succeeded /\ ~Succeeded' /\ ~OnItsWay /\ ~OnItsWay'
        /\ UNCHANGED Collected
    BY <1>2, <1>6 DEF AbstractBroken, Succeeded, OnItsWay, Collected
  <1>8. AbstractResults' = AbstractResults
    BY <1>2, <1>7, ResultsChange DEF TransferInv
  <1>9. CASE Again(k)
    <2>1. ~AbstractBroken'
      BY <1>1, <1>2, <1>9 DEF AbstractBroken
    <2> QED BY <1>1, <1>2, <1>7, <1>9, <2>1, AgainIsRefused, AgainIsNothing DEF TransferInv
  <1>10. CASE ~Again(k) /\ k # Ok
    <2>1. AbstractBroken'
      BY <1>1, <1>2, <1>10 DEF AbstractBroken
    <2> QED BY <1>2, <1>4, <1>5, <1>7, <1>8, <2>1, AttemptBreaks DEF TransferInv, BaseInv
  <1>11. CASE k = Ok
    <2>1. PICK v : Performed(Access(request), k, v)
      BY <1>4, <1>11 DEF Refused
    <2>2. ~AbstractBroken'
      BY <1>6, <1>11 DEF AbstractBroken
    <2>3. ~Returned(Entry(Access(request), v))
      BY <1>3, ReturnedByBlock
    <2> QED BY <1>2, <1>5, <1>7, <1>8, <2>1, <2>2, <2>3, WithAccess DEF TransferInv, BaseInv
  <1> QED BY <1>9, <1>10, <1>11

LEMMA BlockLastMaps ==
  ASSUME TransferInv, TypeInv', whole, BlockLast
  PROVE  PortStep
  <1>1. PICK k \in Answers :
          Attempt(Rdbuff, k) /\ ack' = k /\ IF Again(k) THEN UNCHANGED pc ELSE pc' = "blockend"
    BY DEF BlockLast
  <1>2. /\ pc = "blocklast" /\ pc' \in {"blocklast", "blockend"} /\ ~readPending
        /\ UNCHANGED <<sent, whole, readPending, out, data>>
    BY <1>1 DEF BlockLast, fixed, pending, resp, TransferInv, BaseInv, Placed, BlockPlaces
  <1>3. UNCHANGED accesses
    BY <1>1, RdbuffIsNoAccess DEF TransferInv, TypeInv
  <1>4. /\ ~AbstractBroken /\ ~Succeeded /\ ~Succeeded' /\ ~OnItsWay /\ ~OnItsWay'
        /\ UNCHANGED Collected
    BY <1>2 DEF AbstractBroken, Succeeded, OnItsWay, Collected
  <1>5. AbstractResults' = AbstractResults
    BY <1>2, <1>4, ResultsChange DEF TransferInv
  <1> QED BY <1>2, <1>3, <1>4, <1>5, WithoutAccess

LEMMA BlockEndMaps ==
  ASSUME TransferInv, TypeInv', whole, BlockEnd
  PROVE  PortStep
  <1>1. /\ pc = "blockend" /\ pc' = "done" /\ respAck' = ack /\ ~readPending
        /\ UNCHANGED <<accesses, sent, whole, readPending, out, data, ack>>
    BY DEF BlockEnd, fixed, wire, pending, TransferInv, BaseInv, Placed, BlockPlaces
  <1>2. ~OnItsWay /\ ~OnItsWay' /\ UNCHANGED Collected
    BY <1>1 DEF OnItsWay, Collected
  <1>3. AbstractResults' = AbstractResults
    BY <1>1, <1>2, ResultsChange DEF TransferInv
  <1>4. /\ (AbstractBroken <=> ack # Ok) /\ (AbstractBroken' <=> ack # Ok)
        /\ ~Succeeded /\ (Succeeded' <=> ack = Ok)
    BY <1>1 DEF AbstractBroken, Succeeded
  <1> QED BY <1>1, <1>3, <1>4, WithoutAccess

LEMMA AbortMaps ==
  ASSUME TransferInv, Reported, TypeInv', whole, AbortBegin \/ WriteAbort
  PROVE  PortStep
  <1>1. /\ pc \in {"abort", "aborting"} /\ pc' \in {"aborting", "done"}
        /\ sent.kind = "abort" /\ ~readPending /\ respAck = 0
        /\ UNCHANGED <<sent, whole, readPending, out, data, respAck>>
    BY DEF AbortBegin, WriteAbort, fixed, pending, resp, TransferInv, BaseInv, Fresh, StartPlaces,
           Placed, OfKind, Reported
  <1>2. /\ ~AbstractBroken /\ ~Succeeded /\ ~Succeeded' /\ ~OnItsWay /\ ~OnItsWay'
        /\ UNCHANGED Collected
    BY <1>1, AnswersAreApart DEF AbstractBroken, Succeeded, OnItsWay, Collected
  <1>3. AbstractResults' = AbstractResults
    BY <1>1, <1>2, ResultsChange DEF TransferInv
  <1>4. CASE AbortBegin
    <2>1. UNCHANGED accesses
      BY <1>4 DEF AbortBegin
    <2> QED BY <1>1, <1>2, <1>3, <2>1, WithoutAccess
  <1>5. CASE WriteAbort
    <2>1. PICK k \in Answers :
            Attempt(Abort, k) /\ ack' = k /\ IF Again(k) THEN UNCHANGED pc ELSE pc' = "done"
      BY <1>5 DEF WriteAbort
    <2>2. Abort \in AttemptRecord /\ ~Abort.rdbuff /\ ~Abort.read
      BY AttemptsAreTyped DEF Abort
    <2>3. (\E v : Performed(Abort, k, v)) \/ Refused(k)
      BY <2>1, <2>2, AccessIsPerformed DEF TransferInv, TypeInv
    <2>4. CASE AbstractBroken'
      BY <1>1, <1>2, <1>3, <2>2, <2>3, <2>4, AttemptBreaks DEF TransferInv, BaseInv
    <2>5. ASSUME NEW v, Performed(Abort, k, v), ~AbstractBroken' PROVE PortStep
      <3>1. ~Returned(Entry(Abort, v))
        BY <1>1 DEF Returned, Entry
      <3> QED BY <1>1, <1>2, <1>3, <2>2, <2>5, <3>1, WithAccess DEF TransferInv, BaseInv
    <2>6. CASE Refused(k) /\ ~AbstractBroken'
      BY <1>1, <1>2, <1>3, <2>6, WithoutAccess DEF Refused
    <2> QED BY <2>3, <2>4, <2>5, <2>6
  <1> QED BY <1>4, <1>5

LEMMA TooShortMaps ==
  ASSUME TransferInv, TypeInv', whole, TooShort
  PROVE  PortStep
  <1>1. /\ pc' = "failed"
        /\ UNCHANGED <<accesses, posted, sent, whole, readPending, out, data>>
    BY DEF TooShort, fixed, wire, pending, resp
  <1>2. pc \in {"transfer", "abort", "block", "next", "cancel", "blockword", "blockend"}
    <2>1. ~(Len(ring) < 0)
      BY SMT DEF TransferInv, TypeInv, InputTypes
    <2> QED BY <2>1 DEF TooShort, Needed
  <1>3. UNCHANGED Collected /\ ~OnItsWay' /\ AbstractBroken' /\ ~Succeeded /\ ~Succeeded'
    BY <1>1, <1>2 DEF Collected, OnItsWay, AbstractBroken, Succeeded
  <1>4. CASE AbstractBroken
    <2>1. pc \in {"cancel", "blockend"} /\ ~readPending
      BY <1>2, <1>4 DEF AbstractBroken, TransferInv, BaseInv, Placed, BlockPlaces
    <2>2. ~OnItsWay
      BY <2>1 DEF OnItsWay
    <2>3. AbstractResults' = AbstractResults
      BY <1>1, <1>3, <2>2, ResultsChange DEF TransferInv
    <2> QED BY <1>1, <1>3, <1>4, <2>3, WithoutAccess
  <1>5. CASE ~AbstractBroken
    <2>1. \/ AbstractResults' = AbstractResults
          \/ AbstractResults # <<>> /\ AbstractResults' = Front(AbstractResults)
      BY <1>1, <1>3, ResultsChange DEF TransferInv
    <2> QED BY <1>1, <1>3, <1>5, <2>1, WithoutAccess
  <1> QED BY <1>4, <1>5

\* Nothing is logged of a command that is cut short, and of one not begun.
LEMMA NothingLogged ==
  /\ ~whole \/ accesses = <<>> => AbstractLog = <<>>
  /\ (~whole \/ accesses = <<>>)' => AbstractLog' = <<>>
  <1>1. \A f : [i \in 1..0 |-> f[i]] = <<>>
    OBVIOUS
  <1>2. Len(<<>>) = 0 /\ 1..0 = {}
    OBVIOUS
  <1> QED BY <1>1, <1>2 DEF AbstractLog

\* The next command, or the state between two.
LEMMA StartMaps ==
  ASSUME ~whole' \/ (accesses' = <<>> /\ data' = <<>> /\ out' = <<>> /\ ~readPending'),
         pc' \in {"idle", "transfer", "block", "abort"}
  PROVE  PortStep
  <1>1. AbstractLog' = <<>>
    BY NothingLogged
  <1>2. AbstractResults' = <<>>
    <2>1. <<>> \o <<>> = <<>>
      OBVIOUS
    <2>2. CASE ~whole'
      BY <2>2 DEF AbstractResults
    <2>3. CASE whole'
      <3>1. Pipeline' = <<>>
        BY <2>3 DEF Pipeline
      <3> QED BY <2>1, <2>3, <3>1 DEF AbstractResults
    <2> QED BY <2>2, <2>3
  <1>3. AbstractBroken' = FALSE /\ Succeeded' = FALSE
    BY DEF AbstractBroken, Succeeded
  <1>4. AtomicPort!Start
    BY <1>1, <1>2, <1>3 DEF AtomicPort!Start, Succeeded
  <1> QED BY <1>4 DEF PortStep, AtomicPort!Next

\* A command cut short is none of the port's.
LEMMA CutShortMaps ==
  ASSUME ~whole, UNCHANGED whole
  PROVE  PortStep
  <1>1. AbstractLog = <<>> /\ AbstractLog' = <<>>
    BY NothingLogged
  <1>2. AbstractResults = <<>> /\ AbstractResults' = <<>>
    BY DEF AbstractResults
  <1>3. /\ AbstractBroken = FALSE /\ AbstractBroken' = FALSE
        /\ Succeeded = FALSE /\ Succeeded' = FALSE
    BY DEF AbstractBroken, Succeeded
  <1>4. UNCHANGED AtomicPort!vars
    BY <1>1, <1>2, <1>3 DEF AtomicPort!vars, Succeeded
  <1> QED BY <1>4 DEF PortStep

PortInv == TransferInv /\ BlockInv /\ Reported

LEMMA StepMaps == PortInv /\ TypeInv' /\ [Next]_vars => PortStep
  <1> SUFFICES ASSUME PortInv, TypeInv', [Next]_vars PROVE PortStep
    OBVIOUS
  <1>0. TransferInv /\ BlockInv /\ Reported
    BY DEF PortInv
  <1>1. CASE Handler
    <2>1. CASE Answered
      BY <2>1, StartMaps DEF Answered
    <2>2. CASE ~Answered
      <3>1. UNCHANGED fixed
        BY <1>1, <2>2, Zenon DEF Handler, Begin, Take, Collect, Read, Post, Match, SetMask, Write, End,
           Cancel, LastRead, BlockBegin, BlockPost, BlockRead, BlockWord, BlockWrite, BlockLast,
           BlockEnd, AbortBegin, WriteAbort, TooShort
      <3>2. CASE ~whole
        BY <3>1, <3>2, CutShortMaps DEF fixed
      <3>3. CASE whole
        BY <1>0, <1>1, <2>2, <3>3, BeginMaps, TakeMaps, CollectMaps, ReadMaps, PostMaps, MatchMaps,
           SetMaskMaps, WriteMaps, EndMaps, LastReadMaps, BlockBeginMaps, BlockPostMaps,
           BlockReadMaps, BlockWordMaps, BlockWriteMaps, BlockLastMaps, BlockEndMaps, AbortMaps,
           TooShortMaps, Zenon DEF Handler
      <3> QED BY <3>2, <3>3
    <2> QED BY <2>1, <2>2
  <1>2. ASSUME NEW c \in Commands, Send(c) PROVE PortStep
    <2>1. /\ pc = "idle" /\ pc' \in {"transfer", "block", "abort"}
          /\ UNCHANGED <<accesses, data, out, readPending>>
      BY <1>2, CommandsAreLegal DEF Send, wire, pending, resp
    <2>2. accesses = <<>> /\ data = <<>> /\ out = <<>> /\ ~readPending
      BY <1>0, <2>1 DEF TransferInv, BaseInv, Fresh, StartPlaces
    <2> QED BY <2>1, <2>2, StartMaps
  <1>3. ASSUME NEW l \in Limits, TransferConfigure(l) PROVE PortStep
    <2>1. pc' = "idle" /\ pc = "idle" /\ UNCHANGED <<accesses, data, out, readPending>>
      BY <1>3 DEF TransferConfigure, wire, pending, resp
    <2>2. accesses = <<>> /\ data = <<>> /\ out = <<>> /\ ~readPending
      BY <1>0, <2>1 DEF TransferInv, BaseInv, Fresh, StartPlaces
    <2> QED BY <2>1, <2>2, StartMaps
  <1>4. CASE UNCHANGED vars
    <2>1. UNCHANGED <<accesses, sent, whole, port, posted, request, readPending, out, data, pc, ack,
                      respAck>>
      BY <1>4 DEF vars, fixed, wire, cursor, pending, resp
    <2>2. UNCHANGED AbstractLog
      BY <2>1, LogStays
    <2>3. UNCHANGED <<AbstractResults, AbstractBroken>>
      BY <2>1 DEF AbstractResults, Pipeline, Posts, AbstractBroken
    <2>4. UNCHANGED AtomicPort!vars
      BY <2>1, <2>2, <2>3 DEF AtomicPort!vars
    <2> QED BY <2>4 DEF PortStep
  <1> QED BY <1>1, <1>2, <1>3, <1>4 DEF Next

LEMMA InitIsMapped == Init => AtomicPort!Init
  <1> SUFFICES ASSUME Init PROVE AtomicPort!Init
    OBVIOUS
  <1>1. AbstractLog = <<>>
    BY NothingLogged DEF Init
  <1>2. AbstractResults = <<>>
    <2>1. <<>> \o <<>> = <<>>
      OBVIOUS
    <2>2. Pipeline = <<>>
      BY DEF Init, Pipeline
    <2> QED BY <2>1, <2>2 DEF Init, AbstractResults
  <1>3. AbstractBroken = FALSE
    BY DEF Init, AbstractBroken
  <1> QED BY <1>1, <1>2, <1>3 DEF Init, AtomicPort!Init

\* The commands implement the port of atomic accesses of DebugPort: whatever reads
\* are posted, collected, retried or damaged, the host gets the value of every
\* register it reads, once and in order, or no success, and nothing is accessed
\* after a failure (commands_transfer.c:284-554).
THEOREM CommandsImplementAtomicPort == Spec => IsAtomicPort
  <1>1. Init => AtomicPort!Init
    BY InitIsMapped
  <1>2. Init => Reported
    BY DEF Init, Reported
  <1>3. Reported /\ [Next]_vars => Reported'
    BY StepKeepsReport
  <1>4. TransferInv => TypeInv
    BY DEF TransferInv
  <1>5. TransferInv /\ BlockInv /\ Reported /\ TypeInv' /\ [Next]_vars
          => [AtomicPort!Next]_(AtomicPort!vars)
    BY StepMaps DEF PortInv, PortStep
  <1> QED BY <1>1, <1>2, <1>3, <1>4, <1>5, BlocksAreInvariant, PTL
          DEF Spec, IsAtomicPort, AtomicPort!Spec

-----------------------------------------------------------------------------
(***************************************************************************)
(* The words that a Transfer collects.                                     *)
(***************************************************************************)
\* The entries of log s in R, in order; and every place in that order is taken.
InOrder(s, R) == [j \in 1..Cardinality(R) |-> s[Nth(R, j)].value]

Upto(R, i) == {h \in R : h <= i}

EachHasPlace(R) == \A j \in 1..Cardinality(R) : \E i \in R : Cardinality(Upto(R, i)) = j

LEMMA NthIsThere ==
  ASSUME NEW R, EachHasPlace(R), NEW j \in 1..Cardinality(R)
  PROVE  Nth(R, j) \in R
  BY DEF EachHasPlace, Nth, Upto

\* A number behind all others comes last and leaves the others their places.
LEMMA OneMoreBehind ==
  ASSUME NEW n \in Nat, NEW R \in SUBSET (1..n), EachHasPlace(R)
  PROVE  LET S == R \cup {n + 1}
             c == Cardinality(R)
         IN  /\ c \in Nat /\ Cardinality(S) = c + 1 /\ EachHasPlace(S)
             /\ \A j \in 1..c : Nth(S, j) = Nth(R, j)
             /\ Nth(S, c + 1) = n + 1
  <1> DEFINE S == R \cup {n + 1}
             c == Cardinality(R)
  <1>1. IsFiniteSet(R) /\ c \in Nat
    <2>1. IsFiniteSet(1..n)
      BY FS_Interval
    <2> QED BY <2>1, FS_Subset, FS_CardinalityType
  <1>2. n + 1 \notin R /\ \A i \in R : i <= n /\ i \in Nat /\ ~(n + 1 <= i) /\ i <= n + 1
    BY SMT
  <1>3. Cardinality(S) = c + 1
    BY <1>1, <1>2, FS_AddElement
  <1>4. \A i \in R : Upto(S, i) = Upto(R, i)
    BY <1>2 DEF Upto
  <1>5. Upto(S, n + 1) = S
    <2>1. n + 1 <= n + 1
      OBVIOUS
    <2> QED BY <1>2, <2>1 DEF Upto
  <1>6. \A i \in R : Cardinality(Upto(R, i)) \in Nat /\ Cardinality(Upto(R, i)) <= c
    <2> SUFFICES ASSUME NEW i \in R PROVE Cardinality(Upto(R, i)) \in Nat /\ Cardinality(Upto(R, i)) <= c
      OBVIOUS
    <2>1. Upto(R, i) \in SUBSET R
      BY DEF Upto
    <2> QED BY <1>1, <2>1, FS_Subset, FS_CardinalityType
  <1> HIDE DEF c, S
  <1>7. \A j \in 1..c : \A i :
          (i \in S /\ Cardinality(Upto(S, i)) = j) <=> (i \in R /\ Cardinality(Upto(R, i)) = j)
    <2> SUFFICES ASSUME NEW j \in 1..c, NEW i
                 PROVE  (i \in S /\ Cardinality(Upto(S, i)) = j) <=> (i \in R /\ Cardinality(Upto(R, i)) = j)
      OBVIOUS
    <2>1. c + 1 # j
      BY SMT, <1>1
    <2> QED BY <1>3, <1>4, <1>5, <2>1 DEF S
  <1>8. \A i : (i \in S /\ Cardinality(Upto(S, i)) = c + 1) <=> i = n + 1
    <2>1. \A i \in R : Cardinality(Upto(R, i)) # c + 1
      BY SMT, <1>1, <1>6
    <2> QED BY <1>3, <1>4, <1>5, <2>1 DEF S
  <1>9. \A j \in 1..c : Nth(S, j) = Nth(R, j)
    <2> SUFFICES ASSUME NEW j \in 1..c PROVE Nth(S, j) = Nth(R, j)
      OBVIOUS
    <2>1. Nth(S, j) = CHOOSE i : i \in S /\ Cardinality(Upto(S, i)) = j
      BY DEF Nth, Upto
    <2>2. Nth(R, j) = CHOOSE i : i \in R /\ Cardinality(Upto(R, i)) = j
      BY DEF Nth, Upto
    <2> QED BY <1>7, <2>1, <2>2, Zenon
  <1>10. Nth(S, c + 1) = n + 1
    BY <1>8 DEF Nth, Upto
  <1>11. EachHasPlace(S)
    <2> SUFFICES ASSUME NEW j \in 1..(c + 1) PROVE \E i \in S : Cardinality(Upto(S, i)) = j
      BY <1>3 DEF EachHasPlace
    <2>1. j \in 1..c \/ j = c + 1
      BY SMT, <1>1
    <2>2. CASE j \in 1..c
      <3>1. \E i \in R : Cardinality(Upto(R, i)) = j
        BY <2>2 DEF EachHasPlace, c
      <3> QED BY <1>7, <2>2, <3>1
    <2>3. CASE j = c + 1
      BY <1>8, <2>3
    <2> QED BY <2>1, <2>2, <2>3
  <1> QED BY <1>1, <1>3, <1>9, <1>10, <1>11 DEF c, S

LogRecord == [reg : Registers, read : BOOLEAN, value : Units, wanted : BOOLEAN]

WantedIn(s) == {i \in 1..Len(s) : s[i].wanted}

\* One more access puts its value behind the others, if it is wanted.
LEMMA LoggedInOrder ==
  ASSUME NEW s \in Seq(LogRecord), NEW l \in LogRecord, EachHasPlace(WantedIn(s))
  PROVE  LET t == Append(s, l)
             v == InOrder(s, WantedIn(s))
             w == InOrder(t, WantedIn(t))
         IN  /\ t \in Seq(LogRecord) /\ EachHasPlace(WantedIn(t)) /\ v \in Seq(Nat)
             /\ l.wanted => w = Append(v, l.value)
             /\ ~l.wanted => w = v
  <1> DEFINE t == Append(s, l)
             n == Len(s)
             R == WantedIn(s)
             c == Cardinality(R)
             v == InOrder(s, R)
  <1>1. /\ n \in Nat /\ t \in Seq(LogRecord) /\ Len(t) = n + 1 /\ t[n + 1] = l
        /\ \A i \in 1..n : t[i] = s[i]
        /\ 1..(n + 1) = (1..n) \cup {n + 1} /\ n + 1 \notin 1..n
    BY SMT
  <1>2. R \in SUBSET (1..n)
    BY DEF WantedIn
  <1>3. /\ c \in Nat /\ Cardinality(R \cup {n + 1}) = c + 1 /\ EachHasPlace(R \cup {n + 1})
        /\ \A j \in 1..c : Nth(R \cup {n + 1}, j) = Nth(R, j)
        /\ Nth(R \cup {n + 1}, c + 1) = n + 1
    BY <1>1, <1>2, OneMoreBehind
  <1>4. \A j \in 1..c : Nth(R, j) \in 1..n
    BY <1>2, NthIsThere
  <1>5. l.value \in Nat /\ \A i \in 1..n : s[i].value \in Nat
    <2>1. \A i \in 1..n : s[i] \in LogRecord
      BY ElementOfSeq
    <2> QED BY <2>1, UnitsAreLegal DEF LogRecord
  <1>6. WantedIn(t) = IF l.wanted THEN R \cup {n + 1} ELSE R
    BY <1>1 DEF WantedIn
  <1> HIDE DEF t, n, R, c
  <1>7. v = [j \in 1..c |-> s[Nth(R, j)].value]
    BY DEF InOrder, c
  <1>8. v \in Seq(Nat) /\ Len(v) = c /\ \A j \in 1..c : v[j] = s[Nth(R, j)].value
    BY <1>3, <1>4, <1>5, <1>7
  <1>9. CASE l.wanted
    <2>1. InOrder(t, WantedIn(t)) = [j \in 1..(c + 1) |-> t[Nth(R \cup {n + 1}, j)].value]
      BY <1>3, <1>6, <1>9 DEF InOrder
    <2>2. \A j \in 1..(c + 1) : t[Nth(R \cup {n + 1}, j)].value
                                = IF j = c + 1 THEN l.value ELSE s[Nth(R, j)].value
      <3> SUFFICES ASSUME NEW j \in 1..(c + 1)
                   PROVE  t[Nth(R \cup {n + 1}, j)].value
                            = IF j = c + 1 THEN l.value ELSE s[Nth(R, j)].value
        OBVIOUS
      <3>1. CASE j = c + 1
        BY <1>1, <1>3, <3>1
      <3>2. CASE j # c + 1
        <4>1. j \in 1..c
          BY SMT, <1>3, <3>2
        <4> QED BY <1>1, <1>3, <1>4, <3>2, <4>1
      <3> QED BY <3>1, <3>2
    <2>3. Append(v, l.value) \in Seq(Nat) /\ Len(Append(v, l.value)) = c + 1
          /\ \A j \in 1..(c + 1) : Append(v, l.value)[j] = IF j = c + 1 THEN l.value ELSE v[j]
      <3> HIDE DEF v
      <3> QED BY SMT, <1>3, <1>5, <1>8
    <2> DEFINE w == InOrder(t, WantedIn(t))
    <2>4. \A j \in 1..(c + 1) : (IF j = c + 1 THEN l.value ELSE s[Nth(R, j)].value) \in Nat
                                /\ (j # c + 1 => j \in 1..c)
      <3>1. \A j \in 1..(c + 1) : j # c + 1 => j \in 1..c
        BY SMT, <1>3
      <3> QED BY <1>4, <1>5, <3>1
    <2>5. /\ w \in Seq(Nat) /\ Len(w) = c + 1
          /\ \A j \in 1..(c + 1) : w[j] = IF j = c + 1 THEN l.value ELSE s[Nth(R, j)].value
      <3>1. w = [j \in 1..(c + 1) |-> IF j = c + 1 THEN l.value ELSE s[Nth(R, j)].value]
        BY <2>1, <2>2
      <3> HIDE DEF w
      <3> QED BY <1>3, <2>4, <3>1
    <2> HIDE DEF w, v
    <2>6. \A j \in 1..(c + 1) : w[j] = Append(v, l.value)[j]
      BY <1>8, <2>3, <2>4, <2>5
    <2>7. w = Append(v, l.value)
      BY <2>3, <2>5, <2>6, SeqEqual
    <2> QED BY <1>1, <1>3, <1>6, <1>8, <1>9, <2>7 DEF w, v, t, R
  <1>10. CASE ~l.wanted
    <2>1. InOrder(t, WantedIn(t)) = [j \in 1..c |-> t[Nth(R, j)].value]
      BY <1>6, <1>10 DEF InOrder, c
    <2>2. \A j \in 1..c : t[Nth(R, j)].value = s[Nth(R, j)].value
      BY <1>1, <1>4
    <2> QED BY <1>1, <1>6, <1>7, <1>8, <1>10, <2>1, <2>2 DEF t, R
  <1> QED BY <1>9, <1>10

\* Sequence s is the beginning of t.
Begins(s, t) == Len(s) <= Len(t) /\ \A i \in 1..Len(s) : s[i] = t[i]

LEMMA Beginnings ==
  ASSUME NEW s \in Seq(Nat), NEW t \in Seq(Nat), Begins(s, t)
  PROVE  /\ \A x \in Nat : Begins(s, Append(t, x))
         /\ s # <<>> => Front(s) \in Seq(Nat) /\ Begins(Front(s), t)
  <1>1. Len(s) \in Nat /\ Len(t) \in Nat
    OBVIOUS
  <1>2. Len(s) <= Len(t) /\ \A i \in 1..Len(s) : s[i] = t[i]
    BY DEF Begins
  <1>3. ASSUME NEW x \in Nat PROVE Begins(s, Append(t, x))
    <2>1. Len(Append(t, x)) = Len(t) + 1 /\ \A i \in 1..Len(t) : Append(t, x)[i] = t[i]
      BY SMT
    <2>2. Len(s) <= Len(t) + 1 /\ \A i \in 1..Len(s) : i \in 1..Len(t)
      BY SMT, <1>1, <1>2
    <2> QED BY <1>2, <2>1, <2>2 DEF Begins
  <1>4. ASSUME s # <<>> PROVE Front(s) \in Seq(Nat) /\ Begins(Front(s), t)
    <2>1. Len(s) > 0
      BY SMT, <1>4
    <2>2. Len(s) - 1 \in Nat /\ Len(s) - 1 <= Len(t) /\ \A i \in 1..(Len(s) - 1) : i \in 1..Len(s)
      BY SMT, <1>1, <1>2, <2>1
    <2>3. /\ SubSeq(s, 1, Len(s) - 1) \in Seq(Nat)
          /\ Len(SubSeq(s, 1, Len(s) - 1)) = Len(s) - 1
          /\ \A i \in 1..(Len(s) - 1) : SubSeq(s, 1, Len(s) - 1)[i] = s[i]
      <3> DEFINE m == Len(s) - 1
      <3>1. m \in Int /\ 1 \in Int /\ (\A i \in 1..m : s[i] \in Nat)
        BY <2>2
      <3>2. /\ SubSeq(s, 1, m) \in Seq(Nat)
            /\ Len(SubSeq(s, 1, m)) = IF 1 <= m THEN m - 1 + 1 ELSE 0
            /\ \A i \in 1..(m - 1 + 1) : SubSeq(s, 1, m)[i] = s[1 + i - 1]
        <4> HIDE DEF m
        <4> QED BY <3>1, SubSeqProperties
      <3>3. m \in Nat
        BY <2>2
      <3> HIDE DEF m
      <3>4. /\ Len(SubSeq(s, 1, m)) = m
            /\ \A i \in 1..m : SubSeq(s, 1, m)[i] = s[i]
        <4>1. (IF 1 <= m THEN m - 1 + 1 ELSE 0) = m /\ m - 1 + 1 = m /\ \A i \in 1..m : 1 + i - 1 = i
          BY SMT, <3>3
        <4> QED BY <3>2, <4>1
      <3> QED BY <3>2, <3>4 DEF m
    <2> QED BY <1>2, <2>2, <2>3 DEF Begins, Front
  <1> QED BY <1>3, <1>4

LEMMA BeginsWithItself == \A s \in Seq(Nat) : Begins(s, s)
  <1> SUFFICES ASSUME NEW s \in Seq(Nat) PROVE Begins(s, s)
    OBVIOUS
  <1>1. Len(s) \in Nat
    OBVIOUS
  <1> QED BY <1>1 DEF Begins

\* The results of the port are the values of the reads in its log, or, when it is
\* broken, the first of them; a port that is broken has no success.
PortOrder ==
  LET v == InOrder(AbstractLog, WantedIn(AbstractLog))
  IN  /\ AbstractLog \in Seq(LogRecord) /\ EachHasPlace(WantedIn(AbstractLog))
      /\ v \in Seq(Nat) /\ AbstractResults \in Seq(Nat)
      /\ Begins(AbstractResults, v)
      /\ ~AbstractBroken => AbstractResults = v
      /\ ~(AbstractBroken /\ Succeeded)

LEMMA NothingInOrder ==
  /\ <<>> \in Seq(LogRecord) /\ EachHasPlace(WantedIn(<<>>))
  /\ InOrder(<<>>, WantedIn(<<>>)) = <<>> /\ <<>> \in Seq(Nat) /\ Begins(<<>>, <<>>)
  <1>1. WantedIn(<<>>) = {}
    BY DEF WantedIn
  <1>2. Cardinality({}) = 0 /\ 1..0 = {}
    BY FS_EmptySet
  <1>3. EachHasPlace({})
    BY <1>2 DEF EachHasPlace
  <1>4. InOrder(<<>>, {}) = <<>>
    BY <1>2 DEF InOrder
  <1>5. <<>> \in Seq(LogRecord) /\ <<>> \in Seq(Nat)
    OBVIOUS
  <1> QED BY <1>1, <1>3, <1>4, <1>5, BeginsWithItself

LEMMA AccessesAreLogged ==
  ASSUME NEW wanted \in BOOLEAN, NEW l \in AtomicPort!Accesses(wanted)
  PROVE  l \in LogRecord /\ l.wanted = wanted
  BY DEF AtomicPort!Accesses, LogRecord

LEMMA PortKeepsOrder == PortOrder /\ PortStep => PortOrder'
  <1> SUFFICES ASSUME PortOrder, PortStep PROVE PortOrder'
    OBVIOUS
  <1> DEFINE v == InOrder(AbstractLog, WantedIn(AbstractLog))
             w == InOrder(AbstractLog', WantedIn(AbstractLog'))
  <1>1. /\ AbstractLog \in Seq(LogRecord) /\ EachHasPlace(WantedIn(AbstractLog))
        /\ v \in Seq(Nat) /\ AbstractResults \in Seq(Nat)
        /\ Begins(AbstractResults, v)
        /\ ~AbstractBroken => AbstractResults = v
        /\ ~(AbstractBroken /\ Succeeded)
    BY DEF PortOrder
  <1>s. SUFFICES
        /\ AbstractLog' \in Seq(LogRecord) /\ EachHasPlace(WantedIn(AbstractLog'))
        /\ w \in Seq(Nat) /\ AbstractResults' \in Seq(Nat)
        /\ Begins(AbstractResults', w)
        /\ ~AbstractBroken' => AbstractResults' = w
        /\ ~(AbstractBroken' /\ Succeeded')
    BY DEF PortOrder, InOrder, WantedIn, EachHasPlace, Begins, Upto, Nth
  <1>2. ASSUME NEW wanted \in BOOLEAN, NEW l \in AtomicPort!Accesses(wanted),
               AbstractLog' = Append(AbstractLog, l)
        PROVE  /\ AbstractLog' \in Seq(LogRecord) /\ EachHasPlace(WantedIn(AbstractLog'))
               /\ w \in Seq(Nat) /\ Begins(v, w)
               /\ wanted => w = Append(v, l.value)
               /\ ~wanted => w = v
    <2>1. l \in LogRecord /\ l.wanted = wanted /\ l.value \in Nat
      BY AccessesAreLogged, UnitsAreLegal DEF LogRecord
    <2>2. /\ AbstractLog' \in Seq(LogRecord) /\ EachHasPlace(WantedIn(AbstractLog'))
          /\ wanted => w = Append(v, l.value)
          /\ ~wanted => w = v
      BY <1>1, <1>2, <2>1, LoggedInOrder
    <2> HIDE DEF v, w
    <2>3. Append(v, l.value) \in Seq(Nat)
      BY <1>1, <2>1, AppendProperties
    <2>4. Begins(v, v) /\ Begins(v, Append(v, l.value))
      BY <1>1, <2>1, BeginsWithItself, Beginnings
    <2> QED BY <1>1, <2>2, <2>3, <2>4
  <1>3. CASE AtomicPort!Read
    <2>1. /\ ~AbstractBroken /\ ~AbstractBroken' /\ ~Succeeded'
      BY <1>3 DEF AtomicPort!Read, Succeeded
    <2>2. PICK l \in AtomicPort!Accesses(TRUE) :
            AbstractLog' = Append(AbstractLog, l) /\ AbstractResults' = Append(AbstractResults, l.value)
      BY <1>3 DEF AtomicPort!Read
    <2> HIDE DEF v, w
    <2>3. /\ AbstractLog' \in Seq(LogRecord) /\ EachHasPlace(WantedIn(AbstractLog'))
          /\ w \in Seq(Nat) /\ w = Append(v, l.value)
      BY <1>2, <2>2
    <2> QED BY <1>1, <2>1, <2>2, <2>3, BeginsWithItself
  <1>4. CASE AtomicPort!WriteOrCompare
    <2>1. /\ ~AbstractBroken /\ ~AbstractBroken' /\ ~Succeeded' /\ AbstractResults' = AbstractResults
      BY <1>4 DEF AtomicPort!WriteOrCompare, Succeeded
    <2>2. PICK l \in AtomicPort!Accesses(FALSE) : AbstractLog' = Append(AbstractLog, l)
      BY <1>4 DEF AtomicPort!WriteOrCompare
    <2> HIDE DEF v, w
    <2>3. /\ AbstractLog' \in Seq(LogRecord) /\ EachHasPlace(WantedIn(AbstractLog'))
          /\ w \in Seq(Nat) /\ w = v
      BY <1>2, <2>2
    <2> QED BY <1>1, <2>1, <2>3, BeginsWithItself
  <1>5. CASE AtomicPort!Break
    <2>1. /\ ~AbstractBroken /\ AbstractBroken' /\ ~Succeeded'
          /\ \/ AbstractResults' = AbstractResults
             \/ AbstractResults # <<>> /\ AbstractResults' = Front(AbstractResults)
      BY <1>5 DEF AtomicPort!Break, AtomicPort!Front, Front, Succeeded
    <2>2. /\ AbstractLog' \in Seq(LogRecord) /\ EachHasPlace(WantedIn(AbstractLog'))
          /\ w \in Seq(Nat) /\ Begins(v, w)
      <3>1. CASE UNCHANGED AbstractLog
        <4>1. w = v
          BY <3>1
        <4> HIDE DEF v, w
        <4> QED BY <1>1, <3>1, <4>1, BeginsWithItself
      <3>2. CASE \E wanted \in BOOLEAN : \E l \in AtomicPort!Accesses(wanted) :
                   AbstractLog' = Append(AbstractLog, l)
        BY <1>2, <3>2
      <3> QED BY <1>5, <3>1, <3>2 DEF AtomicPort!Break
    <2> HIDE DEF v, w
    <2>3. AbstractResults = v
      BY <1>1, <2>1
    <2> QED BY <1>1, <2>1, <2>2, <2>3, Beginnings
  <1>6. CASE AtomicPort!Succeed
    <2>1. /\ UNCHANGED <<AbstractLog, AbstractResults, AbstractBroken>> /\ ~AbstractBroken
      BY <1>6 DEF AtomicPort!Succeed
    <2>2. w = v
      BY <2>1
    <2> HIDE DEF v, w
    <2> QED BY <1>1, <2>1, <2>2
  <1>7. CASE AtomicPort!Start
    <2>1. AbstractLog' = <<>> /\ AbstractResults' = <<>> /\ ~AbstractBroken'
      BY <1>7 DEF AtomicPort!Start
    <2> QED BY <2>1, NothingInOrder
  <1>8. CASE UNCHANGED AtomicPort!vars
    <2>1. UNCHANGED <<AbstractLog, AbstractResults, AbstractBroken>> /\ (Succeeded' <=> Succeeded)
      BY <1>8 DEF AtomicPort!vars, Succeeded
    <2>2. w = v
      BY <2>1
    <2> HIDE DEF v, w
    <2> QED BY <1>1, <2>1, <2>2
  <1> QED BY <1>3, <1>4, <1>5, <1>6, <1>7, <1>8 DEF PortStep, AtomicPort!Next

\* In a Transfer the reads in the log of the port are those asked for.
LEMMA WantedAreRead ==
  ASSUME TypeInv, HistoryInv, Transferring, EachHasPlace(WantedIn(AbstractLog))
  PROVE  InOrder(AbstractLog, WantedIn(AbstractLog)) = ReadValues
  <1> DEFINE n == Len(accesses)
             R == WantedIn(AbstractLog)
  <1>1. whole /\ sent.kind = "transfer" /\ Asked
    BY DEF Transferring, HistoryInv, History
  <1>2. accesses \in Seq(AccessRecord) /\ n \in Nat
    BY DEF TypeInv, WireTypes
  <1>3. AbstractLog = [i \in 1..n |-> LogEntry(accesses[i])]
    BY <1>1 DEF AbstractLog, LogEntry
  <1>4. Len(AbstractLog) = n
    <2> HIDE DEF n
    <2>1. DOMAIN AbstractLog = 1..n /\ \A f : DOMAIN f = 1..n => Len(f) = n
      BY <1>2, <1>3
    <2> QED BY <2>1
  <1>5. \A i \in 1..n : /\ AbstractLog[i].wanted <=> IsPlainRead(sent.batch[accesses[i].by])
                        /\ AbstractLog[i].value = accesses[i].value
    BY <1>1, <1>3 DEF LogEntry, Returned, Asked, IsPlainRead
  <1>6. R = ReadsSoFar
    BY <1>4, <1>5 DEF WantedIn, ReadsSoFar
  <1>7. \A j \in 1..Cardinality(R) : Nth(R, j) \in 1..n
    BY <1>4, NthIsThere DEF WantedIn
  <1> HIDE DEF n, R
  <1> QED BY <1>5, <1>6, <1>7 DEF InOrder, ReadValues, R

LEMMA DataAreInOrder ==
  ASSUME TypeInv, HistoryInv, PortOrder
  PROVE  DataInOrder
  <1> SUFFICES ASSUME Transferring
               PROVE  /\ IsPrefix(data, ReadValues)
                      /\ pc = "done" /\ respAck = Ok => data = ReadValues
    BY DEF DataInOrder
  <1>1. /\ ReadValues \in Seq(Nat) /\ AbstractResults \in Seq(Nat)
        /\ Begins(AbstractResults, ReadValues)
        /\ ~AbstractBroken => AbstractResults = ReadValues
        /\ ~(AbstractBroken /\ Succeeded)
    BY WantedAreRead DEF PortOrder
  <1>2. whole /\ Collected = data /\ data \in Seq(Nat) /\ posted \in Nat
    BY DEF Transferring, Collected, TypeInv, LocalTypes, WireTypes
  <1>3. AbstractResults = data \/ AbstractResults = Append(data, posted)
    BY <1>2, ResultsAre
  <1>4. Begins(data, AbstractResults)
    BY <1>2, <1>3, Beginnings, BeginsWithItself
  <1>5. Len(data) <= Len(ReadValues) /\ \A i \in 1..Len(data) : data[i] = ReadValues[i]
    <2>1. Len(data) \in Nat /\ Len(AbstractResults) \in Nat /\ Len(ReadValues) \in Nat
      BY <1>1, <1>2, LenProperties
    <2>2. /\ Len(data) <= Len(AbstractResults) /\ Len(AbstractResults) <= Len(ReadValues)
          /\ \A i \in 1..Len(data) : data[i] = AbstractResults[i]
          /\ \A i \in 1..Len(AbstractResults) : AbstractResults[i] = ReadValues[i]
      BY <1>1, <1>4 DEF Begins
    <2>3. Len(data) <= Len(ReadValues) /\ \A i \in 1..Len(data) : i \in 1..Len(AbstractResults)
      BY SMT, <2>1, <2>2
    <2> QED BY <2>2, <2>3
  <1>6. IsPrefix(data, ReadValues)
    BY <1>1, <1>2, <1>5, PrefixOf
  <1>7. ASSUME pc = "done", respAck = Ok PROVE data = ReadValues
    <2>1. Succeeded
      BY <1>2, <1>7 DEF Succeeded
    <2>2. ~OnItsWay
      BY <1>7 DEF OnItsWay
    <2> QED BY <1>1, <1>2, <2>1, <2>2, ResultsAre
  <1> QED BY <1>6, <1>7

\* The words that a Transfer collects are the values of the registers it was asked
\* to read, in order, whatever reads, writes and matches it mixes and however often
\* it is made to wait; with success none is missing: the order of the port of
\* atomic accesses, carried over (commands_transfer.c:333-340, 375 and 420).
THEOREM WordsAreInOrder == Spec => []DataInOrder
  <1>1. Init => PortOrder
    <2> SUFFICES ASSUME Init PROVE PortOrder
      OBVIOUS
    <2>1. AbstractLog = <<>> /\ AbstractResults = <<>> /\ ~AbstractBroken
      BY InitIsMapped DEF AtomicPort!Init
    <2> QED BY <2>1, NothingInOrder DEF PortOrder
  <1>2. Init => Reported
    BY DEF Init, Reported
  <1>3. Reported /\ [Next]_vars => Reported'
    BY StepKeepsReport
  <1>4. TransferInv => TypeInv /\ HistoryInv
    BY DEF TransferInv
  <1>5. TransferInv /\ BlockInv /\ Reported /\ TypeInv' /\ PortOrder /\ [Next]_vars => PortOrder'
    BY StepMaps, PortKeepsOrder DEF PortInv
  <1>6. TypeInv /\ HistoryInv /\ PortOrder => DataInOrder
    BY DataAreInOrder
  <1> QED BY <1>1, <1>2, <1>3, <1>4, <1>5, <1>6, BlocksAreInvariant, PTL DEF Spec
=============================================================================
