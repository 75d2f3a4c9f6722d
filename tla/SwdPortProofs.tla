----------------------------- MODULE SwdPortProofs -----------------------------
(***************************************************************************)
(* Proofs about SwdPort, for every width of a word, turnaround, number of  *)
(* idle cycles and input of the host:                                      *)
(*   - a disabled port drives none of its pins (DisabledPortIsHiZ);        *)
(*   - types, and with them that a read returns a whole word               *)
(*     (PinsAndWordsAreTyped), from Inv;                                   *)
(*   - the probe and the target never drive SWDIO both                    *)
(*     (TransfersNeverContend), the target performs nothing but what it is *)
(*     asked for, once (OnlyWhatIsAsked), and what the host is told of it  *)
(*     is true (AnswersAreTrue), although a bit may be inverted; without   *)
(*     one the target is idle when a transfer ends (TransfersStayInSync):  *)
(*     all from SyncInv.                                                   *)
(* SyncInv relates what is left of the probe's script to what is left of   *)
(* the target's plan; both are counted from their ends, where they stay    *)
(* while the first elements go.  It tells a transfer in step (Asking, then *)
(* FollowingRead, FollowingWrite or FollowingNothing) from what an         *)
(* inverted bit makes of one: a request the target does not take for one   *)
(* (AskingInVain), an acknowledgement the probe does not                   *)
(* (FollowingNothing, FollowingOnes), or neither (FollowingInVain).        *)
(***************************************************************************)
EXTENDS SwdPort, FiniteSetTheorems, SequenceLemmas

\* What the theorem assumes: a DAP_SWD_Sequence has at least one sequence.  One of
\* none configures SWDIO as an output on any port (commands_swd.c:127-134).
HasSequences == <<>> \notin ItemSequences

\* Operations that make no pin an output.
Harmless == [op : {"write", "read", "clock", "input", "level"}, bit : Bit]

\* Off the SWD port, no operation still to come makes a pin an output; only
\* swd_transfer and DAP_SWD_Sequence have such, and only with the port on.
HiZInv ==
  /\ DisabledIsHiZ
  /\ port # "swd" => script \in Seq(Harmless)
  /\ pc \in {"idle", "done"} => script = <<>>
  /\ pc \in {"acknowledged", "transferred"} => port = "swd"

LEMMA WriteBitsIsHarmless ==
  ASSUME NEW bits \in Seq(Bit)
  PROVE  WriteBits(bits) \in Seq(Harmless)
  BY SMT DEF WriteBits, WriteBit, Harmless, Bit

LEMMA CutIsBits ==
  ASSUME NEW bits \in Seq(Bit), NEW b \in Cut(bits)
  PROVE  b \in Seq(Bit)
  <1>1. PICK n \in 0..((Len(bits) - 1) \div 8) : b = SubSeq(bits, 1, 8 * n)
    BY DEF Cut
  <1>2. Len(bits) \in Nat
    OBVIOUS
  <1>3. 8 * n \in Nat /\ (8 * n <= Len(bits) \/ n = 0)
    BY SMT, <1>1, <1>2
  <1>4. \A m \in Nat : m <= Len(bits) => SubSeq(bits, 1, m) \in Seq(Bit)
    BY SMT
  <1> QED BY <1>1, <1>2, <1>3, <1>4

LEMMA PinOperationKeepsHiZ ==
  ASSUME HiZInv, Cycle \/ SetPin
  PROVE  HiZInv'
  <1>1. script # <<>> /\ script' = Tail(script) /\ UNCHANGED <<port, pc>>
    BY Zenon DEF Cycle, InCycle, SetPin, config
  <1>2. pc \notin {"idle", "done"}
    BY <1>1 DEF HiZInv
  <1>3. port # "swd" => script' \in Seq(Harmless) /\ Head(script).op # "output"
    <2> SUFFICES ASSUME port # "swd"
                 PROVE  script' \in Seq(Harmless) /\ Head(script).op # "output"
      OBVIOUS
    <2>1. script \in Seq(Harmless) /\ script # <<>>
      BY <1>1 DEF HiZInv
    <2>2. Tail(script) \in Seq(Harmless) /\ Head(script) \in Harmless
      BY SMT, <2>1
    <2>3. \A o \in Harmless : o.op # "output"
      BY SMT DEF Harmless
    <2> QED BY <1>1, <2>2, <2>3
  <1>4. port = "disabled" => out' = {}
    <2>1. CASE Cycle
      BY <2>1, Zenon DEF Cycle, HiZInv, DisabledIsHiZ
    <2>2. CASE SetPin
      <3>1. port = "disabled" => out = {} /\ Head(script).op # "output"
        BY <1>3 DEF HiZInv, DisabledIsHiZ
      <3>2. out' \in {out, out \ {"swdio"}} \/ Head(script).op = "output"
        BY <2>2 DEF SetPin
      <3> QED BY <3>1, <3>2
    <2> QED BY <2>1, <2>2
  <1> QED BY <1>1, <1>2, <1>3, <1>4 DEF HiZInv, DisabledIsHiZ

LEMMA SequenceKeepsHiZ ==
  ASSUME HasSequences, HiZInv,
         \/ \E s \in BitSequences : SwjSequence(s)
         \/ \E s \in ItemSequences : SwdSequence(s)
  PROVE  HiZInv'
  <1>1. /\ UNCHANGED <<port, out>> /\ pc' \in {"sequence", "short"}
    BY Zenon DEF SwjSequence, SwdSequence, config, pins
  <1>2. port # "swd" => script' \in Seq(Harmless)
    <2>1. ASSUME NEW s \in BitSequences, SwjSequence(s)
          PROVE  script' \in Seq(Harmless)
      <3>1. s \in Seq(Bit)
        BY InputsAreLegal
      <3>2. script' = WriteBits(s) \/ \E b \in Cut(s) : script' = WriteBits(b)
        BY <2>1, Zenon DEF SwjSequence
      <3> QED BY <3>1, <3>2, WriteBitsIsHarmless, CutIsBits
    <2>2. ASSUME NEW s \in ItemSequences, SwdSequence(s), port # "swd"
          PROVE  script' \in Seq(Harmless)
      <3>1. s # <<>> /\ SequenceFails(s) /\ \A x : SequenceScript(x) = <<>>
        BY <2>2, Zenon DEF HasSequences, SequenceFails, SequenceScript
      <3>2. \/ script' = SequenceScript(s) \o <<>>
            \/ \E x \in CutItems(s) : script' = SequenceScript(x)
        BY <2>2, <3>1, Zenon DEF SwdSequence
      <3>3. <<>> \o <<>> = <<>> /\ <<>> \in Seq(Harmless)
        OBVIOUS
      <3> QED BY <3>1, <3>2, <3>3
    <2> QED BY <2>1, <2>2
  <1> QED BY <1>1, <1>2 DEF HiZInv, DisabledIsHiZ

\* The other steps: the script changes only on the SWD port, the port only
\* without a script.
LEMMA OthersKeepHiZ ==
  ASSUME HiZInv,
         \/ Acknowledged \/ Transferred \/ Sequenced \/ Answered
         \/ \E a \in Addresses, w \in Words : SwdTransfer(a, w)
         \/ \E t \in Turnarounds, d \in BOOLEAN : SwdConfigure(t, d)
         \/ \E c \in PinCommands : SwjPins(c)
  PROVE  HiZInv'
  <1>1. CASE Acknowledged
    <2>1. pc = "acknowledged" /\ pc' = "transferred" /\ UNCHANGED <<port, out>>
      BY <1>1, Zenon DEF Acknowledged, config, pins
    <2> QED BY <2>1 DEF HiZInv, DisabledIsHiZ
  <1>2. CASE Transferred
    <2>1. pc' = "done" /\ script = <<>> /\ UNCHANGED <<port, out, script>>
      BY <1>2, Zenon DEF Transferred, config, pins
    <2> QED BY <2>1 DEF HiZInv, DisabledIsHiZ
  <1>3. CASE Sequenced
    <2>1. pc' = "done" /\ script = <<>> /\ UNCHANGED <<port, out, script>>
      BY <1>3, Zenon DEF Sequenced, config, pins
    <2> QED BY <2>1 DEF HiZInv, DisabledIsHiZ
  <1>4. CASE Answered
    <2>1. pc = "done" /\ pc' = "idle" /\ UNCHANGED <<port, out, script>>
      BY <1>4, Zenon DEF Answered, config, pins
    <2> QED BY <2>1 DEF HiZInv, DisabledIsHiZ
  <1>5. ASSUME NEW a \in Addresses, NEW w \in Words, SwdTransfer(a, w)
        PROVE  HiZInv'
    <2>1. port = "swd" /\ pc' = "acknowledged" /\ UNCHANGED <<port, out>>
      BY <1>5, Zenon DEF SwdTransfer, config, pins
    <2> QED BY <2>1 DEF HiZInv, DisabledIsHiZ
  <1>6. ASSUME NEW t \in Turnarounds, NEW d \in BOOLEAN, SwdConfigure(t, d)
        PROVE  HiZInv'
    BY <1>6 DEF SwdConfigure, pins, HiZInv, DisabledIsHiZ
  <1>7. ASSUME NEW c \in PinCommands, SwjPins(c)
        PROVE  HiZInv'
    <2>1. pc = "idle" /\ pc' = "done" /\ UNCHANGED <<port, out, script>>
      BY <1>7, Zenon DEF SwjPins, config
    <2> QED BY <2>1 DEF HiZInv, DisabledIsHiZ
  <1> QED BY <1>1, <1>2, <1>3, <1>4, <1>5, <1>6, <1>7

LEMMA ConnectKeepsHiZ ==
  ASSUME HiZInv, Connect \/ Disconnect \/ Reset
  PROVE  HiZInv'
  <1>1. pc = "idle" /\ pc' \in {"idle", "done"} /\ script' = script
    BY Zenon DEF Connect, Disconnect, Reset
  <1>2. \/ UNCHANGED <<port, out>>
        \/ \E p \in {"swd", "jtag", "disabled"} : port' = p /\ out' = Outputs(p)
    BY DEF Connect, Disconnect, Reset, Configure, pins
  <1>3. port' = "disabled" => out' = {}
    BY <1>2 DEF Outputs, HiZInv, DisabledIsHiZ
  <1>4. script' = <<>> /\ <<>> \in Seq(Harmless)
    BY <1>1 DEF HiZInv
  <1> QED BY <1>1, <1>3, <1>4 DEF HiZInv, DisabledIsHiZ

\* A port that is disabled, by its host or by the end of a session, drives none of
\* its pins from then on (DAP_Disconnect, dap_reset).
THEOREM DisabledPortIsHiZ ==
  ASSUME HasSequences
  PROVE  Spec => []DisabledIsHiZ
  <1>1. Init => HiZInv
    <2>1. <<>> \in Seq(Harmless)
      OBVIOUS
    <2> QED BY <2>1 DEF Init, HiZInv, DisabledIsHiZ
  <1>2. HiZInv /\ [Next]_vars => HiZInv'
    <2> SUFFICES ASSUME HiZInv, [Next]_vars PROVE HiZInv'
      OBVIOUS
    <2>1. CASE UNCHANGED vars
      BY <2>1 DEF vars, config, pins, HiZInv, DisabledIsHiZ
    <2> QED BY <2>1, HasSequences, PinOperationKeepsHiZ, SequenceKeepsHiZ, OthersKeepHiZ,
               ConnectKeepsHiZ DEF Next, Handler
  <1>3. HiZInv => DisabledIsHiZ
    BY DEF HiZInv
  <1> QED BY <1>1, <1>2, <1>3, PTL DEF Spec
(***************************************************************************)
(* A transfer, in step with the target or not.                             *)
(***************************************************************************)
Slots == [act : {"drive", "take", "turn", "pass"}, bit : Bit]
Requests == [ap : Bit, read : Bit, a2 : Bit, a3 : Bit, word : Seq(Bit)]

\* Operations that make a cycle.
Pulses == [op : {"write", "read", "clock"}, bit : Bit]

\* An element counted from the end, where it stays while the others go.
Left(s, i) == s[Len(s) + 1 - i]

Bits(a) == <<1, a.ap, a.read, a.a2, a.a3, (a.ap + a.read + a.a2 + a.a3) % 2, 0, 1>>

Foreign == {"drive", "turn"}

\* All bits of a word have been read, or there are as many reads to come.
Reading ==
  \/ Len(got) > WordBits
  \/ /\ Len(script) > turnaround + IdleCycles + 2
     /\ Len(got) + Len(script) = turnaround + IdleCycles + 3 + WordBits
     /\ \A i \in (turnaround + IdleCycles + 3)..Len(script) : Left(script, i) = ReadBit

TypeInv ==
  /\ TypeOK
  /\ pc = "transferred" /\ ack = Ok /\ asked.read = 1 => Reading
  /\ plan \in Seq(Slots) /\ asked \in Requests
  /\ pc = "acknowledged" /\ asked.read = 0 => Len(asked.word) = WordBits

\* The line is never high for so long that the target would be reset: it is low in
\* the stop bit of a request and where the target drives it.
Slack == ResetBits - 7

LowEnough(p, o) ==
  \/ o + Len(p) <= Slack
  \/ \E i \in 1..Len(p) : p[i].act = "drive" /\ o + i <= Slack /\ Len(p) - i <= Slack

OnesInv ==
  /\ target = "reset" => ones = ResetBits
  /\ target = "idle" => ones <= Slack
  /\ target = "header" =>
       /\ Len(heard) \in 1..7
       /\ Len(heard) < 7 => ones <= Slack + Len(heard)
       /\ Len(heard) = 7 /\ heard[7] = 0 => ones = 0
  /\ target = "answer" => plan # <<>> /\ LowEnough(plan, ones)

\* Cycles after the acknowledgement k.
Follow(k) == IF k = Ok \/ dataPhase THEN WordBits + 1 + turnaround ELSE turnaround

\* A word and its parity.
Datum(w) == Append(w, Parity(w))

\* s is how t begins, but for a bit that has been inverted, if one has.
Nearly(s, t, i) ==
  \E x \in 0..Len(s) :
    /\ x > 0 => i
    /\ \A j \in 1..Len(s) : s[j] = IF j = x THEN 1 - t[j] ELSE t[j]

\* What the target performs for the request: the word is w.
Access(w) == [ap |-> asked.ap, read |-> asked.read, a2 |-> asked.a2, a3 |-> asked.a3, word |-> w]

\* Where the probe is before the acknowledgement.
AskOps ==
  /\ Len(script) <= turnaround + 12
  /\ \A i \in 1..Len(script) :
       /\ i <= 3 => Left(script, i) = ReadBit
       /\ 3 < i /\ i <= turnaround + 3 => Left(script, i) = Clock
       /\ i = turnaround + 4 => Left(script, i) = Input
       /\ i > turnaround + 4 => Left(script, i) = WriteBit(Bits(asked)[turnaround + 13 - i])

AskPins ==
  /\ "swdio" \in out <=> Len(script) > turnaround + 3
  /\ Len(script) > 3 => got = <<>>

AskHeader ==
  /\ Len(script) = turnaround + 12 => target = "idle" /\ done = <<>>
  /\ turnaround + 4 < Len(script) /\ Len(script) < turnaround + 12 =>
       /\ target = "header" /\ Len(heard) + Len(script) = turnaround + 12 /\ done = <<>>
       /\ \A j \in 1..Len(heard) : heard[j] = Bits(asked)[j]

\* What is left of the answer k, and what has been read of it.
AskAnswer(k) ==
  /\ target = "answer"
  /\ Len(plan) = Follow(k) + (IF Len(script) > turnaround + 3 THEN turnaround + 3 ELSE Len(script))
  /\ \A j \in 1..3 : j <= Len(script) => Left(plan, Follow(k) + j) = Driving(k[4 - j])
  /\ \A j \in 4..(turnaround + 3) : j <= Len(script) => Left(plan, Follow(k) + j).act = "turn"
  /\ Len(script) <= 3 => Len(got) + Len(script) = 3 /\ Nearly(got, k, inverted)
  /\ asked.read = 0 /\ (k = Ok \/ dataPhase) =>
       \A j \in 1..(WordBits + 1) : Left(plan, j).act \notin Foreign

\* What the target takes from the line.
Takes == \A j \in 1..Len(plan) : Left(plan, j).act = "take" <=> j <= WordBits + 1
NoTakes == \A j \in 1..Len(plan) : Left(plan, j).act # "take"

\* What it drives when it answers with the word w.
Sends(w) ==
  \A j \in 1..(WordBits + 1) :
    turnaround + j <= Len(plan) => Left(plan, turnaround + j) = Driving(Datum(w)[WordBits + 2 - j])

\* The request it has heard.
RightRequest == Len(heard) >= 8 /\ \A j \in 1..8 : heard[j] = Bits(asked)[j]

\* What follows the acknowledgement k, and what has been performed so far.
AskFollows(k) ==
  /\ RightRequest /\ Len(heard) = 8
  /\ IF k = Ok /\ asked.read = 1 THEN \E w \in Words : done = <<Access(w)>> /\ Sends(w)
     ELSE done = <<>>
  /\ IF k = Ok /\ asked.read = 0 THEN Takes ELSE NoTakes

\* The transfer is in step: the target has heard the request as it was sent.
Asking ==
  /\ AskOps /\ AskPins /\ AskHeader
  /\ Len(script) <= turnaround + 4 => \E k \in {Ok, Wait, Fault} : AskAnswer(k) /\ AskFollows(k)

\* What the target takes for a request is none: a bit of it is not the one that
\* has been sent, or it has begun late and has a one in place of the stop bit.
LateStart ==
  /\ Len(script) > turnaround + 4 => Len(heard) + Len(script) < turnaround + 12
  /\ Len(heard) = 7 => heard[7] = 1

WrongBit ==
  /\ Len(script) > turnaround + 4 /\ Len(heard) + Len(script) = turnaround + 12
  /\ \E x \in 2..Len(heard) :
       \A j \in 1..Len(heard) : heard[j] = IF j = x THEN 1 - Bits(asked)[j] ELSE Bits(asked)[j]

\* The transfer is not: the target will not answer.
AskingInVain ==
  /\ AskOps /\ AskPins /\ inverted /\ done = <<>>
  /\ Len(script) <= 3 => Len(got) + Len(script) = 3 /\ \A j \in 1..Len(got) : got[j] = 1
  /\ target \in {"lost", "reset", "idle", "header"}
  /\ target = "idle" => Len(script) < turnaround + 12
  /\ target = "header" => LateStart \/ WrongBit

\* After it: cycles, Output, v times a level, b cycles, z zeros and a level.
FollowOps(s, n, z, b, v) ==
  \A i \in 1..n :
    /\ i = 1 => Left(s, i) = Level(1)
    /\ 1 < i /\ i <= z + 1 => Left(s, i) = WriteBit(0)
    /\ z + 1 < i /\ i <= z + b + 1 => Left(s, i) \in Pulses
    /\ z + b + 1 < i /\ i < z + b + v + 2 => Left(s, i) = Level(0)
    /\ i = z + b + v + 2 => Left(s, i) = Output
    /\ i > z + b + v + 2 => Left(s, i) \in Pulses

FollowShape(z, b, v) ==
  /\ FollowOps(script, Len(script), z, b, v)
  /\ "swdio" \in out <=> Len(script) < z + b + v + 2

\* n operations from the end, m cycles are left for the target.
CyclesLeft(n, m, z, b, v) ==
  \/ n > z + b + v + 2 /\ m + (z + v + 2) = n
  \/ z + b + 1 < n /\ n <= z + b + v + 2 /\ m = b
  \/ z + 1 < n /\ n <= z + b + 1 /\ m + (z + 1) = n
  \/ n <= z + 1 /\ m = 0

FollowPlan(m, b) ==
  /\ m = 0 => target = "idle"
  /\ m > 0 => /\ target = "answer" /\ Len(plan) = m
              /\ \A j \in 1..b : j <= m => Left(plan, j).act \notin Foreign

Following(z, b, v) ==
  FollowShape(z, b, v) /\ \E m \in Nat : CyclesLeft(Len(script), m, z, b, v) /\ FollowPlan(m, b)

\* The word that is read, with its parity.
ReadOps ==
  \A i \in 1..Len(script) :
    /\ IdleCycles + 2 < i /\ i <= turnaround + IdleCycles + 2 => Left(script, i) = Clock
    /\ turnaround + IdleCycles + 2 < i => Left(script, i) = ReadBit

ReadSoFar ==
  IF Len(script) > turnaround + IdleCycles + 2
    THEN Len(got) + Len(script) = turnaround + IdleCycles + 3 + WordBits
    ELSE Len(got) = WordBits + 1

FollowingRead ==
  /\ ack = Ok /\ asked.read = 1
  /\ Following(IdleCycles, 0, 0) /\ ReadOps /\ ReadSoFar
  /\ \E w \in Words : /\ done = <<Access(w)>> /\ Nearly(got, Datum(w), inverted)
                      /\ target = "answer" => Sends(w)
  /\ target = "answer" => NoTakes

\* The target takes the word d with its parity.
Had(m) == IF m > WordBits + 1 THEN 0 ELSE WordBits + 1 - m
SoFar(h, p, d, i) ==
  /\ Len(h) = 8 + Had(Len(p))
  /\ Nearly(SubSeq(h, 9, Len(h)), d, i)

Taken(d, i) == RightRequest /\ Takes /\ SoFar(heard, plan, d, i)

\* The word that is written.
WriteOps ==
  \A j \in 1..(WordBits + 1) :
    IdleCycles + 1 + j <= Len(script) =>
      Left(script, IdleCycles + 1 + j) = WriteBit(Datum(asked.word)[WordBits + 2 - j])

FollowingWrite ==
  /\ ack = Ok /\ asked.read = 0 /\ Len(asked.word) = WordBits
  /\ Following(IdleCycles, WordBits + 1, 0) /\ WriteOps
  /\ target = "answer" => done = <<>> /\ Taken(Datum(asked.word), inverted)
  /\ target # "answer" => done = <<Access(asked.word)>> \/ (done = <<>> /\ inverted)

\* Nothing is written, and perhaps a word has been sent, unheard.
OnlySent == done = <<>> \/ (asked.read = 1 /\ \E w \in Words : done = <<Access(w)>>)

FollowingNothing ==
  /\ ack # Ok /\ (\E b \in Nat, v \in {0, 1} : Following(0, b, v))
  /\ target = "answer" => NoTakes
  /\ IF ack \in {Wait, Fault} THEN done = <<>> ELSE inverted /\ OnlySent

\* The probe does not write what the target takes: ones.
FollowingOnes ==
  /\ ack \notin {Ok, Wait, Fault} /\ asked.read = 0 /\ inverted /\ done = <<>>
  /\ Following(0, 0, 0)
  /\ target = "answer" => Taken(Times(WordBits + 1, 1), FALSE)

\* The target is idle before the probe is done, and takes the ones it hears then for
\* a request that is none; or it is lost already.
FollowingInVain ==
  /\ ack \notin {Ok, Wait, Fault} /\ inverted /\ done = <<>>
  /\ FollowShape(0, 0, 0)
  /\ target = "answer" => Len(script) = Len(plan) + WordBits + 3 /\ NoTakes
  /\ target = "idle" => Len(script) >= 10
  /\ target = "header" => Len(heard) + Len(script) >= 10 /\ (Len(heard) = 7 => heard[7] = 1)

Follows == FollowingRead \/ FollowingWrite \/ FollowingNothing \/ FollowingOnes \/ FollowingInVain

\* What the host is told.
Ended ==
  /\ OnlySent \/ (asked.read = 0 /\ done = <<Access(asked.word)>>)
  /\ ack = Ok => \/ asked.read = 1 /\ \E w \in Words : done = <<Access(w)>> /\ result = w
                 \/ asked.read = 0 /\ (done = <<>> => inverted)
  /\ ack \in {Wait, Fault} => done = <<>>

SyncInv ==
  /\ synced => port = "swd"
  /\ port = "swd" => "swclk" \in out
  /\ pc \in {"idle", "done"} => script = <<>>
  /\ pc = "idle" => got = <<>> /\ done = <<>>
  /\ pc \in {"idle", "sequence", "short"} => asked = None
  /\ synced /\ pc \in {"idle", "done"} =>
       "swdio" \in out /\ target \in {"idle", "lost", "reset"} /\ (inverted \/ target = "idle")
  /\ synced /\ pc = "acknowledged" => Asking \/ AskingInVain
  /\ synced /\ pc = "transferred" => Follows
  /\ synced /\ pc = "done" /\ asked # None => Ended

-----------------------------------------------------------------------------
LEMMA Sizes ==
  /\ WordBits \in Nat /\ WordBits > 0 /\ ResetBits \in Nat /\ IdleCycles \in Nat
  /\ \A t \in Turnarounds : t \in Nat /\ t > 0 /\ WordBits + t + 10 < ResetBits
  /\ Slack \in Nat /\ Slack + 7 = ResetBits
  <1>1. /\ WordBits \in Nat /\ WordBits > 0 /\ ResetBits \in Nat /\ IdleCycles \in Nat
        /\ \A t \in Turnarounds : t \in Nat /\ t > 0 /\ WordBits + t + 10 < ResetBits
        /\ 1 \in Turnarounds
    BY SMT, SizesAreLegal, ResetIsLonger
  <1> QED BY SMT, <1>1 DEF Slack

LEMMA ParityIsBit ==
  ASSUME NEW S, NEW bits \in Seq(S)
  PROVE  Parity(bits) \in Bit
  <1> DEFINE high == {i \in DOMAIN bits : bits[i] = 1}
  <1>1. DOMAIN bits = 1..Len(bits) /\ Len(bits) \in Nat
    OBVIOUS
  <1>2. IsFiniteSet(1..Len(bits))
    BY <1>1, FS_Interval
  <1>3. high \subseteq 1..Len(bits)
    BY <1>1
  <1>4. Cardinality(high) \in Nat
    BY Zenon, <1>2, <1>3, FS_Subset, FS_CardinalityType
  <1> HIDE DEF high
  <1>5. Cardinality(high) % 2 \in {0, 1}
    BY SMT, <1>4
  <1> QED BY Zenon, <1>5 DEF Parity, Bit, high

LEMMA OperationsAre ==
  /\ \A b \in Bit : WriteBit(b) \in Operations /\ Level(b) \in Operations
  /\ ReadBit \in Operations /\ Clock \in Operations
  /\ Output \in Operations /\ Input \in Operations
  BY SMT DEF WriteBit, Level, ReadBit, Clock, Output, Input, Operations, Bit

LEMMA SlotsAre ==
  /\ \A b \in Bit : Driving(b) \in Slots /\ Driving(b).act = "drive" /\ Driving(b).bit = b
  /\ Taking \in Slots /\ Taking.act = "take"
  /\ Turning \in Slots /\ Turning.act = "turn"
  /\ Passing \in Slots /\ Passing.act = "pass"
  BY SMT DEF Driving, Taking, Turning, Passing, Slots, Bit

LEMMA WriteBitsAre ==
  ASSUME NEW bits \in Seq(Bit)
  PROVE  /\ WriteBits(bits) \in Seq(Operations) /\ Len(WriteBits(bits)) = Len(bits)
         /\ \A i \in 1..Len(bits) : WriteBits(bits)[i] = WriteBit(bits[i])
  <1>1. \A i \in 1..Len(bits) : WriteBit(bits[i]) \in Operations
    BY OperationsAre
  <1>2. Len(bits) \in Nat
    OBVIOUS
  <1> HIDE DEF Operations, WriteBit
  <1> QED BY SMT, <1>1, <1>2 DEF WriteBits

LEMMA DriveAllIs ==
  ASSUME NEW bits \in Seq(Bit)
  PROVE  /\ DriveAll(bits) \in Seq(Slots) /\ Len(DriveAll(bits)) = Len(bits)
         /\ \A i \in 1..Len(bits) : DriveAll(bits)[i] = Driving(bits[i])
  <1>1. \A i \in 1..Len(bits) : Driving(bits[i]) \in Slots
    BY SlotsAre
  <1>2. Len(bits) \in Nat
    OBVIOUS
  <1> HIDE DEF Slots, Driving
  <1> QED BY SMT, <1>1, <1>2 DEF DriveAll

\* Elements of two sequences counted from the end of both.
LEMMA LeftOfConcat ==
  ASSUME NEW S, NEW s \in Seq(S), NEW t \in Seq(S), NEW m, NEW n, Len(s) = m, Len(t) = n
  PROVE  /\ s \o t \in Seq(S) /\ Len(s \o t) = m + n
         /\ \A i \in 1..n : Left(s \o t, i) = Left(t, i)
         /\ \A i \in (n + 1)..(n + m) : Left(s \o t, i) = Left(s, i - n)
  <1>1. /\ s \o t \in Seq(S) /\ Len(s \o t) = Len(s) + Len(t)
        /\ \A i \in 1..Len(s) + Len(t) :
             (s \o t)[i] = IF i <= Len(s) THEN s[i] ELSE t[i - Len(s)]
    BY ConcatProperties
  <1>2. Len(s) \in Nat /\ Len(t) \in Nat
    OBVIOUS
  <1> DEFINE u == s \o t
  <1> HIDE DEF u
  <1>3. ASSUME NEW i \in 1..Len(t)
        PROVE  u[Len(u) + 1 - i] = t[Len(t) + 1 - i]
    <2>1. Len(u) + 1 - i \in 1..(Len(s) + Len(t)) /\ ~(Len(u) + 1 - i <= Len(s))
          /\ (Len(u) + 1 - i) - Len(s) = Len(t) + 1 - i
      BY SMT, <1>1, <1>2 DEF u
    <2> QED BY Zenon, <1>1, <2>1 DEF u
  <1>4. ASSUME NEW i \in (Len(t) + 1)..(Len(t) + Len(s))
        PROVE  u[Len(u) + 1 - i] = s[Len(s) + 1 - (i - Len(t))]
    <2>1. Len(u) + 1 - i \in 1..(Len(s) + Len(t)) /\ Len(u) + 1 - i <= Len(s)
          /\ Len(u) + 1 - i = Len(s) + 1 - (i - Len(t))
      BY SMT, <1>1, <1>2 DEF u
    <2> QED BY Zenon, <1>1, <2>1 DEF u
  <1> QED BY Zenon, <1>1, <1>3, <1>4 DEF u, Left

LEMMA SlotsConcat ==
  ASSUME NEW s \in Seq(Slots), NEW t \in Seq(Slots), NEW m, NEW n, Len(s) = m, Len(t) = n
  PROVE  /\ s \o t \in Seq(Slots) /\ Len(s \o t) = m + n
         /\ \A i \in 1..n : Left(s \o t, i) = Left(t, i)
         /\ \A i \in (n + 1)..(n + m) : Left(s \o t, i) = Left(s, i - n)
  BY LeftOfConcat

\* Taking the first away leaves the others where they are.
LEMMA LeftOfTail ==
  ASSUME NEW S, NEW s \in Seq(S), s # <<>>
  PROVE  /\ Tail(s) \in Seq(S) /\ Len(Tail(s)) = Len(s) - 1 /\ Len(s) > 0
         /\ Head(s) = Left(s, Len(s)) /\ Head(s) \in S
         /\ \A i \in 1..(Len(s) - 1) : Left(Tail(s), i) = Left(s, i)
  <1>1. /\ Tail(s) \in Seq(S) /\ Len(Tail(s)) = Len(s) - 1 /\ Len(s) > 0
        /\ Head(s) = s[1] /\ Head(s) \in S /\ Len(s) \in Nat
        /\ \A i \in 1..(Len(s) - 1) : Tail(s)[i] = s[i + 1]
    BY SMT
  <1>2. Len(s) + 1 - Len(s) = 1
    BY SMT, <1>1
  <1>3. ASSUME NEW i \in 1..(Len(s) - 1)
        PROVE  Tail(s)[Len(Tail(s)) + 1 - i] = s[Len(s) + 1 - i]
    <2>1. /\ Len(Tail(s)) + 1 - i \in 1..(Len(s) - 1)
          /\ (Len(Tail(s)) + 1 - i) + 1 = Len(s) + 1 - i
      BY SMT, <1>1
    <2> QED BY Zenon, <1>1, <2>1
  <1> QED BY Zenon, <1>1, <1>2, <1>3 DEF Left

LEMMA RunIs ==
  ASSUME NEW S, NEW n \in Nat, NEW x \in S
  PROVE  /\ Times(n, x) \in Seq(S) /\ Len(Times(n, x)) = n
         /\ \A i \in 1..n : Left(Times(n, x), i) = x
  <1>1. /\ Times(n, x) \in Seq(S) /\ Len(Times(n, x)) = n
        /\ \A i \in 1..n : Times(n, x)[i] = x
    BY SMT DEF Times
  <1>2. \A i \in 1..n : n + 1 - i \in 1..n
    BY SMT
  <1> QED BY Zenon, <1>1, <1>2 DEF Left

LEMMA LeftOfOne ==
  ASSUME NEW S, NEW x \in S
  PROVE  <<x>> \in Seq(S) /\ Len(<<x>>) = 1 /\ Left(<<x>>, 1) = x
  BY SMT DEF Left

-----------------------------------------------------------------------------
(***************************************************************************)
(* The target.                                                             *)
(***************************************************************************)
Acks == {Ok, Wait, Fault}

WireOK ==
  /\ turnaround \in Turnarounds /\ dataPhase \in BOOLEAN
  /\ target \in {"lost", "reset", "idle", "header", "answer"}
  /\ heard \in Seq(Bit) /\ ones \in 0..ResetBits /\ plan \in Seq(Slots)

LEMMA AcksAre ==
  /\ \A k \in Acks : k \in Seq(Bit) /\ Len(k) = 3
  /\ Ok # Wait /\ Ok # Fault /\ Acks = {Ok, Wait, Fault}
  BY SMT DEF Acks, Ok, Wait, Fault, Bit

LEMMA WordsAre ==
  ASSUME NEW w \in Words
  PROVE  w \in Seq(Bit) /\ Len(w) = WordBits
  BY SMT, InputsAreLegal, Sizes

LEMMA DatumIs ==
  ASSUME NEW w \in Words
  PROVE  /\ DriveAll(Append(w, Parity(w))) \in Seq(Slots)
         /\ Len(DriveAll(Append(w, Parity(w)))) = WordBits + 1
  <1>1. w \in Seq(Bit) /\ Len(w) = WordBits /\ Parity(w) \in Bit
    BY WordsAre, ParityIsBit
  <1>2. Append(w, Parity(w)) \in Seq(Bit) /\ Len(Append(w, Parity(w))) = WordBits + 1
    BY SMT, <1>1, Sizes
  <1> QED BY Zenon, <1>2, DriveAllIs

\* What follows the acknowledgement k.
FollowUp(r, k, w) ==
  LET turn == Times(turnaround, Turning)
      datum == DriveAll(Append(w, Parity(w)))
  IN  CASE k = Ok /\ r.read = 1 -> datum \o turn
        [] k = Ok /\ r.read = 0 -> turn \o Times(WordBits + 1, Taking)
        [] k # Ok /\ dataPhase /\ r.read = 1 -> datum \o turn
        [] k # Ok /\ dataPhase /\ r.read = 0 -> turn \o Times(WordBits + 1, Passing)
        [] OTHER -> turn

LEMMA FollowUpIs ==
  ASSUME turnaround \in Turnarounds, dataPhase \in BOOLEAN,
         NEW r, r.read \in Bit, NEW k \in Acks, NEW w \in Words
  PROVE  /\ FollowUp(r, k, w) \in Seq(Slots) /\ Len(FollowUp(r, k, w)) = Follow(k)
         /\ r.read = 0 /\ (k = Ok \/ dataPhase) =>
              \A j \in 1..(WordBits + 1) : Left(FollowUp(r, k, w), j).act \notin Foreign
  <1> DEFINE turn == Times(turnaround, Turning)
             datum == DriveAll(Append(w, Parity(w)))
             f == FollowUp(r, k, w)
  <1>1. /\ turnaround \in Nat /\ WordBits \in Nat /\ WordBits + 1 \in Nat
        /\ turnaround + (WordBits + 1) = WordBits + 1 + turnaround
    BY SMT, Sizes
  <1>2. turn \in Seq(Slots) /\ Len(turn) = turnaround
    BY Zenon, <1>1, SlotsAre, RunIs
  <1>3. datum \in Seq(Slots) /\ Len(datum) = WordBits + 1
    BY DatumIs
  <1>4. \A x \in Slots : /\ Times(WordBits + 1, x) \in Seq(Slots)
                         /\ Len(Times(WordBits + 1, x)) = WordBits + 1
                         /\ \A i \in 1..(WordBits + 1) : Left(Times(WordBits + 1, x), i) = x
    BY Zenon, <1>1, RunIs
  <1>5. Taking.act \notin Foreign /\ Passing.act \notin Foreign
    BY SlotsAre DEF Foreign
  <1>6. r.read = 0 \/ r.read = 1
    BY DEF Bit
  <1>7. 0 # 1
    BY SMT
  <1> HIDE DEF turn, datum, f
  <1>8. CASE k = Ok \/ dataPhase
    <2>1. Follow(k) = WordBits + 1 + turnaround
      BY Zenon, <1>8 DEF Follow
    <2>2. CASE r.read = 1
      <3>1. f = datum \o turn
        BY Zenon, <1>7, <1>8, <2>2 DEF f, FollowUp, turn, datum
      <3>2. f \in Seq(Slots) /\ Len(f) = WordBits + 1 + turnaround
        BY SMT, <1>2, <1>3, <3>1, SlotsConcat
      <3> QED BY Zenon, <1>7, <2>1, <2>2, <3>2 DEF f
    <2>3. CASE r.read = 0
      <3>1. PICK x \in {Taking, Passing} : f = turn \o Times(WordBits + 1, x)
        BY Zenon, <1>7, <1>8, <2>3 DEF f, FollowUp, turn
      <3>2. x \in Slots /\ x.act \notin Foreign
        BY Zenon, <1>5, SlotsAre
      <3> DEFINE u == Times(WordBits + 1, x)
      <3> HIDE DEF u
      <3>3. u \in Seq(Slots) /\ Len(u) = WordBits + 1
        BY Zenon, <1>4, <3>2 DEF u
      <3>4. /\ f \in Seq(Slots) /\ Len(f) = turnaround + (WordBits + 1)
            /\ \A i \in 1..(WordBits + 1) : Left(f, i) = Left(u, i)
        BY SMT, <1>2, <3>1, <3>3, SlotsConcat DEF u
      <3> QED BY Zenon, <1>1, <1>4, <2>1, <3>2, <3>4 DEF f, u
    <2> QED BY Zenon, <1>6, <2>2, <2>3
  <1>9. CASE ~(k = Ok \/ dataPhase)
    <2>1. f = turn /\ Follow(k) = turnaround
      BY Zenon, <1>9 DEF f, FollowUp, turn, Follow
    <2> QED BY Zenon, <1>2, <1>9, <2>1 DEF f
  <1> QED BY Zenon, <1>8, <1>9

LEMMA AnswerIs ==
  ASSUME turnaround \in Turnarounds, dataPhase \in BOOLEAN,
         NEW r, r.read \in Bit, NEW k \in Acks, NEW w \in Words
  PROVE  LET a == Answer(r, k, w)
         IN  /\ a \in Seq(Slots) /\ Len(a) = Follow(k) + (turnaround + 3)
             /\ \A j \in 1..3 : Left(a, Follow(k) + j) = Driving(k[4 - j])
             /\ \A j \in 4..(turnaround + 3) : Left(a, Follow(k) + j).act = "turn"
             /\ r.read = 0 /\ (k = Ok \/ dataPhase) =>
                  \A j \in 1..(WordBits + 1) : Left(a, j).act \notin Foreign
  <1> DEFINE a == Answer(r, k, w)
             turn == Times(turnaround, Turning)
             f == FollowUp(r, k, w)
             l == Follow(k)
  <1>1. /\ f \in Seq(Slots) /\ Len(f) = l
        /\ r.read = 0 /\ (k = Ok \/ dataPhase) =>
              \A j \in 1..(WordBits + 1) : Left(f, j).act \notin Foreign
    BY Zenon, FollowUpIs
  <1>2. /\ turnaround \in Nat /\ l \in Nat /\ (k = Ok \/ dataPhase => l >= WordBits + 1)
        /\ WordBits \in Nat
    BY SMT, Sizes DEF Follow
  <1>3. /\ turn \in Seq(Slots) /\ Len(turn) = turnaround
        /\ \A i \in 1..turnaround : Left(turn, i) = Turning
    BY Zenon, <1>2, SlotsAre, RunIs
  <1>4. k \in Seq(Bit) /\ Len(k) = 3
    BY AcksAre
  <1>5. /\ DriveAll(k) \in Seq(Slots) /\ Len(DriveAll(k)) = 3
        /\ \A i \in 1..3 : DriveAll(k)[i] = Driving(k[i])
    BY Zenon, <1>4, DriveAllIs
  <1>6. \A j \in 1..3 : Left(DriveAll(k), j) = Driving(k[4 - j])
    <2>1. ASSUME NEW j \in 1..3 PROVE 3 + 1 - j \in 1..3 /\ 3 + 1 - j = 4 - j
      BY SMT
    <2> QED BY Zenon, <1>5, <2>1 DEF Left
  <1> DEFINE d == DriveAll(k)
             s == turn \o d
  <1>7. a = s \o f
    BY Zenon DEF Answer, FollowUp
  <1> HIDE DEF a, turn, f, l, d
  <1>8. /\ s \in Seq(Slots) /\ Len(s) = turnaround + 3
        /\ \A j \in 1..3 : Left(s, j) = Left(d, j)
        /\ \A j \in (3 + 1)..(3 + turnaround) : Left(s, j) = Left(turn, j - 3)
    <2>1. d \in Seq(Slots) /\ Len(d) = 3
      BY Zenon, <1>5 DEF d
    <2>2. turn \in Seq(Slots) /\ Len(turn) = turnaround
      BY Zenon, <1>3
    <2>3. s = turn \o d
      OBVIOUS
    <2> DEFINE n == Len(d)
    <2> HIDE DEF s, n
    <2>4. Len(d) = n
      BY DEF n
    <2>5. /\ s \in Seq(Slots) /\ Len(s) = turnaround + n
          /\ \A j \in 1..n : Left(s, j) = Left(d, j)
          /\ \A j \in (n + 1)..(n + turnaround) : Left(s, j) = Left(turn, j - n)
      BY SMT, <2>1, <2>2, <2>3, <2>4, SlotsConcat
    <2> QED BY Zenon, <2>1, <2>5 DEF n
  <1> HIDE DEF s
  <1>9. /\ a \in Seq(Slots) /\ Len(a) = turnaround + 3 + l
        /\ \A j \in 1..l : Left(a, j) = Left(f, j)
        /\ \A j \in (l + 1)..(l + (turnaround + 3)) : Left(a, j) = Left(s, j - l)
    BY SMT, <1>1, <1>7, <1>8, SlotsConcat
  <1>10. ASSUME NEW j \in 1..(turnaround + 3) PROVE Left(a, l + j) = Left(s, j)
    <2>1. l + j \in (l + 1)..(l + (turnaround + 3)) /\ (l + j) - l = j
      BY SMT, <1>2
    <2> QED BY Zenon, <1>9, <2>1
  <1>11. ASSUME NEW j \in 1..3 PROVE Left(a, l + j) = Driving(k[4 - j])
    <2>1. j \in 1..(turnaround + 3)
      BY SMT, <1>2
    <2> QED BY Zenon, <1>6, <1>8, <1>10, <2>1 DEF d
  <1>12. ASSUME NEW j \in 4..(turnaround + 3) PROVE Left(a, l + j).act = "turn"
    <2>1. j \in 1..(turnaround + 3) /\ j \in (3 + 1)..(3 + turnaround) /\ j - 3 \in 1..turnaround
      BY SMT, <1>2
    <2> QED BY Zenon, <1>3, <1>8, <1>10, <2>1, SlotsAre
  <1>13. ASSUME r.read = 0, k = Ok \/ dataPhase, NEW j \in 1..(WordBits + 1)
         PROVE  Left(a, j).act \notin Foreign
    <2>1. j \in 1..l
      BY SMT, <1>2, <1>13
    <2> QED BY Zenon, <1>1, <1>9, <1>13, <2>1
  <1>14. Len(a) = l + (turnaround + 3)
    BY SMT, <1>2, <1>9
  <1> QED BY Zenon, <1>9, <1>11, <1>12, <1>13, <1>14 DEF a, l

\* What the target does with a bit, apart from what it performs.
LEMMA HearsCases ==
  ASSUME WireOK, NEW b \in Bit, Hears(b)
  PROVE  /\ ones' = IF TargetDrives \/ b = 0 THEN 0 ELSE IF ones < ResetBits THEN ones + 1 ELSE ones
         /\ \/ ones' = ResetBits /\ target' = "reset" /\ heard' = <<>> /\ plan' = <<>>
            \/ /\ ones' < ResetBits
               /\ \/ /\ target = "idle" /\ b = 1 /\ target' = "header"
                     /\ heard' = <<1>> /\ plan' = plan
                  \/ target = "header" /\ Header(b)
                  \/ target = "answer" /\ Respond(b)
                  \/ target = "reset" /\ target' = "idle" /\ UNCHANGED <<heard, plan>>
                  \/ /\ target = "lost" \/ (target = "idle" /\ b = 0)
                     /\ UNCHANGED <<target, heard, plan>>
  <1>1. b = 0 \/ b = 1
    BY DEF Bit
  <1>2. CASE target = "idle" /\ b = 1
    BY Zenon, <1>2 DEF Hears
  <1>3. CASE target = "header"
    <2>1. "header" # "idle"
      OBVIOUS
    <2> QED BY Zenon, <1>3, <2>1 DEF Hears
  <1>4. CASE target = "answer"
    <2>1. "answer" # "idle" /\ "answer" # "header"
      OBVIOUS
    <2> QED BY Zenon, <1>4, <2>1 DEF Hears
  <1>5. CASE target = "reset"
    <2>1. "reset" # "idle" /\ "reset" # "header" /\ "reset" # "answer"
      OBVIOUS
    <2> QED BY Zenon, <1>5, <2>1 DEF Hears
  <1>6. CASE target = "lost" \/ (target = "idle" /\ b = 0)
    <2>1. /\ "lost" # "idle" /\ "lost" # "header" /\ "lost" # "answer" /\ "lost" # "reset"
          /\ "idle" # "header" /\ "idle" # "answer" /\ "idle" # "reset"
      OBVIOUS
    <2>2. b = 1 => target # "idle"
      BY SMT, <1>6
    <2> QED BY Zenon, <1>6, <2>1, <2>2 DEF Hears
  <1> QED BY Zenon, <1>1, <1>2, <1>3, <1>4, <1>5, <1>6 DEF WireOK

LEMMA AppendIs ==
  ASSUME NEW S, NEW s \in Seq(S), NEW x \in S
  PROVE  /\ Append(s, x) \in Seq(S) /\ Len(Append(s, x)) = Len(s) + 1
         /\ \A i \in 1..Len(s) : Append(s, x)[i] = s[i]
         /\ Append(s, x)[Len(s) + 1] = x
  BY SMT

\* An answer begins with the line high once, at most, and has it low soon.
LEMMA AnswerIsLow ==
  ASSUME turnaround \in Turnarounds, dataPhase \in BOOLEAN,
         NEW r, r.read \in Bit, NEW k \in Acks, NEW w \in Words
  PROVE  Answer(r, k, w) # <<>> /\ LowEnough(Answer(r, k, w), 1)
  <1> DEFINE a == Answer(r, k, w)
             l == Follow(k)
  <1>1. /\ a \in Seq(Slots) /\ Len(a) = l + (turnaround + 3)
        /\ \A j \in 1..3 : Left(a, l + j) = Driving(k[4 - j])
    BY Zenon, AnswerIs
  <1>2. /\ turnaround \in Nat /\ l \in Nat /\ l <= Slack /\ turnaround + 4 <= Slack
        /\ Slack \in Nat /\ turnaround > 0
    BY SMT, Sizes DEF Follow
  <1> HIDE DEF a, l
  <1>3. k[3] \in Bit
    <2>1. k \in Seq(Bit) /\ Len(k) = 3
      BY AcksAre
    <2>2. 3 \in 1..Len(k)
      BY SMT, <2>1
    <2> QED BY <2>1, <2>2, ElementOfSeq
  <1>4. a[turnaround + 3].act = "drive"
    <2>1. 1 \in 1..3 /\ 4 - 1 = 3 /\ Len(a) + 1 - (l + 1) = turnaround + 3
      BY SMT, <1>1, <1>2
    <2>2. Left(a, l + 1) = Driving(k[3])
      BY Zenon, <1>1, <2>1
    <2>3. a[turnaround + 3] = Driving(k[3])
      BY Zenon, <2>1, <2>2 DEF Left
    <2> QED BY Zenon, <1>3, <2>3, SlotsAre
  <1>5. /\ turnaround + 3 \in 1..Len(a) /\ 1 + (turnaround + 3) <= Slack
        /\ Len(a) - (turnaround + 3) <= Slack
    BY SMT, <1>1, <1>2
  <1>6. a # <<>>
    BY SMT, <1>1, <1>2
  <1> QED BY Zenon, <1>4, <1>5, <1>6 DEF LowEnough, a

\* The next cycle of an answer: the line is still low often enough, and no reset.
LEMMA LowGoesOn ==
  ASSUME WireOK, target = "answer", plan # <<>>, LowEnough(plan, ones), NEW b \in Bit,
         ones' = IF TargetDrives \/ b = 0 THEN 0 ELSE IF ones < ResetBits THEN ones + 1 ELSE ones
  PROVE  /\ ones' \in 0..ResetBits /\ ones' <= Slack
         /\ plan' = Tail(plan) => LowEnough(plan, ones)'
  <1>1. /\ ones \in Nat /\ ones <= ResetBits /\ plan \in Seq(Slots)
        /\ Slack \in Nat /\ Slack + 7 = ResetBits /\ ResetBits \in Nat
    BY SMT, Sizes DEF WireOK
  <1>2. /\ Len(plan) \in Nat /\ Len(plan) > 0 /\ Len(Tail(plan)) = Len(plan) - 1
        /\ Head(plan) = plan[1]
        /\ \A i \in 1..(Len(plan) - 1) : Tail(plan)[i] = plan[i + 1]
    BY SMT, <1>1
  <1>3. TargetDrives <=> plan[1].act = "drive"
    BY Zenon, <1>2 DEF TargetDrives
  <1>4. CASE TargetDrives \/ b = 0
    <2>1. ones' = 0
      BY Zenon, <1>4
    <2>2. CASE ones + Len(plan) <= Slack
      BY SMT, <1>1, <1>2, <2>1, <2>2 DEF LowEnough
    <2>3. ASSUME NEW i \in 1..Len(plan), plan[i].act = "drive",
                 ones + i <= Slack, Len(plan) - i <= Slack
          PROVE  plan' = Tail(plan) => LowEnough(plan, ones)'
      <3>1. CASE i = 1
        BY SMT, <1>1, <1>2, <2>1, <2>3, <3>1 DEF LowEnough
      <3>2. CASE i > 1
        <4>1. /\ i - 1 \in 1..(Len(plan) - 1) /\ 0 + (i - 1) <= Slack
              /\ (Len(plan) - 1) - (i - 1) <= Slack /\ (i - 1) + 1 = i
          BY SMT, <1>1, <1>2, <2>3, <3>2
        <4>2. Tail(plan)[i - 1] = plan[i]
          BY Zenon, <1>2, <4>1
        <4> QED BY Zenon, <1>2, <2>1, <2>3, <4>1, <4>2 DEF LowEnough
      <3> QED BY SMT, <1>2, <3>1, <3>2
    <2> QED BY SMT, <1>1, <2>1, <2>2, <2>3 DEF LowEnough
  <1>5. CASE ~(TargetDrives \/ b = 0)
    <2>1. CASE ones + Len(plan) <= Slack
      <3>1. ones' = ones + 1
        BY SMT, <1>1, <1>2, <1>5, <2>1
      <3> QED BY SMT, <1>1, <1>2, <3>1, <2>1 DEF LowEnough
    <2>2. ASSUME NEW i \in 1..Len(plan), plan[i].act = "drive",
                 ones + i <= Slack, Len(plan) - i <= Slack
          PROVE  /\ ones' = ones + 1 /\ ones + 1 <= Slack
                 /\ (plan' = Tail(plan) => LowEnough(plan, ones)')
      <3>1. i # 1
        BY Zenon, <1>3, <1>5, <2>2
      <3>2. /\ i - 1 \in 1..(Len(plan) - 1) /\ (ones + 1) + (i - 1) <= Slack
            /\ (Len(plan) - 1) - (i - 1) <= Slack /\ (i - 1) + 1 = i
            /\ ones' = ones + 1 /\ ones + 1 <= Slack
        BY SMT, <1>1, <1>2, <1>5, <2>2, <3>1
      <3>3. Tail(plan)[i - 1] = plan[i]
        BY Zenon, <1>2, <3>2
      <3> QED BY Zenon, <1>2, <2>2, <3>2, <3>3 DEF LowEnough
    <2> QED BY SMT, <1>1, <2>1, <2>2 DEF LowEnough
  <1> QED BY Zenon, <1>4, <1>5

\* One bit more of a request.
LEMMA HeaderIs ==
  ASSUME WireOK, target = "header", Len(heard) \in 1..7, NEW b \in Bit, Header(b)
  PROVE  /\ heard' = Append(heard, b) /\ heard' \in Seq(Bit) /\ Len(heard') = Len(heard) + 1
         /\ \/ Len(heard) < 7 /\ UNCHANGED <<target, plan>>
            \/ Len(heard) = 7 /\ ~WellFormed(heard') /\ target' = "lost" /\ plan' = plan
            \/ /\ Len(heard) = 7 /\ WellFormed(heard') /\ target' = "answer"
               /\ \E k \in Acks, w \in Words : plan' = Answer(Request(heard'), k, w)
  <1>1. /\ heard' = Append(heard, b)
        /\ \/ Len(heard') < 8 /\ UNCHANGED <<target, plan>>
           \/ ~(Len(heard') < 8) /\ ~WellFormed(heard') /\ target' = "lost" /\ plan' = plan
           \/ /\ ~(Len(heard') < 8) /\ WellFormed(heard') /\ target' = "answer"
              /\ \E k \in Acks, w \in Words : plan' = Answer(Request(heard'), k, w)
    BY Zenon DEF Header, Acks
  <1>2. heard' \in Seq(Bit) /\ Len(heard') = Len(heard) + 1
    BY Zenon, <1>1, AppendIs DEF WireOK
  <1>3. /\ Len(heard') < 8 => Len(heard) < 7
        /\ ~(Len(heard') < 8) => Len(heard) = 7
    <2> DEFINE n == Len(heard)
               m == Len(heard')
    <2>1. n \in 1..7 /\ m = n + 1
      BY Zenon, <1>2
    <2> HIDE DEF n, m
    <2>2. (m < 8 => n < 7) /\ (~(m < 8) => n = 7)
      BY SMT, <2>1
    <2> QED BY Zenon, <2>2 DEF n, m
  <1> QED BY Zenon, <1>1, <1>2, <1>3

LEMMA RespondIs ==
  ASSUME WireOK, plan # <<>>, NEW b \in Bit, Respond(b)
  PROVE  /\ plan' = Tail(plan) /\ plan' \in Seq(Slots) /\ heard' \in Seq(Bit)
         /\ Len(plan) = 1 => target' = "idle"
         /\ Len(plan) # 1 => target' = target /\ plan' # <<>>
  <1>1. /\ plan' = Tail(plan)
        /\ heard' \in {<<>>, Append(heard, b), heard}
        /\ target' = IF Len(plan) = 1 THEN "idle" ELSE target
    BY DEF Respond
  <1>2. Append(heard, b) \in Seq(Bit) /\ heard \in Seq(Bit) /\ <<>> \in Seq(Bit)
    <2>1. <<>> \in Seq(Bit)
      OBVIOUS
    <2> QED BY Zenon, <2>1, AppendIs DEF WireOK
  <1>3. Tail(plan) \in Seq(Slots) /\ (Len(plan) # 1 => Tail(plan) # <<>>)
    <2> DEFINE t == Tail(plan)
    <2>1. t \in Seq(Slots) /\ Len(t) = Len(plan) - 1 /\ Len(plan) \in Nat
      BY Zenon, LeftOfTail, LenProperties DEF WireOK
    <2> HIDE DEF t
    <2>2. Len(plan) # 1 => Len(t) # 0
      BY SMT, <2>1
    <2>3. t = <<>> => Len(t) = 0
      BY SMT
    <2> QED BY Zenon, <2>1, <2>2, <2>3 DEF t
  <1> QED BY Zenon, <1>1, <1>2, <1>3

LEMMA RequestReads ==
  ASSUME NEW h \in Seq(Bit), Len(h) = 8
  PROVE  Request(h).read \in Bit /\ Request(h).read = h[3]
  <1>1. h[3] \in Bit
    <2>1. 3 \in 1..Len(h)
      BY SMT
    <2> QED BY <2>1, ElementOfSeq
  <1> QED BY <1>1 DEF Request

LEMMA HeaderKeeps ==
  ASSUME WireOK, OnesInv, target = "header", NEW b \in Bit, Header(b), ones' < ResetBits,
         ones' = IF b = 0 THEN 0 ELSE IF ones < ResetBits THEN ones + 1 ELSE ones,
         UNCHANGED <<turnaround, dataPhase>>
  PROVE  WireOK' /\ OnesInv'
  <1>1. /\ Len(heard) \in 1..7
        /\ Len(heard) < 7 => ones <= Slack + Len(heard)
        /\ Len(heard) = 7 /\ heard[7] = 0 => ones = 0
    BY Zenon DEF OnesInv
  <1>2. /\ heard' = Append(heard, b) /\ heard' \in Seq(Bit) /\ Len(heard') = Len(heard) + 1
        /\ \/ Len(heard) < 7 /\ UNCHANGED <<target, plan>>
           \/ Len(heard) = 7 /\ ~WellFormed(heard') /\ target' = "lost" /\ plan' = plan
           \/ /\ Len(heard) = 7 /\ WellFormed(heard') /\ target' = "answer"
              /\ \E k \in Acks, w \in Words : plan' = Answer(Request(heard'), k, w)
    BY Zenon, <1>1, HeaderIs
  <1>3. /\ ones \in Nat /\ ones <= ResetBits
        /\ Slack \in Nat /\ Slack + 7 = ResetBits /\ ResetBits \in Nat
    BY SMT, Sizes DEF WireOK
  <1>4. ones' \in 0..ResetBits
    <2>1. CASE b = 0
      BY SMT, <1>3, <2>1
    <2>2. CASE b # 0
      <3>1. ones' \in {ones, ones + 1} /\ (ones' = ones + 1 => ones < ResetBits)
        BY SMT, <1>3, <2>2
      <3> QED BY SMT, <1>3, <3>1
    <2> QED BY Zenon, <2>1, <2>2
  <1>5. /\ \A i \in 1..Len(heard) : heard'[i] = heard[i]
        /\ heard'[Len(heard) + 1] = b
    <2>1. /\ \A i \in 1..Len(heard) : Append(heard, b)[i] = heard[i]
          /\ Append(heard, b)[Len(heard) + 1] = b
      <3>1. heard \in Seq(Bit) /\ b \in Bit
        BY Zenon DEF WireOK
      <3> QED BY SMT, <3>1
    <2>2. heard' = Append(heard, b)
      BY Zenon, <1>2
    <2> QED BY Zenon, <2>1, <2>2
  <1>6. /\ "header" # "reset" /\ "header" # "idle" /\ "header" # "answer"
        /\ "lost" # "reset" /\ "lost" # "idle" /\ "lost" # "answer" /\ "lost" # "header"
        /\ "answer" # "reset" /\ "answer" # "idle" /\ "answer" # "header"
    OBVIOUS
  <1>7. CASE Len(heard) < 7 /\ UNCHANGED <<target, plan>>
    <2> DEFINE n == Len(heard)
    <2>1. n \in 1..7 /\ n < 7 /\ ones <= Slack + n /\ Len(heard') = n + 1 /\ heard'[n + 1] = b
      BY Zenon, <1>1, <1>2, <1>5, <1>7
    <2> HIDE DEF n
    <2>2. n + 1 \in 1..7 /\ (n + 1 < 7 => ones' <= Slack + (n + 1)) /\ (b = 0 => ones' = 0)
      BY SMT, <1>3, <2>1
    <2>3. n + 1 = 7 /\ heard'[7] = 0 => ones' = 0
      BY Zenon, <2>1, <2>2
    <2>4. target' = "header"
      BY <1>7
    <2> QED BY Zenon, <1>2, <1>4, <1>6, <1>7, <2>1, <2>2, <2>3, <2>4 DEF WireOK, OnesInv
  <1>8. CASE target' = "lost" /\ plan' = plan
    BY Zenon, <1>2, <1>4, <1>6, <1>8 DEF WireOK, OnesInv
  <1>9. ASSUME Len(heard) = 7, WellFormed(heard'), target' = "answer",
               NEW k \in Acks, NEW w \in Words, plan' = Answer(Request(heard'), k, w)
        PROVE  WireOK' /\ OnesInv'
    <2>1. Len(heard') = 8 /\ 7 \in 1..Len(heard) /\ Len(heard) + 1 = 8
      BY SMT, <1>2, <1>9
    <2>2. heard[7] = 0 /\ b = 1
      <3>1. heard'[7] = 0 /\ heard'[8] = 1
        BY Zenon, <1>9 DEF WellFormed
      <3>2. heard'[7] = heard[7] /\ heard'[8] = b
        BY Zenon, <1>5, <2>1
      <3> QED BY Zenon, <3>1, <3>2
    <2>3. ones' = 1
      BY SMT, <1>1, <1>3, <1>9, <2>2, Sizes
    <2>4. Request(heard').read \in Bit
      BY Zenon, <1>2, <2>1, RequestReads
    <2> DEFINE a == Answer(Request(heard'), k, w)
    <2>5. a \in Seq(Slots)
      BY Zenon, <2>4, AnswerIs DEF WireOK
    <2>6. a # <<>> /\ LowEnough(a, 1)
      BY Zenon, <2>4, AnswerIsLow DEF WireOK
    <2>7. plan' \in Seq(Slots) /\ plan' # <<>> /\ LowEnough(plan', ones')
      BY Zenon, <1>9, <2>3, <2>5, <2>6
    <2>8. WireOK'
      BY Zenon, <1>2, <1>4, <1>9, <2>7 DEF WireOK
    <2>9. OnesInv'
      BY Zenon, <1>6, <1>9, <2>7 DEF OnesInv
    <2> QED BY Zenon, <2>8, <2>9
  <1> QED BY Zenon, <1>2, <1>7, <1>8, <1>9

\* Whatever bit it hears, the target stays as it is supposed to be.
LEMMA HearsKeeps ==
  ASSUME WireOK, OnesInv, NEW b \in Bit, Hears(b), UNCHANGED <<turnaround, dataPhase>>
  PROVE  WireOK' /\ OnesInv'
  <1>1. /\ ones \in Nat /\ ones <= ResetBits
        /\ Slack \in Nat /\ Slack + 7 = ResetBits /\ ResetBits \in Nat
    BY SMT, Sizes DEF WireOK
  <1>2. ones' = IF TargetDrives \/ b = 0 THEN 0 ELSE IF ones < ResetBits THEN ones + 1 ELSE ones
    BY Zenon, HearsCases
  <1>3. ones' \in 0..ResetBits
    <2>1. CASE TargetDrives \/ b = 0
      BY SMT, <1>1, <1>2, <2>1
    <2>2. CASE ~(TargetDrives \/ b = 0)
      <3>1. ones' = IF ones < ResetBits THEN ones + 1 ELSE ones
        BY Zenon, <1>2, <2>2
      <3>2. ones' \in {ones, ones + 1} /\ (ones' = ones + 1 => ones < ResetBits)
        BY SMT, <1>1, <3>1
      <3> QED BY SMT, <1>1, <3>2
    <2> QED BY Zenon, <2>1, <2>2
  <1>4. /\ "header" # "reset" /\ "header" # "idle" /\ "header" # "answer"
        /\ "lost" # "reset" /\ "lost" # "idle" /\ "lost" # "answer" /\ "lost" # "header"
        /\ "answer" # "reset" /\ "answer" # "idle" /\ "reset" # "idle"
    OBVIOUS
  <1>5. CASE ones' = ResetBits /\ target' = "reset" /\ heard' = <<>> /\ plan' = <<>>
    <2>1. heard' \in Seq(Bit) /\ plan' \in Seq(Slots)
      BY <1>5
    <2> QED BY Zenon, <1>3, <1>4, <1>5, <2>1 DEF WireOK, OnesInv
  <1>6. CASE ones' < ResetBits /\ target = "idle" /\ b = 1 /\ target' = "header" /\ heard' = <<1>>
             /\ plan' = plan
    <2>1. heard' \in Seq(Bit) /\ Len(heard') = 1
      BY SMT, <1>6 DEF Bit
    <2>2. ones <= Slack
      BY Zenon, <1>6 DEF OnesInv
    <2>3. 1 \in 1..7 /\ ones' <= Slack + 1 /\ ~(1 = 7)
      BY SMT, <1>1, <1>2, <2>2
    <2>4. Len(heard') \in 1..7 /\ ones' <= Slack + Len(heard') /\ ~(Len(heard') = 7)
      BY Zenon, <2>1, <2>3
    <2> QED BY Zenon, <1>3, <1>4, <1>6, <2>1, <2>4 DEF WireOK, OnesInv
  <1>7. CASE ones' < ResetBits /\ target = "header" /\ Header(b)
    <2>1. ~TargetDrives
      BY Zenon, <1>4, <1>7 DEF TargetDrives
    <2>2. ones' = IF b = 0 THEN 0 ELSE IF ones < ResetBits THEN ones + 1 ELSE ones
      BY Zenon, <1>2, <2>1
    <2> QED BY Zenon, <1>7, <2>2, HeaderKeeps
  <1>8. CASE ones' < ResetBits /\ target = "answer" /\ Respond(b)
    <2>1. plan # <<>> /\ LowEnough(plan, ones)
      BY Zenon, <1>8 DEF OnesInv
    <2>2. /\ plan' = Tail(plan) /\ plan' \in Seq(Slots) /\ heard' \in Seq(Bit)
          /\ \/ target' = "idle"
             \/ target' = "answer" /\ plan' # <<>>
      BY Zenon, <1>8, <2>1, RespondIs
    <2>3. ones' <= Slack /\ LowEnough(plan', ones')
      BY Zenon, <1>2, <1>8, <2>1, <2>2, LowGoesOn
    <2> QED BY Zenon, <1>3, <1>4, <2>2, <2>3 DEF WireOK, OnesInv
  <1>9. CASE ones' < ResetBits /\ target = "reset" /\ target' = "idle" /\ UNCHANGED <<heard, plan>>
    <2>1. ones = ResetBits
      BY Zenon, <1>9 DEF OnesInv
    <2>2. ones' = 0
      <3>1. CASE TargetDrives \/ b = 0
        BY Zenon, <1>2, <3>1
      <3>2. CASE ~(TargetDrives \/ b = 0)
        BY SMT, <1>1, <1>2, <1>9, <2>1, <3>2
      <3> QED BY Zenon, <3>1, <3>2
    <2>3. ones' <= Slack
      BY SMT, <1>1, <2>2
    <2> QED BY Zenon, <1>3, <1>4, <1>9, <2>3 DEF WireOK, OnesInv
  <1>10. CASE /\ target = "lost" \/ (target = "idle" /\ b = 0)
              /\ UNCHANGED <<target, heard, plan>>
    <2>1. target = "idle" => ones' <= Slack
      <3>1. target = "idle" => ones' = 0
        BY Zenon, <1>2, <1>4, <1>10
      <3> QED BY SMT, <1>1, <3>1
    <2> QED BY Zenon, <1>3, <1>4, <1>10, <2>1 DEF WireOK, OnesInv
  <1> QED BY Zenon, <1>5, <1>6, <1>7, <1>8, <1>9, <1>10, HearsCases

-----------------------------------------------------------------------------
(***************************************************************************)
(* Types.                                                                  *)
(***************************************************************************)
LEMMA OperationsConcat ==
  ASSUME NEW s \in Seq(Operations), NEW t \in Seq(Operations), NEW m, NEW n,
         Len(s) = m, Len(t) = n
  PROVE  /\ s \o t \in Seq(Operations) /\ Len(s \o t) = m + n
         /\ \A i \in 1..n : Left(s \o t, i) = Left(t, i)
         /\ \A i \in (n + 1)..(n + m) : Left(s \o t, i) = Left(s, i - n)
  BY LeftOfConcat

LEMMA Joined ==
  ASSUME NEW s \in Seq(Operations), NEW t \in Seq(Operations)
  PROVE  s \o t \in Seq(Operations)
  BY ConcatProperties

LEMMA One ==
  ASSUME NEW x \in Operations
  PROVE  <<x>> \in Seq(Operations)
  BY LeftOfOne

LEMMA BitsAre ==
  ASSUME NEW a, a.ap \in Bit, a.read \in Bit, a.a2 \in Bit, a.a3 \in Bit
  PROVE  /\ Bits(a) \in Seq(Bit) /\ Len(Bits(a)) = 8
         /\ Bits(a)[1] = 1 /\ Bits(a)[2] = a.ap /\ Bits(a)[3] = a.read
         /\ Bits(a)[4] = a.a2 /\ Bits(a)[5] = a.a3
         /\ Bits(a)[6] = (a.ap + a.read + a.a2 + a.a3) % 2 /\ Bits(a)[7] = 0 /\ Bits(a)[8] = 1
  <1>1. (a.ap + a.read + a.a2 + a.a3) % 2 \in Bit
    BY SMT DEF Bit
  <1> DEFINE p == (a.ap + a.read + a.a2 + a.a3) % 2
  <1> HIDE DEF p
  <1>2. 0 \in Bit /\ 1 \in Bit /\ p \in Bit
    BY <1>1 DEF Bit, p
  <1>3. Bits(a) = <<1, a.ap, a.read, a.a2, a.a3, p, 0, 1>>
    BY DEF Bits, p
  <1> HIDE DEF Bit
  <1>4. /\ Bits(a) \in Seq(Bit) /\ Len(Bits(a)) = 8
        /\ Bits(a)[1] = 1 /\ Bits(a)[2] = a.ap /\ Bits(a)[3] = a.read
        /\ Bits(a)[4] = a.a2 /\ Bits(a)[5] = a.a3
        /\ Bits(a)[6] = p /\ Bits(a)[7] = 0 /\ Bits(a)[8] = 1
    BY SMT, <1>2, <1>3
  <1> QED BY <1>4 DEF p

\* Elements of u, of m followed by n operations, counted from the end.
JoinOf(u, s, m, t, n) ==
  /\ u \in Seq(Operations) /\ Len(u) = m + n
  /\ \A i \in 1..n : Left(u, i) = Left(t, i)
  /\ \A i \in (n + 1)..(n + m) : Left(u, i) = Left(s, i - n)

LEMMA JoinIs ==
  ASSUME NEW s \in Seq(Operations), NEW t \in Seq(Operations), NEW m, NEW n,
         Len(s) = m, Len(t) = n
  PROVE  JoinOf(s \o t, s, m, t, n)
  BY OperationsConcat DEF JoinOf

LEMMA AskScriptIs ==
  ASSUME turnaround \in Turnarounds, NEW a, a.ap \in Bit, a.read \in Bit, a.a2 \in Bit, a.a3 \in Bit
  PROVE  LET s == AskScript(a)
         IN  /\ s \in Seq(Operations) /\ Len(s) = turnaround + 12
             /\ \A i \in 1..3 : Left(s, i) = ReadBit
             /\ \A i \in 4..(turnaround + 3) : Left(s, i) = Clock
             /\ Left(s, turnaround + 4) = Input
             /\ \A i \in (turnaround + 5)..(turnaround + 12) :
                  Left(s, i) = WriteBit(Bits(a)[turnaround + 13 - i])
  <1> DEFINE w == WriteBits(Bits(a))
             x == <<Input>>
             c == Turnaround
             r == Times(3, ReadBit)
             s1 == w \o x
             s2 == s1 \o c
             s3 == s2 \o r
  <1>1. turnaround \in Nat /\ turnaround > 0
    BY Sizes
  <1>2. Bits(a) \in Seq(Bit) /\ Len(Bits(a)) = 8
    BY BitsAre
  <1>3. /\ w \in Seq(Operations) /\ Len(w) = 8
        /\ \A i \in 1..8 : w[i] = WriteBit(Bits(a)[i])
    BY Zenon, <1>2, WriteBitsAre
  <1>4. x \in Seq(Operations) /\ Len(x) = 1 /\ Left(x, 1) = Input
    BY Zenon, OperationsAre, LeftOfOne
  <1>5. /\ c \in Seq(Operations) /\ Len(c) = turnaround
        /\ \A i \in 1..turnaround : Left(c, i) = Clock
    BY Zenon, <1>1, OperationsAre, RunIs DEF Turnaround
  <1>6. 3 \in Nat
    OBVIOUS
  <1>7. r \in Seq(Operations) /\ Len(r) = 3 /\ \A i \in 1..3 : Left(r, i) = ReadBit
    BY Zenon, <1>6, OperationsAre, RunIs
  <1>8. AskScript(a) = s3
    BY Zenon DEF AskScript, Bits
  <1> HIDE DEF w, x, c, r
  <1>9. /\ s1 \in Seq(Operations) /\ Len(s1) = 8 + 1
        /\ \A i \in 1..1 : Left(s1, i) = Left(x, i)
        /\ \A i \in (1 + 1)..(1 + 8) : Left(s1, i) = Left(w, i - 1)
    <2>1. JoinOf(s1, w, 8, x, 1)
      BY Zenon, <1>3, <1>4, JoinIs
    <2> QED BY Zenon, <2>1 DEF JoinOf
  <1> HIDE DEF s1
  <1>10. /\ s2 \in Seq(Operations) /\ Len(s2) = 8 + 1 + turnaround
         /\ \A i \in 1..turnaround : Left(s2, i) = Left(c, i)
         /\ \A i \in (turnaround + 1)..(turnaround + (8 + 1)) :
              Left(s2, i) = Left(s1, i - turnaround)
    <2>1. JoinOf(s2, s1, 8 + 1, c, turnaround)
      BY Zenon, <1>5, <1>9, JoinIs
    <2> QED BY Zenon, <2>1 DEF JoinOf
  <1> HIDE DEF s2
  <1>11. /\ s3 \in Seq(Operations) /\ Len(s3) = 8 + 1 + turnaround + 3
         /\ \A i \in 1..3 : Left(s3, i) = Left(r, i)
         /\ \A i \in (3 + 1)..(3 + (8 + 1 + turnaround)) : Left(s3, i) = Left(s2, i - 3)
    <2>1. JoinOf(s3, s2, 8 + 1 + turnaround, r, 3)
      BY Zenon, <1>7, <1>10, JoinIs
    <2> QED BY Zenon, <2>1 DEF JoinOf
  <1> HIDE DEF s3
  <1>12. Len(s3) = turnaround + 12
    BY SMT, <1>1, <1>11
  <1>13. ASSUME NEW i \in 4..(turnaround + 3) PROVE Left(s3, i) = Clock
    <2>1. /\ i \in (3 + 1)..(3 + (8 + 1 + turnaround)) /\ i - 3 \in 1..turnaround
      BY SMT, <1>1
    <2> QED BY Zenon, <1>5, <1>10, <1>11, <2>1
  <1>14. Left(s3, turnaround + 4) = Input
    <2> DEFINE i == turnaround + 4
    <2>1. /\ i \in (3 + 1)..(3 + (8 + 1 + turnaround))
          /\ i - 3 \in (turnaround + 1)..(turnaround + (8 + 1))
          /\ i - 3 - turnaround \in 1..1 /\ i - 3 - turnaround = 1
      BY SMT, <1>1
    <2> QED BY Zenon, <1>4, <1>9, <1>10, <1>11, <2>1
  <1>15. ASSUME NEW i \in (turnaround + 5)..(turnaround + 12)
         PROVE  Left(s3, i) = WriteBit(Bits(a)[turnaround + 13 - i])
    <2>1. /\ i \in (3 + 1)..(3 + (8 + 1 + turnaround))
          /\ i - 3 \in (turnaround + 1)..(turnaround + (8 + 1))
          /\ i - 3 - turnaround \in (1 + 1)..(1 + 8)
          /\ 8 + 1 - (i - 3 - turnaround - 1) = turnaround + 13 - i
          /\ turnaround + 13 - i \in 1..8
      BY SMT, <1>1
    <2>2. Left(s3, i) = Left(w, i - 3 - turnaround - 1)
      BY Zenon, <1>9, <1>10, <1>11, <2>1
    <2> QED BY Zenon, <1>3, <2>1, <2>2 DEF Left
  <1> QED BY Zenon, <1>7, <1>8, <1>11, <1>12, <1>13, <1>14, <1>15

-----------------------------------------------------------------------------
(***************************************************************************)
(* What comes after the acknowledgement.                                   *)
(***************************************************************************)
LEMMA PulsesAre ==
  /\ Pulses \subseteq Operations
  /\ ReadBit \in Pulses /\ Clock \in Pulses /\ \A b \in Bit : WriteBit(b) \in Pulses
  BY SMT DEF Pulses, Operations, ReadBit, Clock, WriteBit, Bit

LEMMA PulsesJoin ==
  ASSUME NEW s \in Seq(Pulses), NEW t \in Seq(Pulses)
  PROVE  s \o t \in Seq(Pulses) /\ Len(s \o t) = Len(s) + Len(t)
  BY ConcatProperties

LEMMA PulsesAreOperations ==
  ASSUME NEW s \in Seq(Pulses)
  PROVE  s \in Seq(Operations) /\ \A i \in 1..Len(s) : Left(s, i) \in Pulses
  <1>1. \A i \in 1..Len(s) : s[i] \in Pulses /\ Len(s) + 1 - i \in 1..Len(s)
    BY SMT
  <1>2. \A i \in 1..Len(s) : s[i] \in Operations
    BY Zenon, <1>1, PulsesAre
  <1>3. s \in Seq(Operations)
    <2> HIDE DEF Operations, Pulses
    <2> QED BY SMT, <1>2
  <1> QED BY Zenon, <1>1, <1>3 DEF Left

LEMMA WritesPulse ==
  ASSUME NEW bits \in Seq(Bit)
  PROVE  WriteBits(bits) \in Seq(Pulses) /\ Len(WriteBits(bits)) = Len(bits)
  <1>1. \A i \in 1..Len(bits) : WriteBit(bits[i]) \in Pulses
    BY PulsesAre
  <1> HIDE DEF Pulses, WriteBit
  <1> QED BY SMT, <1>1 DEF WriteBits

\* The pieces of a script that follows an acknowledgement.
FollowUpScript(c, l, d, z) ==
  c \o (<<Output>> \o (l \o (d \o (Times(z, WriteBit(0)) \o <<Level(1)>>))))

\* m pulses, Output, v times a level, b pulses, z zeros and a level.
FollowsBy(s, m, z, b, v) ==
  /\ s \in Seq(Operations) /\ Len(s) = m + (1 + (v + (b + (z + 1))))
  /\ FollowOps(s, m + (1 + (v + (b + (z + 1)))), z, b, v)

\* The operations of d come before z zeros and a level.
AboveIdle(s, z, d) == \A j \in 1..Len(d) : Left(s, (z + 1) + j) = Left(d, j)

LEMMA FollowScriptIs ==
  ASSUME NEW c \in Seq(Pulses), NEW d \in Seq(Pulses), NEW z \in Nat,
         NEW v \in Nat, NEW l \in Seq(Operations), Len(l) = v,
         \A i \in 1..v : Left(l, i) = Level(0)
  PROVE  /\ FollowsBy(FollowUpScript(c, l, d, z), Len(c), z, Len(d), v)
         /\ AboveIdle(FollowUpScript(c, l, d, z), z, d)
  <1> DEFINE e == <<Level(1)>>
             q == Times(z, WriteBit(0))
             o == <<Output>>
             m == Len(c)
             b == Len(d)
             s1 == q \o e
             s2 == d \o s1
             s3 == l \o s2
             s4 == o \o s3
             s5 == c \o s4
             n == m + (1 + (v + (b + (z + 1))))
  <1>1. m \in Nat /\ b \in Nat
    OBVIOUS
  <1>2. 0 \in Bit /\ 1 \in Bit
    BY DEF Bit
  <1>3. e \in Seq(Operations) /\ Len(e) = 1 /\ Left(e, 1) = Level(1)
    BY Zenon, <1>2, OperationsAre, LeftOfOne
  <1>4. o \in Seq(Operations) /\ Len(o) = 1 /\ Left(o, 1) = Output
    BY Zenon, OperationsAre, LeftOfOne
  <1>5. q \in Seq(Operations) /\ Len(q) = z /\ \A i \in 1..z : Left(q, i) = WriteBit(0)
    BY Zenon, <1>2, OperationsAre, RunIs
  <1>6. /\ c \in Seq(Operations) /\ Len(c) = m /\ \A i \in 1..m : Left(c, i) \in Pulses
        /\ d \in Seq(Operations) /\ Len(d) = b /\ \A i \in 1..b : Left(d, i) \in Pulses
    BY Zenon, PulsesAreOperations
  <1>7. FollowUpScript(c, l, d, z) = s5
    BY Zenon DEF FollowUpScript
  <1> HIDE DEF e, q, o, m, b
  <1>8. JoinOf(s1, q, z, e, 1)
    BY Zenon, <1>3, <1>5, JoinIs
  <1>9. /\ s1 \in Seq(Operations) /\ Len(s1) = z + 1
        /\ \A i \in 1..1 : Left(s1, i) = Left(e, i)
        /\ \A i \in (1 + 1)..(1 + z) : Left(s1, i) = Left(q, i - 1)
    BY Zenon, <1>8 DEF JoinOf
  <1> HIDE DEF s1
  <1>10. JoinOf(s2, d, b, s1, z + 1)
    BY Zenon, <1>6, <1>9, JoinIs
  <1>11. /\ s2 \in Seq(Operations) /\ Len(s2) = b + (z + 1)
         /\ \A i \in 1..(z + 1) : Left(s2, i) = Left(s1, i)
         /\ \A i \in ((z + 1) + 1)..((z + 1) + b) : Left(s2, i) = Left(d, i - (z + 1))
    BY Zenon, <1>10 DEF JoinOf
  <1> HIDE DEF s2
  <1>12. JoinOf(s3, l, v, s2, b + (z + 1))
    BY Zenon, <1>11, JoinIs
  <1>13. /\ s3 \in Seq(Operations) /\ Len(s3) = v + (b + (z + 1))
         /\ \A i \in 1..(b + (z + 1)) : Left(s3, i) = Left(s2, i)
         /\ \A i \in ((b + (z + 1)) + 1)..((b + (z + 1)) + v) :
              Left(s3, i) = Left(l, i - (b + (z + 1)))
    BY Zenon, <1>12 DEF JoinOf
  <1> HIDE DEF s3
  <1>14. JoinOf(s4, o, 1, s3, v + (b + (z + 1)))
    BY Zenon, <1>4, <1>13, JoinIs
  <1>15. /\ s4 \in Seq(Operations) /\ Len(s4) = 1 + (v + (b + (z + 1)))
         /\ \A i \in 1..(v + (b + (z + 1))) : Left(s4, i) = Left(s3, i)
         /\ \A i \in ((v + (b + (z + 1))) + 1)..((v + (b + (z + 1))) + 1) :
              Left(s4, i) = Left(o, i - (v + (b + (z + 1))))
    BY Zenon, <1>14 DEF JoinOf
  <1> HIDE DEF s4
  <1>16. JoinOf(s5, c, m, s4, 1 + (v + (b + (z + 1))))
    BY Zenon, <1>6, <1>15, JoinIs
  <1>17. /\ s5 \in Seq(Operations) /\ Len(s5) = m + (1 + (v + (b + (z + 1))))
         /\ \A i \in 1..(1 + (v + (b + (z + 1)))) : Left(s5, i) = Left(s4, i)
         /\ \A i \in ((1 + (v + (b + (z + 1)))) + 1)..((1 + (v + (b + (z + 1)))) + m) :
              Left(s5, i) = Left(c, i - (1 + (v + (b + (z + 1)))))
    BY Zenon, <1>16 DEF JoinOf
  <1> HIDE DEF s5
  <1>18. ASSUME NEW i \in 1..n
         PROVE  /\ i = 1 => Left(s5, i) = Level(1)
                /\ 1 < i /\ i <= z + 1 => Left(s5, i) = WriteBit(0)
                /\ z + 1 < i /\ i <= z + b + 1 => Left(s5, i) \in Pulses
                /\ z + b + 1 < i /\ i < z + b + v + 2 => Left(s5, i) = Level(0)
                /\ i = z + b + v + 2 => Left(s5, i) = Output
                /\ i > z + b + v + 2 => Left(s5, i) \in Pulses
    <2>1. CASE i > z + b + v + 2
      <3>1. /\ i \in ((1 + (v + (b + (z + 1)))) + 1)..((1 + (v + (b + (z + 1)))) + m)
            /\ i - (1 + (v + (b + (z + 1)))) \in 1..m
            /\ ~(i = 1) /\ ~(i <= z + 1) /\ ~(i <= z + b + 1) /\ ~(i < z + b + v + 2)
            /\ ~(i = z + b + v + 2)
        BY SMT, <1>1, <2>1
      <3> QED BY Zenon, <1>6, <1>17, <3>1
    <2>2. CASE i = z + b + v + 2
      <3>1. /\ i \in 1..(1 + (v + (b + (z + 1))))
            /\ i \in ((v + (b + (z + 1))) + 1)..((v + (b + (z + 1))) + 1)
            /\ i - (v + (b + (z + 1))) = 1
            /\ ~(i = 1) /\ ~(i <= z + 1) /\ ~(i <= z + b + 1) /\ ~(i < z + b + v + 2)
            /\ ~(i > z + b + v + 2)
        BY SMT, <1>1, <2>2
      <3> QED BY Zenon, <1>4, <1>15, <1>17, <3>1
    <2>3. CASE z + b + 1 < i /\ i < z + b + v + 2
      <3>1. /\ i \in 1..(1 + (v + (b + (z + 1)))) /\ i \in 1..(v + (b + (z + 1)))
            /\ i \in ((b + (z + 1)) + 1)..((b + (z + 1)) + v)
            /\ i - (b + (z + 1)) \in 1..v
            /\ ~(i = 1) /\ ~(i <= z + 1) /\ ~(i <= z + b + 1) /\ ~(i = z + b + v + 2)
            /\ ~(i > z + b + v + 2)
        BY SMT, <1>1, <2>3
      <3>2. Left(s5, i) = Left(s4, i) /\ Left(s4, i) = Left(s3, i)
        BY Zenon, <1>15, <1>17, <3>1
      <3>3. Left(s3, i) = Left(l, i - (b + (z + 1)))
        BY Zenon, <1>13, <3>1
      <3>4. Left(s5, i) = Level(0)
        BY Zenon, <3>1, <3>2, <3>3
      <3> QED BY Zenon, <3>1, <3>4
    <2>4. CASE z + 1 < i /\ i <= z + b + 1
      <3>1. /\ i \in 1..(1 + (v + (b + (z + 1)))) /\ i \in 1..(v + (b + (z + 1)))
            /\ i \in 1..(b + (z + 1))
            /\ i \in ((z + 1) + 1)..((z + 1) + b)
            /\ i - (z + 1) \in 1..b
            /\ ~(i = 1) /\ ~(i <= z + 1) /\ ~(z + b + 1 < i) /\ ~(i = z + b + v + 2)
            /\ ~(i > z + b + v + 2)
        BY SMT, <1>1, <2>4
      <3>2. Left(s5, i) = Left(s2, i)
        BY Zenon, <1>13, <1>15, <1>17, <3>1
      <3> QED BY Zenon, <1>6, <1>11, <3>1, <3>2
    <2>5. CASE 1 < i /\ i <= z + 1
      <3>1. /\ i \in 1..(1 + (v + (b + (z + 1)))) /\ i \in 1..(v + (b + (z + 1)))
            /\ i \in 1..(b + (z + 1)) /\ i \in 1..(z + 1)
            /\ i \in (1 + 1)..(1 + z) /\ i - 1 \in 1..z
            /\ ~(i = 1) /\ ~(z + 1 < i) /\ ~(z + b + 1 < i) /\ ~(i = z + b + v + 2)
            /\ ~(i > z + b + v + 2)
        BY SMT, <1>1, <2>5
      <3>2. Left(s5, i) = Left(s2, i)
        BY Zenon, <1>13, <1>15, <1>17, <3>1
      <3> QED BY Zenon, <1>5, <1>9, <1>11, <3>1, <3>2
    <2>6. CASE i = 1
      <3>1. /\ i \in 1..(1 + (v + (b + (z + 1)))) /\ i \in 1..(v + (b + (z + 1)))
            /\ i \in 1..(b + (z + 1)) /\ i \in 1..(z + 1) /\ i \in 1..1
            /\ ~(1 < i) /\ ~(z + 1 < i) /\ ~(z + b + 1 < i) /\ ~(i = z + b + v + 2)
            /\ ~(i > z + b + v + 2)
        BY SMT, <1>1, <2>6
      <3>2. Left(s5, i) = Left(s2, i)
        BY Zenon, <1>13, <1>15, <1>17, <3>1
      <3> QED BY Zenon, <1>3, <1>9, <1>11, <2>6, <3>1, <3>2
    <2>7. i = 1 \/ (1 < i /\ i <= z + 1) \/ (z + 1 < i /\ i <= z + b + 1)
          \/ (z + b + 1 < i /\ i < z + b + v + 2) \/ i = z + b + v + 2 \/ i > z + b + v + 2
      BY SMT, <1>1
    <2> QED BY Zenon, <2>1, <2>2, <2>3, <2>4, <2>5, <2>6, <2>7
  <1>19. FollowOps(s5, n, z, b, v)
    BY Zenon, <1>18 DEF FollowOps
  <1>20. ASSUME NEW j \in 1..b PROVE Left(s5, (z + 1) + j) = Left(d, j)
    <2> DEFINE i == (z + 1) + j
    <2>1. /\ i \in 1..(1 + (v + (b + (z + 1)))) /\ i \in 1..(v + (b + (z + 1)))
          /\ i \in 1..(b + (z + 1))
          /\ i \in ((z + 1) + 1)..((z + 1) + b) /\ i - (z + 1) = j
      BY SMT, <1>1
    <2> HIDE DEF i
    <2>2. Left(s5, i) = Left(s2, i)
      BY Zenon, <1>13, <1>15, <1>17, <2>1
    <2>3. Left(s5, i) = Left(d, j)
      BY Zenon, <1>11, <2>1, <2>2
    <2> QED BY Zenon, <2>3 DEF i
  <1> QED BY Zenon, <1>7, <1>17, <1>19, <1>20 DEF m, b, FollowsBy, AboveIdle

LEMMA Regroup ==
  ASSUME NEW s \in Seq(Operations), NEW t \in Seq(Operations), NEW u \in Seq(Operations)
  PROVE  (s \o t) \o u = s \o (t \o u)
  BY ConcatAssociative

LEMMA Nothing ==
  /\ <<>> \in Seq(Operations) /\ <<>> \in Seq(Pulses) /\ Len(<<>>) = 0
  /\ \A s \in Seq(Operations) : <<>> \o s = s
  /\ \A x : Times(0, x) = <<>>
  <1>1. \A s \in Seq(Operations) : <<>> \o s = s
    BY ConcatEmptySeq
  <1>2. ASSUME NEW x PROVE Times(0, x) = <<>>
    BY SMT DEF Times
  <1> QED BY <1>1, <1>2

LEMMA FollowsByScript ==
  ASSUME NEW c \in Seq(Pulses), NEW d \in Seq(Pulses), NEW z \in Nat,
         NEW v \in Nat, NEW l \in Seq(Operations), Len(l) = v,
         \A i \in 1..v : Left(l, i) = Level(0),
         NEW m, Len(c) = m, NEW b, Len(d) = b
  PROVE  FollowsBy(FollowUpScript(c, l, d, z), m, z, b, v)
  BY Zenon, FollowScriptIs

LEMMA NoLevel ==
  \A i \in 1..0 : Left(<<>>, i) = Level(0)
  BY SMT

LEMMA IdleIs ==
  /\ Times(IdleCycles, WriteBit(0)) \in Seq(Operations) /\ <<Level(1)>> \in Seq(Operations)
  /\ <<Output>> \in Seq(Operations) /\ IdleScript \in Seq(Operations)
  <1>1. 0 \in Bit /\ 1 \in Bit
    BY DEF Bit
  <1>2. <<Level(1)>> \in Seq(Operations) /\ <<Output>> \in Seq(Operations)
    BY Zenon, <1>1, OperationsAre, One
  <1>3. Times(IdleCycles, WriteBit(0)) \in Seq(Operations)
    BY Zenon, <1>1, Sizes, OperationsAre, RunIs
  <1> QED BY Zenon, <1>2, <1>3, Joined DEF IdleScript

LEMMA PlainScript ==
  ASSUME NEW c \in Seq(Pulses), NEW d \in Seq(Pulses), NEW z \in Nat,
         NEW m, Len(c) = m, NEW b, Len(d) = b
  PROVE  FollowsBy(FollowUpScript(c, <<>>, d, z), m, z, b, 0)
  <1>1. 0 \in Nat
    OBVIOUS
  <1>2. <<>> \in Seq(Operations) /\ Len(<<>>) = 0
    BY Zenon, Nothing
  <1> QED BY Zenon, <1>1, <1>2, NoLevel, FollowsByScript

LEMMA BareScript ==
  ASSUME NEW c \in Seq(Pulses), NEW z \in Nat, NEW m, Len(c) = m
  PROVE  FollowsBy(FollowUpScript(c, <<>>, <<>>, z), m, z, 0, 0)
  BY Zenon, Nothing, PlainScript

LEMMA WithoutZeros ==
  ASSUME NEW c, NEW l, NEW d
  PROVE  FollowUpScript(c, l, d, 0) = c \o (<<Output>> \o (l \o (d \o <<Level(1)>>)))
  <1>1. Times(0, WriteBit(0)) = <<>>
    BY Zenon, Nothing
  <1>2. <<>> \o <<Level(1)>> = <<Level(1)>>
    BY Zenon, IdleIs, Nothing
  <1> QED BY Zenon, <1>1, <1>2 DEF FollowUpScript

LEMMA TurnaroundIs ==
  ASSUME turnaround \in Turnarounds
  PROVE  Turnaround \in Seq(Pulses) /\ Len(Turnaround) = turnaround
  BY Zenon, Sizes, RunIs, PulsesAre DEF Turnaround

LEMMA ReadScriptIs ==
  ASSUME turnaround \in Turnarounds
  PROVE  FollowsBy(ReadScript \o IdleScript, WordBits + 1 + turnaround, IdleCycles, 0, 0)
  <1> DEFINE c == Times(WordBits + 1, ReadBit) \o Turnaround
             q == IdleScript
             o == <<Output>>
  <1>1. WordBits + 1 \in Nat /\ IdleCycles \in Nat
    BY Sizes
  <1>2. /\ Times(WordBits + 1, ReadBit) \in Seq(Pulses)
        /\ Len(Times(WordBits + 1, ReadBit)) = WordBits + 1
    BY Zenon, <1>1, PulsesAre, RunIs
  <1>3. c \in Seq(Pulses) /\ Len(c) = Len(Times(WordBits + 1, ReadBit)) + Len(Turnaround)
    BY Zenon, <1>2, TurnaroundIs, PulsesJoin
  <1>4. Len(c) = WordBits + 1 + turnaround
    BY Zenon, <1>2, <1>3, TurnaroundIs
  <1>5. ReadScript \o IdleScript = (c \o o) \o q
    BY Zenon DEF ReadScript
  <1> HIDE DEF c
  <1>6. c \in Seq(Operations) /\ q \in Seq(Operations) /\ o \in Seq(Operations)
    BY Zenon, <1>3, PulsesAreOperations, IdleIs
  <1>7. (c \o o) \o q = c \o (o \o q)
    BY Zenon, <1>6, Regroup
  <1>8. <<>> \o (<<>> \o q) = q
    BY Zenon, <1>6, Nothing
  <1>9. ReadScript \o IdleScript = FollowUpScript(c, <<>>, <<>>, IdleCycles)
    BY Zenon, <1>5, <1>7, <1>8 DEF FollowUpScript, IdleScript
  <1> QED BY Zenon, <1>1, <1>3, <1>4, <1>9, BareScript

LEMMA WriteScriptIs ==
  ASSUME turnaround \in Turnarounds, NEW w \in Seq(Bit), Len(w) = WordBits
  PROVE  /\ FollowsBy(WriteScript(w) \o IdleScript, turnaround, IdleCycles, WordBits + 1, 0)
         /\ WriteScript(w) \o IdleScript =
              FollowUpScript(Turnaround, <<>>, WriteBits(w) \o <<WriteBit(Parity(w))>>, IdleCycles)
  <1> DEFINE t == Turnaround
             p == <<WriteBit(Parity(w))>>
             x == WriteBits(w)
             d == x \o p
             q == IdleScript
             o == <<Output>>
  <1>1. WordBits + 1 \in Nat /\ IdleCycles \in Nat /\ 0 \in Nat
    BY Sizes
  <1>2. x \in Seq(Pulses) /\ Len(x) = WordBits
    BY Zenon, WritesPulse
  <1>3. p \in Seq(Pulses) /\ Len(p) = 1
    BY Zenon, ParityIsBit, PulsesAre, LeftOfOne
  <1>4. d \in Seq(Pulses) /\ Len(d) = Len(x) + Len(p)
    BY Zenon, <1>2, <1>3, PulsesJoin
  <1>5. Len(d) = WordBits + 1
    BY Zenon, <1>2, <1>3, <1>4
  <1>6. WriteScript(w) \o IdleScript = (((t \o o) \o x) \o p) \o q
    BY Zenon DEF WriteScript
  <1>7. /\ t \in Seq(Operations) /\ x \in Seq(Operations) /\ p \in Seq(Operations)
        /\ d \in Seq(Operations) /\ q \in Seq(Operations) /\ o \in Seq(Operations)
    BY Zenon, <1>2, <1>3, <1>4, TurnaroundIs, PulsesAreOperations, IdleIs
  <1>8. t \in Seq(Pulses) /\ Len(t) = turnaround
    BY Zenon, TurnaroundIs
  <1> HIDE DEF t, p, x, q, o
  <1>9. t \o o \in Seq(Operations)
    BY Zenon, <1>7, Joined
  <1>10. ((t \o o) \o x) \o p = (t \o o) \o (x \o p)
    BY Zenon, <1>7, <1>9, Regroup
  <1>11. ((t \o o) \o d) \o q = (t \o o) \o (d \o q)
    <2> DEFINE u == t \o o
    <2>1. u \in Seq(Operations) /\ d \in Seq(Operations) /\ q \in Seq(Operations)
      BY Zenon, <1>7, <1>9
    <2> HIDE DEF u, d
    <2>2. (u \o d) \o q = u \o (d \o q)
      BY Zenon, <2>1, Regroup
    <2> QED BY Zenon, <2>2 DEF u
  <1> HIDE DEF d
  <1>12. d \o q \in Seq(Operations)
    BY Zenon, <1>7, Joined
  <1>13. (t \o o) \o (d \o q) = t \o (o \o (d \o q))
    <2> DEFINE y == d \o q
    <2>1. y \in Seq(Operations)
      BY Zenon, <1>12
    <2> HIDE DEF y
    <2>3. t \in Seq(Operations) /\ o \in Seq(Operations)
      BY Zenon, <1>7
    <2>2. (t \o o) \o y = t \o (o \o y)
      BY Zenon, <2>1, <2>3, Regroup
    <2> QED BY Zenon, <2>2 DEF y
  <1>16. <<>> \o (d \o q) = d \o q
    BY Zenon, <1>12, Nothing
  <1>14. (((t \o o) \o x) \o p) \o q = t \o (o \o (<<>> \o (d \o q)))
    BY Zenon, <1>10, <1>11, <1>13, <1>16 DEF d
  <1>15. WriteScript(w) \o IdleScript = FollowUpScript(t, <<>>, d, IdleCycles)
    BY Zenon, <1>6, <1>14 DEF FollowUpScript, IdleScript, q, o
  <1>17. FollowsBy(WriteScript(w) \o IdleScript, turnaround, IdleCycles, WordBits + 1, 0)
    BY Zenon, <1>1, <1>4, <1>5, <1>8, <1>15, PlainScript
  <1> QED BY Zenon, <1>15, <1>17 DEF t, d, x, p

\* The operations that write a word.
LEMMA WriteScriptWrites ==
  ASSUME turnaround \in Turnarounds, NEW w \in Seq(Bit), Len(w) = WordBits
  PROVE  \A j \in 1..(WordBits + 1) :
           Left(WriteScript(w) \o IdleScript, IdleCycles + 1 + j) =
             WriteBit(Datum(w)[WordBits + 2 - j])
  <1> DEFINE p == <<WriteBit(Parity(w))>>
             x == WriteBits(w)
             d == x \o p
             t == Turnaround
             u == Datum(w)
  <1>1. WordBits \in Nat /\ IdleCycles \in Nat /\ 0 \in Nat
    BY Sizes
  <1>2. x \in Seq(Pulses) /\ Len(x) = WordBits
    BY Zenon, WritesPulse
  <1>3. \A i \in 1..WordBits : x[i] = WriteBit(w[i])
    BY Zenon, WriteBitsAre
  <1>4. p \in Seq(Pulses) /\ Len(p) = 1
    BY Zenon, ParityIsBit, PulsesAre, LeftOfOne
  <1>5. Left(p, 1) = WriteBit(Parity(w))
    BY SMT DEF Left
  <1>6. u[WordBits + 1] = Parity(w) /\ \A i \in 1..WordBits : u[i] = w[i]
    <2>1. Parity(w) \in Bit
      BY Zenon, ParityIsBit
    <2> DEFINE y == Parity(w)
    <2> HIDE DEF y, Bit
    <2>2. Append(w, y)[WordBits + 1] = y /\ \A i \in 1..WordBits : Append(w, y)[i] = w[i]
      BY <2>1, AppendIs DEF y
    <2> QED BY Zenon, <2>2 DEF Datum, y
  <1>7. d \in Seq(Pulses)
    BY Zenon, <1>2, <1>4, PulsesJoin
  <1>8. x \in Seq(Operations) /\ p \in Seq(Operations)
    BY Zenon, <1>2, <1>4, PulsesAreOperations
  <1> HIDE DEF p, x, u
  <1>9. JoinOf(d, x, WordBits, p, 1)
    BY Zenon, <1>2, <1>4, <1>8, JoinIs
  <1>10. /\ Len(d) = WordBits + 1
         /\ \A i \in 1..1 : Left(d, i) = Left(p, i)
         /\ \A i \in (1 + 1)..(1 + WordBits) : Left(d, i) = Left(x, i - 1)
    BY Zenon, <1>9 DEF JoinOf
  <1>11. ASSUME NEW j \in 1..(WordBits + 1) PROVE Left(d, j) = WriteBit(u[WordBits + 2 - j])
    <2>1. CASE j = 1
      <3>1. WordBits + 2 - 1 = WordBits + 1 /\ 1 \in 1..1
        BY SMT, <1>1
      <3> QED BY Zenon, <1>5, <1>6, <1>10, <2>1, <3>1
    <2>2. CASE j # 1
      <3>1. /\ j \in (1 + 1)..(1 + WordBits)
            /\ WordBits + 1 - (j - 1) = WordBits + 2 - j /\ WordBits + 2 - j \in 1..WordBits
        BY SMT, <1>1, <2>2
      <3> QED BY Zenon, <1>2, <1>3, <1>6, <1>10, <3>1 DEF Left
    <2> QED BY Zenon, <2>1, <2>2
  <1>12. t \in Seq(Pulses)
    BY Zenon, TurnaroundIs
  <1>13. <<>> \in Seq(Operations) /\ Len(<<>>) = 0
    BY Zenon, Nothing
  <1> HIDE DEF d, t
  <1>14. \A j \in 1..(WordBits + 1) :
           Left(FollowUpScript(t, <<>>, d, IdleCycles), (IdleCycles + 1) + j) = Left(d, j)
    <2>1. AboveIdle(FollowUpScript(t, <<>>, d, IdleCycles), IdleCycles, d)
      BY Zenon, <1>1, <1>7, <1>12, <1>13, NoLevel, FollowScriptIs
    <2> QED BY Zenon, <1>10, <2>1 DEF AboveIdle
  <1>15. WriteScript(w) \o IdleScript = FollowUpScript(t, <<>>, d, IdleCycles)
    BY Zenon, WriteScriptIs DEF t, d, x, p
  <1> QED BY Zenon, <1>11, <1>14, <1>15 DEF u

LEMMA RefusedScriptIs ==
  ASSUME turnaround \in Turnarounds, dataPhase \in BOOLEAN, NEW a, a.read \in Bit
  PROVE  /\ ~dataPhase => FollowsBy(RefusedScript(a), turnaround, 0, 0, 0)
         /\ dataPhase /\ a.read = 1 =>
              FollowsBy(RefusedScript(a), WordBits + 1 + turnaround, 0, 0, 0)
         /\ dataPhase /\ a.read = 0 =>
              FollowsBy(RefusedScript(a), turnaround, 0, WordBits + 1, 1)
  <1> DEFINE data == Times(WordBits + 1, Clock)
             t == Turnaround
             o == <<Output>>
             e == <<Level(1)>>
             l == <<Level(0)>>
  <1>1. WordBits + 1 \in Nat /\ 0 \in Nat /\ 1 \in Nat /\ 0 # 1
    BY Sizes
  <1>2. data \in Seq(Pulses) /\ Len(data) = WordBits + 1
    BY Zenon, <1>1, PulsesAre, RunIs
  <1>3. t \in Seq(Pulses) /\ Len(t) = turnaround
    BY Zenon, TurnaroundIs
  <1>4. 0 \in Bit
    BY DEF Bit
  <1>5. l \in Seq(Operations) /\ Len(l) = 1 /\ Left(l, 1) = Level(0)
    BY Zenon, <1>4, OperationsAre, LeftOfOne
  <1>6. \A i \in 1..1 : Left(l, i) = Level(0)
    <2>1. \A i \in 1..1 : i = 1
      BY SMT
    <2> QED BY Zenon, <1>5, <2>1
  <1>7. /\ t \in Seq(Operations) /\ data \in Seq(Operations) /\ o \in Seq(Operations)
        /\ e \in Seq(Operations)
    BY Zenon, <1>2, <1>3, PulsesAreOperations, IdleIs
  <1>8. a.read = 0 \/ a.read = 1
    BY DEF Bit
  <1>9. \A s \in Seq(Operations) : s \o <<>> = s /\ <<>> \o s = s
    BY ConcatEmptySeq
  <1> DEFINE Whole(x, y) == (((x \o t) \o o) \o y) \o e
  <1>10. RefusedScript(a) = Whole(IF a.read = 1 THEN IF dataPhase THEN data ELSE <<>> ELSE <<>>,
                                 IF a.read = 0 /\ dataPhase THEN l \o data ELSE <<>>)
    <2>1. a.read = 0 /\ dataPhase => data = IF dataPhase THEN data ELSE <<>>
      OBVIOUS
    <2> HIDE DEF data, t, o, e, l
    <2>2. CASE dataPhase
      BY <2>2 DEF RefusedScript, data, t, o, e, l
    <2>3. CASE ~dataPhase
      BY <2>3 DEF RefusedScript, data, t, o, e, l
    <2> QED BY <2>2, <2>3
  <1>11. FollowUpScript(t, <<>>, <<>>, 0) = t \o (o \o e)
    <2>1. FollowUpScript(t, <<>>, <<>>, 0) = t \o (o \o (<<>> \o (<<>> \o e)))
      BY Zenon, WithoutZeros
    <2>2. <<>> \o e = e
      BY Zenon, <1>7, <1>9
    <2> QED BY Zenon, <2>1, <2>2
  <1>12. FollowUpScript(data \o t, <<>>, <<>>, 0) = (data \o t) \o (o \o e)
    <2> DEFINE c == data \o t
    <2> HIDE DEF c
    <2>1. FollowUpScript(c, <<>>, <<>>, 0) = c \o (o \o (<<>> \o (<<>> \o e)))
      BY Zenon, WithoutZeros
    <2>2. <<>> \o e = e
      BY Zenon, <1>7, <1>9
    <2> QED BY Zenon, <2>1, <2>2 DEF c
  <1>13. FollowUpScript(t, l, data, 0) = t \o (o \o (l \o (data \o e)))
    BY Zenon, WithoutZeros
  <1>14. Whole(<<>>, <<>>) = (t \o o) \o e
    <2>1. t \o o \in Seq(Operations)
      BY Zenon, <1>7, Joined
    <2> QED BY Zenon, <1>7, <1>9, <2>1
  <1>15. Whole(data, <<>>) = ((data \o t) \o o) \o e
    <2>1. data \o t \in Seq(Operations)
      BY Zenon, <1>7, Joined
    <2>2. (data \o t) \o o \in Seq(Operations)
      BY Zenon, <1>7, <2>1, Joined
    <2> QED BY Zenon, <1>9, <2>2
  <1>16. Whole(<<>>, l \o data) = ((t \o o) \o (l \o data)) \o e
    BY Zenon, <1>7, <1>9
  <1> HIDE DEF data, t, o, e, l, Whole
  <1>17. CASE ~dataPhase
    <2>1. RefusedScript(a) = (t \o o) \o e
      BY Zenon, <1>10, <1>14, <1>17
    <2>2. (t \o o) \o e = t \o (o \o e)
      BY Zenon, <1>7, Regroup
    <2>3. RefusedScript(a) = FollowUpScript(t, <<>>, <<>>, 0)
      BY Zenon, <1>11, <2>1, <2>2
    <2>4. FollowsBy(FollowUpScript(t, <<>>, <<>>, 0), turnaround, 0, 0, 0)
      BY Zenon, <1>1, <1>3, BareScript
    <2> QED BY Zenon, <1>17, <2>3, <2>4
  <1>18. CASE dataPhase /\ a.read = 1
    <2>1. RefusedScript(a) = ((data \o t) \o o) \o e
      BY Zenon, <1>1, <1>10, <1>15, <1>18
    <2>2. /\ data \o t \in Seq(Pulses)
          /\ Len(data \o t) = Len(data) + Len(t)
      BY Zenon, <1>2, <1>3, PulsesJoin
    <2>3. data \o t \in Seq(Operations)
      BY Zenon, <1>7, Joined
    <2>4. ((data \o t) \o o) \o e = (data \o t) \o (o \o e)
      BY Zenon, <1>7, <2>3, Regroup
    <2>5. Len(data \o t) = WordBits + 1 + turnaround
      BY Zenon, <1>2, <1>3, <2>2
    <2>6. RefusedScript(a) = FollowUpScript(data \o t, <<>>, <<>>, 0)
      BY Zenon, <1>12, <2>1, <2>4
    <2>7. FollowsBy(FollowUpScript(data \o t, <<>>, <<>>, 0), WordBits + 1 + turnaround, 0, 0, 0)
      BY Zenon, <1>1, <2>2, <2>5, BareScript
    <2> QED BY Zenon, <1>1, <1>18, <2>6, <2>7
  <1>19. CASE dataPhase /\ a.read = 0
    <2>1. RefusedScript(a) = ((t \o o) \o (l \o data)) \o e
      BY Zenon, <1>1, <1>10, <1>16, <1>19
    <2>2. t \o o \in Seq(Operations)
      BY Zenon, <1>7, Joined
    <2>8. l \o data \in Seq(Operations)
      BY Zenon, <1>5, <1>7, Joined
    <2>9. data \o e \in Seq(Operations)
      BY Zenon, <1>7, Joined
    <2>10. l \o (data \o e) \in Seq(Operations)
      BY Zenon, <1>5, <2>9, Joined
    <2>3. (l \o data) \o e = l \o (data \o e)
      BY Zenon, <1>5, <1>7, Regroup
    <2>4. ((t \o o) \o (l \o data)) \o e = (t \o o) \o ((l \o data) \o e)
      <3> DEFINE u == t \o o
                 y == l \o data
      <3>1. u \in Seq(Operations) /\ y \in Seq(Operations) /\ e \in Seq(Operations)
        BY Zenon, <1>7, <2>2, <2>8
      <3> HIDE DEF u, y
      <3>2. (u \o y) \o e = u \o (y \o e)
        BY Zenon, <3>1, Regroup
      <3> QED BY Zenon, <3>2 DEF u, y
    <2>5. (t \o o) \o (l \o (data \o e)) = t \o (o \o (l \o (data \o e)))
      <3> DEFINE u == l \o (data \o e)
      <3>1. u \in Seq(Operations) /\ t \in Seq(Operations) /\ o \in Seq(Operations)
        BY Zenon, <1>7, <2>10
      <3> HIDE DEF u
      <3>2. (t \o o) \o u = t \o (o \o u)
        BY Zenon, <3>1, Regroup
      <3> QED BY Zenon, <3>2 DEF u
    <2>6. RefusedScript(a) = FollowUpScript(t, l, data, 0)
      BY Zenon, <1>13, <2>1, <2>3, <2>4, <2>5
    <2>7. FollowsBy(FollowUpScript(t, l, data, 0), turnaround, 0, WordBits + 1, 1)
      BY Zenon, <1>1, <1>2, <1>3, <1>5, <1>6, FollowsByScript
    <2> QED BY Zenon, <1>1, <1>19, <2>6, <2>7
  <1> QED BY Zenon, <1>1, <1>8, <1>17, <1>18, <1>19

LEMMA NoAnswerIs ==
  ASSUME turnaround \in Turnarounds
  PROVE  FollowsBy(NoAnswerScript, WordBits + 1 + turnaround, 0, 0, 0)
  <1> DEFINE c == Turnaround \o Times(WordBits + 1, Clock)
             o == <<Output>>
             e == <<Level(1)>>
  <1>1. WordBits + 1 \in Nat /\ 0 \in Nat /\ turnaround + (WordBits + 1) = WordBits + 1 + turnaround
    BY SMT, Sizes
  <1>2. Times(WordBits + 1, Clock) \in Seq(Pulses) /\ Len(Times(WordBits + 1, Clock)) = WordBits + 1
    BY Zenon, <1>1, PulsesAre, RunIs
  <1>3. c \in Seq(Pulses) /\ Len(c) = WordBits + 1 + turnaround
    BY Zenon, <1>1, <1>2, TurnaroundIs, PulsesJoin
  <1>4. <<Output, Level(1)>> = o \o e
    OBVIOUS
  <1>5. NoAnswerScript = c \o (o \o e)
    BY Zenon, <1>4 DEF NoAnswerScript
  <1> HIDE DEF c
  <1>6. FollowUpScript(c, <<>>, <<>>, 0) = c \o (o \o (<<>> \o (<<>> \o e)))
    BY Zenon, WithoutZeros
  <1>7. <<>> \o e = e
    BY Zenon, IdleIs, Nothing
  <1>8. NoAnswerScript = FollowUpScript(c, <<>>, <<>>, 0)
    BY Zenon, <1>5, <1>6, <1>7
  <1> QED BY Zenon, <1>1, <1>3, <1>8, BareScript

LEMMA ReadsComeFirst ==
  ASSUME turnaround \in Turnarounds
  PROVE  /\ \A i \in (turnaround + IdleCycles + 3)..(turnaround + IdleCycles + 3 + WordBits) :
              Left(ReadScript \o IdleScript, i) = ReadBit
         /\ \A i \in (IdleCycles + 3)..(turnaround + IdleCycles + 2) :
              Left(ReadScript \o IdleScript, i) = Clock
  <1> DEFINE r == Times(WordBits + 1, ReadBit)
             t == Turnaround
             q == Times(IdleCycles, WriteBit(0))
             e == <<Level(1)>>
             o == <<Output>>
             oq == o \o (q \o e)
             tail == t \o oq
  <1>1. WordBits + 1 \in Nat /\ IdleCycles \in Nat /\ turnaround \in Nat /\ WordBits \in Nat
    BY Sizes
  <1>2. /\ r \in Seq(Operations) /\ Len(r) = WordBits + 1
        /\ \A i \in 1..(WordBits + 1) : Left(r, i) = ReadBit
    BY Zenon, <1>1, OperationsAre, RunIs
  <1>3. /\ t \in Seq(Operations) /\ Len(t) = turnaround
        /\ \A i \in 1..turnaround : Left(t, i) = Clock
    BY Zenon, <1>1, OperationsAre, RunIs DEF Turnaround
  <1>4. 0 \in Bit /\ 1 \in Bit
    BY DEF Bit
  <1>5. q \in Seq(Operations) /\ Len(q) = IdleCycles
    BY Zenon, <1>1, <1>4, OperationsAre, RunIs
  <1>6. e \in Seq(Operations) /\ Len(e) = 1
    BY Zenon, <1>4, OperationsAre, LeftOfOne
  <1>7. o \in Seq(Operations) /\ Len(o) = 1
    BY Zenon, OperationsAre, LeftOfOne
  <1>8. ReadScript \o IdleScript = ((r \o t) \o o) \o (q \o e)
    BY Zenon DEF ReadScript, IdleScript
  <1> HIDE DEF r, t, q, e, o
  <1>9. JoinOf(q \o e, q, IdleCycles, e, 1)
    BY Zenon, <1>5, <1>6, JoinIs
  <1>10. q \o e \in Seq(Operations) /\ Len(q \o e) = IdleCycles + 1
    BY Zenon, <1>9 DEF JoinOf
  <1>11. JoinOf(oq, o, 1, q \o e, IdleCycles + 1)
    BY Zenon, <1>7, <1>10, JoinIs
  <1>12. oq \in Seq(Operations) /\ Len(oq) = 1 + (IdleCycles + 1)
    BY Zenon, <1>11 DEF JoinOf
  <1>13. r \o t \in Seq(Operations)
    BY Zenon, <1>2, <1>3, Joined
  <1>14. ((r \o t) \o o) \o (q \o e) = (r \o t) \o oq
    BY Zenon, <1>7, <1>10, <1>13, Regroup
  <1> HIDE DEF oq
  <1>15. (r \o t) \o oq = r \o tail
    BY Zenon, <1>2, <1>3, <1>12, Regroup
  <1>16. JoinOf(tail, t, turnaround, oq, 1 + (IdleCycles + 1))
    BY Zenon, <1>3, <1>12, JoinIs
  <1>17. tail \in Seq(Operations) /\ Len(tail) = turnaround + (1 + (IdleCycles + 1))
    BY Zenon, <1>16 DEF JoinOf
  <1> HIDE DEF tail
  <1>18. JoinOf(r \o tail, r, WordBits + 1, tail, turnaround + (1 + (IdleCycles + 1)))
    BY Zenon, <1>2, <1>17, JoinIs
  <1>19. \A i \in ((turnaround + (1 + (IdleCycles + 1))) + 1)..
                  ((turnaround + (1 + (IdleCycles + 1))) + (WordBits + 1)) :
           Left(r \o tail, i) = Left(r, i - (turnaround + (1 + (IdleCycles + 1))))
    BY Zenon, <1>18 DEF JoinOf
  <1>20. ASSUME NEW i \in (turnaround + IdleCycles + 3)..(turnaround + IdleCycles + 3 + WordBits)
         PROVE  Left(r \o tail, i) = ReadBit
    <2>1. /\ i \in ((turnaround + (1 + (IdleCycles + 1))) + 1)..
                   ((turnaround + (1 + (IdleCycles + 1))) + (WordBits + 1))
          /\ i - (turnaround + (1 + (IdleCycles + 1))) \in 1..(WordBits + 1)
      BY SMT, <1>1
    <2> QED BY Zenon, <1>2, <1>19, <2>1
  <1>21. /\ \A i \in 1..(turnaround + (1 + (IdleCycles + 1))) : Left(r \o tail, i) = Left(tail, i)
         /\ \A i \in ((1 + (IdleCycles + 1)) + 1)..((1 + (IdleCycles + 1)) + turnaround) :
              Left(tail, i) = Left(t, i - (1 + (IdleCycles + 1)))
    BY Zenon, <1>16, <1>18 DEF JoinOf
  <1>22. ASSUME NEW i \in (IdleCycles + 3)..(turnaround + IdleCycles + 2)
         PROVE  Left(r \o tail, i) = Clock
    <2>1. /\ i \in 1..(turnaround + (1 + (IdleCycles + 1)))
          /\ i \in ((1 + (IdleCycles + 1)) + 1)..((1 + (IdleCycles + 1)) + turnaround)
          /\ i - (1 + (IdleCycles + 1)) \in 1..turnaround
      BY SMT, <1>1
    <2> QED BY Zenon, <1>3, <1>21, <2>1
  <1> QED BY Zenon, <1>8, <1>14, <1>15, <1>20, <1>22

-----------------------------------------------------------------------------
LEMMA LineIsBit ==
  ASSUME WireOK, level' \in [Pins -> Bit], OnesInv
  PROVE  Line \in Bit /\ \A f \in Bit : (Line + f) % 2 \in Bit
  <1>1. TargetDrives => Head(plan).bit \in Bit
    <2>1. plan \in Seq(Slots)
      BY DEF WireOK
    <2>2. plan # <<>> => Head(plan) \in Slots
      BY <2>1
    <2>3. \A x \in Slots : x.bit \in Bit
      BY DEF Slots
    <2> QED BY Zenon, <2>2, <2>3 DEF TargetDrives
  <1>2. level'["swdio"] \in Bit
    BY DEF Pins
  <1>3. 1 \in Bit
    BY DEF Bit
  <1>4. Line \in Bit
    BY Zenon, <1>1, <1>2, <1>3 DEF Line
  <1>5. \A x, f \in Bit : (x + f) % 2 \in Bit
    BY SMT DEF Bit
  <1> QED BY Zenon, <1>4, <1>5

LEMMA HeadIs ==
  ASSUME script \in Seq(Operations), script # <<>>
  PROVE  /\ Tail(script) \in Seq(Operations) /\ Head(script) \in Operations
         /\ Head(script).bit \in Bit
         /\ Head(script).op \in {"write", "read", "clock", "output", "input", "level"}
  <1>1. Tail(script) \in Seq(Operations) /\ Head(script) \in Operations
    <2> HIDE DEF Operations
    <2> QED OBVIOUS
  <1>2. \A x \in Operations :
          x.bit \in Bit /\ x.op \in {"write", "read", "clock", "output", "input", "level"}
    BY DEF Operations
  <1> QED BY Zenon, <1>1, <1>2

Inv == TypeInv /\ OnesInv

LEMMA TypesGiveWire ==
  ASSUME TypeInv
  PROVE  WireOK
  BY DEF TypeInv, TypeOK, WireOK

LEMMA ReadingGoesOn ==
  ASSUME turnaround \in Turnarounds, script \in Seq(Operations), got \in Seq(Bit),
         Reading, script # <<>>, script' = Tail(script), turnaround' = turnaround, NEW b \in Bit,
         got' = IF Head(script).op = "read" THEN Append(got, b) ELSE got
  PROVE  Reading' /\ (~InCycle => Len(got) > WordBits)
  <1>1. turnaround \in Nat /\ IdleCycles \in Nat /\ WordBits \in Nat /\ Len(got) \in Nat
    BY Sizes
  <1>2. /\ Len(script') = Len(script) - 1 /\ Len(script) > 0 /\ Len(script) \in Nat
        /\ Head(script) = Left(script, Len(script))
        /\ \A i \in 1..(Len(script) - 1) : Left(script', i) = Left(script, i)
    <2> HIDE DEF Operations
    <2>1. Len(script) \in Nat
      OBVIOUS
    <2> QED BY Zenon, <2>1, LeftOfTail
  <1>3. Len(Append(got, b)) = Len(got) + 1
    OBVIOUS
  <1>4. CASE Len(got) > WordBits
    <2>1. Len(got') = Len(got) \/ Len(got') = Len(got) + 1
      BY Zenon, <1>3
    <2>2. Len(got') > WordBits
      BY SMT, <1>1, <1>4, <2>1
    <2> QED BY Zenon, <1>4, <2>2 DEF Reading
  <1>5. CASE /\ Len(script) > turnaround + IdleCycles + 2
             /\ Len(got) + Len(script) = turnaround + IdleCycles + 3 + WordBits
             /\ \A i \in (turnaround + IdleCycles + 3)..Len(script) : Left(script, i) = ReadBit
    <2>1. Len(script) \in (turnaround + IdleCycles + 3)..Len(script)
      BY SMT, <1>1, <1>2, <1>5
    <2>2. Head(script) = ReadBit
      BY Zenon, <1>2, <1>5, <2>1
    <2>3. Head(script).op = "read"
      BY <2>2 DEF ReadBit
    <2>4. InCycle
      BY <2>3 DEF InCycle
    <2>5. Len(got') = Len(got) + 1
      BY Zenon, <1>3, <2>3
    <2>6. CASE Len(script) = turnaround + IdleCycles + 3
      <3>1. Len(got') > WordBits
        BY SMT, <1>1, <1>2, <1>5, <2>5, <2>6
      <3> QED BY Zenon, <2>4, <3>1 DEF Reading
    <2>7. CASE Len(script) # turnaround + IdleCycles + 3
      <3>1. /\ Len(script') > turnaround + IdleCycles + 2
            /\ Len(got') + Len(script') = turnaround + IdleCycles + 3 + WordBits
        <4> DEFINE n == Len(script)
                   g == Len(got)
                   m == turnaround + IdleCycles
        <4>1. n > m + 2 /\ g + n = m + 3 + WordBits
          BY Zenon, <1>5
        <4>2. n # m + 3
          BY Zenon, <2>7
        <4>3. n \in Nat /\ g \in Nat /\ m \in Nat /\ WordBits \in Nat
          BY <1>1, <1>2
        <4>4. Len(script') = n - 1 /\ Len(got') = g + 1
          BY Zenon, <1>2, <2>5
        <4> HIDE DEF n, g, m
        <4>5. n - 1 > m + 2 /\ (g + 1) + (n - 1) = m + 3 + WordBits
          BY SMT, <4>1, <4>2, <4>3
        <4>6. Len(script') > m + 2 /\ Len(got') + Len(script') = m + 3 + WordBits
          BY Zenon, <4>4, <4>5
        <4> QED BY Zenon, <4>6 DEF m
      <3>2. ASSUME NEW i \in (turnaround + IdleCycles + 3)..Len(script')
            PROVE  Left(script', i) = ReadBit
        <4>1. i \in 1..(Len(script) - 1) /\ i \in (turnaround + IdleCycles + 3)..Len(script)
          BY SMT, <1>1, <1>2
        <4> QED BY Zenon, <1>2, <1>5, <4>1
      <3> QED BY Zenon, <2>4, <3>1, <3>2 DEF Reading
    <2> QED BY Zenon, <2>6, <2>7
  <1> QED BY Zenon, <1>4, <1>5 DEF Reading

LEMMA FlipsAreBits == Flips \subseteq Bit
  BY DEF Flips, Bit

LEMMA CycleKeepsTypes ==
  ASSUME Inv, Cycle
  PROVE  Inv'
  <1>1. TypeOK /\ plan \in Seq(Slots) /\ asked \in Requests /\ OnesInv /\ WireOK
    BY Zenon, TypesGiveWire DEF Inv, TypeInv
  <1>2. /\ script # <<>> /\ script' = Tail(script) /\ UNCHANGED <<port, turnaround, dataPhase>>
        /\ UNCHANGED <<out, pc, asked, ack, result, synced>>
    BY Zenon DEF Cycle, InCycle, config
  <1>3. Tail(script) \in Seq(Operations) /\ Head(script).bit \in Bit
    BY Zenon, <1>1, <1>2, HeadIs DEF TypeOK
  <1>4. level' \in [Pins -> Bit]
    <2>1. /\ level' = [level EXCEPT !["swclk"] = 1,
                                    !["swdio"] =
                                      IF Head(script).op = "write" THEN Head(script).bit ELSE @]
      BY Zenon DEF Cycle
    <2>2. level \in [Pins -> Bit]
      BY Zenon, <1>1 DEF TypeOK
    <2> QED BY <1>3, <2>1, <2>2 DEF Pins, Bit
  <1>5. Line \in Bit /\ \A f \in Bit : (Line + f) % 2 \in Bit
    BY Zenon, <1>1, <1>4, LineIsBit
  <1>6. PICK f \in Bit :
          LET b == (Line + f) % 2
          IN  /\ inverted' = (inverted \/ f = 1)
              /\ got' = IF Head(script).op = "read" THEN Append(got, b) ELSE got
              /\ \/ Hears(b)
                 \/ UNCHANGED wire
    <2>1. Flips \subseteq Bit
      BY FlipsAreBits
    <2> QED BY Zenon, <2>1 DEF Cycle
  <1> DEFINE b == (Line + f) % 2
  <1>7. b \in Bit
    BY Zenon, <1>5
  <1> HIDE DEF b
  <1>8. got' \in Seq(Bit)
    <2>1. got \in Seq(Bit)
      BY Zenon, <1>1 DEF TypeOK
    <2>2. Append(got, b) \in Seq(Bit)
      BY <1>7, <2>1
    <2>3. got' = IF Head(script).op = "read" THEN Append(got, b) ELSE got
      BY Zenon, <1>6 DEF b
    <2> QED BY Zenon, <2>1, <2>2, <2>3
  <1>9. WireOK' /\ OnesInv'
    <2>1. CASE Hears(b)
      BY Zenon, <1>1, <1>2, <1>7, <2>1, HearsKeeps
    <2>2. CASE UNCHANGED wire
      BY <1>1, <1>2, <2>2 DEF wire, WireOK, OnesInv, LowEnough
    <2> QED BY Zenon, <1>6, <2>1, <2>2 DEF b
  <1>10. inverted' \in BOOLEAN
    BY Zenon, <1>6
  <1>11. TypeOK' /\ plan' \in Seq(Slots) /\ asked' \in Requests
    BY Zenon, <1>1, <1>2, <1>3, <1>4, <1>8, <1>9, <1>10 DEF TypeOK, WireOK
  <1>12. pc' = "transferred" /\ ack' = Ok /\ asked'.read = 1 => Reading'
    <2>1. got' = IF Head(script).op = "read" THEN Append(got, b) ELSE got
      BY Zenon, <1>6 DEF b
    <2>2. turnaround \in Turnarounds /\ script \in Seq(Operations) /\ got \in Seq(Bit)
      BY Zenon, <1>1 DEF TypeOK
    <2>3. pc' = "transferred" /\ ack' = Ok /\ asked'.read = 1 => Reading
      BY Zenon, <1>2 DEF Inv, TypeInv
    <2> QED BY Zenon, <1>2, <1>7, <2>1, <2>2, <2>3, ReadingGoesOn
  <1>13. pc' = "acknowledged" /\ asked'.read = 0 => Len(asked'.word) = WordBits
    BY Zenon, <1>2 DEF Inv, TypeInv
  <1> QED BY Zenon, <1>9, <1>11, <1>12, <1>13 DEF Inv, TypeInv

LEMMA SetPinKeepsTypes ==
  ASSUME Inv, SetPin
  PROVE  Inv'
  <1>1. /\ script # <<>> /\ script' = Tail(script) /\ UNCHANGED <<port, turnaround, dataPhase>>
        /\ UNCHANGED <<pc, got, asked, ack, result, target, heard, plan, ones, synced, inverted>>
    BY Zenon DEF SetPin, config, reply, wire
  <1>2. Tail(script) \in Seq(Operations) /\ Head(script).bit \in Bit
    BY Zenon, <1>1, HeadIs DEF Inv, TypeInv, TypeOK
  <1>3. out' \subseteq Pins
    <2>1. out' \in {out \cup {"swdio"}, out \ {"swdio"}, out}
      BY Zenon DEF SetPin
    <2> QED BY <2>1 DEF Pins, Inv, TypeInv, TypeOK
  <1>4. level' \in [Pins -> Bit]
    <2>1. level' = level \/ level' = [level EXCEPT !["swdio"] = Head(script).bit]
      BY Zenon DEF SetPin
    <2>2. level \in [Pins -> Bit]
      BY Zenon DEF Inv, TypeInv, TypeOK
    <2> QED BY <1>2, <2>1, <2>2
  <1>5. TypeOK'
    BY Zenon, <1>1, <1>2, <1>3, <1>4 DEF Inv, TypeInv, TypeOK
  <1>6. OnesInv'
    BY Zenon, <1>1 DEF Inv, OnesInv, LowEnough
  <1>7. pc' = "transferred" /\ ack' = Ok /\ asked'.read = 1 => Reading'
    <2>1. ~InCycle /\ Head(script).op # "read" /\ 0 \in Bit
      BY <1>1 DEF SetPin, InCycle, Bit
    <2>2. got' = IF Head(script).op = "read" THEN Append(got, 0) ELSE got
      BY Zenon, <1>1, <2>1
    <2>3. turnaround \in Turnarounds /\ script \in Seq(Operations) /\ got \in Seq(Bit)
      BY Zenon DEF Inv, TypeInv, TypeOK
    <2>4. pc' = "transferred" /\ ack' = Ok /\ asked'.read = 1 => Reading
      BY Zenon, <1>1 DEF Inv, TypeInv
    <2> QED BY Zenon, <1>1, <2>1, <2>2, <2>3, <2>4, ReadingGoesOn
  <1>8. /\ plan' \in Seq(Slots) /\ asked' \in Requests
        /\ pc' = "acknowledged" /\ asked'.read = 0 => Len(asked'.word) = WordBits
    BY Zenon, <1>1 DEF Inv, TypeInv
  <1> QED BY Zenon, <1>5, <1>6, <1>7, <1>8 DEF Inv, TypeInv

LEMMA SameWire ==
  ASSUME OnesInv, UNCHANGED <<target, heard, plan, ones>>
  PROVE  OnesInv'
  BY Zenon DEF OnesInv, LowEnough

\* The script that follows an acknowledgement.
LEMMA ScriptFollows ==
  ASSUME TypeInv, Acknowledged
  PROVE  /\ ack' = Ok /\ asked.read = 1 =>
              /\ FollowsBy(script', WordBits + 1 + turnaround, IdleCycles, 0, 0)
              /\ script' = ReadScript \o IdleScript
         /\ ack' = Ok /\ asked.read = 0 =>
              /\ FollowsBy(script', turnaround, IdleCycles, WordBits + 1, 0)
              /\ script' = WriteScript(asked.word) \o IdleScript
         /\ ack' \in {Wait, Fault} /\ ~dataPhase => FollowsBy(script', turnaround, 0, 0, 0)
         /\ ack' \in {Wait, Fault} /\ dataPhase /\ asked.read = 1 =>
              FollowsBy(script', WordBits + 1 + turnaround, 0, 0, 0)
         /\ ack' \in {Wait, Fault} /\ dataPhase /\ asked.read = 0 =>
              FollowsBy(script', turnaround, 0, WordBits + 1, 1)
         /\ ack' \notin {Ok, Wait, Fault} => FollowsBy(script', WordBits + 1 + turnaround, 0, 0, 0)
         /\ script' \in Seq(Operations)
  <1>1. /\ turnaround \in Turnarounds /\ dataPhase \in BOOLEAN
        /\ pc = "acknowledged" /\ asked.read = 0 => Len(asked.word) = WordBits
    BY Zenon DEF TypeInv, TypeOK
  <1>2. asked.read \in Bit /\ asked.word \in Seq(Bit)
    BY DEF TypeInv, Requests
  <1>3. /\ pc = "acknowledged"
        /\ script' = CASE ack' = Ok /\ asked.read = 1 -> ReadScript \o IdleScript
                       [] ack' = Ok /\ asked.read = 0 -> WriteScript(asked.word) \o IdleScript
                       [] ack' \in {Wait, Fault} -> RefusedScript(asked)
                       [] OTHER -> NoAnswerScript
    BY Zenon DEF Acknowledged
  <1>4. Ok \notin {Wait, Fault} /\ 0 # 1 /\ (asked.read = 0 \/ asked.read = 1)
    BY <1>2 DEF Ok, Wait, Fault, Bit
  <1>5. \A s, m, z, b, v : FollowsBy(s, m, z, b, v) => s \in Seq(Operations)
    BY Zenon DEF FollowsBy
  <1>6. CASE ack' = Ok /\ asked.read = 1
    <2>1. script' = ReadScript \o IdleScript
      BY Zenon, <1>3, <1>4, <1>6
    <2>2. FollowsBy(script', WordBits + 1 + turnaround, IdleCycles, 0, 0)
      BY Zenon, <1>1, <2>1, ReadScriptIs
    <2> QED BY Zenon, <1>4, <1>5, <1>6, <2>1, <2>2
  <1>7. CASE ack' = Ok /\ asked.read = 0
    <2>1. script' = WriteScript(asked.word) \o IdleScript
      BY Zenon, <1>3, <1>4, <1>7
    <2>2. FollowsBy(script', turnaround, IdleCycles, WordBits + 1, 0)
      BY Zenon, <1>1, <1>2, <1>3, <1>7, <2>1, WriteScriptIs
    <2> QED BY Zenon, <1>4, <1>5, <1>7, <2>1, <2>2
  <1>8. CASE ack' \in {Wait, Fault}
    <2>1. script' = RefusedScript(asked)
      BY Zenon, <1>3, <1>4, <1>8
    <2>2. /\ ~dataPhase => FollowsBy(script', turnaround, 0, 0, 0)
          /\ dataPhase /\ asked.read = 1 =>
               FollowsBy(script', WordBits + 1 + turnaround, 0, 0, 0)
          /\ dataPhase /\ asked.read = 0 =>
               FollowsBy(script', turnaround, 0, WordBits + 1, 1)
      BY Zenon, <1>1, <1>2, <2>1, RefusedScriptIs
    <2>3. ack' # Ok
      BY Zenon, <1>4, <1>8
    <2>4. script' \in Seq(Operations)
      BY Zenon, <1>4, <1>5, <2>2
    <2> QED BY Zenon, <1>8, <2>2, <2>3, <2>4
  <1>9. CASE ack' # Ok /\ ack' \notin {Wait, Fault}
    <2>1. script' = NoAnswerScript
      BY Zenon, <1>3, <1>9
    <2>2. FollowsBy(script', WordBits + 1 + turnaround, 0, 0, 0)
      BY Zenon, <1>1, <2>1, NoAnswerIs
    <2> QED BY Zenon, <1>5, <1>9, <2>2
  <1> QED BY Zenon, <1>4, <1>6, <1>7, <1>8, <1>9

LEMMA AcknowledgedKeepsTypes ==
  ASSUME Inv, Acknowledged
  PROVE  Inv'
  <1>1. /\ ack' = got /\ got' = <<>> /\ pc' = "transferred"
        /\ UNCHANGED <<port, turnaround, dataPhase, out, level, asked, result>>
        /\ UNCHANGED <<target, heard, plan, ones, done, synced, inverted>>
    BY Zenon DEF Acknowledged, config, pins, wire
  <1>2. TypeOK /\ plan \in Seq(Slots) /\ asked \in Requests /\ OnesInv /\ TypeInv
    BY Zenon DEF Inv, TypeInv
  <1>3. script' \in Seq(Operations)
    BY Zenon, <1>2, ScriptFollows
  <1>4. "transferred" \in Labels /\ <<>> \in Seq(Bit) /\ "transferred" # "acknowledged"
    BY DEF Labels
  <1>5. TypeOK'
    BY Zenon, <1>1, <1>2, <1>3, <1>4 DEF TypeOK
  <1>6. OnesInv'
    BY Zenon, <1>1, <1>2, SameWire
  <1>7. ASSUME ack' = Ok, asked'.read = 1 PROVE Reading'
    <2>1. /\ FollowsBy(script', WordBits + 1 + turnaround, IdleCycles, 0, 0)
          /\ script' = ReadScript \o IdleScript
      BY Zenon, <1>1, <1>2, <1>7, ScriptFollows
    <2>2. Len(script') = WordBits + 1 + turnaround + (1 + (0 + (0 + (IdleCycles + 1))))
      BY Zenon, <2>1 DEF FollowsBy
    <2>3. turnaround \in Nat /\ IdleCycles \in Nat /\ WordBits \in Nat
      BY Sizes, <1>2 DEF TypeOK
    <2> DEFINE n == Len(script')
    <2> HIDE DEF n
    <2>4. n = turnaround + IdleCycles + 3 + WordBits
      BY SMT, <2>2, <2>3 DEF n
    <2>5. n > turnaround + IdleCycles + 2 /\ 0 + n = turnaround + IdleCycles + 3 + WordBits
      BY SMT, <2>3, <2>4
    <2>6. turnaround \in Turnarounds
      BY Zenon, <1>2 DEF TypeOK
    <2>7. \A i \in (turnaround + IdleCycles + 3)..(turnaround + IdleCycles + 3 + WordBits) :
            Left(script', i) = ReadBit
      BY Zenon, <2>1, <2>6, ReadsComeFirst
    <2>8. \A i \in (turnaround + IdleCycles + 3)..n : Left(script', i) = ReadBit
      BY Zenon, <2>4, <2>7
    <2>9. Len(got') = 0
      BY <1>1
    <2> QED BY Zenon, <1>1, <2>5, <2>8, <2>9 DEF Reading, n
  <1> QED BY Zenon, <1>1, <1>2, <1>4, <1>5, <1>6, <1>7 DEF Inv, TypeInv

LEMMA EndsKeepTypes ==
  ASSUME Inv, Transferred \/ Sequenced \/ Answered
  PROVE  Inv'
  <1>1. TypeOK /\ plan \in Seq(Slots) /\ asked \in Requests /\ OnesInv /\ TypeInv
    BY Zenon DEF Inv, TypeInv
  <1>2. /\ "done" \in Labels /\ "idle" \in Labels /\ <<>> \in Seq(Bit)
        /\ "done" # "acknowledged" /\ "idle" # "acknowledged"
        /\ "done" # "transferred" /\ "idle" # "transferred"
    BY DEF Labels
  <1>3. /\ pc' \in {"done", "idle"} /\ UNCHANGED <<port, turnaround, dataPhase, out, level, script>>
        /\ UNCHANGED <<target, heard, plan, ones>>
    BY Zenon DEF Transferred, Sequenced, Answered, config, pins, wire
  <1>4. OnesInv'
    BY Zenon, <1>1, <1>3, SameWire
  <1>5. pc' \in Labels /\ pc' # "acknowledged" /\ pc' # "transferred"
    BY Zenon, <1>2, <1>3
  <1>6. got' \in Seq(Bit) /\ ack' \in Seq(Bit)
    <2>1. got' \in {got, <<>>} /\ ack' \in {ack, <<>>}
      BY Zenon DEF Transferred, Sequenced, Answered, reply
    <2> QED BY Zenon, <1>1, <1>2, <2>1 DEF TypeOK
  <1>7. result' \in Seq(Bit)
    <2>1. CASE Transferred
      <3>1. CASE ack = Ok /\ asked.read = 1
        <4>1. pc = "transferred" /\ script = <<>> /\ result' = SubSeq(got, 1, WordBits)
          BY Zenon, <2>1, <3>1 DEF Transferred
        <4>2. Reading
          BY Zenon, <1>1, <3>1, <4>1 DEF TypeInv
        <4>3. ~(Len(script) > turnaround + IdleCycles + 2)
          <5>1. turnaround \in Nat /\ IdleCycles \in Nat /\ Len(script) = 0
            BY <1>1, <4>1, Sizes DEF TypeOK
          <5> QED BY SMT, <5>1
        <4>4. Len(got) > WordBits
          BY Zenon, <4>2, <4>3 DEF Reading
        <4>5. WordBits \in Nat /\ got \in Seq(Bit)
          BY <1>1, Sizes DEF TypeOK
        <4>6. \A s \in Seq(Bit) : Len(s) > WordBits => SubSeq(s, 1, WordBits) \in Seq(Bit)
          BY SMT, <4>5
        <4> QED BY Zenon, <4>1, <4>4, <4>5, <4>6
      <3>2. CASE ~(ack = Ok /\ asked.read = 1)
        BY Zenon, <1>1, <2>1, <3>2 DEF Transferred, TypeOK
      <3> QED BY Zenon, <3>1, <3>2
    <2>2. CASE Sequenced \/ Answered
      <3>1. result' \in {result, <<>>}
        BY Zenon, <2>2 DEF Sequenced, Answered, reply
      <3> QED BY Zenon, <1>1, <1>2, <3>1 DEF TypeOK
    <2> QED BY Zenon, <2>1, <2>2
  <1>8. synced' \in BOOLEAN /\ inverted' \in BOOLEAN
    <2>1. (synced' = synced \/ synced' = (port = "swd" /\ "swdio" \in out /\ target = "idle"))
          /\ (inverted' = inverted \/ inverted' = FALSE)
      BY Zenon DEF Transferred, Sequenced, Answered
    <2> QED BY Zenon, <1>1, <2>1 DEF TypeOK
  <1>9. asked' \in Requests
    <2>1. asked' = asked \/ asked' = None
      BY Zenon DEF Transferred, Sequenced, Answered, reply
    <2>2. None \in Requests
      BY DEF None, Requests, Bit
    <2> QED BY Zenon, <1>1, <2>1, <2>2
  <1>10. TypeOK'
    BY Zenon, <1>1, <1>3, <1>5, <1>6, <1>7, <1>8 DEF TypeOK
  <1>11. plan' \in Seq(Slots)
    BY Zenon, <1>1, <1>3
  <1> QED BY Zenon, <1>4, <1>5, <1>9, <1>10, <1>11 DEF Inv, TypeInv

LEMMA TransferKeepsTypes ==
  ASSUME Inv, NEW a \in Addresses, NEW w \in Words, SwdTransfer(a, w)
  PROVE  Inv'
  <1>1. TypeOK /\ plan \in Seq(Slots) /\ asked \in Requests /\ OnesInv /\ TypeInv
    BY Zenon DEF Inv, TypeInv
  <1>2. /\ asked' = [ap |-> a.ap, read |-> a.read, a2 |-> a.a2, a3 |-> a.a3,
                     word |-> IF a.read = 1 THEN <<>> ELSE w]
        /\ script' = AskScript(a) /\ pc' = "acknowledged"
        /\ UNCHANGED <<port, turnaround, dataPhase, out, level, got, ack, result>>
        /\ UNCHANGED <<target, heard, plan, ones, done, synced, inverted>>
    BY Zenon DEF SwdTransfer, config, pins, wire
  <1>3. a.ap \in Bit /\ a.read \in Bit /\ a.a2 \in Bit /\ a.a3 \in Bit
    BY InputsAreLegal
  <1>4. turnaround \in Turnarounds
    BY Zenon, <1>1 DEF TypeOK
  <1>5. script' \in Seq(Operations)
    BY Zenon, <1>2, <1>3, <1>4, AskScriptIs
  <1>6. "acknowledged" \in Labels /\ "acknowledged" # "transferred"
    BY DEF Labels
  <1>7. TypeOK'
    BY Zenon, <1>1, <1>2, <1>5, <1>6 DEF TypeOK
  <1>8. OnesInv'
    BY Zenon, <1>1, <1>2, SameWire
  <1>9. w \in Seq(Bit) /\ Len(w) = WordBits /\ <<>> \in Seq(Bit)
    BY WordsAre
  <1>10. asked' \in Requests /\ (asked'.read = 0 => Len(asked'.word) = WordBits)
    <2> DEFINE x == IF a.read = 1 THEN <<>> ELSE w
    <2>1. x \in Seq(Bit) /\ (a.read = 0 => x = w)
      BY <1>3, <1>9 DEF Bit
    <2>2. asked' = [ap |-> a.ap, read |-> a.read, a2 |-> a.a2, a3 |-> a.a3, word |-> x]
      BY <1>2
    <2> HIDE DEF x
    <2> QED BY <1>3, <1>9, <2>1, <2>2 DEF Requests
  <1> QED BY Zenon, <1>1, <1>2, <1>6, <1>7, <1>8, <1>10 DEF Inv, TypeInv

\* The items of a DAP_SWD_Sequence, those of one that was cut short too.
Items == [out : BOOLEAN, bits : Seq(Bit)]

LEMMA CutItemsAre ==
  ASSUME NEW items \in Seq(Items), NEW x \in CutItems(items)
  PROVE  x \in Seq(Items)
  <1>1. Len(items) \in Nat /\ \A n \in 1..Len(items) : items[n].bits \in Seq(Bit)
    <2>1. \A n \in 1..Len(items) : items[n] \in Items
      <3> HIDE DEF Items
      <3> QED BY SMT
    <2> QED BY <2>1 DEF Items
  <1>2. \A n \in 0..Len(items) : SubSeq(items, 1, n) \in Seq(Items)
    <2> HIDE DEF Items
    <2> QED BY SMT, <1>1
  <1>3. CASE \E n \in 0..(Len(items) - 1) : x = SubSeq(items, 1, n)
    BY SMT, <1>1, <1>2, <1>3
  <1>4. CASE \E n \in 1..Len(items) : \E b \in Cut(items[n].bits) :
               x = Append(SubSeq(items, 1, n - 1), [out |-> TRUE, bits |-> b])
    <2>0. PICK n \in 1..Len(items) : \E b \in Cut(items[n].bits) :
            x = Append(SubSeq(items, 1, n - 1), [out |-> TRUE, bits |-> b])
      BY <1>4
    <2>1. PICK b \in Cut(items[n].bits) :
            x = Append(SubSeq(items, 1, n - 1), [out |-> TRUE, bits |-> b])
      BY <2>0
    <2>2. b \in Seq(Bit)
      BY Zenon, <1>1, CutIsBits
    <2>3. [out |-> TRUE, bits |-> b] \in Items
      BY <2>2 DEF Items
    <2>4. n - 1 \in 0..Len(items)
      BY SMT, <1>1
    <2>5. SubSeq(items, 1, n - 1) \in Seq(Items)
      BY <1>2, <2>4
    <2>6. \A s \in Seq(Items), y \in Items : Append(s, y) \in Seq(Items)
      <3> HIDE DEF Items
      <3> QED OBVIOUS
    <2> QED BY Zenon, <2>1, <2>3, <2>5, <2>6
  <1> QED BY Zenon, <1>3, <1>4 DEF CutItems

\* The scripts of the items, one after the other, are a script.
LEMMA ItemsAreFlat ==
  ASSUME NEW x \in Seq(Items)
  PROVE  FlattenSeq([i \in 1..Len(x) |-> ItemScript(x[i])]) \in Seq(Operations)
  <1>1. ASSUME NEW y \in Items PROVE ItemScript(y) \in Seq(Operations)
    <2>1. y.bits \in Seq(Bit) /\ Len(y.bits) \in Nat
      BY DEF Items
    <2>2. WriteBits(y.bits) \in Seq(Operations)
      BY <2>1, WriteBitsAre
    <2>3. Output \in Operations /\ Input \in Operations /\ ReadBit \in Operations
      BY OperationsAre
    <2>4. Times(Len(y.bits), ReadBit) \in Seq(Operations)
      <3> HIDE DEF Operations
      <3> QED BY <2>1, <2>3 DEF Times
    <2>5. <<Output>> \in Seq(Operations) /\ <<Input>> \in Seq(Operations)
      <3> HIDE DEF Operations
      <3> QED BY <2>3
    <2>6. /\ <<Output>> \o WriteBits(y.bits) \in Seq(Operations)
          /\ <<Input>> \o Times(Len(y.bits), ReadBit) \in Seq(Operations)
      BY Zenon, <2>2, <2>4, <2>5, ConcatProperties
    <2> QED BY Zenon, <2>6 DEF ItemScript
  <1>2. Len(x) \in Nat /\ \A i \in 1..Len(x) : x[i] \in Items
    <2> HIDE DEF Items
    <2> QED BY SMT
  <1>3. [i \in 1..Len(x) |-> ItemScript(x[i])] \in Seq(Seq(Operations))
    <2>1. \A i \in 1..Len(x) : ItemScript(x[i]) \in Seq(Operations)
      BY <1>1, <1>2
    <2> HIDE DEF Operations
    <2> QED BY <1>2, <2>1
  <1> QED BY Zenon, <1>3, FlattenIsSequence

LEMMA ScriptsAreTyped ==
  /\ \A s \in BitSequences : \A b \in Cut(s) :
       WriteBits(s) \in Seq(Operations) /\ WriteBits(b) \in Seq(Operations)
  /\ \A s \in BitSequences : WriteBits(s) \in Seq(Operations)
  /\ \A s \in ItemSequences : \A x \in {s} \cup CutItems(s) :
       SequenceScript(x) \in Seq(Operations)
  <1>1. ASSUME NEW s \in BitSequences, NEW b \in Cut(s)
        PROVE  WriteBits(s) \in Seq(Operations) /\ WriteBits(b) \in Seq(Operations)
    <2>1. s \in Seq(Bit)
      BY InputsAreLegal
    <2>2. b \in Seq(Bit)
      BY Zenon, <2>1, CutIsBits
    <2> QED BY Zenon, <2>1, <2>2, WriteBitsAre
  <1>2. ASSUME NEW s \in BitSequences PROVE WriteBits(s) \in Seq(Operations)
    <2>1. s \in Seq(Bit)
      BY InputsAreLegal
    <2> QED BY Zenon, <2>1, WriteBitsAre
  <1>3. ASSUME NEW s \in ItemSequences, NEW x \in {s} \cup CutItems(s)
        PROVE  SequenceScript(x) \in Seq(Operations)
    <2>1. s \in Seq(Items)
      BY InputsAreLegal DEF Items
    <2>2. x \in Seq(Items)
      BY Zenon, <2>1, CutItemsAre
    <2> QED BY Zenon, <2>2, ItemsAreFlat, Nothing DEF SequenceScript
  <1> QED BY Zenon, <1>1, <1>2, <1>3

LEMMA SequencesKeepTypes ==
  ASSUME Inv,
         \/ \E s \in BitSequences : SwjSequence(s)
         \/ \E s \in ItemSequences : SwdSequence(s)
  PROVE  Inv'
  <1>1. TypeOK /\ plan \in Seq(Slots) /\ asked \in Requests /\ OnesInv /\ TypeInv
    BY Zenon DEF Inv, TypeInv
  <1>2. /\ pc' \in {"sequence", "short"} /\ UNCHANGED <<port, turnaround, dataPhase, out, level>>
        /\ UNCHANGED <<got, asked, ack, result, target, heard, plan, ones, synced, inverted>>
    BY Zenon DEF SwjSequence, SwdSequence, config, pins, reply, wire
  <1>3. script' \in Seq(Operations)
    <2>1. ASSUME NEW s \in BitSequences, SwjSequence(s)
          PROVE  script' \in Seq(Operations)
      <3>1. script' = WriteBits(s) \/ \E b \in Cut(s) : script' = WriteBits(b)
        BY Zenon, <2>1 DEF SwjSequence
      <3> QED BY Zenon, <3>1, ScriptsAreTyped
    <2>2. ASSUME NEW s \in ItemSequences, SwdSequence(s)
          PROVE  script' \in Seq(Operations)
      <3>1. CASE script' = SequenceScript(s) \o IF SequenceFails(s) THEN <<>> ELSE <<Output>>
        <4> DEFINE e == IF SequenceFails(s) THEN <<>> ELSE <<Output>>
        <4>1. e \in Seq(Operations)
          BY Zenon, IdleIs, Nothing
        <4>2. s \in {s} \cup CutItems(s)
          OBVIOUS
        <4>3. SequenceScript(s) \in Seq(Operations)
          BY Zenon, <4>2, ScriptsAreTyped
        <4>4. script' = SequenceScript(s) \o e
          BY <3>1
        <4> HIDE DEF e
        <4> QED BY Zenon, <4>1, <4>3, <4>4, Joined
      <3>2. CASE \E x \in CutItems(s) : script' = SequenceScript(x)
        <4>1. PICK x \in CutItems(s) : script' = SequenceScript(x)
          BY <3>2
        <4>2. x \in {s} \cup CutItems(s)
          OBVIOUS
        <4> QED BY Zenon, <4>1, <4>2, ScriptsAreTyped
      <3> QED BY Zenon, <2>2, <3>1, <3>2 DEF SwdSequence
    <2> QED BY Zenon, <2>1, <2>2
  <1>4. pc' \in Labels /\ pc' # "acknowledged" /\ pc' # "transferred"
    BY <1>2 DEF Labels
  <1>5. TypeOK'
    BY Zenon, <1>1, <1>2, <1>3, <1>4 DEF TypeOK
  <1>6. OnesInv'
    BY Zenon, <1>1, <1>2, SameWire
  <1> QED BY Zenon, <1>1, <1>2, <1>4, <1>5, <1>6 DEF Inv, TypeInv

LEMMA PinsKeepTypes ==
  ASSUME Inv, NEW c \in PinCommands, SwjPins(c)
  PROVE  Inv'
  <1>1. TypeOK /\ plan \in Seq(Slots) /\ asked \in Requests /\ OnesInv /\ WireOK
    BY Zenon, TypesGiveWire DEF Inv, TypeInv
  <1>2. /\ pc' = "done" /\ UNCHANGED <<port, turnaround, dataPhase, out, script>>
        /\ UNCHANGED <<got, asked, ack, result>>
        /\ synced' = FALSE /\ inverted' = FALSE
    BY Zenon DEF SwjPins, config, reply
  <1>3. level' \in [Pins -> Bit]
    <2>1. level' = [p \in Pins |-> IF p \in DOMAIN c THEN c[p] ELSE level[p]]
      BY Zenon DEF SwjPins
    <2>2. \A p \in DOMAIN c : c[p] \in Bit
      BY InputsAreLegal
    <2>3. level \in [Pins -> Bit]
      BY Zenon, <1>1 DEF TypeOK
    <2> QED BY <2>1, <2>2, <2>3
  <1>4. WireOK' /\ OnesInv'
    <2> DEFINE b == IF "swdio" \in out THEN level["swdio"] ELSE 1
    <2>1. b \in Bit
      <3>1. level["swdio"] \in Bit /\ 1 \in Bit
        BY <1>1 DEF TypeOK, Pins, Bit
      <3> QED BY Zenon, <3>1
    <2>2. Hears(b) \/ UNCHANGED wire
      BY Zenon DEF SwjPins
    <2> HIDE DEF b
    <2>3. CASE Hears(b)
      BY Zenon, <1>1, <1>2, <2>1, <2>3, HearsKeeps
    <2>4. CASE UNCHANGED wire
      <3>1. UNCHANGED <<target, heard, plan, ones>>
        BY <2>4 DEF wire
      <3> QED BY Zenon, <1>1, <1>2, <3>1, SameWire DEF WireOK
    <2> QED BY Zenon, <2>2, <2>3, <2>4
  <1>5. "done" \in Labels /\ "done" # "acknowledged" /\ "done" # "transferred"
    BY DEF Labels
  <1>6. TypeOK' /\ plan' \in Seq(Slots)
    BY Zenon, <1>1, <1>2, <1>3, <1>4, <1>5 DEF TypeOK, WireOK
  <1> QED BY Zenon, <1>1, <1>2, <1>4, <1>5, <1>6 DEF Inv, TypeInv

LEMMA ConnectKeepsTypes ==
  ASSUME Inv,
         \/ Connect \/ Disconnect \/ Reset
         \/ \E t \in Turnarounds, d \in BOOLEAN : SwdConfigure(t, d)
  PROVE  Inv'
  <1>1. TypeOK /\ plan \in Seq(Slots) /\ asked \in Requests /\ OnesInv
    BY Zenon DEF Inv, TypeInv
  <1>2. /\ pc = "idle" /\ pc' \in {"idle", "done"} /\ UNCHANGED script
        /\ UNCHANGED <<got, asked, ack, result, target, heard, plan, ones>>
    BY Zenon DEF Connect, Disconnect, Reset, SwdConfigure, reply, wire
  <1>3. turnaround' \in Turnarounds /\ dataPhase' \in BOOLEAN
    <2>1. 1 \in Turnarounds
      BY SizesAreLegal
    <2> QED BY Zenon, <1>1, <2>1 DEF TypeOK, Connect, Disconnect, Reset, SwdConfigure
  <1>4. /\ port' \in {"disabled", "swd", "jtag"} /\ out' \subseteq Pins /\ level' \in [Pins -> Bit]
        /\ synced' \in BOOLEAN /\ inverted' \in BOOLEAN
    <2>1. CASE UNCHANGED <<port, pins, synced, inverted>>
      BY Zenon, <1>1, <2>1 DEF TypeOK, pins
    <2>2. CASE \E p \in {"swd", "jtag", "disabled"} : Configure(p)
      <3>1. PICK p \in {"swd", "jtag", "disabled"} : Configure(p)
        BY <2>2
      <3>2. Outputs(p) \subseteq Pins
        BY DEF Outputs, Pins
      <3>3. level' = [x \in Pins |-> IF x \in out' THEN 1 ELSE level[x]]
        BY Zenon, <3>1 DEF Configure
      <3>4. level' \in [Pins -> Bit]
        <4>1. level \in [Pins -> Bit]
          BY Zenon, <1>1 DEF TypeOK
        <4> QED BY <3>3, <4>1 DEF Bit
      <3> QED BY Zenon, <3>1, <3>2, <3>4 DEF Configure
    <2>3. \/ UNCHANGED <<port, pins, synced, inverted>>
          \/ \E p \in {"swd", "jtag", "disabled"} : Configure(p)
      BY Zenon DEF Connect, Disconnect, Reset, SwdConfigure
    <2> QED BY Zenon, <2>1, <2>2, <2>3
  <1>5. pc' \in Labels /\ pc' # "acknowledged" /\ pc' # "transferred"
    BY <1>2 DEF Labels
  <1>6. TypeOK'
    BY Zenon, <1>1, <1>2, <1>3, <1>4, <1>5 DEF TypeOK
  <1>7. OnesInv'
    BY Zenon, <1>1, <1>2, SameWire
  <1> QED BY Zenon, <1>1, <1>2, <1>5, <1>6, <1>7 DEF Inv, TypeInv

LEMMA InitTypes == Init => Inv
  <1> SUFFICES ASSUME Init PROVE Inv
    OBVIOUS
  <1>1. /\ 1 \in Turnarounds /\ ResetBits \in Nat /\ 0 \in 0..ResetBits
    BY SMT, SizesAreLegal
  <1>2. [p \in Pins |-> 1] \in [Pins -> Bit]
    BY DEF Bit
  <1>3. None \in Requests
    BY DEF None, Requests, Bit
  <1>4. <<>> \in Seq(Bit) /\ <<>> \in Seq(Slots)
    OBVIOUS
  <1>5. "idle" \in Labels /\ "idle" # "acknowledged" /\ "idle" # "transferred"
    BY DEF Labels
  <1>6. TypeOK
    BY Zenon, <1>1, <1>2, <1>4, <1>5, Nothing DEF Init, TypeOK
  <1>7. OnesInv
    BY DEF Init, OnesInv
  <1> QED BY Zenon, <1>3, <1>4, <1>5, <1>6, <1>7 DEF Init, Inv, TypeInv

LEMMA NextKeepsTypes ==
  Inv /\ [Next]_vars => Inv'
  <1> SUFFICES ASSUME Inv, [Next]_vars PROVE Inv'
    OBVIOUS
  <1>1. CASE UNCHANGED vars
    <2>1. /\ UNCHANGED <<port, turnaround, dataPhase, out, level, pc, script>>
          /\ UNCHANGED <<got, asked, ack, result, target, heard, plan, ones, synced, inverted>>
      BY <1>1 DEF vars, config, pins, reply, wire
    <2>2. OnesInv'
      BY Zenon, <2>1, SameWire DEF Inv
    <2>3. TypeInv'
      BY Zenon, <2>1 DEF Inv, TypeInv, TypeOK, Reading
    <2> QED BY Zenon, <2>2, <2>3 DEF Inv
  <1>2. CASE Handler
    BY Zenon, <1>2, CycleKeepsTypes, SetPinKeepsTypes, AcknowledgedKeepsTypes,
       EndsKeepTypes DEF Handler
  <1>3. CASE \E a \in Addresses, w \in Words : SwdTransfer(a, w)
    BY Zenon, <1>3, TransferKeepsTypes
  <1>4. CASE \/ \E s \in BitSequences : SwjSequence(s)
             \/ \E s \in ItemSequences : SwdSequence(s)
    BY Zenon, <1>4, SequencesKeepTypes
  <1>5. CASE \E c \in PinCommands : SwjPins(c)
    BY Zenon, <1>5, PinsKeepTypes
  <1>6. CASE \/ Connect \/ Disconnect \/ Reset
             \/ \E t \in Turnarounds, d \in BOOLEAN : SwdConfigure(t, d)
    BY Zenon, <1>6, ConnectKeepsTypes
  <1> QED BY Zenon, <1>1, <1>2, <1>3, <1>4, <1>5, <1>6 DEF Next

\* Whatever the host commands and the target answers, a read returns a whole word
\* of bits that have been read, and every operation is one on a pin
\* (swd_transfer, commands_transfer.c:145-257).
THEOREM PinsAndWordsAreTyped == Spec => []TypeOK
  <1>1. Inv => TypeOK
    BY Zenon DEF Inv, TypeInv
  <1> QED BY InitTypes, NextKeepsTypes, <1>1, PTL DEF Spec

-----------------------------------------------------------------------------
(***************************************************************************)
(* A request that arrives as it was sent is well formed.                   *)
(***************************************************************************)
Highs(h, n) == {i \in 1..n : h[i] = 1}

LEMMA HighsAreFinite ==
  ASSUME NEW h, NEW n \in Nat
  PROVE  IsFiniteSet(Highs(h, n)) /\ Cardinality(Highs(h, n)) \in Nat
  <1>1. IsFiniteSet(1..n)
    BY FS_Interval
  <1>2. Highs(h, n) \subseteq 1..n
    BY DEF Highs
  <1> QED BY Zenon, <1>1, <1>2, FS_Subset, FS_CardinalityType

LEMMA HighsGrow ==
  ASSUME NEW h, NEW n \in Nat, NEW m \in Nat, m = n + 1, h[m] \in Bit
  PROVE  Cardinality(Highs(h, m)) = Cardinality(Highs(h, n)) + h[m]
  <1>1. IsFiniteSet(Highs(h, n)) /\ Cardinality(Highs(h, n)) \in Nat
    BY Zenon, HighsAreFinite
  <1>2. \A i : i \in 1..m <=> i \in 1..n \/ i = m
    BY SMT
  <1>3. m \notin Highs(h, n)
    BY SMT DEF Highs
  <1>4. CASE h[m] = 1
    <2>1. Highs(h, m) = Highs(h, n) \cup {m}
      BY <1>2, <1>4 DEF Highs
    <2>2. Cardinality(Highs(h, n) \cup {m}) = Cardinality(Highs(h, n)) + 1
      BY <1>1, <1>3, FS_AddElement
    <2> QED BY <1>4, <2>1, <2>2
  <1>5. CASE h[m] = 0
    <2>1. Highs(h, m) = Highs(h, n)
      BY <1>2, <1>5 DEF Highs
    <2>2. Cardinality(Highs(h, n)) + 0 = Cardinality(Highs(h, n))
      BY SMT, <1>1
    <2> QED BY <1>5, <2>1, <2>2
  <1> QED BY <1>4, <1>5 DEF Bit

LEMMA ParityOfFour ==
  ASSUME NEW h, DOMAIN h = 1..4, h[1] \in Bit, h[2] \in Bit, h[3] \in Bit, h[4] \in Bit
  PROVE  Parity(h) = (h[1] + h[2] + h[3] + h[4]) % 2
  <1>1. Parity(h) = Cardinality(Highs(h, 4)) % 2
    BY Zenon DEF Parity, Highs
  <1>2. Cardinality(Highs(h, 0)) = 0
    <2>1. Highs(h, 0) = {}
      BY SMT DEF Highs
    <2> QED BY <2>1, FS_EmptySet
  <1>3. Cardinality(Highs(h, 1)) = Cardinality(Highs(h, 0)) + h[1]
    <2>1. 0 \in Nat /\ 1 \in Nat /\ 1 = 0 + 1
      OBVIOUS
    <2> QED BY Zenon, <2>1, HighsGrow
  <1>4. Cardinality(Highs(h, 2)) = Cardinality(Highs(h, 1)) + h[2]
    <2>1. 1 \in Nat /\ 2 \in Nat /\ 2 = 1 + 1
      OBVIOUS
    <2> QED BY Zenon, <2>1, HighsGrow
  <1>5. Cardinality(Highs(h, 3)) = Cardinality(Highs(h, 2)) + h[3]
    <2>1. 2 \in Nat /\ 3 \in Nat /\ 3 = 2 + 1
      OBVIOUS
    <2> QED BY Zenon, <2>1, HighsGrow
  <1>6. Cardinality(Highs(h, 4)) = Cardinality(Highs(h, 3)) + h[4]
    <2>1. 3 \in Nat /\ 4 \in Nat /\ 4 = 3 + 1
      OBVIOUS
    <2> QED BY Zenon, <2>1, HighsGrow
  <1> DEFINE c0 == Cardinality(Highs(h, 0))
             c1 == Cardinality(Highs(h, 1))
             c2 == Cardinality(Highs(h, 2))
             c3 == Cardinality(Highs(h, 3))
             c4 == Cardinality(Highs(h, 4))
  <1>7. c0 = 0 /\ c1 = c0 + h[1] /\ c2 = c1 + h[2] /\ c3 = c2 + h[3] /\ c4 = c3 + h[4]
    BY Zenon, <1>2, <1>3, <1>4, <1>5, <1>6
  <1> HIDE DEF c0, c1, c2, c3, c4
  <1>8. h[1] \in Nat /\ h[2] \in Nat /\ h[3] \in Nat /\ h[4] \in Nat
    BY DEF Bit
  <1>9. c4 = h[1] + h[2] + h[3] + h[4]
    BY SMT, <1>7, <1>8
  <1> QED BY <1>1, <1>9 DEF c4

LEMMA RequestArrives ==
  ASSUME NEW a \in Requests, NEW h \in Seq(Bit), Len(h) = 8,
         \A j \in 1..8 : h[j] = Bits(a)[j]
  PROVE  WellFormed(h) /\ Request(h).read = a.read
  <1>1. a.ap \in Bit /\ a.read \in Bit /\ a.a2 \in Bit /\ a.a3 \in Bit
    BY DEF Requests
  <1>2. /\ Bits(a)[2] = a.ap /\ Bits(a)[3] = a.read /\ Bits(a)[4] = a.a2 /\ Bits(a)[5] = a.a3
        /\ Bits(a)[6] = (a.ap + a.read + a.a2 + a.a3) % 2 /\ Bits(a)[7] = 0 /\ Bits(a)[8] = 1
    BY Zenon, <1>1, BitsAre
  <1>3. /\ 2 \in 1..8 /\ 3 \in 1..8 /\ 4 \in 1..8 /\ 5 \in 1..8 /\ 6 \in 1..8
        /\ 7 \in 1..8 /\ 8 \in 1..8
    BY SMT
  <1>4. /\ h[2] = a.ap /\ h[3] = a.read /\ h[4] = a.a2 /\ h[5] = a.a3
        /\ h[6] = (a.ap + a.read + a.a2 + a.a3) % 2 /\ h[7] = 0 /\ h[8] = 1
    BY Zenon, <1>2, <1>3
  <1> DEFINE g == SubSeq(h, 2, 5)
  <1>5. DOMAIN g = 1..4 /\ g[1] = h[2] /\ g[2] = h[3] /\ g[3] = h[4] /\ g[4] = h[5]
    BY SMT
  <1> HIDE DEF g
  <1>6. Parity(g) = (g[1] + g[2] + g[3] + g[4]) % 2
    BY Zenon, <1>1, <1>4, <1>5, ParityOfFour
  <1>7. h[6] = Parity(g)
    BY Zenon, <1>4, <1>5, <1>6
  <1> QED BY Zenon, <1>4, <1>7, RequestReads DEF WellFormed, g

-----------------------------------------------------------------------------
(***************************************************************************)
(* The steps of the probe and of the target, cycle by cycle.               *)
(***************************************************************************)
LEMMA ScriptGoesOn ==
  ASSUME script \in Seq(Operations), script # <<>>, script' = Tail(script)
  PROVE  /\ Len(script) \in Nat /\ Len(script) > 0 /\ Len(script') = Len(script) - 1
         /\ Head(script) = Left(script, Len(script))
         /\ \A i \in 1..(Len(script) - 1) : Left(script', i) = Left(script, i)
  <1> HIDE DEF Operations
  <1>1. Len(script) \in Nat
    OBVIOUS
  <1> QED BY Zenon, <1>1, LeftOfTail

LEMMA PlanGoesOn ==
  ASSUME Inv, target = "answer", NEW b \in Bit, Hears(b)
  PROVE  /\ Len(plan) \in Nat /\ Len(plan) > 0 /\ Len(plan') = Len(plan) - 1
         /\ Head(plan) = Left(plan, Len(plan))
         /\ \A i \in 1..(Len(plan) - 1) : Left(plan', i) = Left(plan, i)
         /\ Len(plan) = 1 => target' = "idle"
         /\ Len(plan) # 1 => target' = "answer"
         /\ Respond(b)
  <1>1. WireOK /\ plan \in Seq(Slots) /\ plan # <<>> /\ LowEnough(plan, ones)
    BY Zenon, TypesGiveWire DEF Inv, TypeInv, OnesInv
  <1>2. ones' = IF TargetDrives \/ b = 0 THEN 0 ELSE IF ones < ResetBits THEN ones + 1 ELSE ones
    BY Zenon, <1>1, HearsCases
  <1>3. ones' \in 0..ResetBits /\ ones' <= Slack
    BY Zenon, <1>1, <1>2, LowGoesOn
  <1>4. ones' # ResetBits
    BY SMT, <1>3, Sizes
  <1>5. "answer" # "idle" /\ "answer" # "header" /\ "answer" # "reset" /\ "answer" # "lost"
    OBVIOUS
  <1>6. Respond(b)
    BY Zenon, <1>1, <1>4, <1>5, HearsCases
  <1>7. /\ plan' = Tail(plan) /\ (Len(plan) = 1 => target' = "idle")
        /\ (Len(plan) # 1 => target' = target)
    BY Zenon, <1>1, <1>6, RespondIs
  <1>8. Len(plan) \in Nat
    BY <1>1
  <1>9. /\ Len(Tail(plan)) = Len(plan) - 1 /\ Len(plan) > 0 /\ Head(plan) = Left(plan, Len(plan))
        /\ \A i \in 1..(Len(plan) - 1) : Left(Tail(plan), i) = Left(plan, i)
    BY Zenon, <1>1, LeftOfTail
  <1> QED BY Zenon, <1>6, <1>7, <1>8, <1>9

-----------------------------------------------------------------------------
(***************************************************************************)
(* Bits that are inverted.                                                 *)
(***************************************************************************)
LEMMA ParityIs ==
  ASSUME NEW s \in Seq(Bit), NEW n, Len(s) = n
  PROVE  Parity(s) = Cardinality(Highs(s, n)) % 2 /\ Cardinality(Highs(s, n)) \in Nat
  <1>1. n \in Nat /\ DOMAIN s = 1..n
    OBVIOUS
  <1>2. Highs(s, n) = {i \in DOMAIN s : s[i] = 1}
    BY Zenon, <1>1 DEF Highs
  <1> QED BY Zenon, <1>1, <1>2, HighsAreFinite DEF Parity

LEMMA OneMore ==
  ASSUME NEW c \in Nat, NEW d \in Nat, c = d + 1 \/ d = c + 1
  PROVE  c % 2 # d % 2
  BY SMT

OneHigher(s, d, n, x) == s[x] = 1 /\ d[x] = 0 /\ \A j \in 1..n : j # x => s[j] = d[j]

LEMMA HighsInverted ==
  ASSUME NEW s, NEW d, NEW n \in Nat, NEW x \in 1..n, OneHigher(s, d, n, x)
  PROVE  Cardinality(Highs(s, n)) = Cardinality(Highs(d, n)) + 1
  <1>1. x \notin Highs(d, n)
    BY SMT DEF Highs, OneHigher
  <1>2. Highs(s, n) = Highs(d, n) \cup {x}
    BY <1>1 DEF Highs, OneHigher
  <1>3. IsFiniteSet(Highs(d, n))
    BY Zenon, HighsAreFinite
  <1>4. Cardinality(Highs(d, n) \cup {x}) = Cardinality(Highs(d, n)) + 1
    BY <1>1, <1>3, FS_AddElement
  <1> QED BY Zenon, <1>2, <1>4

\* The first n bits of s are those of t, but for the one at x.
InvertedAt(s, t, n, x) == s[x] = 1 - t[x] /\ \A j \in 1..n : j # x => s[j] = t[j]

\* The parity tells one inverted bit.
LEMMA ParityInverted ==
  ASSUME NEW s \in Seq(Bit), NEW d \in Seq(Bit), NEW n, Len(s) = n, Len(d) = n, NEW x \in 1..n,
         InvertedAt(s, d, n, x)
  PROVE  Parity(s) # Parity(d)
  <1>1. n \in Nat /\ s[x] \in Bit /\ d[x] \in Bit
    BY ElementOfSeq
  <1> DEFINE c == Cardinality(Highs(s, n))
             e == Cardinality(Highs(d, n))
  <1>2. Parity(s) = c % 2 /\ Parity(d) = e % 2 /\ c \in Nat /\ e \in Nat
    BY Zenon, ParityIs
  <1>0. s[x] = 1 - d[x] /\ \A j \in 1..n : j # x => s[j] = d[j] /\ d[j] = s[j]
    BY SMT DEF InvertedAt
  <1>3. s[x] = 1 /\ d[x] = 0 => c = e + 1
    <2>1. s[x] = 1 /\ d[x] = 0 => OneHigher(s, d, n, x)
      BY Zenon, <1>0 DEF OneHigher
    <2> QED BY Zenon, <1>1, <2>1, HighsInverted
  <1>4. s[x] = 0 /\ d[x] = 1 => e = c + 1
    <2>1. s[x] = 0 /\ d[x] = 1 => OneHigher(d, s, n, x)
      BY Zenon, <1>0 DEF OneHigher
    <2> QED BY Zenon, <1>1, <2>1, HighsInverted
  <1>5. (s[x] = 1 /\ d[x] = 0) \/ (s[x] = 0 /\ d[x] = 1)
    BY SMT, <1>0, <1>1 DEF Bit
  <1> HIDE DEF c, e
  <1>6. c % 2 # e % 2
    BY Zenon, <1>2, <1>3, <1>4, <1>5, OneMore
  <1> QED BY Zenon, <1>2, <1>6

\* A word and its parity have as many ones as they should.
LEMMA DatumParity ==
  ASSUME NEW w \in Seq(Bit)
  PROVE  /\ Datum(w) \in Seq(Bit) /\ Len(Datum(w)) = Len(w) + 1 /\ Parity(Datum(w)) = 0
         /\ \A i \in 1..Len(w) : Datum(w)[i] = w[i]
         /\ Datum(w)[Len(w) + 1] = Parity(w)
  <1> DEFINE n == Len(w)
             m == n + 1
             p == Parity(w)
             d == Datum(w)
             c == Cardinality(Highs(w, n))
  <1>1. n \in Nat /\ m \in Nat
    OBVIOUS
  <1>2. p \in Bit
    BY ParityIsBit
  <1>3. /\ d \in Seq(Bit) /\ Len(d) = m /\ d[m] = p
        /\ \A i \in 1..n : d[i] = w[i]
    <2> HIDE DEF Bit, p
    <2> QED BY <1>2, AppendIs DEF Datum, p
  <1>4. p = c % 2 /\ c \in Nat
    BY Zenon, ParityIs
  <1>5. Cardinality(Highs(d, m)) = Cardinality(Highs(d, n)) + p
    <2>1. d[m] \in Bit
      BY Zenon, <1>2, <1>3
    <2> HIDE DEF d, p
    <2> QED BY Zenon, <1>1, <1>3, <2>1, HighsGrow
  <1>6. Highs(d, n) = Highs(w, n)
    BY Zenon, <1>3 DEF Highs
  <1>7. Parity(d) = Cardinality(Highs(d, m)) % 2
    BY Zenon, <1>3, ParityIs
  <1>8. Parity(d) = (c + p) % 2
    BY Zenon, <1>5, <1>6, <1>7
  <1> HIDE DEF c, p, d, n
  <1>9. (c + p) % 2 = 0
    BY SMT, <1>4
  <1> QED BY Zenon, <1>3, <1>8, <1>9 DEF d, p, n

LEMMA NearlyGoesOn ==
  ASSUME NEW s \in Seq(Bit), NEW t, NEW i \in BOOLEAN, Nearly(s, t, i),
         t[Len(s) + 1] \in Bit, NEW f \in Bit, f = 1 => ~i,
         NEW b, b = (t[Len(s) + 1] + f) % 2
  PROVE  /\ b \in Bit /\ Append(s, b) \in Seq(Bit) /\ Len(Append(s, b)) = Len(s) + 1
         /\ Nearly(Append(s, b), t, i \/ f = 1)
  <1> DEFINE n == Len(s)
             y == t[n + 1]
             u == Append(s, b)
  <1>1. n \in Nat /\ y \in Bit
    OBVIOUS
  <1>2. b \in Bit /\ (f = 0 => b = y) /\ (f = 1 => b = 1 - y) /\ (f = 0 \/ f = 1)
    <2>1. b = (y + f) % 2
      OBVIOUS
    <2> HIDE DEF y
    <2> QED BY SMT, <1>1, <2>1 DEF Bit
  <1>3. /\ u \in Seq(Bit) /\ Len(u) = n + 1 /\ u[n + 1] = b
        /\ \A j \in 1..n : u[j] = s[j]
    <2> HIDE DEF Bit
    <2> QED BY <1>2, AppendIs
  <1>4. PICK x \in 0..n : (x > 0 => i) /\ \A j \in 1..n : s[j] = IF j = x THEN 1 - t[j] ELSE t[j]
    BY Zenon DEF Nearly
  <1> HIDE DEF n, y, u
  <1>5. CASE f = 0
    <2>1. x \in 0..(n + 1) /\ n + 1 # x /\ \A j \in 1..(n + 1) : j \in 1..n \/ j = n + 1
      BY SMT, <1>1
    <2>2. \A j \in 1..(n + 1) : u[j] = IF j = x THEN 1 - t[j] ELSE t[j]
      BY Zenon, <1>2, <1>3, <1>4, <1>5, <2>1 DEF y
    <2>3. x > 0 => (i \/ f = 1)
      BY Zenon, <1>4
    <2>4. Nearly(u, t, i \/ f = 1)
      BY Zenon, <1>3, <2>1, <2>2, <2>3 DEF Nearly
    <2> QED BY Zenon, <1>2, <1>3, <2>4 DEF u, n
  <1>6. CASE f = 1
    <2>1. x = 0
      BY SMT, <1>1, <1>4, <1>6
    <2>2. /\ n + 1 \in 0..(n + 1) /\ \A j \in 1..(n + 1) : j \in 1..n \/ j = n + 1
          /\ \A j \in 1..n : j # 0 /\ j # n + 1
      BY SMT, <1>1
    <2>3. \A j \in 1..(n + 1) : u[j] = IF j = n + 1 THEN 1 - t[j] ELSE t[j]
      BY Zenon, <1>2, <1>3, <1>4, <1>6, <2>1, <2>2 DEF y
    <2>4. n + 1 > 0 => (i \/ f = 1)
      BY Zenon, <1>6
    <2>5. Nearly(u, t, i \/ f = 1)
      BY Zenon, <1>3, <2>2, <2>3, <2>4 DEF Nearly
    <2> QED BY Zenon, <1>2, <1>3, <2>5 DEF u, n
  <1> QED BY Zenon, <1>2, <1>5, <1>6

LEMMA NearlyNothing ==
  ASSUME NEW t, NEW i
  PROVE  Nearly(<<>>, t, i)
  <1>1. Len(<<>>) = 0 /\ 0 \in 0..0 /\ ~(0 > 0) /\ \A j : j \notin 1..0
    BY SMT
  <1> QED BY Zenon, <1>1 DEF Nearly

LEMMA NearlyWhole ==
  ASSUME NEW s \in Seq(Bit), NEW t \in Seq(Bit), NEW n, Len(s) = n, Len(t) = n,
         NEW i \in BOOLEAN, Nearly(s, t, i)
  PROVE  s = t \/ (i /\ \E x \in 1..n : InvertedAt(s, t, n, x))
  <1>0. \E x \in 0..Len(s) :
          /\ x > 0 => i
          /\ \A j \in 1..Len(s) : s[j] = IF j = x THEN 1 - t[j] ELSE t[j]
    BY Zenon DEF Nearly
  <1>1. PICK x \in 0..n : (x > 0 => i) /\ \A j \in 1..n : s[j] = IF j = x THEN 1 - t[j] ELSE t[j]
    BY <1>0
  <1>2. n \in Nat
    OBVIOUS
  <1>3. CASE x = 0
    <2>1. \A j \in 1..n : j # 0
      BY SMT
    <2>2. \A j \in 1..n : s[j] = t[j]
      BY Zenon, <1>1, <1>3, <2>1
    <2> HIDE DEF Bit
    <2>3. s = t
      BY Zenon, <2>2, SeqEqual
    <2> QED BY <2>3
  <1>4. CASE x # 0
    <2>1. x \in 1..n /\ x > 0
      BY SMT, <1>2, <1>4
    <2>2. InvertedAt(s, t, n, x)
      BY Zenon, <1>1, <2>1 DEF InvertedAt
    <2> QED BY Zenon, <1>1, <2>1, <2>2
  <1> QED BY Zenon, <1>3, <1>4

\* A word that arrives with its parity right is the word, and another one is not
\* taken for it.
LEMMA NearlyDatum ==
  ASSUME NEW s \in Seq(Bit), NEW w \in Seq(Bit), Len(w) = WordBits, Len(s) = WordBits + 1,
         NEW i \in BOOLEAN, Nearly(s, Datum(w), i)
  PROVE  \/ Parity(s) = 0 /\ SubSeq(s, 1, WordBits) = w
         \/ Parity(s) = 1 /\ i
  <1>1. /\ Datum(w) \in Seq(Bit) /\ Len(Datum(w)) = WordBits + 1 /\ Parity(Datum(w)) = 0
        /\ \A j \in 1..WordBits : Datum(w)[j] = w[j]
    BY Zenon, DatumParity
  <1>2. WordBits \in Nat
    BY Sizes
  <1>3. CASE s = Datum(w)
    <2>1. /\ SubSeq(s, 1, WordBits) \in Seq(Bit) /\ Len(SubSeq(s, 1, WordBits)) = WordBits
          /\ \A j \in 1..WordBits : SubSeq(s, 1, WordBits)[j] = s[j]
      <3> HIDE DEF Bit
      <3> QED BY SMT, <1>2
    <2>2. SubSeq(s, 1, WordBits) = w
      BY Zenon, <1>1, <1>3, <2>1, SeqEqual
    <2> QED BY Zenon, <1>1, <1>3, <2>2
  <1>4. CASE s # Datum(w)
    <2>1. i /\ \E x \in 1..(WordBits + 1) : InvertedAt(s, Datum(w), WordBits + 1, x)
      BY Zenon, <1>1, <1>4, NearlyWhole
    <2>2. Parity(s) # 0
      BY Zenon, <1>1, <2>1, ParityInverted
    <2>3. Parity(s) \in {0, 1}
      BY ParityIsBit DEF Bit
    <2> QED BY <2>1, <2>2, <2>3
  <1> QED BY Zenon, <1>3, <1>4

LEMMA OnesAre ==
  \A n \in Nat : Times(n, 1) \in Seq(Bit) /\ Len(Times(n, 1)) = n /\ \A j \in 1..n : Times(n, 1)[j] = 1
  BY SMT DEF Times, Bit

\* A line that is pulled up is no word.
LEMMA OnesAreNoWord ==
  ASSUME NEW s \in Seq(Bit), Len(s) = WordBits + 1, Nearly(s, Times(WordBits + 1, 1), FALSE)
  PROVE  Parity(s) = 1
  <1>1. WordBits \in Nat /\ WordBits + 1 \in Nat
    BY Sizes
  <1> DEFINE n == WordBits + 1
             t == Times(n, 1)
  <1>2. t \in Seq(Bit) /\ Len(t) = n /\ \A j \in 1..n : t[j] = 1
    BY <1>1, OnesAre
  <1>3. s = t
    <2>1. FALSE \in BOOLEAN
      OBVIOUS
    <2> HIDE DEF t
    <2> QED BY Zenon, <1>2, <2>1, NearlyWhole DEF t
  <1>4. Highs(s, n) = 1..n
    BY Zenon, <1>2, <1>3 DEF Highs
  <1>5. Cardinality(1..n) = n
    BY SMT, <1>1, FS_Interval
  <1>6. Parity(s) = n % 2
    BY Zenon, <1>4, <1>5, ParityIs
  <1>7. n % 2 = 1
    BY SMT, <1>1, WordsAreEven
  <1> QED BY <1>6, <1>7

\* One inverted bit makes no acknowledgement another one.
LEMMA NearlyAck ==
  ASSUME NEW s \in Seq(Bit), Len(s) = 3, NEW k \in Acks, NEW i \in BOOLEAN, Nearly(s, k, i)
  PROVE  s = k \/ (i /\ s \notin Acks)
  <1>1. k \in Seq(Bit) /\ Len(k) = 3
    BY AcksAre
  <1>2. s = k \/ (i /\ \E x \in 1..3 : InvertedAt(s, k, 3, x))
    BY Zenon, <1>1, NearlyWhole
  <1>3. ASSUME NEW x \in 1..3, InvertedAt(s, k, 3, x)
        PROVE  s \notin Acks
    BY SMT, <1>3 DEF Acks, Ok, Wait, Fault, InvertedAt
  <1> QED BY Zenon, <1>2, <1>3

LEMMA OnesAreNoAck ==
  ASSUME NEW s \in Seq(Bit), Len(s) = 3, \A j \in 1..3 : s[j] = 1
  PROVE  s \notin Acks
  BY SMT DEF Acks, Ok, Wait, Fault

LEMMA FourBits ==
  ASSUME NEW S, NEW h \in Seq(S), Len(h) = 8
  PROVE  /\ SubSeq(h, 2, 5) \in Seq(S) /\ Len(SubSeq(h, 2, 5)) = 4
         /\ \A j \in 1..4 : SubSeq(h, 2, 5)[j] = h[j + 1]
  <1>1. /\ 2 \in Int /\ 5 \in Int /\ 2 <= 5 /\ 5 - 2 + 1 = 4
        /\ \A j \in 1..4 : 2 + j - 1 = j + 1
    BY SMT
  <1>2. \A i \in 2..5 : h[i] \in S
    <2>1. \A i \in 2..5 : i \in 1..8
      BY SMT
    <2> QED BY <2>1, ElementOfSeq
  <1> DEFINE g == SubSeq(h, 2, 5)
  <1>3. g \in Seq(S) /\ Len(g) = (IF 2 <= 5 THEN 5 - 2 + 1 ELSE 0)
    BY <1>2, SubSeqProperties
  <1>4. \A i \in 1..(5 - 2 + 1) : g[i] = h[2 + i - 1]
    BY <1>2, SubSeqProperties
  <1> HIDE DEF g
  <1>5. Len(g) = 4 /\ \A j \in 1..4 : g[j] = h[j + 1]
    BY Zenon, <1>1, <1>3, <1>4
  <1> QED BY <1>3, <1>5 DEF g

\* Nor a request.
LEMMA WrongRequest ==
  ASSUME NEW a \in Requests, NEW h \in Seq(Bit), Len(h) = 8, NEW x \in 2..8,
         \A j \in 1..8 : h[j] = IF j = x THEN 1 - Bits(a)[j] ELSE Bits(a)[j]
  PROVE  ~WellFormed(h)
  <1>1. a.ap \in Bit /\ a.read \in Bit /\ a.a2 \in Bit /\ a.a3 \in Bit
    BY DEF Requests
  <1> DEFINE e == Bits(a)
             g == SubSeq(h, 2, 5)
             d == SubSeq(e, 2, 5)
  <1>2. /\ e \in Seq(Bit) /\ Len(e) = 8
        /\ e[2] = a.ap /\ e[3] = a.read /\ e[4] = a.a2 /\ e[5] = a.a3
        /\ e[6] = (a.ap + a.read + a.a2 + a.a3) % 2 /\ e[7] = 0 /\ e[8] = 1
    BY Zenon, <1>1, BitsAre
  <1> HIDE DEF e
  <1>3. /\ g \in Seq(Bit) /\ Len(g) = 4 /\ \A j \in 1..4 : g[j] = h[j + 1]
        /\ d \in Seq(Bit) /\ Len(d) = 4 /\ \A j \in 1..4 : d[j] = e[j + 1]
    BY Zenon, <1>2, FourBits
  <1>4. Parity(d) = e[6]
    <2>1. /\ DOMAIN d = 1..4 /\ 1 \in 1..4 /\ 2 \in 1..4 /\ 3 \in 1..4 /\ 4 \in 1..4
          /\ 1 + 1 = 2 /\ 2 + 1 = 3 /\ 3 + 1 = 4 /\ 4 + 1 = 5
      BY SMT, <1>3
    <2>2. d[1] = a.ap /\ d[2] = a.read /\ d[3] = a.a2 /\ d[4] = a.a3
      BY Zenon, <1>2, <1>3, <2>1
    <2> HIDE DEF d
    <2>3. Parity(d) = (d[1] + d[2] + d[3] + d[4]) % 2
      BY Zenon, <1>1, <2>1, <2>2, ParityOfFour
    <2> QED BY Zenon, <1>2, <2>2, <2>3
  <1> HIDE DEF g, d
  <1>5. CASE x \in 2..5
    <2>1. /\ x - 1 \in 1..4 /\ (x - 1) + 1 = x /\ x \in 1..8 /\ 6 \in 1..8 /\ 6 # x
          /\ \A j \in 1..4 : j + 1 \in 1..8 /\ (j # x - 1 => j + 1 # x)
      BY SMT, <1>5
    <2>2. h[6] = e[6]
      BY Zenon, <2>1 DEF e
    <2>3. g[x - 1] = 1 - d[x - 1]
      BY Zenon, <1>3, <2>1 DEF e
    <2>4. \A j \in 1..4 : j # x - 1 => g[j] = d[j]
      BY Zenon, <1>3, <2>1 DEF e
    <2>6. InvertedAt(g, d, 4, x - 1)
      BY Zenon, <2>3, <2>4 DEF InvertedAt
    <2>5. Parity(g) # Parity(d)
      BY Zenon, <1>3, <2>1, <2>6, ParityInverted
    <2> QED BY Zenon, <1>4, <2>2, <2>5 DEF WellFormed, g
  <1>6. CASE x = 6
    <2>1. 6 \in 1..8 /\ \A j \in 1..4 : j + 1 \in 1..8 /\ j + 1 # 6
      BY SMT
    <2>2. h[6] = 1 - e[6]
      BY Zenon, <1>6, <2>1 DEF e
    <2>3. \A j \in 1..4 : g[j] = d[j]
      BY Zenon, <1>3, <1>6, <2>1 DEF e
    <2>4. g = d
      BY Zenon, <1>3, <2>3, SeqEqual
    <2>5. e[6] \in Bit
      <3>1. 6 \in 1..Len(e)
        BY <1>2
      <3> QED BY <1>2, <3>1, ElementOfSeq
    <2>6. h[6] # e[6]
      BY SMT, <2>2, <2>5 DEF Bit
    <2> QED BY Zenon, <1>4, <2>4, <2>6 DEF WellFormed, g
  <1>7. CASE x = 7
    <2>1. 7 \in 1..8 /\ 1 - 0 # 0
      BY SMT
    <2>2. h[7] = 1 - e[7]
      BY Zenon, <1>7, <2>1 DEF e
    <2> QED BY Zenon, <1>2, <2>1, <2>2 DEF WellFormed
  <1>8. CASE x = 8
    <2>1. 8 \in 1..8 /\ 1 - 1 # 1
      BY SMT
    <2>2. h[8] = 1 - e[8]
      BY Zenon, <1>8, <2>1 DEF e
    <2> QED BY Zenon, <1>2, <2>1, <2>2 DEF WellFormed
  <1>9. x \in 2..5 \/ x = 6 \/ x = 7 \/ x = 8
    BY SMT
  <1> QED BY Zenon, <1>5, <1>6, <1>7, <1>8, <1>9

-----------------------------------------------------------------------------
(***************************************************************************)
(* What the target performs.                                               *)
(***************************************************************************)
LEMMA HearsNothing ==
  ASSUME WireOK, NEW b \in Bit, Hears(b),
         target \in {"idle", "lost", "reset"} \/ ones' = ResetBits
  PROVE  done' = done
  <1>1. b = 0 \/ b = 1
    BY DEF Bit
  <1>2. ones' = ResetBits => ~(ones' < ResetBits)
    BY SMT, Sizes
  <1>3. CASE ones' = ResetBits
    BY Zenon, <1>2, <1>3 DEF Hears
  <1>4. CASE target = "idle" /\ b = 1
    BY Zenon, <1>4 DEF Hears
  <1>5. CASE target = "reset"
    <2>1. "reset" # "idle" /\ "reset" # "header" /\ "reset" # "answer"
      OBVIOUS
    <2> QED BY Zenon, <1>5, <2>1 DEF Hears
  <1>6. CASE target = "lost" \/ (target = "idle" /\ b = 0)
    <2>1. /\ "lost" # "idle" /\ "lost" # "header" /\ "lost" # "answer" /\ "lost" # "reset"
          /\ "idle" # "header" /\ "idle" # "answer" /\ "idle" # "reset"
      OBVIOUS
    <2>2. b = 1 => target # "idle"
      BY SMT, <1>6
    <2> QED BY Zenon, <1>6, <2>1, <2>2 DEF Hears
  <1> QED BY Zenon, <1>1, <1>3, <1>4, <1>5, <1>6

LEMMA HeaderPerforms ==
  ASSUME WireOK, target = "header", Len(heard) \in 1..7, NEW b \in Bit, Header(b)
  PROVE  \/ Len(heard) < 7 /\ UNCHANGED done
         \/ Len(heard) = 7 /\ ~WellFormed(heard') /\ UNCHANGED done
         \/ /\ Len(heard) = 7 /\ WellFormed(heard')
            /\ \E k \in Acks, w \in Words :
                 /\ plan' = Answer(Request(heard'), k, w)
                 /\ done' = IF k = Ok /\ Request(heard').read = 1
                              THEN Performed(Request(heard'), w) ELSE done
  <1>1. \/ Len(heard') < 8 /\ UNCHANGED done
        \/ ~(Len(heard') < 8) /\ ~WellFormed(heard') /\ UNCHANGED done
        \/ /\ ~(Len(heard') < 8) /\ WellFormed(heard')
           /\ \E k \in Acks, w \in Words :
                /\ plan' = Answer(Request(heard'), k, w)
                /\ done' = IF k = Ok /\ Request(heard').read = 1
                             THEN Performed(Request(heard'), w) ELSE done
    BY Zenon DEF Header, Acks
  <1> DEFINE n == Len(heard)
             m == Len(heard')
  <1>2. n \in 1..7 /\ m = n + 1
    BY Zenon, HeaderIs
  <1> HIDE DEF n, m
  <1>3. (m < 8 => n < 7) /\ (~(m < 8) => n = 7)
    BY SMT, <1>2
  <1> QED BY Zenon, <1>1, <1>3 DEF n, m

\* A cycle in which the target takes nothing.
LEMMA RespondPlainly ==
  ASSUME plan # <<>>, NEW b \in Bit, Respond(b), Head(plan).act # "take"
  PROVE  done' = done /\ (Len(plan) # 1 => heard' = heard)
  BY DEF Respond

\* A cycle in which it takes a bit.
LEMMA RespondTaking ==
  ASSUME plan # <<>>, NEW b \in Bit, Respond(b), Head(plan).act = "take"
  PROVE  /\ Len(plan) # 1 => heard' = Append(heard, b) /\ done' = done
         /\ Len(plan) = 1 =>
              LET h == Append(heard, b)
                  data == SubSeq(h, 9, Len(h))
              IN  done' = IF Parity(data) = 0
                            THEN Performed(Request(h), SubSeq(data, 1, WordBits)) ELSE done
  BY DEF Respond

LEMMA NoTakesGoesOn ==
  ASSUME Inv, target = "answer", NEW b \in Bit, Hears(b), NoTakes
  PROVE  NoTakes' /\ done' = done /\ (Len(plan) # 1 => heard' = heard)
  <1>1. /\ Len(plan) \in Nat /\ Len(plan) > 0 /\ Len(plan') = Len(plan) - 1
        /\ Head(plan) = Left(plan, Len(plan))
        /\ \A i \in 1..(Len(plan) - 1) : Left(plan', i) = Left(plan, i)
        /\ Respond(b)
    BY Zenon, PlanGoesOn
  <1>2. plan # <<>>
    BY Zenon DEF Inv, OnesInv
  <1> DEFINE m == Len(plan)
  <1>3. m \in Nat /\ m > 0
    BY Zenon, <1>1
  <1> HIDE DEF m
  <1>4. m \in 1..m /\ \A i \in 1..(m - 1) : i \in 1..m
    BY SMT, <1>3
  <1>5. Head(plan).act # "take"
    BY Zenon, <1>1, <1>4 DEF NoTakes, m
  <1>6. NoTakes'
    BY Zenon, <1>1, <1>4 DEF NoTakes, m
  <1> QED BY Zenon, <1>1, <1>2, <1>5, <1>6, RespondPlainly

LEMMA SendsGoesOn ==
  ASSUME Inv, target = "answer", NEW b \in Bit, Hears(b), NEW w, Sends(w),
         turnaround' = turnaround
  PROVE  Sends(w)'
  <1>1. /\ Len(plan) \in Nat /\ Len(plan) > 0 /\ Len(plan') = Len(plan) - 1
        /\ \A i \in 1..(Len(plan) - 1) : Left(plan', i) = Left(plan, i)
    BY Zenon, PlanGoesOn
  <1>2. turnaround \in Nat
    BY Sizes DEF Inv, TypeInv, TypeOK
  <1> DEFINE m == Len(plan)
  <1>3. m \in Nat
    BY Zenon, <1>1
  <1> HIDE DEF m
  <1>4. \A j \in 1..(WordBits + 1) :
          turnaround + j <= m - 1 => turnaround + j <= m /\ turnaround + j \in 1..(m - 1)
    BY SMT, <1>2, <1>3, Sizes
  <1> QED BY Zenon, <1>1, <1>4 DEF Sends, m

LEMMA RestAppended ==
  ASSUME NEW h \in Seq(Bit), NEW n, Len(h) = 8 + n, n \in Nat, NEW b \in Bit
  PROVE  /\ SubSeq(h, 9, Len(h)) \in Seq(Bit) /\ Len(SubSeq(h, 9, Len(h))) = n
         /\ SubSeq(Append(h, b), 9, Len(Append(h, b))) = Append(SubSeq(h, 9, Len(h)), b)
  <1> DEFINE l == 8 + n
             g == SubSeq(h, 9, l)
             a == Append(h, b)
             r == SubSeq(a, 9, l + 1)
             q == Append(g, b)
  <1>1. l \in Nat /\ Len(h) = l
    OBVIOUS
  <1>2. g \in Seq(Bit) /\ Len(g) = n /\ \A i \in 1..n : g[i] = h[i + 8]
    <2>1. \A i \in 9..l : h[i] \in Bit
      <3>1. \A i \in 9..l : i \in 1..l
        BY SMT
      <3> QED BY <1>1, <3>1, ElementOfSeq
    <2>2. 9 \in Int /\ l \in Int
      BY <1>1
    <2> HIDE DEF l
    <2>3. /\ g \in Seq(Bit) /\ Len(g) = (IF 9 <= l THEN l - 9 + 1 ELSE 0)
          /\ \A i \in 1..(l - 9 + 1) : g[i] = h[9 + i - 1]
      BY <2>1, <2>2, SubSeqProperties
    <2>4. (IF 9 <= l THEN l - 9 + 1 ELSE 0) = n /\ l - 9 + 1 = n
      BY SMT DEF l
    <2>5. \A i \in 1..n : 9 + i - 1 = i + 8
      BY SMT
    <2> QED BY Zenon, <2>3, <2>4, <2>5
  <1>3. a \in Seq(Bit) /\ Len(a) = l + 1 /\ a[l + 1] = b /\ \A i \in 1..l : a[i] = h[i]
    <2> HIDE DEF l, Bit
    <2> QED BY <1>1, AppendIs
  <1> HIDE DEF a
  <1>4. r \in Seq(Bit) /\ Len(r) = n + 1 /\ \A i \in 1..(n + 1) : r[i] = a[i + 8]
    <2>1. \A i \in 9..(l + 1) : a[i] \in Bit
      <3>1. \A i \in 9..(l + 1) : i \in 1..(l + 1)
        BY SMT
      <3> QED BY <1>3, <3>1, ElementOfSeq
    <2>2. 9 \in Int /\ l + 1 \in Int
      BY <1>1
    <2> HIDE DEF l
    <2>3. /\ r \in Seq(Bit) /\ Len(r) = (IF 9 <= l + 1 THEN (l + 1) - 9 + 1 ELSE 0)
          /\ \A i \in 1..((l + 1) - 9 + 1) : r[i] = a[9 + i - 1]
      BY <2>1, <2>2, SubSeqProperties
    <2>4. (IF 9 <= l + 1 THEN (l + 1) - 9 + 1 ELSE 0) = n + 1 /\ (l + 1) - 9 + 1 = n + 1
      BY SMT DEF l
    <2>5. \A i \in 1..(n + 1) : 9 + i - 1 = i + 8
      BY SMT
    <2> QED BY Zenon, <2>3, <2>4, <2>5
  <1> HIDE DEF g, r
  <1>5. q \in Seq(Bit) /\ Len(q) = n + 1 /\ q[n + 1] = b /\ \A i \in 1..n : q[i] = g[i]
    <2> HIDE DEF Bit
    <2> QED BY <1>2, AppendIs
  <1> HIDE DEF q
  <1>6. \A i \in 1..(n + 1) : r[i] = q[i]
    <2>1. /\ \A i \in 1..(n + 1) : i \in 1..n \/ i = n + 1
          /\ \A i \in 1..n : i + 8 \in 1..l
          /\ (n + 1) + 8 = l + 1
      BY SMT
    <2> HIDE DEF l
    <2>2. \A i \in 1..n : r[i] = q[i]
      <3>1. \A i \in 1..n : i \in 1..(n + 1)
        BY SMT
      <3> QED BY Zenon, <1>2, <1>3, <1>4, <1>5, <2>1, <3>1
    <2>3. r[n + 1] = q[n + 1]
      <3>1. n + 1 \in 1..(n + 1)
        BY SMT
      <3> QED BY Zenon, <1>3, <1>4, <1>5, <2>1, <3>1
    <2> QED BY Zenon, <2>1, <2>2, <2>3
  <1>7. r = q
    BY Zenon, <1>4, <1>5, <1>6, SeqEqual
  <1> QED BY Zenon, <1>1, <1>2, <1>3, <1>7 DEF g, r, q, a

-----------------------------------------------------------------------------
(***************************************************************************)
(* A cycle of a transfer.                                                  *)
(***************************************************************************)
LEMMA TransferCycle ==
  ASSUME Inv, SyncInv, Cycle, synced
  PROVE  /\ script # <<>> /\ script' = Tail(script)
         /\ UNCHANGED <<port, turnaround, dataPhase, out, pc, asked, ack, synced>>
         /\ Head(script).op = "write" => level'["swdio"] = Head(script).bit
         /\ Head(script).op \in {"write", "read", "clock"}
         /\ Line \in Bit
         /\ \E f \in Bit :
              /\ f = 1 => ~inverted /\ ~Idling
              /\ inverted' = (inverted \/ f = 1)
              /\ (Line + f) % 2 \in Bit
              /\ Hears((Line + f) % 2)
              /\ got' = IF Head(script).op = "read" THEN Append(got, (Line + f) % 2) ELSE got
  <1>1. /\ script # <<>> /\ script' = Tail(script)
        /\ UNCHANGED <<port, turnaround, dataPhase, out, pc, asked, ack, synced>>
        /\ Head(script).op \in {"write", "read", "clock"}
    BY Zenon DEF Cycle, InCycle, config
  <1>2. "swclk" \in out
    BY Zenon, <1>1 DEF SyncInv
  <1>3. PICK f \in Flips :
          LET b == (Line + f) % 2
          IN  /\ inverted' = (inverted \/ f = 1)
              /\ got' = IF Head(script).op = "read" THEN Append(got, b) ELSE got
              /\ Hears(b)
    BY Zenon, <1>2 DEF Cycle
  <1>4. f \in Bit /\ (f = 1 => ~inverted /\ ~Idling)
    <2>1. f \in IF synced /\ ~inverted /\ asked # None /\ ~Idling THEN Bit ELSE {0}
      BY Zenon DEF Flips
    <2>2. 0 # 1 /\ 0 \in Bit
      BY DEF Bit
    <2> QED BY Zenon, <2>1, <2>2
  <1>5. level' \in [Pins -> Bit]
    BY Zenon, CycleKeepsTypes DEF Inv, TypeInv, TypeOK
  <1>6. Line \in Bit
    BY Zenon, <1>5, LineIsBit, TypesGiveWire DEF Inv
  <1>7. (Line + f) % 2 \in Bit
    <2>1. \A x, y \in Bit : (x + y) % 2 \in Bit
      BY SMT DEF Bit
    <2> QED BY Zenon, <1>4, <1>6, <2>1
  <1>8. Head(script).op = "write" => level'["swdio"] = Head(script).bit
    <2>1. /\ level' = [level EXCEPT !["swclk"] = 1,
                                    !["swdio"] =
                                      IF Head(script).op = "write" THEN Head(script).bit ELSE @]
      BY Zenon DEF Cycle
    <2>2. level \in [Pins -> Bit]
      BY Zenon DEF Inv, TypeInv, TypeOK
    <2> QED BY <2>1, <2>2 DEF Pins
  <1> QED BY Zenon, <1>1, <1>3, <1>4, <1>6, <1>7, <1>8

LEMMA NotInverted ==
  \A x \in Bit, f \in Bit : (f # 1 => (x + f) % 2 = x) /\ (f = 1 => (x + f) % 2 = 1 - x)
  BY SMT DEF Bit

\* The target takes one bit more of a word.
LEMMA RightAppended ==
  ASSUME heard \in Seq(Bit), RightRequest, NEW b \in Bit
  PROVE  /\ Len(Append(heard, b)) >= 8
         /\ \A j \in 1..8 : Append(heard, b)[j] = Bits(asked)[j]
  <1> DEFINE n == Len(heard)
             h == Append(heard, b)
  <1>1. n \in Nat /\ n >= 8 /\ \A j \in 1..8 : heard[j] = Bits(asked)[j]
    BY Zenon, LenProperties DEF RightRequest
  <1>2. Len(h) = n + 1 /\ \A i \in 1..n : h[i] = heard[i]
    <2> HIDE DEF Bit
    <2> QED BY AppendIs
  <1> HIDE DEF h, n
  <1>3. n + 1 >= 8 /\ \A j \in 1..8 : j \in 1..n
    BY SMT, <1>1
  <1> QED BY Zenon, <1>1, <1>2, <1>3 DEF h

\* What the target performs for the request it has heard.
LEMMA AccessIs ==
  ASSUME asked \in Requests, NEW h \in Seq(Bit), Len(h) >= 8, \A j \in 1..8 : h[j] = Bits(asked)[j],
         done = <<>>, NEW w
  PROVE  Performed(Request(h), w) = <<Access(w)>>
  <1>1. asked.ap \in Bit /\ asked.read \in Bit /\ asked.a2 \in Bit /\ asked.a3 \in Bit
    BY DEF Requests
  <1>2. /\ Bits(asked)[2] = asked.ap /\ Bits(asked)[3] = asked.read
        /\ Bits(asked)[4] = asked.a2 /\ Bits(asked)[5] = asked.a3
    BY Zenon, <1>1, BitsAre
  <1>3. 2 \in 1..8 /\ 3 \in 1..8 /\ 4 \in 1..8 /\ 5 \in 1..8
    BY SMT
  <1>4. h[2] = asked.ap /\ h[3] = asked.read /\ h[4] = asked.a2 /\ h[5] = asked.a3
    BY Zenon, <1>2, <1>3
  <1>5. Request(h) = [ap |-> asked.ap, read |-> asked.read, a2 |-> asked.a2, a3 |-> asked.a3]
    BY Zenon, <1>4 DEF Request
  <1> DEFINE r == Request(h)
  <1>6. r.ap = asked.ap /\ r.read = asked.read /\ r.a2 = asked.a2 /\ r.a3 = asked.a3
    BY <1>5
  <1> HIDE DEF r
  <1>7. Performed(r, w) = Append(done, Access(w))
    BY Zenon, <1>6 DEF Performed, Access
  <1>8. \A x : Append(<<>>, x) = <<x>>
    OBVIOUS
  <1> QED BY Zenon, <1>7, <1>8 DEF r

LEMMA SoFarIs ==
  ASSUME NEW h, NEW p, NEW d, NEW i, NEW n, NEW m, Len(h) = n, Len(p) = m,
         n = 8 + Had(m),
         NEW s, s = SubSeq(h, 9, n), Nearly(s, d, i)
  PROVE  SoFar(h, p, d, i)
  BY DEF SoFar

\* It has taken all of d, and performs the access unless the parity is wrong.
AllTaken(x, d, i) ==
  \E data \in Seq(Bit) :
    /\ Len(data) = WordBits + 1 /\ Nearly(data, d, i)
    /\ x = IF Parity(data) = 0 THEN <<Access(SubSeq(data, 1, WordBits))>> ELSE <<>>

LEMMA TakenGoesOn ==
  ASSUME Inv, target = "answer", NEW b \in Bit, Hears(b), done = <<>>,
         NEW d, NEW i \in BOOLEAN, Taken(d, i), \A j \in 1..(WordBits + 1) : d[j] \in Bit,
         NEW f \in Bit, f = 1 => ~i,
         Len(plan) <= WordBits + 1 => b = (d[WordBits + 2 - Len(plan)] + f) % 2,
         UNCHANGED asked
  PROVE  /\ Len(plan) # 1 =>
              done' = <<>> /\ RightRequest' /\ Takes' /\ SoFar(heard', plan', d, i \/ f = 1)
         /\ Len(plan) = 1 => AllTaken(done', d, i \/ f = 1)
  <1> DEFINE m == Len(plan)
             W == WordBits + 1
             n == Len(heard)
             s == SubSeq(heard, 9, n)
  <1>1. /\ m \in Nat /\ m > 0 /\ Len(plan') = m - 1
        /\ Head(plan) = Left(plan, m)
        /\ \A j \in 1..(m - 1) : Left(plan', j) = Left(plan, j)
        /\ Respond(b)
    BY Zenon, PlanGoesOn
  <1>2. plan # <<>> /\ heard \in Seq(Bit) /\ asked \in Requests
    BY Zenon DEF Inv, OnesInv, TypeInv, TypeOK
  <1>3. WordBits \in Nat /\ W \in Nat /\ W > 0
    BY Sizes
  <1>4. /\ RightRequest /\ \A j \in 1..m : Left(plan, j).act = "take" <=> j <= W
        /\ n = 8 + Had(m)
        /\ Nearly(s, d, i)
    <2>1. \A j \in 1..m : Left(plan, j).act = "take" <=> j <= W
      <3>1. Takes
        BY Zenon DEF Taken
      <3> QED BY Zenon, <3>1 DEF Takes
    <2> QED BY Zenon, <2>1 DEF Taken, SoFar
  <1>5. Bits(asked)' = Bits(asked)
    BY Zenon DEF Bits
  <1>6. n \in Nat
    BY <1>2
  <1>7. Takes'
    <2> HIDE DEF m, W
    <2>1. \A j \in 1..(m - 1) : j \in 1..m
      BY SMT, <1>1
    <2> QED BY Zenon, <1>1, <1>4, <2>1 DEF Takes, W
  <1>8. m \in 1..m
    <2> HIDE DEF m
    <2> QED BY SMT, <1>1
  <1>9. CASE m > W
    <2>1. Head(plan).act # "take" /\ m # 1
      <3>1. ~(m <= W) /\ m # 1
        <4> HIDE DEF m, W
        <4> QED BY SMT, <1>1, <1>3, <1>9
      <3> QED BY Zenon, <1>1, <1>4, <1>8, <3>1
    <2>2. done' = done /\ heard' = heard
      BY Zenon, <1>1, <1>2, <2>1, RespondPlainly
    <2>3. n = 8 + Had(m - 1)
      <3> HIDE DEF m, n
      <3> QED BY SMT, <1>1, <1>3, <1>4, <1>9 DEF Had
    <2>4. f # 1 \/ f = 1
      OBVIOUS
    <2>5. Nearly(s, d, i \/ f = 1)
      BY Zenon, <1>4 DEF Nearly
    <2>6. RightRequest'
      BY Zenon, <1>4, <1>5, <2>2 DEF RightRequest
    <2>7. SoFar(heard', plan', d, i \/ f = 1)
      <3> DEFINE k == m - 1
      <3>1. n = 8 + Had(k)
        BY Zenon, <2>3
      <3>2. Len(heard') = n /\ Len(plan') = k /\ s = SubSeq(heard', 9, n)
        BY Zenon, <1>1, <2>2
      <3> HIDE DEF k, n, s, m
      <3> QED BY Zenon, <2>5, <3>1, <3>2, SoFarIs
    <2> QED BY Zenon, <1>7, <2>1, <2>2, <2>6, <2>7
  <1>10. CASE m <= W
    <2> DEFINE l == W - m
               h == Append(heard, b)
               q == SubSeq(h, 9, Len(h))
    <2>1. Head(plan).act = "take"
      BY Zenon, <1>1, <1>4, <1>8, <1>10
    <2>2. l \in Nat /\ n = 8 + l /\ W + 1 - m = l + 1 /\ l + 1 \in 1..W /\ WordBits + 2 - m = l + 1
      <3> HIDE DEF m, n
      <3> QED BY SMT, <1>1, <1>3, <1>4, <1>10 DEF Had
    <2>3. s \in Seq(Bit) /\ Len(s) = l /\ q = Append(s, b)
      <3> HIDE DEF l
      <3> QED BY Zenon, <1>2, <2>2, RestAppended
    <2>4. b = (d[l + 1] + f) % 2 /\ d[l + 1] \in Bit
      <3>1. b = (d[WordBits + 2 - m] + f) % 2
        BY Zenon, <1>10
      <3> HIDE DEF l, m, W
      <3> QED BY Zenon, <2>2, <3>1 DEF W
    <2>5. q \in Seq(Bit) /\ Len(q) = l + 1 /\ Nearly(q, d, i \/ f = 1)
      <3> HIDE DEF s, l, q
      <3>1. /\ Append(s, b) \in Seq(Bit) /\ Len(Append(s, b)) = l + 1
            /\ Nearly(Append(s, b), d, i \/ f = 1)
        <4>1. /\ Nearly(s, d, i) /\ s \in Seq(Bit)
              /\ d[Len(s) + 1] \in Bit /\ b = (d[Len(s) + 1] + f) % 2
          BY Zenon, <1>4, <2>3, <2>4
        <4>2. /\ Append(s, b) \in Seq(Bit) /\ Len(Append(s, b)) = Len(s) + 1
              /\ Nearly(Append(s, b), d, i \/ f = 1)
          BY <4>1, NearlyGoesOn
        <4> QED BY Zenon, <2>3, <4>2
      <3> QED BY Zenon, <2>3, <3>1
    <2>6. Len(h) >= 8 /\ \A j \in 1..8 : h[j] = Bits(asked)[j]
      BY Zenon, <1>2, <1>4, RightAppended
    <2>7. h \in Seq(Bit) /\ Len(h) = n + 1
      <3> HIDE DEF Bit
      <3> QED BY <1>2, AppendIs
    <2>8. CASE m # 1
      <3>1. heard' = h /\ done' = done
        BY Zenon, <1>1, <1>2, <2>1, <2>8, RespondTaking
      <3>2. RightRequest'
        BY Zenon, <1>5, <2>6, <3>1 DEF RightRequest
      <3>3. n + 1 = 8 + Had(m - 1)
        <4> HIDE DEF m, n
        <4> QED BY SMT, <1>1, <1>3, <1>4, <1>10 DEF Had
      <3>4. SoFar(heard', plan', d, i \/ f = 1)
        <4> DEFINE k == m - 1
                   r == n + 1
        <4>1. r = 8 + Had(k)
          BY Zenon, <3>3
        <4>2. Len(heard') = r /\ Len(plan') = k /\ q = SubSeq(heard', 9, r)
          BY Zenon, <1>1, <2>7, <3>1
        <4>3. Nearly(q, d, i \/ f = 1)
          BY Zenon, <2>5
        <4> HIDE DEF k, r, q, h, l, s, n, m
        <4> QED BY Zenon, <4>1, <4>2, <4>3, SoFarIs
      <3> QED BY Zenon, <1>7, <2>8, <3>1, <3>2, <3>4
    <2>9. CASE m = 1
      <3>1. done' = IF Parity(q) = 0 THEN Performed(Request(h), SubSeq(q, 1, WordBits)) ELSE done
        BY Zenon, <1>1, <1>2, <2>1, <2>9, RespondTaking
      <3>2. Performed(Request(h), SubSeq(q, 1, WordBits)) = <<Access(SubSeq(q, 1, WordBits))>>
        <4> HIDE DEF q, h
        <4> QED BY Zenon, <1>2, <2>6, <2>7, AccessIs
      <3>3. l + 1 = W
        <4> HIDE DEF m, W
        <4> QED BY SMT, <1>3, <2>9
      <3> HIDE DEF q, l
      <3>4. q \in Seq(Bit) /\ Len(q) = WordBits + 1 /\ Nearly(q, d, i \/ f = 1)
        BY Zenon, <2>5, <3>3
      <3>5. AllTaken(done', d, i \/ f = 1)
        BY Zenon, <3>1, <3>2, <3>4 DEF AllTaken
      <3> QED BY Zenon, <2>9, <3>5
    <2> QED BY Zenon, <2>8, <2>9
  <1> QED
    <2>1. m > W \/ m <= W
      <3> HIDE DEF m, W
      <3> QED BY SMT, <1>1, <1>3
    <2> QED BY Zenon, <1>9, <1>10, <2>1

-----------------------------------------------------------------------------
(***************************************************************************)
(* What an answer takes and sends.                                         *)
(***************************************************************************)
JoinedSlots(u, s, m, t, n) ==
  /\ u \in Seq(Slots) /\ Len(u) = m + n
  /\ \A i \in 1..n : Left(u, i) = Left(t, i)
  /\ \A i \in (n + 1)..(n + m) : Left(u, i) = Left(s, i - n)

LEMMA SlotsJoined ==
  ASSUME NEW s \in Seq(Slots), NEW t \in Seq(Slots), NEW m, NEW n, Len(s) = m, Len(t) = n
  PROVE  JoinedSlots(s \o t, s, m, t, n)
  BY SlotsConcat DEF JoinedSlots

LEMMA FollowUpData ==
  ASSUME turnaround \in Turnarounds, dataPhase \in BOOLEAN,
         NEW r, r.read \in Bit, NEW k \in Acks, NEW w \in Words
  PROVE  LET f == FollowUp(r, k, w)
         IN  /\ k = Ok /\ r.read = 1 =>
                  \A j \in 1..(WordBits + 1) : Left(f, turnaround + j) = Driving(Datum(w)[WordBits + 2 - j])
             /\ k = Ok /\ r.read = 0 =>
                  \A j \in 1..Follow(k) : Left(f, j).act = "take" <=> j <= WordBits + 1
             /\ ~(k = Ok /\ r.read = 0) => \A j \in 1..Follow(k) : Left(f, j).act # "take"
  <1> DEFINE turn == Times(turnaround, Turning)
             datum == DriveAll(Append(w, Parity(w)))
             f == FollowUp(r, k, w)
             m == WordBits + 1
             t == turnaround
  <1>1. t \in Nat /\ WordBits \in Nat /\ m \in Nat /\ m = WordBits + 1
    BY SMT, Sizes
  <1>2. /\ turn \in Seq(Slots) /\ Len(turn) = t
        /\ \A i \in 1..t : Left(turn, i) = Turning
    BY Zenon, <1>1, SlotsAre, RunIs
  <1>3. w \in Seq(Bit) /\ Len(w) = WordBits
    BY WordsAre
  <1>4. Datum(w) \in Seq(Bit) /\ Len(Datum(w)) = m
    BY Zenon, <1>3, DatumParity
  <1>5. /\ datum \in Seq(Slots) /\ Len(datum) = m
        /\ \A i \in 1..m : datum[i] = Driving(Datum(w)[i]) /\ datum[i].act = "drive"
    <2> DEFINE d == Datum(w)
    <2>1. datum = DriveAll(d)
      BY Zenon DEF Datum
    <2> HIDE DEF d, m, datum
    <2>2. \A i \in 1..m : d[i] \in Bit
      BY <1>4, ElementOfSeq DEF d
    <2> QED BY Zenon, <1>4, <2>1, <2>2, DriveAllIs, SlotsAre DEF d
  <1>6. \A x \in Slots : /\ Times(m, x) \in Seq(Slots) /\ Len(Times(m, x)) = m
                         /\ \A i \in 1..m : Left(Times(m, x), i) = x
    BY Zenon, <1>1, RunIs
  <1>7. Turning.act # "take" /\ Taking.act = "take" /\ Passing.act # "take"
    BY SlotsAre
  <1>8. (r.read = 0 \/ r.read = 1) /\ 0 # 1
    BY DEF Bit
  <1> HIDE DEF turn, datum, f, m, t
  <1>9. CASE r.read = 1 /\ (k = Ok \/ dataPhase)
    <2>1. f = datum \o turn
      BY Zenon, <1>8, <1>9 DEF f, FollowUp, turn, datum
    <2>2. Follow(k) = m + t
      BY Zenon, <1>9 DEF Follow, m, t
    <2>3. /\ Len(f) = m + t
          /\ \A i \in 1..t : Left(f, i) = Left(turn, i)
          /\ \A i \in (t + 1)..(t + m) : Left(f, i) = Left(datum, i - t)
      BY SMT, <1>2, <1>5, <2>1, SlotsConcat
    <2>4. ASSUME NEW j \in 1..m
          PROVE  /\ Left(f, t + j) = datum[m + 1 - j]
                 /\ m + 1 - j \in 1..m /\ m + 1 - j = WordBits + 2 - j
      <3>1. /\ t + j \in (t + 1)..(t + m) /\ (t + j) - t = j /\ m + 1 - j \in 1..m
            /\ m + 1 - j = WordBits + 2 - j
        BY SMT, <1>1
      <3> QED BY Zenon, <1>5, <2>3, <3>1 DEF Left
    <2>5. \A j \in 1..m : Left(f, t + j) = Driving(Datum(w)[WordBits + 2 - j]) /\ Left(f, t + j).act # "take"
      <3> SUFFICES ASSUME NEW j \in 1..m
                   PROVE  /\ Left(f, t + j) = Driving(Datum(w)[WordBits + 2 - j])
                          /\ Left(f, t + j).act # "take"
        BY Zenon
      <3> DEFINE i == m + 1 - j
      <3>1. Left(f, t + j) = datum[i] /\ i \in 1..m /\ i = WordBits + 2 - j
        BY <2>4
      <3> HIDE DEF i
      <3>2. datum[i] = Driving(Datum(w)[i]) /\ datum[i].act = "drive"
        BY <1>5, <3>1
      <3>3. "drive" # "take"
        OBVIOUS
      <3> QED BY <3>1, <3>2, <3>3
    <2>6. ASSUME NEW j \in 1..Follow(k) PROVE Left(f, j).act # "take"
      <3>1. j \in 1..t \/ (j - t \in 1..m /\ t + (j - t) = j)
        BY SMT, <1>1, <2>2
      <3> QED BY Zenon, <1>2, <1>7, <2>3, <2>5, <3>1
    <2> QED BY Zenon, <1>8, <1>9, <2>5, <2>6 DEF m, t, f
  <1>10. CASE r.read = 0 /\ (k = Ok \/ dataPhase)
    <2>1. /\ k = Ok => f = turn \o Times(m, Taking)
          /\ k # Ok => f = turn \o Times(m, Passing)
      BY Zenon, <1>8, <1>10 DEF f, FollowUp, turn, m
    <2>2. Follow(k) = m + t
      BY Zenon, <1>10 DEF Follow, m, t
    <2>3. ASSUME NEW x \in Slots, f = turn \o Times(m, x)
          PROVE  \A j \in 1..Follow(k) : (j <= m => Left(f, j) = x) /\ (~(j <= m) => Left(f, j) = Turning)
      <3> DEFINE u == Times(m, x)
      <3>1. u \in Seq(Slots) /\ Len(u) = m /\ \A i \in 1..m : Left(u, i) = x
        BY Zenon, <1>6
      <3> HIDE DEF u
      <3>2. /\ \A i \in 1..m : Left(f, i) = Left(u, i)
            /\ \A i \in (m + 1)..(m + t) : Left(f, i) = Left(turn, i - m)
        <4>1. JoinedSlots(turn \o u, turn, t, u, m)
          BY Zenon, <1>2, <3>1, SlotsJoined
        <4> QED BY Zenon, <2>3, <4>1 DEF JoinedSlots, u
      <3>3. ASSUME NEW j \in 1..Follow(k)
            PROVE  (j <= m => j \in 1..m) /\ (~(j <= m) => j \in (m + 1)..(m + t) /\ j - m \in 1..t)
        BY SMT, <1>1, <2>2
      <3> QED BY Zenon, <1>2, <3>1, <3>2, <3>3
    <2>4. Taking \in Slots /\ Passing \in Slots
      BY SlotsAre
    <2>5. CASE k = Ok
      BY Zenon, <1>7, <1>8, <1>10, <2>1, <2>3, <2>4, <2>5 DEF m, f
    <2>6. CASE k # Ok
      BY Zenon, <1>7, <1>8, <1>10, <2>1, <2>3, <2>4, <2>6 DEF m, f
    <2> QED BY Zenon, <2>5, <2>6
  <1>11. CASE ~(k = Ok \/ dataPhase)
    <2>1. f = turn /\ Follow(k) = t
      BY Zenon, <1>11 DEF f, FollowUp, turn, Follow, t
    <2> QED BY Zenon, <1>2, <1>7, <1>11, <2>1 DEF f
  <1> QED BY Zenon, <1>8, <1>9, <1>10, <1>11

LEMMA AnswerData ==
  ASSUME turnaround \in Turnarounds, dataPhase \in BOOLEAN,
         NEW r, r.read \in Bit, NEW k \in Acks, NEW w \in Words
  PROVE  LET a == Answer(r, k, w)
         IN  /\ k = Ok /\ r.read = 1 =>
                  \A j \in 1..(WordBits + 1) : Left(a, turnaround + j) = Driving(Datum(w)[WordBits + 2 - j])
             /\ k = Ok /\ r.read = 0 =>
                  \A j \in 1..Len(a) : Left(a, j).act = "take" <=> j <= WordBits + 1
             /\ ~(k = Ok /\ r.read = 0) => \A j \in 1..Len(a) : Left(a, j).act # "take"
  <1> DEFINE a == Answer(r, k, w)
             f == FollowUp(r, k, w)
             l == Follow(k)
             s == Times(turnaround, Turning) \o DriveAll(k)
             W == WordBits + 1
             t == turnaround
             datum(j) == Driving(Datum(w)[WordBits + 2 - j])
  <1>1. /\ a \in Seq(Slots) /\ Len(a) = l + (t + 3)
        /\ \A j \in 1..3 : Left(a, l + j) = Driving(k[4 - j])
        /\ \A j \in 4..(t + 3) : Left(a, l + j).act = "turn"
    BY Zenon, AnswerIs
  <1>2. t \in Nat /\ W \in Nat /\ l \in Nat /\ (k = Ok => l = W + t)
    BY SMT, Sizes DEF Follow
  <1>3. f \in Seq(Slots) /\ Len(f) = l
    BY Zenon, FollowUpIs
  <1>4. s \in Seq(Slots)
    <2>1. k \in Seq(Bit)
      BY AcksAre
    <2>2. Times(t, Turning) \in Seq(Slots) /\ DriveAll(k) \in Seq(Slots)
      BY Zenon, <1>2, <2>1, SlotsAre, RunIs, DriveAllIs
    <2> QED BY Zenon, <2>2, SlotsConcat
  <1>5. a = s \o f
    BY Zenon DEF Answer, FollowUp
  <1>6. /\ k = Ok /\ r.read = 1 => \A j \in 1..W : Left(f, t + j) = datum(j)
        /\ k = Ok /\ r.read = 0 => \A j \in 1..l : Left(f, j).act = "take" <=> j <= W
        /\ ~(k = Ok /\ r.read = 0) => \A j \in 1..l : Left(f, j).act # "take"
    BY Zenon, FollowUpData
  <1> HIDE DEF a, f, l, s, W, t, datum
  <1>7. \A j \in 1..l : Left(a, j) = Left(f, j)
    <2> DEFINE n == Len(s)
    <2> HIDE DEF n
    <2>1. Len(s) = n
      BY DEF n
    <2>2. JoinedSlots(s \o f, s, n, f, l)
      BY Zenon, <1>3, <1>4, <2>1, SlotsJoined
    <2> QED BY Zenon, <1>5, <2>2 DEF JoinedSlots
  <1>8. ASSUME NEW j \in (l + 1)..(l + (t + 3)) PROVE Left(a, j).act # "take"
    <2>1. (j - l \in 1..3 \/ j - l \in 4..(t + 3)) /\ l + (j - l) = j
      BY SMT, <1>2
    <2>2. \A b : Driving(b).act = "drive"
      BY DEF Driving
    <2>3. "drive" # "take" /\ "turn" # "take"
      OBVIOUS
    <2> QED BY Zenon, <1>1, <2>1, <2>2, <2>3
  <1>9. \A j \in 1..(l + (t + 3)) : j \in 1..l \/ j \in (l + 1)..(l + (t + 3))
    BY SMT, <1>2
  <1>10. ASSUME k = Ok, r.read = 1, NEW j \in 1..W PROVE Left(a, t + j) = datum(j)
    <2>1. t + j \in 1..l
      BY SMT, <1>2, <1>10
    <2> QED BY Zenon, <1>6, <1>7, <1>10, <2>1
  <1>11. ASSUME k = Ok, r.read = 0, NEW j \in 1..(l + (t + 3))
         PROVE Left(a, j).act = "take" <=> j <= W
    <2>1. j \in 1..l \/ (j \in (l + 1)..(l + (t + 3)) /\ ~(j <= W))
      BY SMT, <1>2, <1>11
    <2> QED BY Zenon, <1>6, <1>7, <1>8, <1>11, <2>1
  <1>12. ASSUME ~(k = Ok /\ r.read = 0), NEW j \in 1..(l + (t + 3))
         PROVE Left(a, j).act # "take"
    BY Zenon, <1>6, <1>7, <1>8, <1>9, <1>12
  <1> QED BY Zenon, <1>1, <1>10, <1>11, <1>12 DEF a, W, t, datum

-----------------------------------------------------------------------------
(***************************************************************************)
(* The request.                                                            *)
(***************************************************************************)
LEMMA AskOpsGoOn ==
  ASSUME Inv, AskOps, script # <<>>, script' = Tail(script), UNCHANGED <<turnaround, asked>>
  PROVE  AskOps'
  <1> DEFINE n == Len(script)
  <1>1. /\ n \in Nat /\ n > 0 /\ Len(script') = n - 1
        /\ \A i \in 1..(n - 1) : Left(script', i) = Left(script, i)
    BY Zenon, ScriptGoesOn DEF Inv, TypeInv, TypeOK
  <1>2. turnaround \in Nat
    BY Sizes DEF Inv, TypeInv, TypeOK
  <1>3. /\ n <= turnaround + 12
        /\ \A i \in 1..n :
             /\ i <= 3 => Left(script, i) = ReadBit
             /\ 3 < i /\ i <= turnaround + 3 => Left(script, i) = Clock
             /\ i = turnaround + 4 => Left(script, i) = Input
             /\ i > turnaround + 4 => Left(script, i) = WriteBit(Bits(asked)[turnaround + 13 - i])
    BY Zenon DEF AskOps
  <1> HIDE DEF n
  <1>4. \A i \in 1..(n - 1) : i \in 1..n
    BY SMT, <1>1
  <1>5. n - 1 <= turnaround + 12
    BY SMT, <1>1, <1>2, <1>3
  <1>6. \A i \in 1..(n - 1) :
          /\ i <= 3 => Left(script', i) = ReadBit
          /\ 3 < i /\ i <= turnaround + 3 => Left(script', i) = Clock
          /\ i = turnaround + 4 => Left(script', i) = Input
          /\ i > turnaround + 4 => Left(script', i) = WriteBit(Bits(asked)[turnaround + 13 - i])
    BY Zenon, <1>1, <1>3, <1>4
  <1>7. Bits(asked)' = Bits(asked)
    BY Zenon DEF Bits
  <1> QED BY Zenon, <1>1, <1>5, <1>6, <1>7 DEF AskOps

\* The operation at the head of the script of a request.
LEMMA AskHead ==
  ASSUME Inv, AskOps, script # <<>>
  PROVE  LET n == Len(script)
         IN  /\ n <= 3 => Head(script).op = "read"
             /\ 3 < n /\ n <= turnaround + 3 => Head(script).op = "clock"
             /\ n = turnaround + 4 => Head(script).op = "input"
             /\ n > turnaround + 4 =>
                  /\ Head(script).op = "write"
                  /\ Head(script).bit = Bits(asked)[turnaround + 13 - n]
  <1> DEFINE n == Len(script)
  <1>1. n \in Nat /\ n > 0 /\ Head(script) = Left(script, n)
    <2>1. script \in Seq(Operations)
      BY Zenon DEF Inv, TypeInv, TypeOK
    <2>2. n \in Nat
      BY <2>1
    <2> QED BY Zenon, <2>1, <2>2, LeftOfTail
  <1>2. n \in 1..n
    BY SMT, <1>1
  <1>3. /\ n <= 3 => Head(script) = ReadBit
        /\ 3 < n /\ n <= turnaround + 3 => Head(script) = Clock
        /\ n = turnaround + 4 => Head(script) = Input
        /\ n > turnaround + 4 => Head(script) = WriteBit(Bits(asked)[turnaround + 13 - n])
    BY Zenon, <1>1, <1>2 DEF AskOps
  <1>4. /\ ReadBit.op = "read" /\ Clock.op = "clock" /\ Input.op = "input"
        /\ \A b : WriteBit(b).op = "write" /\ WriteBit(b).bit = b
    BY DEF ReadBit, Clock, Input, WriteBit
  <1> QED BY Zenon, <1>3, <1>4

\* What the target answers, bit by bit.
LEMMA TakesGoesOn ==
  ASSUME Inv, target = "answer", NEW b \in Bit, Hears(b), Takes, Len(plan) > WordBits + 1
  PROVE  Takes' /\ done' = done /\ heard' = heard
  <1>1. /\ Len(plan) \in Nat /\ Len(plan) > 0 /\ Len(plan') = Len(plan) - 1
        /\ Head(plan) = Left(plan, Len(plan))
        /\ \A i \in 1..(Len(plan) - 1) : Left(plan', i) = Left(plan, i)
        /\ Respond(b)
    BY Zenon, PlanGoesOn
  <1>2. plan # <<>>
    BY Zenon DEF Inv, OnesInv
  <1> DEFINE m == Len(plan)
  <1>3. m \in Nat /\ m > 0 /\ m > WordBits + 1
    BY Zenon, <1>1
  <1> HIDE DEF m
  <1>4. m \in 1..m /\ (\A i \in 1..(m - 1) : i \in 1..m) /\ m # 1 /\ ~(m <= WordBits + 1)
    BY SMT, <1>3, Sizes
  <1>5. Head(plan).act # "take"
    BY Zenon, <1>1, <1>4 DEF Takes, m
  <1>6. Takes'
    BY Zenon, <1>1, <1>4 DEF Takes, m
  <1> QED BY Zenon, <1>1, <1>2, <1>4, <1>5, <1>6, RespondPlainly DEF m

LEMMA AskFollowsGoesOn ==
  ASSUME Inv, target = "answer", NEW b \in Bit, Hears(b), NEW k, AskFollows(k),
         Len(plan) # 1, k = Ok => Len(plan) > WordBits + 1,
         UNCHANGED <<turnaround, asked>>
  PROVE  AskFollows(k)'
  <1>1. Bits(asked)' = Bits(asked) /\ turnaround' = turnaround /\ asked' = asked
    BY Zenon DEF Bits
  <1>2. RightRequest /\ Len(heard) = 8
    BY Zenon DEF AskFollows
  <1>3. CASE k = Ok /\ asked.read = 0
    <2>1. 0 # 1
      OBVIOUS
    <2>2. done = <<>> /\ Takes
      BY Zenon, <1>3, <2>1 DEF AskFollows
    <2>3. Takes' /\ done' = done /\ heard' = heard
      BY Zenon, <1>3, <2>2, TakesGoesOn
    <2>4. RightRequest'
      BY Zenon, <1>1, <1>2, <2>3 DEF RightRequest
    <2> QED BY Zenon, <1>1, <1>2, <1>3, <2>1, <2>2, <2>3, <2>4 DEF AskFollows
  <1>4. CASE ~(k = Ok /\ asked.read = 0)
    <2>1. NoTakes
      BY Zenon, <1>4 DEF AskFollows
    <2>2. NoTakes' /\ done' = done /\ heard' = heard
      BY Zenon, <2>1, NoTakesGoesOn
    <2>3. RightRequest'
      BY Zenon, <1>1, <1>2, <2>2 DEF RightRequest
    <2>4. CASE k = Ok /\ asked.read = 1
      <3>1. PICK w \in Words : done = <<Access(w)>> /\ Sends(w)
        BY Zenon, <2>4 DEF AskFollows
      <3>2. Sends(w)'
        BY Zenon, <1>1, <3>1, SendsGoesOn
      <3>3. Access(w)' = Access(w)
        BY Zenon, <1>1 DEF Access
      <3>4. \E v \in Words : (done' = <<Access(v)'>> /\ Sends(v)')
        BY Zenon, <2>2, <3>1, <3>2, <3>3
      <3> QED BY Zenon, <1>1, <1>2, <1>4, <2>2, <2>3, <2>4, <3>4 DEF AskFollows
    <2>5. CASE ~(k = Ok /\ asked.read = 1)
      <3>1. done = <<>>
        BY Zenon, <2>5 DEF AskFollows
      <3> QED BY Zenon, <1>1, <1>2, <1>4, <2>2, <2>3, <2>5, <3>1 DEF AskFollows
    <2> QED BY Zenon, <2>4, <2>5
  <1> QED BY Zenon, <1>3, <1>4

\* What the target performs, and will, when it has heard the request.
LEMMA AskFollowsBegins ==
  ASSUME turnaround' \in Turnarounds, turnaround' = turnaround, dataPhase \in BOOLEAN,
         asked \in Requests, asked' = asked, done = <<>>,
         heard' \in Seq(Bit), Len(heard') = 8, \A j \in 1..8 : heard'[j] = Bits(asked)[j],
         Request(heard').read = asked.read,
         NEW k \in Acks, NEW w \in Words, plan' = Answer(Request(heard'), k, w),
         done' = IF k = Ok /\ Request(heard').read = 1 THEN Performed(Request(heard'), w) ELSE done
  PROVE  AskFollows(k)'
  <1> DEFINE h == heard'
             r == Request(h)
  <1>1. r.read \in Bit /\ r.read = asked.read
    BY Zenon, RequestReads
  <1>2. Bits(asked)' = Bits(asked)
    BY Zenon DEF Bits
  <1> DEFINE a == Answer(r, k, w)
  <1>3. /\ k = Ok /\ asked.read = 1 =>
             \A j \in 1..(WordBits + 1) :
               Left(plan', turnaround + j) = Driving(Datum(w)[WordBits + 2 - j])
        /\ k = Ok /\ asked.read = 0 =>
             \A j \in 1..Len(plan') : Left(plan', j).act = "take" <=> j <= WordBits + 1
        /\ ~(k = Ok /\ asked.read = 0) => \A j \in 1..Len(plan') : Left(plan', j).act # "take"
    <2>1. turnaround \in Turnarounds /\ plan' = a
      BY Zenon
    <2>2. /\ k = Ok /\ r.read = 1 =>
               \A j \in 1..(WordBits + 1) :
                 Left(a, turnaround + j) = Driving(Datum(w)[WordBits + 2 - j])
          /\ k = Ok /\ r.read = 0 =>
               \A j \in 1..Len(a) : Left(a, j).act = "take" <=> j <= WordBits + 1
          /\ ~(k = Ok /\ r.read = 0) => \A j \in 1..Len(a) : Left(a, j).act # "take"
      <3> HIDE DEF r
      <3> QED BY Zenon, <1>1, <2>1, AnswerData
    <2> HIDE DEF a, r
    <2> QED BY Zenon, <1>1, <2>1, <2>2
  <1>4. RightRequest' /\ Len(heard') = 8
    <2>1. 8 >= 8
      BY SMT
    <2> QED BY Zenon, <1>2, <2>1 DEF RightRequest
  <1>5. CASE k = Ok /\ asked.read = 1
    <2>1. 0 # 1
      OBVIOUS
    <2>2. NoTakes'
      BY Zenon, <1>3, <1>5, <2>1 DEF NoTakes
    <2>3. Sends(w)'
      BY Zenon, <1>3, <1>5 DEF Sends
    <2>4. done' = <<Access(w)>>
      <3>1. done' = Performed(r, w)
        BY Zenon, <1>1, <1>5
      <3>2. h \in Seq(Bit) /\ Len(h) >= 8 /\ \A j \in 1..8 : h[j] = Bits(asked)[j]
        <4>1. 8 >= 8
          BY SMT
        <4> QED BY Zenon, <4>1
      <3> HIDE DEF h
      <3>3. Performed(Request(h), w) = <<Access(w)>>
        BY Zenon, <3>2, AccessIs
      <3> QED BY Zenon, <3>1, <3>3
    <2>5. Access(w)' = Access(w)
      BY Zenon DEF Access
    <2>6. \E v \in Words : (done' = <<Access(v)'>> /\ Sends(v)')
      BY Zenon, <2>3, <2>4, <2>5
    <2> QED BY Zenon, <1>4, <1>5, <2>1, <2>2, <2>6 DEF AskFollows
  <1>6. CASE k = Ok /\ asked.read = 0
    <2>1. 0 # 1
      OBVIOUS
    <2>2. Takes'
      BY Zenon, <1>3, <1>6 DEF Takes
    <2>3. done' = <<>>
      BY Zenon, <1>1, <1>6, <2>1
    <2> QED BY Zenon, <1>4, <1>6, <2>1, <2>2, <2>3 DEF AskFollows
  <1>7. CASE k # Ok
    <2>1. NoTakes'
      BY Zenon, <1>3, <1>7 DEF NoTakes
    <2>2. done' = <<>>
      BY Zenon, <1>7
    <2> QED BY Zenon, <1>4, <1>7, <2>1, <2>2 DEF AskFollows
  <1>8. asked.read = 0 \/ asked.read = 1
    BY <1>1 DEF Bit
  <1> QED BY Zenon, <1>5, <1>6, <1>7, <1>8

\* A bit of the request, at the probe and at the target.
LEMMA HeaderCycle ==
  ASSUME Inv, Asking, script # <<>>, Len(script) > turnaround + 4,
         NEW b \in Bit, b = Bits(asked)[turnaround + 13 - Len(script)],
         Hears(b), script' = Tail(script), UNCHANGED <<turnaround, dataPhase, asked>>
  PROVE  /\ AskHeader'
         /\ Len(script') <= turnaround + 4 => \E k \in {Ok, Wait, Fault} : AskAnswer(k)' /\ AskFollows(k)'
  <1> DEFINE n == Len(script)
             l == Len(heard)
  <1>1. /\ n \in Nat /\ n > 0 /\ Len(script') = n - 1
    BY Zenon, ScriptGoesOn DEF Inv, TypeInv, TypeOK
  <1>2. turnaround \in Turnarounds /\ turnaround \in Nat /\ turnaround > 0 /\ dataPhase \in BOOLEAN
    BY Sizes DEF Inv, TypeInv, TypeOK
  <1>3. /\ Slack \in Nat /\ Slack + 7 = ResetBits /\ ResetBits \in Nat /\ 10 < ResetBits
    <2>1. /\ Slack \in Nat /\ Slack + 7 = ResetBits /\ ResetBits \in Nat
          /\ WordBits \in Nat /\ WordBits + turnaround + 10 < ResetBits
      BY Zenon, <1>2, Sizes
    <2> QED BY SMT, <1>2, <2>1
  <1>4. WireOK /\ heard \in Seq(Bit) /\ l \in Nat /\ ones \in Nat
    BY TypesGiveWire DEF Inv, WireOK
  <1>5. asked \in Requests /\ Bits(asked)[1] = 1 /\ Bits(asked)[7] = 0
    <2>1. asked \in Requests
      BY Zenon DEF Inv, TypeInv
    <2>2. asked.ap \in Bit /\ asked.read \in Bit /\ asked.a2 \in Bit /\ asked.a3 \in Bit
      BY <2>1 DEF Requests
    <2> QED BY Zenon, <2>1, <2>2, BitsAre
  <1>6. Bits(asked)' = Bits(asked)
    BY Zenon DEF Bits
  <1>7. n <= turnaround + 12
    BY Zenon DEF Asking, AskOps
  <1>8. /\ "header" # "answer" /\ "idle" # "answer" /\ "header" # "idle" /\ "header" # "reset"
        /\ "header" # "lost" /\ "idle" # "lost" /\ "idle" # "reset"
    OBVIOUS
  <1>9. CASE n = turnaround + 12
    <2>1. target = "idle" /\ done = <<>>
      BY Zenon, <1>9 DEF Asking, AskHeader
    <2>9. done' = <<>>
      BY Zenon, <1>4, <2>1, HearsNothing
    <2>2. b = 1
      <3>1. turnaround + 13 - n = 1
        BY SMT, <1>2, <1>9
      <3> QED BY Zenon, <1>5, <3>1
    <2>3. ones <= Slack
      BY Zenon, <2>1 DEF Inv, OnesInv
    <2>4. ones' = IF TargetDrives \/ b = 0 THEN 0 ELSE IF ones < ResetBits THEN ones + 1 ELSE ones
      BY Zenon, <1>4, HearsCases
    <2>5. ones' # ResetBits
      <3>1. ones' = 0 \/ ones' = ones \/ ones' = ones + 1
        BY Zenon, <2>4
      <3> QED BY SMT, <1>3, <1>4, <2>3, <3>1
    <2>6. target' = "header" /\ heard' = <<1>>
      <3>1. b # 0
        BY <2>2
      <3> QED BY Zenon, <1>4, <1>8, <2>1, <2>5, <3>1, HearsCases
    <2>7. Len(heard') = 1 /\ \A j \in 1..Len(heard') : heard'[j] = Bits(asked)[j]
      <3>1. Len(<<1>>) = 1 /\ <<1>>[1] = 1 /\ \A j \in 1..1 : j = 1
        BY SMT
      <3> QED BY Zenon, <1>5, <2>6, <3>1
    <2> HIDE DEF n
    <2>8. /\ n - 1 # turnaround + 12 /\ 1 + (n - 1) = turnaround + 12 /\ ~(n - 1 <= turnaround + 4)
      BY SMT, <1>1, <1>2, <1>9
    <2> QED BY Zenon, <1>1, <1>6, <2>6, <2>7, <2>8, <2>9 DEF AskHeader
  <1>10. CASE n # turnaround + 12
    <2>1. n < turnaround + 12 /\ turnaround + 4 < n
      <3>1. n > turnaround + 4
        OBVIOUS
      <3> HIDE DEF n
      <3> QED BY SMT, <1>1, <1>2, <1>7, <1>10, <3>1
    <2>2. /\ target = "header" /\ l + n = turnaround + 12 /\ done = <<>>
          /\ \A j \in 1..l : heard[j] = Bits(asked)[j]
      BY Zenon, <2>1 DEF Asking, AskHeader
    <2>3. /\ l \in Nat /\ n \in Nat /\ turnaround \in Nat
          /\ l + n = turnaround + 12 /\ n < turnaround + 12 /\ turnaround + 4 < n
      BY Zenon, <1>1, <1>2, <1>4, <2>1, <2>2
    <2> HIDE DEF n, l
    <2>4. l \in 1..7
      BY SMT, <2>3
    <2>13. turnaround + 13 - n = l + 1
      BY SMT, <2>3
    <2>5. b = Bits(asked)[l + 1]
      BY Zenon, <2>13 DEF n
    <2>6. ones' = IF b = 0 THEN 0 ELSE IF ones < ResetBits THEN ones + 1 ELSE ones
      BY Zenon, <1>4, <1>8, <2>2, HearsCases DEF TargetDrives
    <2>7. ones' # ResetBits
      <3>1. /\ l < 7 => ones <= Slack + l
            /\ l = 7 /\ heard[7] = 0 => ones = 0
        BY Zenon, <2>2 DEF Inv, OnesInv, l
      <3>2. ones' = 0 \/ ones' = ones \/ ones' = ones + 1
        BY Zenon, <2>6
      <3>3. CASE l < 6
        BY SMT, <1>3, <1>4, <2>4, <3>1, <3>2, <3>3
      <3>4. CASE l = 6
        <4>1. b = 0
          <5>1. l + 1 = 7
            BY SMT, <3>4
          <5> QED BY Zenon, <1>5, <2>5, <5>1
        <4>2. ones' = 0
          BY Zenon, <2>6, <4>1
        <4> QED BY SMT, <1>3, <4>2
      <3>5. CASE l = 7
        <4>1. 7 \in 1..7
          BY SMT
        <4>2. heard[7] = 0
          BY Zenon, <1>5, <2>2, <3>5, <4>1
        <4>3. ones = 0
          BY Zenon, <3>1, <3>5, <4>2
        <4> QED BY SMT, <1>3, <3>2, <4>3
      <3> QED BY SMT, <2>4, <3>3, <3>4, <3>5
    <2>8. Header(b)
      BY Zenon, <1>4, <1>8, <2>2, <2>7, HearsCases
    <2>9. /\ heard' = Append(heard, b) /\ heard' \in Seq(Bit) /\ Len(heard') = l + 1
          /\ \/ l < 7 /\ UNCHANGED <<target, plan>>
             \/ l = 7 /\ ~WellFormed(heard') /\ target' = "lost" /\ plan' = plan
             \/ /\ l = 7 /\ WellFormed(heard') /\ target' = "answer"
                /\ \E k \in Acks, w \in Words : plan' = Answer(Request(heard'), k, w)
      BY Zenon, <1>4, <2>2, <2>4, <2>8, HeaderIs DEF l
    <2>14. \/ l < 7 /\ UNCHANGED done
           \/ l = 7 /\ ~WellFormed(heard') /\ UNCHANGED done
           \/ /\ l = 7 /\ WellFormed(heard')
              /\ \E k \in Acks, w \in Words :
                   /\ plan' = Answer(Request(heard'), k, w)
                   /\ done' = IF k = Ok /\ Request(heard').read = 1
                                THEN Performed(Request(heard'), w) ELSE done
      BY Zenon, <1>4, <2>2, <2>4, <2>8, HeaderPerforms DEF l
    <2>10. \A j \in 1..(l + 1) : heard'[j] = Bits(asked)[j]
      <3>1. /\ \A i \in 1..l : Append(heard, b)[i] = heard[i]
            /\ Append(heard, b)[l + 1] = b
        <4>1. heard \in Seq(Bit) /\ b \in Bit
          BY Zenon, <1>4
        <4> HIDE DEF Bit
        <4> QED BY SMT, <4>1, AppendIs DEF l
      <3>2. \A j \in 1..(l + 1) : j \in 1..l \/ j = l + 1
        BY SMT, <2>4
      <3> QED BY Zenon, <2>2, <2>5, <2>9, <3>1, <3>2
    <2>11. CASE l < 7
      <3>1. target' = "header"
        BY SMT, <2>2, <2>9, <2>11
      <3>2. /\ n - 1 # turnaround + 12 /\ (l + 1) + (n - 1) = turnaround + 12
            /\ ~(n - 1 <= turnaround + 4)
        BY SMT, <1>1, <1>2, <1>4, <2>2, <2>11
      <3>3. done' = <<>>
        <4>1. l # 7
          BY SMT, <2>4, <2>11
        <4> QED BY Zenon, <2>2, <2>14, <4>1
      <3> QED BY Zenon, <1>1, <1>6, <2>9, <2>10, <3>1, <3>2, <3>3 DEF AskHeader
    <2>12. CASE l = 7
      <3>1. l + 1 = 8 /\ ~(l < 7) /\ n - 1 = turnaround + 4
        BY SMT, <1>1, <1>2, <2>2, <2>12
      <3>2. WellFormed(heard') /\ Request(heard').read = asked.read
        BY Zenon, <1>5, <2>9, <2>10, <3>1, RequestArrives
      <3>3. PICK k \in Acks, w \in Words :
              /\ plan' = Answer(Request(heard'), k, w)
              /\ done' = IF k = Ok /\ Request(heard').read = 1
                           THEN Performed(Request(heard'), w) ELSE done
        BY Zenon, <2>14, <3>1, <3>2
      <3>12. target' = "answer"
        BY Zenon, <2>9, <3>1, <3>2
      <3> DEFINE a == Answer(Request(heard'), k, w)
                 f == Follow(k)
      <3>4. Request(heard').read \in Bit
        BY Zenon, <2>9, <3>1, RequestReads
      <3>5. /\ Len(a) = f + (turnaround + 3)
            /\ \A j \in 1..3 : Left(a, f + j) = Driving(k[4 - j])
            /\ \A j \in 4..(turnaround + 3) : Left(a, f + j).act = "turn"
            /\ asked.read = 0 /\ (k = Ok \/ dataPhase) =>
                 \A j \in 1..(WordBits + 1) : Left(a, j).act \notin Foreign
        BY Zenon, <1>2, <3>2, <3>4, AnswerIs
      <3>6. Follow(k)' = f
        BY Zenon DEF Follow
      <3>7. a = plan'
        BY Zenon, <3>3
      <3> HIDE DEF a, f
      <3>8. /\ Len(script') > turnaround + 3 /\ ~(Len(script') <= 3)
            /\ Len(script') # turnaround + 12 /\ ~(turnaround + 4 < Len(script'))
        <4>1. /\ turnaround + 4 > turnaround + 3 /\ ~(turnaround + 4 <= 3)
              /\ turnaround + 4 # turnaround + 12 /\ ~(turnaround + 4 < turnaround + 4)
          BY SMT, <1>2
        <4> QED BY Zenon, <1>1, <3>1, <4>1
      <3>9. AskAnswer(k)'
        BY Zenon, <3>12, <3>5, <3>6, <3>7, <3>8 DEF AskAnswer
      <3>10. AskHeader'
        BY Zenon, <3>8 DEF AskHeader
      <3>11. k \in {Ok, Wait, Fault}
        BY Zenon DEF Acks
      <3>13. AskFollows(k)'
        <4>1. Len(heard') = 8 /\ \A j \in 1..8 : heard'[j] = Bits(asked)[j]
          BY Zenon, <2>9, <2>10, <3>1
        <4>2. turnaround' \in Turnarounds /\ turnaround' = turnaround /\ asked' = asked
          BY Zenon, <1>2
        <4> QED BY Zenon, <1>2, <1>5, <2>2, <2>9, <3>2, <3>3, <4>1, <4>2, AskFollowsBegins
      <3> QED BY Zenon, <3>9, <3>10, <3>11, <3>13
    <2> QED BY SMT, <2>4, <2>11, <2>12
  <1> QED BY Zenon, <1>9, <1>10

\* A request of which a bit has been inverted goes on, and comes to nothing.
LEMMA WrongGoesOn ==
  ASSUME Inv, target = "header", script # <<>>, Len(heard) + Len(script) = turnaround + 12,
         NEW x \in 2..(Len(heard) + 1),
         \A j \in 1..Len(heard) : heard[j] = IF j = x THEN 1 - Bits(asked)[j] ELSE Bits(asked)[j],
         NEW b \in Bit,
         b = IF Len(heard) + 1 = x THEN 1 - Bits(asked)[Len(heard) + 1]
             ELSE Bits(asked)[Len(heard) + 1],
         Hears(b), script' = Tail(script), UNCHANGED <<turnaround, asked>>
  PROVE  /\ done' = done /\ target' \in {"lost", "reset", "header"}
         /\ target' = "header" => WrongBit'
  <1> DEFINE n == Len(script)
             l == Len(heard)
             right == Bits(asked)
  <1>1. n \in Nat /\ n > 0 /\ Len(script') = n - 1
    BY Zenon, ScriptGoesOn DEF Inv, TypeInv, TypeOK
  <1>2. turnaround \in Nat
    BY Sizes DEF Inv, TypeInv, TypeOK
  <1>3. WireOK /\ heard \in Seq(Bit) /\ l \in 1..7 /\ asked \in Requests
    BY Zenon, TypesGiveWire DEF Inv, OnesInv, WireOK, TypeInv
  <1>4. /\ "header" # "answer" /\ "header" # "idle" /\ "header" # "reset" /\ "header" # "lost"
        /\ "reset" # "header"
    OBVIOUS
  <1>5. right' = right
    BY Zenon DEF Bits
  <1>6. CASE ones' = ResetBits
    <2>1. target' = "reset"
      <3>1. ~(ones' < ResetBits)
        BY SMT, <1>6, Sizes
      <3> QED BY Zenon, <1>3, <3>1, HearsCases
    <2> QED BY Zenon, <1>3, <1>4, <1>6, <2>1, HearsNothing
  <1>7. CASE ones' # ResetBits
    <2>1. Header(b)
      BY Zenon, <1>3, <1>4, <1>7, HearsCases
    <2> HIDE DEF n, l, right
    <2>2. /\ heard' = Append(heard, b) /\ heard' \in Seq(Bit) /\ Len(heard') = l + 1
          /\ \/ l < 7 /\ UNCHANGED <<target, plan>>
             \/ l = 7 /\ ~WellFormed(heard') /\ target' = "lost" /\ plan' = plan
             \/ /\ l = 7 /\ WellFormed(heard') /\ target' = "answer"
                /\ \E k \in Acks, w \in Words : plan' = Answer(Request(heard'), k, w)
      BY Zenon, <1>3, <2>1, HeaderIs DEF l
    <2>3. \/ l < 7 /\ UNCHANGED done
          \/ l = 7 /\ ~WellFormed(heard') /\ UNCHANGED done
          \/ /\ l = 7 /\ WellFormed(heard')
             /\ \E k \in Acks, w \in Words :
                  /\ plan' = Answer(Request(heard'), k, w)
                  /\ done' = IF k = Ok /\ Request(heard').read = 1
                               THEN Performed(Request(heard'), w) ELSE done
      BY Zenon, <1>3, <2>1, HeaderPerforms DEF l
    <2>4. ASSUME NEW j \in 1..(l + 1)
          PROVE  heard'[j] = IF j = x THEN 1 - right[j] ELSE right[j]
      <3>1. /\ \A i \in 1..l : Append(heard, b)[i] = heard[i]
            /\ Append(heard, b)[l + 1] = b
        <4>1. heard \in Seq(Bit) /\ b \in Bit
          BY Zenon, <1>3
        <4> HIDE DEF Bit
        <4> QED BY SMT, <4>1, AppendIs DEF l
      <3>2. j \in 1..l \/ j = l + 1
        BY SMT, <1>3
      <3>3. CASE j \in 1..l
        BY Zenon, <2>2, <3>1, <3>3 DEF l, right
      <3>4. CASE j = l + 1
        <4>1. heard'[j] = b
          BY Zenon, <2>2, <3>1, <3>4
        <4>2. b = IF l + 1 = x THEN 1 - right[l + 1] ELSE right[l + 1]
          BY Zenon DEF l, right
        <4> QED BY Zenon, <3>4, <4>1, <4>2
      <3> QED BY Zenon, <3>2, <3>3, <3>4
    <2>5. CASE l < 7
      <3>1. l # 7
        BY SMT, <1>3, <2>5
      <3>2. target' = "header" /\ done' = done
        BY Zenon, <2>2, <2>3, <3>1
      <3>3. n - 1 > turnaround + 4 /\ (l + 1) + (n - 1) = turnaround + 12 /\ x \in 2..(l + 1)
        <4>1. l + n = turnaround + 12 /\ x \in 2..(l + 1)
          BY Zenon DEF l, n
        <4> QED BY SMT, <1>1, <1>2, <1>3, <2>5, <4>1
      <3>5. turnaround' = turnaround /\ Bits(asked)' = right
        BY Zenon, <1>5 DEF right
      <3>6. Len(script') > turnaround' + 4 /\ Len(heard') + Len(script') = turnaround' + 12
        BY Zenon, <1>1, <2>2, <3>3, <3>5 DEF n
      <3>7. \A j \in 1..Len(heard') :
              heard'[j] = IF j = x THEN 1 - Bits(asked)'[j] ELSE Bits(asked)'[j]
        BY Zenon, <2>2, <2>4, <3>5
      <3>8. x \in 2..Len(heard')
        BY Zenon, <2>2, <3>3
      <3>4. WrongBit'
        BY Zenon, <3>6, <3>7, <3>8 DEF WrongBit
      <3> QED BY Zenon, <3>2, <3>4
    <2>6. CASE l = 7
      <3>1. l + 1 = 8 /\ ~(l < 7) /\ x \in 2..8
        <4>1. x \in 2..(l + 1)
          BY Zenon DEF l
        <4> QED BY SMT, <2>6, <4>1
      <3>2. \A j \in 1..8 : heard'[j] = IF j = x THEN 1 - Bits(asked)[j] ELSE Bits(asked)[j]
        BY Zenon, <2>4, <3>1 DEF right
      <3>3. ~WellFormed(heard')
        BY Zenon, <1>3, <2>2, <3>1, <3>2, WrongRequest
      <3> QED BY Zenon, <1>4, <2>2, <2>3, <3>1, <3>3
    <2> QED BY SMT, <1>3, <2>5, <2>6
  <1> QED BY Zenon, <1>6, <1>7

\* A bit of the request that is inverted.
LEMMA HeaderFlip ==
  ASSUME Inv, Asking, script # <<>>, Len(script) > turnaround + 4,
         NEW b \in Bit, b = 1 - Bits(asked)[turnaround + 13 - Len(script)],
         Hears(b), script' = Tail(script), UNCHANGED <<turnaround, asked>>
  PROVE  /\ done' = <<>> /\ target' \in {"lost", "reset", "idle", "header"}
         /\ target' = "idle" => Len(script') < turnaround + 12
         /\ target' = "header" => LateStart' \/ WrongBit'
  <1> DEFINE n == Len(script)
             l == Len(heard)
  <1>1. /\ n \in Nat /\ n > 0 /\ Len(script') = n - 1
    BY Zenon, ScriptGoesOn DEF Inv, TypeInv, TypeOK
  <1>2. turnaround \in Nat
    BY Sizes DEF Inv, TypeInv, TypeOK
  <1>3. WireOK /\ heard \in Seq(Bit) /\ asked \in Requests
    BY Zenon, TypesGiveWire DEF Inv, WireOK, TypeInv
  <1>4. /\ "header" # "answer" /\ "idle" # "answer" /\ "header" # "idle" /\ "header" # "reset"
        /\ "header" # "lost" /\ "idle" # "lost" /\ "idle" # "reset"
    OBVIOUS
  <1>5. n <= turnaround + 12 /\ n > turnaround + 4
    BY Zenon DEF Asking, AskOps
  <1>6. CASE n = turnaround + 12
    <2>1. target = "idle" /\ done = <<>>
      BY Zenon, <1>6 DEF Asking, AskHeader
    <2>2. b = 0
      <3>1. turnaround + 13 - n = 1
        BY SMT, <1>2, <1>6
      <3>2. Bits(asked)[1] = 1
        <4>1. asked.ap \in Bit /\ asked.read \in Bit /\ asked.a2 \in Bit /\ asked.a3 \in Bit
          BY <1>3 DEF Requests
        <4> QED BY Zenon, <4>1, BitsAre
      <3>3. b = 1 - 1
        BY Zenon, <3>1, <3>2
      <3> QED BY SMT, <3>3
    <2>3. ones' # ResetBits /\ b # 1
      <3>1. ones' = 0
        BY Zenon, <1>3, <2>2, HearsCases
      <3> QED BY SMT, <2>2, <3>1, Sizes, SizesAreLegal
    <2>4. target' = "idle"
      BY Zenon, <1>3, <1>4, <2>1, <2>3, HearsCases
    <2>5. done' = <<>>
      BY Zenon, <1>3, <2>1, HearsNothing
    <2> HIDE DEF n
    <2>6. n - 1 < turnaround + 12
      BY SMT, <1>1, <1>2, <1>6
    <2> QED BY Zenon, <1>1, <1>4, <2>4, <2>5, <2>6
  <1>7. CASE n # turnaround + 12
    <2>1. n < turnaround + 12 /\ turnaround + 4 < n
      <3> HIDE DEF n
      <3> QED BY SMT, <1>1, <1>2, <1>5, <1>7
    <2>2. /\ target = "header" /\ l + n = turnaround + 12 /\ done = <<>>
          /\ \A j \in 1..l : heard[j] = Bits(asked)[j]
      BY Zenon, <2>1 DEF Asking, AskHeader
    <2>3. l \in 1..7
      BY Zenon, <2>2 DEF Inv, OnesInv
    <2> DEFINE x == l + 1
    <2>4. \A j \in 1..l : heard[j] = IF j = x THEN 1 - Bits(asked)[j] ELSE Bits(asked)[j]
      <3>1. \A j \in 1..l : j # x
        <4> HIDE DEF l
        <4> QED BY SMT, <2>3
      <3> QED BY Zenon, <2>2, <3>1
    <2>5. b = IF l + 1 = x THEN 1 - Bits(asked)[l + 1] ELSE Bits(asked)[l + 1]
      <3>1. turnaround + 13 - n = l + 1
        <4> HIDE DEF l, n
        <4> QED BY SMT, <1>1, <1>2, <2>2, <2>3
      <3> QED BY Zenon, <3>1
    <2>6. x \in 2..(l + 1)
      <3> HIDE DEF l
      <3> QED BY SMT, <2>3
    <2> HIDE DEF x
    <2>7. /\ done' = done /\ target' \in {"lost", "reset", "header"}
          /\ target' = "header" => WrongBit'
      BY Zenon, <2>2, <2>4, <2>5, <2>6, WrongGoesOn
    <2>8. "idle" \notin {"lost", "reset", "header"}
      OBVIOUS
    <2> QED BY Zenon, <2>2, <2>7, <2>8
  <1> QED BY Zenon, <1>6, <1>7

\* The pins and what has been read, in a cycle and where SWDIO becomes an input.
LEMMA AskPinsGoOn ==
  ASSUME Inv, AskOps, AskPins, script # <<>>, Head(script).op \in {"write", "read", "clock"},
         NEW b, got' = IF Head(script).op = "read" THEN Append(got, b) ELSE got,
         script' = Tail(script), UNCHANGED <<turnaround, out>>
  PROVE  AskPins' /\ Len(script) # turnaround + 4
  <1> DEFINE n == Len(script)
  <1>1. /\ n \in Nat /\ n > 0 /\ Len(script') = n - 1
    BY Zenon, ScriptGoesOn DEF Inv, TypeInv, TypeOK
  <1>2. turnaround \in Nat
    BY Sizes DEF Inv, TypeInv, TypeOK
  <1>3. /\ n <= 3 => Head(script).op = "read"
        /\ 3 < n /\ n <= turnaround + 3 => Head(script).op = "clock"
        /\ n = turnaround + 4 => Head(script).op = "input"
        /\ n > turnaround + 4 => Head(script).op = "write"
    BY Zenon, AskHead
  <1>4. /\ "swdio" \in out <=> n > turnaround + 3
        /\ n > 3 => got = <<>>
    BY Zenon DEF AskPins
  <1>5. n # turnaround + 4
    BY <1>3
  <1>6. n > 3 => Head(script).op # "read"
    <2>1. n > 3 => (3 < n /\ n <= turnaround + 3) \/ n > turnaround + 4
      <3> HIDE DEF n
      <3> QED BY SMT, <1>1, <1>2, <1>5
    <2> QED BY <1>3, <2>1
  <1> HIDE DEF n
  <1>7. (n - 1 > turnaround + 3 <=> n > turnaround + 3) /\ (n - 1 > 3 => n > 3)
    BY SMT, <1>1, <1>2, <1>5
  <1>8. turnaround' = turnaround /\ out' = out
    OBVIOUS
  <1> QED BY Zenon, <1>1, <1>4, <1>5, <1>6, <1>7, <1>8 DEF AskPins, n

LEMMA AskPinsSet ==
  ASSUME Inv, AskOps, AskPins, SetPin
  PROVE  AskPins' /\ Len(script) = turnaround + 4
  <1>1. /\ script # <<>> /\ ~InCycle /\ script' = Tail(script)
        /\ UNCHANGED <<turnaround, got>>
        /\ out' = CASE Head(script).op = "output" -> out \cup {"swdio"}
                    [] Head(script).op = "input" -> out \ {"swdio"}
                    [] OTHER -> out
    BY Zenon DEF SetPin, config, reply
  <1> DEFINE n == Len(script)
  <1>3. n \in Nat /\ n > 0 /\ Len(script') = n - 1
    BY Zenon, <1>1, ScriptGoesOn DEF Inv, TypeInv, TypeOK
  <1>4. turnaround \in Nat /\ turnaround > 0
    BY Sizes DEF Inv, TypeInv, TypeOK
  <1>6. /\ n <= 3 => Head(script).op = "read"
        /\ 3 < n /\ n <= turnaround + 3 => Head(script).op = "clock"
        /\ n = turnaround + 4 => Head(script).op = "input"
        /\ n > turnaround + 4 => Head(script).op = "write"
    BY Zenon, <1>1, AskHead
  <1>7. n = turnaround + 4
    <2>1. ~(Head(script).op \in {"write", "read", "clock"})
      BY Zenon, <1>1 DEF InCycle
    <2>2. n <= 3 \/ (3 < n /\ n <= turnaround + 3) \/ n = turnaround + 4 \/ n > turnaround + 4
      <3> HIDE DEF n
      <3> QED BY SMT, <1>3, <1>4
    <2> QED BY Zenon, <1>6, <2>1, <2>2
  <1>8. "swdio" \notin out'
    <2>1. out' = out \ {"swdio"}
      BY <1>1, <1>6, <1>7
    <2> QED BY <2>1
  <1> HIDE DEF n
  <1>10. n > 3 /\ ~(n - 1 > turnaround + 3)
    BY SMT, <1>3, <1>4, <1>7
  <1>11. got = <<>>
    BY Zenon, <1>10 DEF AskPins, n
  <1>12. turnaround' = turnaround /\ got' = got
    BY <1>1
  <1> QED BY Zenon, <1>1, <1>3, <1>7, <1>8, <1>10, <1>11, <1>12 DEF AskPins, n

\* A cycle in which the target answers.
LEMMA AnswerCycle ==
  ASSUME Inv, Asking, script # <<>>, Len(script) <= turnaround + 3,
         NEW f \in Bit, f = 1 => ~inverted, inverted' = (inverted \/ f = 1),
         NEW b \in Bit, b = (Line + f) % 2, Hears(b),
         got' = IF Head(script).op = "read" THEN Append(got, b) ELSE got,
         script' = Tail(script), UNCHANGED <<turnaround, dataPhase, asked>>
  PROVE  /\ AskHeader'
         /\ \E k \in {Ok, Wait, Fault} : AskAnswer(k)' /\ AskFollows(k)'
  <1> DEFINE n == Len(script)
  <1>1. /\ n \in Nat /\ n > 0 /\ Len(script') = n - 1
    BY Zenon, ScriptGoesOn DEF Inv, TypeInv, TypeOK
  <1>2. turnaround \in Nat /\ turnaround > 0 /\ WordBits \in Nat /\ n <= turnaround + 3
    BY Sizes DEF Inv, TypeInv, TypeOK
  <1>3. PICK k \in {Ok, Wait, Fault} : AskAnswer(k) /\ AskFollows(k)
    <2>1. n <= turnaround + 4
      <3> HIDE DEF n
      <3> QED BY SMT, <1>1, <1>2
    <2> QED BY Zenon, <2>1 DEF Asking
  <1> DEFINE c == Follow(k)
  <1>4. Follow(k)' = c
    BY Zenon DEF Follow
  <1>5. c \in Nat /\ c > 0 /\ (k = Ok \/ dataPhase => WordBits + 1 <= c)
    BY SMT, <1>2 DEF Follow
  <1>6. /\ target = "answer"
        /\ \A j \in 1..3 : j <= n => Left(plan, c + j) = Driving(k[4 - j])
        /\ \A j \in 4..(turnaround + 3) : j <= n => Left(plan, c + j).act = "turn"
        /\ n <= 3 => Len(got) + n = 3 /\ Nearly(got, k, inverted)
        /\ asked.read = 0 /\ (k = Ok \/ dataPhase) =>
             \A j \in 1..(WordBits + 1) : Left(plan, j).act \notin Foreign
    BY Zenon, <1>3 DEF AskAnswer
  <1>7. Len(plan) = c + n
    <2>1. Len(plan) = c + (IF n > turnaround + 3 THEN turnaround + 3 ELSE n)
      BY Zenon, <1>3 DEF AskAnswer
    <2> HIDE DEF n
    <2>2. ~(n > turnaround + 3)
      BY SMT, <1>1, <1>2
    <2> QED BY Zenon, <2>1, <2>2
  <1>8. /\ Len(plan') = Len(plan) - 1
        /\ Head(plan) = Left(plan, Len(plan))
        /\ \A i \in 1..(Len(plan) - 1) : Left(plan', i) = Left(plan, i)
        /\ Len(plan) # 1 => target' = "answer"
    BY Zenon, <1>6, PlanGoesOn
  <1>9. /\ n <= 3 => Head(script).op = "read"
        /\ n > 3 => Head(script).op = "clock"
    BY Zenon, <1>2, AskHead DEF Asking
  <1>10. got \in Seq(Bit) /\ (n > 3 => got = <<>>)
    BY Zenon DEF Inv, TypeInv, TypeOK, Asking, AskPins
  <1> HIDE DEF n, c
  <1>11. Len(plan) # 1 /\ Len(plan) - 1 = c + (n - 1)
    BY SMT, <1>1, <1>5, <1>7
  <1>12. target' = "answer" /\ Len(plan') = c + (n - 1)
    BY Zenon, <1>8, <1>11
  <1>13. /\ ~(n - 1 > turnaround + 3) /\ n - 1 # turnaround + 12 /\ ~(turnaround + 4 < n - 1)
    BY SMT, <1>1, <1>2
  <1>14. ASSUME NEW j \in 1..3, j <= n - 1
         PROVE  Left(plan', c + j) = Driving(k[4 - j])
    <2>1. c + j \in 1..(c + (n - 1)) /\ j <= n
      BY SMT, <1>1, <1>5, <1>14
    <2> QED BY Zenon, <1>6, <1>8, <1>11, <2>1
  <1>15. ASSUME NEW j \in 4..(turnaround + 3), j <= n - 1
         PROVE  Left(plan', c + j).act = "turn"
    <2>1. c + j \in 1..(c + (n - 1)) /\ j <= n
      BY SMT, <1>1, <1>2, <1>5, <1>15
    <2> QED BY Zenon, <1>6, <1>8, <1>11, <2>1
  <1>16. ASSUME asked.read = 0, k = Ok \/ dataPhase, NEW j \in 1..(WordBits + 1)
         PROVE  Left(plan', j).act \notin Foreign
    <2>1. j \in 1..(c + (n - 1))
      BY SMT, <1>1, <1>2, <1>5, <1>16
    <2> QED BY Zenon, <1>6, <1>8, <1>11, <1>16, <2>1
  <1>17. ASSUME n - 1 <= 3
         PROVE  Len(got') + (n - 1) = 3 /\ Nearly(got', k, inverted')
    <2>1. CASE n > 3
      <3>1. n - 1 = 3 /\ Head(script).op = "clock"
        BY SMT, <1>1, <1>9, <1>17, <2>1
      <3>2. got' = <<>>
        <4>1. "clock" # "read"
          OBVIOUS
        <4> QED BY Zenon, <1>10, <2>1, <3>1, <4>1
      <3>3. Len(got') = 0 /\ 0 + 3 = 3
        <4>1. Len(<<>>) = 0 /\ 0 + 3 = 3
          OBVIOUS
        <4> QED BY Zenon, <3>2, <4>1
      <3>4. Nearly(got', k, inverted')
        BY Zenon, <3>2, NearlyNothing
      <3> QED BY Zenon, <3>1, <3>3, <3>4
    <2>2. CASE n <= 3
      <3> DEFINE g == Len(got)
      <3>1. g \in Nat /\ g + n = 3 /\ Nearly(got, k, inverted)
        BY <1>6, <1>10, <2>2
      <3>2. got' = Append(got, b)
        BY <1>9, <2>2
      <3>3. n \in 1..3 /\ n <= n
        BY SMT, <1>1, <2>2
      <3>4. Head(plan) = Driving(k[4 - n])
        BY Zenon, <1>6, <1>7, <1>8, <3>3
      <3>5. Line = k[4 - n]
        <4>1. plan # <<>>
          BY Zenon, <1>6 DEF Inv, OnesInv
        <4>2. Head(plan).act = "drive" /\ Head(plan).bit = k[4 - n]
          BY <3>4 DEF Driving
        <4>3. TargetDrives
          BY Zenon, <1>6, <4>1, <4>2 DEF TargetDrives
        <4> QED BY Zenon, <4>2, <4>3 DEF Line
      <3>6. 4 - n = g + 1 /\ (g + 1) + (n - 1) = 3 /\ g + 1 \in 1..3
        <4> HIDE DEF g
        <4> QED BY SMT, <1>1, <3>1, <3>3
      <3>7. k[g + 1] \in Bit
        <4>1. k \in Seq(Bit) /\ Len(k) = 3
          BY Zenon, AcksAre DEF Acks
        <4> HIDE DEF g
        <4> QED BY Zenon, <3>6, <4>1, ElementOfSeq
      <3>8. b = (k[Len(got) + 1] + f) % 2 /\ k[Len(got) + 1] \in Bit
        BY Zenon, <3>5, <3>6, <3>7
      <3>9. inverted \in BOOLEAN
        BY Zenon DEF Inv, TypeInv, TypeOK
      <3>10. Len(Append(got, b)) = g + 1 /\ Nearly(Append(got, b), k, inverted \/ f = 1)
        <4>1. got \in Seq(Bit) /\ Nearly(got, k, inverted) /\ k[Len(got) + 1] \in Bit
          BY Zenon, <1>10, <3>1, <3>8
        <4>2. b = (k[Len(got) + 1] + f) % 2 /\ (f = 1 => ~inverted)
          BY Zenon, <3>8
        <4>3. Len(Append(got, b)) = Len(got) + 1 /\ Nearly(Append(got, b), k, inverted \/ f = 1)
          BY <3>9, <4>1, <4>2, NearlyGoesOn
        <4> QED BY Zenon, <4>3
      <3> QED BY Zenon, <3>2, <3>6, <3>10
    <2>3. n > 3 \/ n <= 3
      BY SMT, <1>1
    <2> QED BY Zenon, <2>1, <2>2, <2>3
  <1>18. AskAnswer(k)'
    <2>1. Len(plan') = c + (IF n - 1 > turnaround + 3 THEN turnaround + 3 ELSE n - 1)
      BY Zenon, <1>12, <1>13
    <2> QED BY Zenon, <1>1, <1>4, <1>12, <1>14, <1>15, <1>16, <1>17, <2>1 DEF AskAnswer
  <1>19. AskHeader'
    BY Zenon, <1>1, <1>13 DEF AskHeader
  <1>20. AskFollows(k)'
    <2>1. k = Ok => Len(plan) > WordBits + 1
      <3>1. k = Ok => c = WordBits + 1 + turnaround
        BY Zenon DEF c, Follow
      <3> QED BY SMT, <1>1, <1>2, <1>7, <3>1
    <2> QED BY Zenon, <1>3, <1>6, <1>11, <2>1, AskFollowsGoesOn
  <1> QED BY Zenon, <1>3, <1>18, <1>19, <1>20

\* A request that has begun too late has a one for its stop bit.
LEMMA LateGoesOn ==
  ASSUME Inv, target = "header", Len(heard) = 7 => heard[7] = 1,
         NEW b \in Bit, Len(heard) = 6 => b = 1, Hears(b)
  PROVE  /\ done' = done /\ target' \in {"lost", "reset", "header"}
         /\ Len(heard) \in 1..7
         /\ target' = "header" =>
              Len(heard') = Len(heard) + 1 /\ (Len(heard') = 7 => heard'[7] = 1)
  <1> DEFINE l == Len(heard)
  <1>3. WireOK /\ heard \in Seq(Bit) /\ l \in 1..7
    BY Zenon, TypesGiveWire DEF Inv, OnesInv, WireOK
  <1>4. /\ "header" # "answer" /\ "header" # "idle" /\ "header" # "reset" /\ "header" # "lost"
        /\ "reset" # "header"
    OBVIOUS
  <1>6. CASE ones' = ResetBits
    <2>1. target' = "reset"
      <3>1. ~(ones' < ResetBits)
        BY SMT, <1>6, Sizes
      <3> QED BY Zenon, <1>3, <3>1, HearsCases
    <2> QED BY Zenon, <1>3, <1>4, <1>6, <2>1, HearsNothing
  <1>7. CASE ones' # ResetBits
    <2>1. Header(b)
      BY Zenon, <1>3, <1>4, <1>7, HearsCases
    <2>8. (l = 7 => heard[7] = 1) /\ (l = 6 => b = 1)
      OBVIOUS
    <2> HIDE DEF l
    <2>2. /\ heard' = Append(heard, b) /\ heard' \in Seq(Bit) /\ Len(heard') = l + 1
          /\ \/ l < 7 /\ UNCHANGED <<target, plan>>
             \/ l = 7 /\ ~WellFormed(heard') /\ target' = "lost" /\ plan' = plan
             \/ /\ l = 7 /\ WellFormed(heard') /\ target' = "answer"
                /\ \E k \in Acks, w \in Words : plan' = Answer(Request(heard'), k, w)
      BY Zenon, <1>3, <2>1, HeaderIs DEF l
    <2>3. \/ l < 7 /\ UNCHANGED done
          \/ l = 7 /\ ~WellFormed(heard') /\ UNCHANGED done
          \/ /\ l = 7 /\ WellFormed(heard')
             /\ \E k \in Acks, w \in Words :
                  /\ plan' = Answer(Request(heard'), k, w)
                  /\ done' = IF k = Ok /\ Request(heard').read = 1
                               THEN Performed(Request(heard'), w) ELSE done
      BY Zenon, <1>3, <2>1, HeaderPerforms DEF l
    <2>4. /\ \A i \in 1..l : Append(heard, b)[i] = heard[i]
          /\ Append(heard, b)[l + 1] = b
      <3>1. heard \in Seq(Bit) /\ b \in Bit
        BY Zenon, <1>3
      <3> HIDE DEF Bit
      <3> QED BY SMT, <3>1, AppendIs DEF l
    <2>5. CASE l < 7
      <3>1. l # 7 /\ (l + 1 = 7 => l = 6)
        BY SMT, <1>3, <2>5
      <3>2. target' = "header" /\ done' = done
        BY Zenon, <2>2, <2>3, <3>1
      <3>3. ASSUME Len(heard') = 7 PROVE heard'[7] = 1
        <4>1. l + 1 = 7
          BY Zenon, <2>2, <3>3
        <4> QED BY Zenon, <2>2, <2>4, <2>8, <3>1, <4>1
      <3> QED BY Zenon, <1>3, <2>2, <3>2, <3>3 DEF l
    <2>6. CASE l = 7
      <3>1. l + 1 = 8 /\ ~(l < 7) /\ 7 \in 1..l /\ 1 # 0
        BY SMT, <2>6
      <3>2. heard'[7] = 1
        BY Zenon, <2>2, <2>4, <2>6, <2>8, <3>1
      <3>3. ~WellFormed(heard')
        BY Zenon, <3>1, <3>2 DEF WellFormed
      <3> QED BY Zenon, <1>3, <1>4, <2>2, <2>3, <3>1, <3>3 DEF l
    <2> QED BY SMT, <1>3, <2>5, <2>6
  <1> QED BY Zenon, <1>6, <1>7

\* A target that does not answer leaves the line to the probe, or high.
LEMMA InVainLine ==
  ASSUME Inv, AskOps, AskPins, script # <<>>, Head(script).op \in {"write", "read", "clock"},
         Head(script).op = "write" => level'["swdio"] = Head(script).bit,
         target # "answer"
  PROVE  /\ Len(script) > turnaround + 4 => Line = Bits(asked)[turnaround + 13 - Len(script)]
         /\ ~(Len(script) > turnaround + 4) => Line = 1
  <1> DEFINE n == Len(script)
  <1>1. n \in Nat /\ n > 0 /\ turnaround \in Nat
    <2>1. script \in Seq(Operations) /\ turnaround \in Turnarounds
      BY Zenon DEF Inv, TypeInv, TypeOK
    <2>2. n \in Nat
      BY <2>1
    <2>3. n > 0
      BY Zenon, <2>1, LeftOfTail
    <2> QED BY Zenon, <2>1, <2>2, <2>3, Sizes
  <1>2. /\ n = turnaround + 4 => Head(script).op = "input"
        /\ n > turnaround + 4 =>
             /\ Head(script).op = "write"
             /\ Head(script).bit = Bits(asked)[turnaround + 13 - n]
    BY Zenon, AskHead
  <1>3. "swdio" \in out <=> n > turnaround + 3
    BY Zenon DEF AskPins
  <1>4. n # turnaround + 4
    BY <1>2
  <1>5. n > turnaround + 4 <=> n > turnaround + 3
    <2> HIDE DEF n
    <2> QED BY SMT, <1>1, <1>4
  <1> QED BY Zenon, <1>2, <1>3, <1>5 DEF Line, TargetDrives

\* The bits that are read of an answer that does not come.
LEMMA InVainGot ==
  ASSUME Inv, AskOps, AskPins, script # <<>>, script' = Tail(script),
         Len(script) <= 3 => Len(got) + Len(script) = 3 /\ \A j \in 1..Len(got) : got[j] = 1,
         NEW b \in Bit, Len(script) <= 3 => b = 1,
         got' = IF Head(script).op = "read" THEN Append(got, b) ELSE got,
         Len(script) # turnaround + 4
  PROVE  Len(script') <= 3 => Len(got') + Len(script') = 3 /\ \A j \in 1..Len(got') : got'[j] = 1
  <1> DEFINE n == Len(script)
             g == Len(got)
  <1>1. n \in Nat /\ n > 0 /\ Len(script') = n - 1
    BY Zenon, ScriptGoesOn DEF Inv, TypeInv, TypeOK
  <1>2. turnaround \in Nat /\ turnaround > 0 /\ got \in Seq(Bit)
    BY Sizes DEF Inv, TypeInv, TypeOK
  <1>3. /\ n <= 3 => Head(script).op = "read"
        /\ 3 < n /\ n <= turnaround + 3 => Head(script).op = "clock"
    BY Zenon, AskHead
  <1>4. n > 3 => got = <<>>
    BY Zenon DEF AskPins
  <1>5. n <= 3 => g + n = 3 /\ (\A j \in 1..g : got[j] = 1) /\ b = 1
    OBVIOUS
  <1>6. g \in Nat /\ (got = <<>> => g = 0)
    BY <1>2
  <1>7. CASE n <= 3
    <2>1. got' = Append(got, b) /\ b = 1
      BY Zenon, <1>3, <1>7
    <2>2. /\ Len(Append(got, b)) = g + 1 /\ \A i \in 1..g : Append(got, b)[i] = got[i]
          /\ Append(got, b)[g + 1] = b
      <3>1. got \in Seq(Bit) /\ b \in Bit
        BY Zenon, <1>2
      <3> HIDE DEF Bit
      <3> QED BY <3>1, AppendIs
    <2> HIDE DEF n, g
    <2>3. (\A j \in 1..(g + 1) : j \in 1..g \/ j = g + 1) /\ (g + 1) + (n - 1) = 3
      BY SMT, <1>1, <1>5, <1>6, <1>7
    <2> QED BY Zenon, <1>1, <1>5, <1>7, <2>1, <2>2, <2>3
  <1>8. CASE n > 3 /\ n - 1 <= 3
    <2>1. n <= turnaround + 3
      <3> HIDE DEF n
      <3> QED BY SMT, <1>1, <1>2, <1>8
    <2>2. got' = <<>>
      <3>1. "clock" # "read"
        OBVIOUS
      <3> QED BY Zenon, <1>3, <1>4, <1>8, <2>1, <3>1
    <2>3. Len(<<>>) = 0 /\ \A j : j \notin 1..0
      OBVIOUS
    <2>4. 0 + (n - 1) = 3
      <3> HIDE DEF n
      <3> QED BY SMT, <1>1, <1>8
    <2> QED BY Zenon, <1>1, <2>2, <2>3, <2>4
  <1>9. CASE ~(n - 1 <= 3)
    BY Zenon, <1>1, <1>9
  <1>10. n <= 3 \/ (n > 3 /\ n - 1 <= 3) \/ ~(n - 1 <= 3)
    <2> HIDE DEF n
    <2> QED BY SMT, <1>1
  <1> QED BY Zenon, <1>7, <1>8, <1>9, <1>10

\* A cycle of a request that the target does not answer.
LEMMA InVainCycle ==
  ASSUME Inv, AskingInVain, script # <<>>, Head(script).op \in {"write", "read", "clock"},
         Head(script).op = "write" => level'["swdio"] = Head(script).bit,
         NEW b \in Bit, b = Line, Hears(b), inverted' = inverted,
         got' = IF Head(script).op = "read" THEN Append(got, b) ELSE got,
         script' = Tail(script), UNCHANGED <<turnaround, out, asked>>
  PROVE  AskingInVain'
  <1> DEFINE n == Len(script)
             l == Len(heard)
  <1>1. n \in Nat /\ n > 0 /\ Len(script') = n - 1
    BY Zenon, ScriptGoesOn DEF Inv, TypeInv, TypeOK
  <1>2. turnaround \in Nat /\ turnaround > 0
    BY Sizes DEF Inv, TypeInv, TypeOK
  <1>3. WireOK /\ heard \in Seq(Bit) /\ asked \in Requests
    BY Zenon, TypesGiveWire DEF Inv, WireOK, TypeInv
  <1>4. /\ "header" # "answer" /\ "idle" # "answer" /\ "header" # "idle" /\ "header" # "reset"
        /\ "header" # "lost" /\ "idle" # "lost" /\ "idle" # "reset" /\ "lost" # "reset"
        /\ "lost" # "answer" /\ "reset" # "answer"
    OBVIOUS
  <1>5. /\ AskOps /\ AskPins /\ inverted /\ done = <<>>
        /\ n <= 3 => Len(got) + n = 3 /\ \A j \in 1..Len(got) : got[j] = 1
        /\ target \in {"lost", "reset", "idle", "header"}
        /\ target = "idle" => n < turnaround + 12
        /\ target = "header" => LateStart \/ WrongBit
    BY Zenon DEF AskingInVain
  <1>6. n <= turnaround + 12
    BY Zenon, <1>5 DEF AskOps
  <1>7. AskOps' /\ AskPins' /\ n # turnaround + 4
    BY Zenon, <1>5, AskOpsGoOn, AskPinsGoOn
  <1>8. /\ n > turnaround + 4 => b = Bits(asked)[turnaround + 13 - n]
        /\ ~(n > turnaround + 4) => b = 1
    <2>1. target # "answer"
      BY Zenon, <1>4, <1>5
    <2> QED BY Zenon, <1>5, <2>1, InVainLine
  <1>9. n - 1 <= 3 => Len(got') + (n - 1) = 3 /\ \A j \in 1..Len(got') : got'[j] = 1
    <2>1. n <= 3 => b = 1
      <3>1. n <= 3 => ~(n > turnaround + 4)
        <4> HIDE DEF n
        <4> QED BY SMT, <1>1, <1>2
      <3> QED BY Zenon, <1>8, <3>1
    <2>2. Len(script') <= 3 => Len(got') + Len(script') = 3 /\ \A j \in 1..Len(got') : got'[j] = 1
      BY Zenon, <1>5, <1>7, <2>1, InVainGot
    <2> QED BY Zenon, <1>1, <2>2
  <1>10. /\ done' = done /\ target' \in {"lost", "reset", "idle", "header"}
         /\ target' = "idle" => n - 1 < turnaround + 12
         /\ target' = "header" => LateStart' \/ WrongBit'
    <2>1. n - 1 < turnaround + 12
      <3> HIDE DEF n
      <3> QED BY SMT, <1>1, <1>2, <1>6
    <2>2. CASE target \in {"lost", "reset"}
      <3>1. done' = done
        BY Zenon, <1>3, <2>2, HearsNothing
      <3>2. target' \in {"lost", "reset", "idle"}
        BY Zenon, <1>3, <1>4, <2>2, HearsCases
      <3> QED BY Zenon, <1>4, <2>1, <3>1, <3>2
    <2>3. CASE target = "idle"
      <3>1. done' = done
        BY Zenon, <1>3, <2>3, HearsNothing
      <3>2. target' \in {"idle", "reset"} \/ (target' = "header" /\ heard' = <<1>>)
        BY Zenon, <1>3, <1>4, <2>3, HearsCases
      <3>3. n < turnaround + 12
        BY Zenon, <1>5, <2>3
      <3>4. heard' = <<1>> => LateStart'
        <4>1. Len(<<1>>) = 1
          OBVIOUS
        <4>2. 1 # 7 /\ 1 + (n - 1) < turnaround + 12
          <5> HIDE DEF n
          <5> QED BY SMT, <1>1, <1>2, <3>3
        <4>3. turnaround' = turnaround
          OBVIOUS
        <4> QED BY Zenon, <1>1, <4>1, <4>2, <4>3 DEF LateStart
      <3> QED BY Zenon, <1>4, <2>1, <3>1, <3>2, <3>4
    <2>4. CASE target = "header" /\ LateStart
      <3>1. /\ n > turnaround + 4 => l + n < turnaround + 12
            /\ l = 7 => heard[7] = 1
        BY Zenon, <2>4 DEF LateStart
      <3>2. l = 6 => b = 1
        <4>1. CASE n > turnaround + 4 /\ l = 6
          <5>1. turnaround + 13 - n = 8
            <6> HIDE DEF n, l
            <6> QED BY SMT, <1>1, <1>2, <3>1, <4>1
          <5>2. Bits(asked)[8] = 1
            <6>1. asked.ap \in Bit /\ asked.read \in Bit /\ asked.a2 \in Bit /\ asked.a3 \in Bit
              BY <1>3 DEF Requests
            <6> QED BY Zenon, <6>1, BitsAre
          <5> QED BY Zenon, <1>8, <4>1, <5>1, <5>2
        <4> QED BY Zenon, <1>8, <4>1
      <3>3. /\ done' = done /\ target' \in {"lost", "reset", "header"} /\ l \in 1..7
            /\ target' = "header" =>
                 Len(heard') = l + 1 /\ (Len(heard') = 7 => heard'[7] = 1)
        BY Zenon, <2>4, <3>1, <3>2, LateGoesOn
      <3>4. n - 1 > turnaround + 4 => (l + 1) + (n - 1) < turnaround + 12
        <4> HIDE DEF n, l
        <4> QED BY SMT, <1>1, <1>2, <3>1, <3>3
      <3>5. turnaround' = turnaround
        OBVIOUS
      <3>6. target' = "header" => LateStart'
        BY Zenon, <1>1, <3>3, <3>4, <3>5 DEF LateStart
      <3> QED BY Zenon, <1>4, <2>1, <3>3, <3>6
    <2>5. CASE target = "header" /\ WrongBit
      <3>1. n > turnaround + 4 /\ l + n = turnaround + 12
        BY Zenon, <2>5 DEF WrongBit
      <3>2. PICK x \in 2..l :
              \A j \in 1..l : heard[j] = IF j = x THEN 1 - Bits(asked)[j] ELSE Bits(asked)[j]
        BY Zenon, <2>5 DEF WrongBit
      <3>3. l \in 1..7
        BY Zenon, <2>5 DEF Inv, OnesInv
      <3>4. x \in 2..(l + 1) /\ l + 1 # x /\ turnaround + 13 - n = l + 1
        <4> HIDE DEF n, l
        <4> QED BY SMT, <1>1, <1>2, <3>1, <3>2, <3>3
      <3>5. b = IF l + 1 = x THEN 1 - Bits(asked)[l + 1] ELSE Bits(asked)[l + 1]
        BY Zenon, <1>8, <3>1, <3>4
      <3>6. /\ done' = done /\ target' \in {"lost", "reset", "header"}
            /\ target' = "header" => WrongBit'
        BY Zenon, <2>5, <3>1, <3>2, <3>4, <3>5, WrongGoesOn
      <3> QED BY Zenon, <1>4, <2>1, <3>6
    <2> QED BY Zenon, <1>5, <2>2, <2>3, <2>4, <2>5
  <1>11. inverted' /\ done' = <<>> /\ turnaround' = turnaround
    BY Zenon, <1>5, <1>10
  <1> QED BY Zenon, <1>1, <1>7, <1>9, <1>10, <1>11 DEF AskingInVain

\* Steps before the acknowledgement.
LEMMA AskingCycle ==
  ASSUME Inv, SyncInv, Cycle, synced, pc = "acknowledged"
  PROVE  Asking' \/ AskingInVain'
  <1> DEFINE n == Len(script)
             Pulse(f, b) ==
               /\ f = 1 => ~inverted /\ ~Idling
               /\ inverted' = (inverted \/ f = 1)
               /\ b \in Bit /\ Hears(b)
               /\ got' = IF Head(script).op = "read" THEN Append(got, b) ELSE got
  <1>1. /\ script # <<>> /\ script' = Tail(script)
        /\ UNCHANGED <<turnaround, dataPhase, out, asked>>
        /\ Head(script).op = "write" => level'["swdio"] = Head(script).bit
        /\ Head(script).op \in {"write", "read", "clock"}
        /\ Line \in Bit
    BY Zenon, TransferCycle
  <1>2. PICK f \in Bit : Pulse(f, (Line + f) % 2)
    BY Zenon, TransferCycle
  <1>3. n \in Nat /\ n > 0 /\ Len(script') = n - 1
    BY Zenon, <1>1, ScriptGoesOn DEF Inv, TypeInv, TypeOK
  <1>4. turnaround \in Nat /\ turnaround > 0
    BY Sizes DEF Inv, TypeInv, TypeOK
  <1> DEFINE b == (Line + f) % 2
  <1>5. Pulse(f, b) /\ (f # 1 => b = Line) /\ (f = 1 => b = 1 - Line)
    BY Zenon, <1>1, <1>2, NotInverted
  <1> HIDE DEF b, n
  <1>6. Asking \/ AskingInVain
    BY Zenon DEF SyncInv
  <1>7. CASE AskingInVain
    <2>1. f # 1
      BY Zenon, <1>5, <1>7 DEF AskingInVain
    <2>2. inverted' = inverted
      BY <1>5, <1>7, <2>1 DEF AskingInVain, Inv, TypeInv, TypeOK
    <2>3. b \in Bit /\ b = Line /\ Hears(b)
      BY Zenon, <1>5, <2>1
    <2>4. got' = IF Head(script).op = "read" THEN Append(got, b) ELSE got
      BY Zenon, <1>5
    <2> HIDE DEF Pulse
    <2>5. UNCHANGED <<turnaround, out, asked>>
      BY Zenon, <1>1
    <2> QED BY Zenon, <1>1, <1>7, <2>2, <2>3, <2>4, <2>5, InVainCycle
  <1>8. CASE Asking
    <2>1. AskOps' /\ AskPins' /\ n # turnaround + 4
      <3>1. got' = IF Head(script).op = "read" THEN Append(got, b) ELSE got
        BY Zenon, <1>5
      <3> HIDE DEF Pulse
      <3> QED BY Zenon, <1>1, <1>8, <3>1, AskOpsGoOn, AskPinsGoOn DEF Asking, n
    <2>2. /\ b \in Bit /\ Hears(b) /\ inverted' = (inverted \/ f = 1)
          /\ got' = IF Head(script).op = "read" THEN Append(got, b) ELSE got
          /\ f = 1 => ~inverted
      BY Zenon, <1>5
    <2> HIDE DEF Pulse
    <2>3. CASE n > turnaround + 4
      <3>1. target # "answer"
        <4>1. n <= turnaround + 12
          BY Zenon, <1>8 DEF Asking, AskOps, n
        <4>2. n = turnaround + 12 \/ (turnaround + 4 < n /\ n < turnaround + 12)
          BY SMT, <1>3, <1>4, <2>3, <4>1
        <4>3. target = "idle" \/ target = "header"
          BY Zenon, <1>8, <4>2 DEF Asking, AskHeader, n
        <4> QED BY <4>3
      <3>2. Line = Bits(asked)[turnaround + 13 - Len(script)] /\ Len(script) > turnaround + 4
        BY Zenon, <1>1, <1>8, <2>3, <3>1, InVainLine DEF Asking, n
      <3>3. CASE f # 1
        <4>1. b = Bits(asked)[turnaround + 13 - Len(script)]
          BY Zenon, <1>5, <3>2, <3>3
        <4>2. UNCHANGED <<turnaround, dataPhase, asked>>
          BY Zenon, <1>1
        <4>3. /\ AskHeader'
              /\ Len(script') <= turnaround + 4 =>
                   \E k \in {Ok, Wait, Fault} : AskAnswer(k)' /\ AskFollows(k)'
          BY Zenon, <1>1, <1>8, <2>2, <3>2, <4>1, <4>2, HeaderCycle
        <4>4. turnaround' = turnaround
          BY <1>1
        <4> QED BY Zenon, <2>1, <4>3, <4>4 DEF Asking
      <3>4. CASE f = 1
        <4>1. b = 1 - Bits(asked)[turnaround + 13 - Len(script)]
          BY Zenon, <1>5, <3>2, <3>4
        <4>2. UNCHANGED <<turnaround, asked>> /\ turnaround' = turnaround
          BY Zenon, <1>1
        <4>3. /\ done' = <<>> /\ target' \in {"lost", "reset", "idle", "header"}
              /\ target' = "idle" => Len(script') < turnaround + 12
              /\ target' = "header" => LateStart' \/ WrongBit'
          BY Zenon, <1>1, <1>8, <2>2, <3>2, <4>1, <4>2, HeaderFlip
        <4>4. ~(n - 1 <= 3)
          BY SMT, <1>3, <1>4, <2>3
        <4> QED BY Zenon, <1>3, <2>1, <2>2, <3>4, <4>2, <4>3, <4>4 DEF AskingInVain
      <3> QED BY Zenon, <3>3, <3>4
    <2>4. CASE n <= turnaround + 3
      <3>1. UNCHANGED <<turnaround, dataPhase, asked>>
        BY Zenon, <1>1
      <3>2. Len(script) <= turnaround + 3 /\ b = (Line + f) % 2
        BY Zenon, <2>4 DEF n, b
      <3>3. AskHeader' /\ \E k \in {Ok, Wait, Fault} : AskAnswer(k)' /\ AskFollows(k)'
        BY Zenon, <1>1, <1>8, <2>2, <3>1, <3>2, AnswerCycle
      <3> QED BY Zenon, <2>1, <3>3 DEF Asking
    <2>5. n > turnaround + 4 \/ n <= turnaround + 3
      BY SMT, <1>3, <1>4, <2>1
    <2> QED BY Zenon, <2>3, <2>4, <2>5
  <1> QED BY Zenon, <1>6, <1>7, <1>8

LEMMA AskingSetPin ==
  ASSUME Inv, SyncInv, SetPin, synced, pc = "acknowledged"
  PROVE  Asking' \/ AskingInVain'
  <1>1. /\ script # <<>> /\ script' = Tail(script)
        /\ UNCHANGED <<turnaround, dataPhase, asked, got, target, heard, plan, done, inverted>>
    BY Zenon DEF SetPin, config, reply, wire
  <1>2. Asking \/ AskingInVain
    BY Zenon DEF SyncInv
  <1> DEFINE n == Len(script)
  <1>3. n \in Nat /\ n > 0 /\ Len(script') = n - 1
    BY Zenon, <1>1, ScriptGoesOn DEF Inv, TypeInv, TypeOK
  <1>4. turnaround \in Nat /\ turnaround > 0
    BY Sizes DEF Inv, TypeInv, TypeOK
  <1>5. AskOps' /\ AskPins' /\ n = turnaround + 4
    <2>1. UNCHANGED <<turnaround, asked>>
      BY Zenon, <1>1
    <2> QED BY Zenon, <1>1, <1>2, <2>1, AskOpsGoOn, AskPinsSet DEF Asking, AskingInVain
  <1> HIDE DEF n
  <1>6. /\ n > turnaround + 3 /\ n > 3 /\ n <= turnaround + 4 /\ n - 1 = turnaround + 3
        /\ ~(n <= 3) /\ ~(n - 1 <= 3) /\ ~(n > turnaround + 4) /\ n - 1 < turnaround + 12
        /\ ~(n - 1 > turnaround + 3) /\ n - 1 # turnaround + 12 /\ ~(turnaround + 4 < n - 1)
        /\ ~(n - 1 > turnaround + 4)
    BY SMT, <1>3, <1>4, <1>5
  <1>7. CASE Asking
    <2>1. PICK k \in {Ok, Wait, Fault} : AskAnswer(k) /\ AskFollows(k)
      BY Zenon, <1>6, <1>7 DEF Asking, n
    <2>2. Len(plan) = Follow(k) + (turnaround + 3)
      BY Zenon, <1>6, <2>1 DEF AskAnswer, n
    <2>3. Follow(k)' = Follow(k)
      BY Zenon, <1>1 DEF Follow
    <2>4. \A j : (j \in 1..3 \/ j \in 4..(turnaround + 3)) /\ j <= n - 1 => j <= n
      BY SMT, <1>3
    <2>5. /\ target = "answer"
          /\ \A j \in 1..3 : j <= n => Left(plan, Follow(k) + j) = Driving(k[4 - j])
          /\ \A j \in 4..(turnaround + 3) : j <= n => Left(plan, Follow(k) + j).act = "turn"
          /\ asked.read = 0 /\ (k = Ok \/ dataPhase) =>
               \A j \in 1..(WordBits + 1) : Left(plan, j).act \notin Foreign
      BY Zenon, <2>1 DEF AskAnswer, n
    <2>6. AskAnswer(k)'
      <3>1. Len(plan') = Follow(k) + (IF n - 1 > turnaround + 3 THEN turnaround + 3 ELSE n - 1)
        BY Zenon, <1>1, <1>6, <2>2
      <3>2. \A j \in 1..3 : j <= n - 1 => Left(plan', Follow(k) + j) = Driving(k[4 - j])
        BY Zenon, <1>1, <2>4, <2>5
      <3>3. \A j \in 4..(turnaround + 3) : j <= n - 1 => Left(plan', Follow(k) + j).act = "turn"
        BY Zenon, <1>1, <2>4, <2>5
      <3>4. asked.read = 0 /\ (k = Ok \/ dataPhase) =>
                \A j \in 1..(WordBits + 1) : Left(plan', j).act \notin Foreign
        BY Zenon, <1>1, <2>5
      <3> QED BY Zenon, <1>1, <1>3, <1>6, <2>3, <2>5, <3>1, <3>2, <3>3, <3>4 DEF AskAnswer
    <2>7. AskFollows(k)'
      <3>1. RightRequest' = RightRequest /\ Takes' = Takes /\ NoTakes' = NoTakes
        BY Zenon, <1>1 DEF RightRequest, Takes, NoTakes, Bits
      <3>2. ASSUME NEW w PROVE Access(w)' = Access(w) /\ Sends(w)' = Sends(w)
        BY Zenon, <1>1 DEF Access, Sends
      <3> QED BY Zenon, <1>1, <2>1, <3>1, <3>2 DEF AskFollows
    <2>8. AskHeader'
      BY Zenon, <1>3, <1>1, <1>6 DEF AskHeader
    <2> QED BY Zenon, <1>5, <2>1, <2>6, <2>7, <2>8 DEF Asking
  <1>8. CASE AskingInVain
    <2>1. target = "header" => LateStart'
      <3>1. ASSUME target = "header" PROVE LateStart
        <4>1. ~WrongBit
          BY Zenon, <1>6 DEF WrongBit, n
        <4> QED BY Zenon, <1>8, <3>1, <4>1 DEF AskingInVain
      <3> QED BY Zenon, <1>1, <1>3, <1>6, <3>1 DEF LateStart
    <2>2. inverted' /\ done' = <<>> /\ target' = target /\ turnaround' = turnaround
      BY <1>1, <1>8 DEF AskingInVain
    <2> QED BY Zenon, <1>3, <1>5, <1>6, <1>8, <2>1, <2>2 DEF AskingInVain
  <1> QED BY Zenon, <1>2, <1>7, <1>8

LEMMA AskingBegins ==
  ASSUME Inv, SyncInv, NEW a \in Addresses, NEW w \in Words, SwdTransfer(a, w)
  PROVE  Asking' \/ AskingInVain'
  <1>1. /\ asked' = [ap |-> a.ap, read |-> a.read, a2 |-> a.a2, a3 |-> a.a3,
                     word |-> IF a.read = 1 THEN <<>> ELSE w]
        /\ script' = AskScript(a) /\ pc = "idle" /\ synced
        /\ UNCHANGED <<turnaround, dataPhase, out, got, target, heard, done, inverted>>
    BY Zenon DEF SwdTransfer, config, pins, wire
  <1>2. a.ap \in Bit /\ a.read \in Bit /\ a.a2 \in Bit /\ a.a3 \in Bit
    BY InputsAreLegal
  <1>3. turnaround \in Turnarounds /\ turnaround \in Nat
    BY Sizes DEF Inv, TypeInv, TypeOK
  <1>4. Bits(asked)' = Bits(a)
    BY <1>1 DEF Bits
  <1>5. /\ "swdio" \in out /\ got = <<>> /\ done = <<>>
        /\ target \in {"idle", "lost", "reset"} /\ (inverted \/ target = "idle")
    BY Zenon, <1>1 DEF SyncInv
  <1> DEFINE s == AskScript(a)
  <1>6. /\ Len(s) = turnaround + 12
        /\ \A i \in 1..3 : Left(s, i) = ReadBit
        /\ \A i \in 4..(turnaround + 3) : Left(s, i) = Clock
        /\ Left(s, turnaround + 4) = Input
        /\ \A i \in (turnaround + 5)..(turnaround + 12) :
             Left(s, i) = WriteBit(Bits(a)[turnaround + 13 - i])
    BY Zenon, <1>2, <1>3, AskScriptIs
  <1>7. s = script'
    BY Zenon, <1>1
  <1> HIDE DEF s
  <1>8. ASSUME NEW i \in 1..(turnaround + 12)
        PROVE  /\ i <= 3 => i \in 1..3
               /\ 3 < i /\ i <= turnaround + 3 => i \in 4..(turnaround + 3)
               /\ i > turnaround + 4 => i \in (turnaround + 5)..(turnaround + 12)
    BY SMT, <1>3
  <1>9. \A i \in 1..(turnaround + 12) :
          /\ i <= 3 => Left(s, i) = ReadBit
          /\ 3 < i /\ i <= turnaround + 3 => Left(s, i) = Clock
          /\ i = turnaround + 4 => Left(s, i) = Input
          /\ i > turnaround + 4 => Left(s, i) = WriteBit(Bits(a)[turnaround + 13 - i])
    BY Zenon, <1>6, <1>8
  <1>10. /\ turnaround + 12 <= turnaround + 12 /\ turnaround + 12 > turnaround + 3
         /\ ~(turnaround + 12 < turnaround + 12) /\ ~(turnaround + 12 <= turnaround + 4)
         /\ ~(turnaround + 12 <= 3)
    BY SMT, <1>3
  <1>11. AskOps'
    BY Zenon, <1>1, <1>4, <1>6, <1>7, <1>9, <1>10 DEF AskOps
  <1>12. Len(script') = turnaround + 12
    BY Zenon, <1>6, <1>7
  <1>13. AskPins'
    BY Zenon, <1>1, <1>5, <1>10, <1>12 DEF AskPins
  <1>14. CASE target = "idle"
    <2>1. AskHeader'
      BY Zenon, <1>1, <1>5, <1>10, <1>12, <1>14 DEF AskHeader
    <2> QED BY Zenon, <1>1, <1>10, <1>11, <1>12, <1>13, <2>1 DEF Asking
  <1>15. CASE target # "idle"
    <2>1. /\ target' \in {"lost", "reset"} /\ inverted' /\ done' = <<>>
      BY Zenon, <1>1, <1>5, <1>15
    <2>2. target' # "idle" /\ target' # "header" /\ target' \in {"lost", "reset", "idle", "header"}
      BY <2>1
    <2>3. turnaround' = turnaround
      BY <1>1
    <2> QED BY Zenon, <1>10, <1>11, <1>12, <1>13, <2>1, <2>2, <2>3 DEF AskingInVain
  <1> QED BY Zenon, <1>14, <1>15

-----------------------------------------------------------------------------
(***************************************************************************)
(* Steps after the acknowledgement.                                        *)
(***************************************************************************)
\* A cycle of the probe where the target counts one is a cycle less for both.
CountedDown(n, m, z, b, v) ==
  /\ n > z + b + v + 2 \/ (z + 1 < n /\ n <= z + b + 1) =>
       m > 0 /\ m - 1 \in Nat /\ CyclesLeft(n - 1, m - 1, z, b, v)
  /\ n <= z + 1 \/ (z + b + 1 < n /\ n <= z + b + v + 2) => CyclesLeft(n - 1, m, z, b, v)
  /\ n <= z + 1 => m = 0
  /\ \/ n = 1 \/ (1 < n /\ n <= z + 1) \/ (z + 1 < n /\ n <= z + b + 1)
     \/ (z + b + 1 < n /\ n < z + b + v + 2) \/ n = z + b + v + 2 \/ n > z + b + v + 2

LEMMA CountsGoOn ==
  ASSUME NEW n \in Nat, n > 0, NEW m \in Nat, NEW z \in Nat, NEW b \in Nat, NEW v \in {0, 1},
         CyclesLeft(n, m, z, b, v)
  PROVE  CountedDown(n, m, z, b, v)
  BY SMT DEF CyclesLeft, CountedDown

LEMMA FollowOpsGoOn ==
  ASSUME script \in Seq(Operations), script # <<>>, script' = Tail(script),
         NEW z, NEW b, NEW v, FollowOps(script, Len(script), z, b, v)
  PROVE  FollowOps(script', Len(script'), z, b, v)
  <1> DEFINE n == Len(script)
  <1>1. /\ n \in Nat /\ n > 0 /\ Len(script') = n - 1
        /\ \A i \in 1..(n - 1) : Left(script', i) = Left(script, i)
    BY Zenon, ScriptGoesOn
  <1>2. FollowOps(script, n, z, b, v)
    OBVIOUS
  <1> HIDE DEF n
  <1>3. \A i \in 1..(n - 1) : i \in 1..n
    BY SMT, <1>1
  <1>4. FollowOps(script', n - 1, z, b, v)
    BY Zenon, <1>1, <1>2, <1>3 DEF FollowOps
  <1> QED BY Zenon, <1>1, <1>4

\* The operation at the head of the script.
LEMMA FollowHead ==
  ASSUME script \in Seq(Operations), script # <<>>,
         NEW z, NEW b, NEW v, FollowOps(script, Len(script), z, b, v)
  PROVE  LET n == Len(script)
             o == Head(script)
         IN  /\ n = 1 => o.op = "level"
             /\ 1 < n /\ n <= z + 1 => o.op = "write" /\ o.bit = 0
             /\ z + b + 1 < n /\ n < z + b + v + 2 => o.op = "level"
             /\ n = z + b + v + 2 => o.op = "output"
             /\ (z + 1 < n /\ n <= z + b + 1) \/ n > z + b + v + 2 =>
                  o.op \in {"write", "read", "clock"}
  <1> DEFINE n == Len(script)
  <1>1. n \in Nat /\ n > 0 /\ Head(script) = Left(script, n)
    <2>1. n \in Nat
      OBVIOUS
    <2> QED BY Zenon, <2>1, LeftOfTail
  <1>2. n \in 1..n
    BY SMT, <1>1
  <1>3. /\ n = 1 => Head(script) = Level(1)
        /\ 1 < n /\ n <= z + 1 => Head(script) = WriteBit(0)
        /\ z + b + 1 < n /\ n < z + b + v + 2 => Head(script) = Level(0)
        /\ n = z + b + v + 2 => Head(script) = Output
        /\ (z + 1 < n /\ n <= z + b + 1) \/ n > z + b + v + 2 => Head(script) \in Pulses
    BY Zenon, <1>1, <1>2 DEF FollowOps
  <1>4. /\ \A x : Level(x).op = "level" /\ WriteBit(x).op = "write" /\ WriteBit(x).bit = x
        /\ Output.op = "output" /\ \A x \in Pulses : x.op \in {"write", "read", "clock"}
    BY DEF Level, WriteBit, Output, Pulses
  <1> QED BY Zenon, <1>3, <1>4

\* The probe and the target count the same cycles; the line idles undisturbed.
LEMMA FollowingCycle ==
  ASSUME Inv, NEW z \in Nat, NEW b \in Nat, NEW v \in {0, 1}, Following(z, b, v),
         script # <<>>, Head(script).op \in {"write", "read", "clock"},
         Head(script).op = "write" => level'["swdio"] = Head(script).bit,
         NEW x \in Bit, Hears(x), 1 < Len(script) /\ Len(script) <= z + 1 => x = Line,
         script' = Tail(script), UNCHANGED out
  PROVE  Following(z, b, v)' /\ (target' = "answer" => target = "answer")
  <1>1. out' = out
    OBVIOUS
  <1>2. script \in Seq(Operations)
    BY Zenon DEF Inv, TypeInv, TypeOK
  <1>3. PICK m \in Nat :
          FollowShape(z, b, v) /\ CyclesLeft(Len(script), m, z, b, v) /\ FollowPlan(m, b)
    BY Zenon DEF Following
  <1> DEFINE n == Len(script)
             k == z + b + v + 2
  <1>4. n \in Nat /\ n > 0 /\ Len(script') = n - 1
    BY Zenon, <1>1, <1>2, ScriptGoesOn
  <1>5. /\ FollowOps(script', n - 1, z, b, v)
        /\ "swdio" \in out <=> n < k
    <2>1. FollowOps(script, n, z, b, v) /\ ("swdio" \in out <=> n < k)
      BY Zenon, <1>3 DEF FollowShape
    <2>2. FollowOps(script', Len(script'), z, b, v)
      BY Zenon, <1>1, <1>2, <2>1, FollowOpsGoOn
    <2> QED BY Zenon, <1>4, <2>1, <2>2
  <1>6. /\ n = 1 => Head(script).op = "level"
        /\ 1 < n /\ n <= z + 1 => Head(script).op = "write" /\ Head(script).bit = 0
        /\ z + b + 1 < n /\ n < k => Head(script).op = "level"
        /\ n = k => Head(script).op = "output"
    BY Zenon, <1>1, <1>2, <1>3, FollowHead DEF FollowShape
  <1>7. CyclesLeft(n, m, z, b, v) /\ FollowPlan(m, b)
    BY Zenon, <1>3
  <1> HIDE DEF n
  <1>c. CountedDown(n, m, z, b, v)
    BY Zenon, <1>4, <1>7, CountsGoOn
  <1>8. n # 1 /\ ~(z + b + 1 < n /\ n < k) /\ n # k
    BY <1>1, <1>6
  <1>9. FollowShape(z, b, v)'
    <2>1. n - 1 < k <=> n < k
      BY SMT, <1>4, <1>8
    <2> QED BY Zenon, <1>1, <1>4, <1>5, <2>1 DEF FollowShape
  <1>10. CASE n > k \/ (z + 1 < n /\ n <= z + b + 1)
    <2>1. m > 0 /\ m - 1 \in Nat /\ CyclesLeft(n - 1, m - 1, z, b, v)
      BY Zenon, <1>c, <1>10 DEF CountedDown
    <2>2. /\ target = "answer" /\ Len(plan) = m
          /\ \A j \in 1..b : j <= m => Left(plan, j).act \notin Foreign
      BY Zenon, <1>7, <2>1 DEF FollowPlan
    <2>3. /\ Len(plan') = m - 1 /\ \A i \in 1..(m - 1) : Left(plan', i) = Left(plan, i)
          /\ m = 1 => target' = "idle"
          /\ m # 1 => target' = "answer"
      BY Zenon, <1>1, <2>2, PlanGoesOn
    <2>4. (m - 1 = 0 => m = 1) /\ (m - 1 > 0 => m # 1)
          /\ \A j \in 1..b : j <= m - 1 => j <= m /\ j \in 1..(m - 1)
      BY SMT, <2>1
    <2>5. FollowPlan(m - 1, b)'
      BY Zenon, <2>2, <2>3, <2>4 DEF FollowPlan
    <2> QED BY Zenon, <1>4, <1>9, <2>1, <2>2, <2>5 DEF Following
  <1>11. CASE 1 < n /\ n <= z + 1
    <2>1. m = 0 /\ CyclesLeft(n - 1, m, z, b, v) /\ n < k
      <3>1. m = 0 /\ CyclesLeft(n - 1, m, z, b, v)
        BY Zenon, <1>c, <1>11 DEF CountedDown
      <3>2. n < k
        BY SMT, <1>4, <1>11
      <3> QED BY Zenon, <3>1, <3>2
    <2>2. target = "idle" /\ "swdio" \in out
      BY Zenon, <1>5, <1>7, <2>1 DEF FollowPlan
    <2>3. /\ "idle" # "answer" /\ "idle" # "header" /\ "idle" # "reset" /\ "idle" # "lost"
          /\ 0 # 1
      OBVIOUS
    <2>4. x = 0
      <3>1. Line = 0
        BY Zenon, <1>6, <1>11, <2>2, <2>3 DEF Line, TargetDrives
      <3> QED BY Zenon, <1>11, <3>1 DEF n
    <2>5. target' = "idle"
      <3>1. WireOK
        BY Zenon, TypesGiveWire DEF Inv
      <3>2. ones' = 0
        BY Zenon, <1>1, <2>4, <3>1, HearsCases
      <3>3. ones' # ResetBits
        BY SMT, <3>2, Sizes
      <3> QED BY Zenon, <1>1, <2>2, <2>3, <2>4, <3>1, <3>3, HearsCases
    <2>6. FollowPlan(m, b)'
      <3>1. ~(0 > 0)
        OBVIOUS
      <3> QED BY Zenon, <2>1, <2>5, <3>1 DEF FollowPlan
    <2> QED BY Zenon, <1>4, <1>9, <2>1, <2>3, <2>5, <2>6 DEF Following
  <1> QED BY Zenon, <1>c, <1>8, <1>10, <1>11 DEF CountedDown

LEMMA FollowingSetPin ==
  ASSUME Inv, SetPin, NEW z \in Nat, NEW b \in Nat, NEW v \in {0, 1}, Following(z, b, v)
  PROVE  Following(z, b, v)'
  <1>1. /\ script # <<>> /\ ~InCycle /\ script' = Tail(script)
        /\ UNCHANGED <<target, plan>>
        /\ out' = CASE Head(script).op = "output" -> out \cup {"swdio"}
                    [] Head(script).op = "input" -> out \ {"swdio"}
                    [] OTHER -> out
    BY Zenon DEF SetPin, wire
  <1>2. script \in Seq(Operations)
    BY Zenon DEF Inv, TypeInv, TypeOK
  <1>3. PICK m \in Nat :
          FollowShape(z, b, v) /\ CyclesLeft(Len(script), m, z, b, v) /\ FollowPlan(m, b)
    BY Zenon DEF Following
  <1> DEFINE n == Len(script)
             k == z + b + v + 2
  <1>4. n \in Nat /\ n > 0 /\ Len(script') = n - 1
    BY Zenon, <1>1, <1>2, ScriptGoesOn
  <1>5. /\ FollowOps(script', n - 1, z, b, v)
        /\ "swdio" \in out <=> n < k
    <2>1. FollowOps(script, n, z, b, v) /\ ("swdio" \in out <=> n < k)
      BY Zenon, <1>3 DEF FollowShape
    <2>2. FollowOps(script', Len(script'), z, b, v)
      BY Zenon, <1>1, <1>2, <2>1, FollowOpsGoOn
    <2> QED BY Zenon, <1>4, <2>1, <2>2
  <1>6. /\ n = 1 => Head(script).op = "level"
        /\ 1 < n /\ n <= z + 1 => Head(script).op = "write"
        /\ z + b + 1 < n /\ n < k => Head(script).op = "level"
        /\ n = k => Head(script).op = "output"
        /\ (z + 1 < n /\ n <= z + b + 1) \/ n > k => Head(script).op \in {"write", "read", "clock"}
    BY Zenon, <1>1, <1>2, <1>3, FollowHead DEF FollowShape
  <1>7. CyclesLeft(n, m, z, b, v) /\ FollowPlan(m, b)
    BY Zenon, <1>3
  <1>8. Head(script).op \notin {"write", "read", "clock"}
    BY Zenon, <1>1 DEF InCycle
  <1> HIDE DEF n
  <1>c. CountedDown(n, m, z, b, v)
    BY Zenon, <1>4, <1>7, CountsGoOn
  <1>9. n = 1 \/ (z + b + 1 < n /\ n < k) \/ n = k
    <2>1. \/ n = 1 \/ (1 < n /\ n <= z + 1) \/ (z + 1 < n /\ n <= z + b + 1)
          \/ (z + b + 1 < n /\ n < k) \/ n = k \/ n > k
      BY Zenon, <1>c DEF CountedDown
    <2> QED BY Zenon, <1>6, <1>8, <2>1
  <1>10. "swdio" \in out' /\ n - 1 < k
    <2>1. CASE n = k
      <3>1. out' = out \cup {"swdio"}
        BY Zenon, <1>1, <1>6, <2>1
      <3>2. n - 1 < k
        BY SMT, <1>4, <2>1
      <3> QED BY <3>1, <3>2
    <2>2. CASE n # k
      <3>1. out' = out
        BY <1>1, <1>6, <1>9, <2>2
      <3>2. n < k /\ n - 1 < k
        BY SMT, <1>4, <1>9, <2>2
      <3> QED BY Zenon, <1>5, <3>1, <3>2
    <2> QED BY Zenon, <2>1, <2>2
  <1>11. FollowShape(z, b, v)'
    BY Zenon, <1>4, <1>5, <1>10 DEF FollowShape
  <1>12. CyclesLeft(n - 1, m, z, b, v)
    <2>1. n <= z + 1 \/ (z + b + 1 < n /\ n <= k)
      BY SMT, <1>4, <1>9
    <2> QED BY Zenon, <1>c, <2>1 DEF CountedDown
  <1>13. FollowPlan(m, b)'
    BY Zenon, <1>1, <1>7 DEF FollowPlan
  <1> QED BY Zenon, <1>4, <1>11, <1>12, <1>13 DEF Following

\* The script that begins with c cycles, and is to have b more.
LEMMA FollowingStarts ==
  ASSUME NEW c \in Nat, c > 0, NEW z \in Nat, NEW b \in Nat, NEW v \in {0, 1},
         FollowsBy(script', c, z, b, v),
         Len(plan)' = c + b, target' = "answer", "swdio" \notin out',
         \A j \in 1..b : Left(plan', j).act \notin Foreign
  PROVE  Following(z, b, v)'
  <1> DEFINE n == c + (1 + (v + (b + (z + 1))))
  <1>1. Len(script') = n /\ FollowOps(script', n, z, b, v)
    BY Zenon DEF FollowsBy
  <1>2. n = n /\ n \in Nat /\ n > z + b + v + 2 /\ c + b \in Nat /\ (c + b) + (z + v + 2) = n
        /\ ~(n < z + b + v + 2) /\ c + b # 0
    BY SMT
  <1> HIDE DEF n
  <1>3. FollowShape(z, b, v)'
    BY Zenon, <1>1, <1>2 DEF FollowShape
  <1>4. CyclesLeft(n, c + b, z, b, v)
    BY Zenon, <1>2 DEF CyclesLeft
  <1>5. FollowPlan(c + b, b)'
    BY Zenon, <1>2 DEF FollowPlan
  <1> QED BY Zenon, <1>1, <1>2, <1>3, <1>4, <1>5 DEF Following

\* Where the target is in a cycle of the probe.
LEMMA FollowSlot ==
  ASSUME Inv, NEW z \in Nat, NEW b \in Nat, NEW v \in {0, 1}, Following(z, b, v),
         script # <<>>, Head(script).op \in {"write", "read", "clock"}
  PROVE  LET n == Len(script)
             m == Len(plan)
             first == n > z + b + v + 2
             second == z + 1 < n /\ n <= z + b + 1
             third == 1 < n /\ n <= z + 1
         IN  /\ first \/ second \/ third
             /\ first => target = "answer" /\ m + (z + v + 2) = n /\ "swdio" \notin out
             /\ second => /\ target = "answer" /\ m + (z + 1) = n /\ "swdio" \in out
                          /\ ~TargetDrives
             /\ third => target = "idle"
  <1> DEFINE n == Len(script)
             k == z + b + v + 2
  <1>1. script \in Seq(Operations) /\ plan \in Seq(Slots) /\ (target = "answer" => plan # <<>>)
    BY Zenon DEF Inv, TypeInv, TypeOK, OnesInv
  <1>2. n \in Nat /\ n > 0
    <2>1. n \in Nat
      BY <1>1
    <2> QED BY Zenon, <1>1, <2>1, LeftOfTail
  <1>3. PICK m \in Nat : FollowShape(z, b, v) /\ CyclesLeft(n, m, z, b, v) /\ FollowPlan(m, b)
    BY Zenon DEF Following
  <1>4. ("swdio" \in out <=> n < k) /\ FollowOps(script, n, z, b, v)
    BY Zenon, <1>3 DEF FollowShape
  <1>5. /\ n = 1 => Head(script).op = "level"
        /\ z + b + 1 < n /\ n < k => Head(script).op = "level"
        /\ n = k => Head(script).op = "output"
    BY Zenon, <1>1, <1>4, FollowHead
  <1>6. n # 1 /\ ~(z + b + 1 < n /\ n < k) /\ n # k
    BY <1>5
  <1>7. /\ m = 0 => target = "idle"
        /\ m > 0 => /\ target = "answer" /\ Len(plan) = m
                    /\ \A j \in 1..b : j <= m => Left(plan, j).act \notin Foreign
    BY Zenon, <1>3 DEF FollowPlan
  <1> HIDE DEF n
  <1>8. CyclesLeft(n, m, z, b, v)
    BY Zenon, <1>3
  <1>9. CASE n > k
    <2>1. m > 0 /\ m + (z + v + 2) = n /\ ~(n < k) /\ ~(n <= z + b + 1) /\ ~(n <= z + 1)
      BY SMT, <1>2, <1>8, <1>9 DEF CyclesLeft
    <2> QED BY Zenon, <1>4, <1>7, <1>9, <2>1 DEF n
  <1>10. CASE z + 1 < n /\ n <= z + b + 1
    <2>1. m > 0 /\ m + (z + 1) = n /\ n < k /\ ~(n > k) /\ ~(n <= z + 1) /\ m \in 1..b /\ m <= m
      BY SMT, <1>2, <1>8, <1>10 DEF CyclesLeft
    <2>2. Left(plan, m).act \notin Foreign
      BY Zenon, <1>7, <2>1
    <2>3. Head(plan) = Left(plan, m)
      BY Zenon, <1>1, <1>7, <2>1, LeftOfTail
    <2>4. ~TargetDrives
      BY <2>2, <2>3 DEF TargetDrives, Foreign
    <2> QED BY Zenon, <1>4, <1>7, <1>10, <2>1, <2>4 DEF n
  <1>11. CASE n <= z + 1
    <2>1. m = 0 /\ 1 < n /\ ~(n > k) /\ ~(z + 1 < n)
      BY SMT, <1>2, <1>6, <1>8, <1>11 DEF CyclesLeft
    <2> QED BY Zenon, <1>7, <1>11, <2>1 DEF n
  <1> QED
    <2>1. n > k \/ (z + 1 < n /\ n <= z + b + 1) \/ n <= z + 1
      BY SMT, <1>2, <1>6
    <2> QED BY Zenon, <1>9, <1>10, <1>11, <2>1

\* One bit inverted stays one.
LEMMA NearlyStays ==
  ASSUME NEW s, NEW t, NEW i \in BOOLEAN, Nearly(s, t, i), NEW j \in BOOLEAN, i => j
  PROVE  Nearly(s, t, j)
  BY Zenon DEF Nearly

\* A cycle in which nothing is performed.
LEMMA NothingPerformed ==
  ASSUME Inv, NEW x \in Bit, Hears(x), target \in {"idle", "lost", "reset", "answer"},
         target = "answer" => NoTakes
  PROVE  done' = done /\ (target = "answer" => NoTakes')
  <1>1. WireOK
    BY Zenon, TypesGiveWire DEF Inv
  <1> QED BY Zenon, <1>1, NoTakesGoesOn, HearsNothing

LEMMA ReadOpsGoOn ==
  ASSUME Inv, ReadOps, script # <<>>, script' = Tail(script), turnaround' = turnaround
  PROVE  /\ ReadOps'
         /\ turnaround + IdleCycles + 2 < Len(script) => Head(script) = ReadBit
         /\ IdleCycles + 2 < Len(script) /\ Len(script) <= turnaround + IdleCycles + 2 =>
              Head(script) = Clock
  <1> DEFINE n == Len(script)
  <1>1. /\ n \in Nat /\ n > 0 /\ Len(script') = n - 1 /\ Head(script) = Left(script, n)
        /\ \A i \in 1..(n - 1) : Left(script', i) = Left(script, i)
    BY Zenon, ScriptGoesOn DEF Inv, TypeInv, TypeOK
  <1> HIDE DEF n
  <1>2. n \in 1..n /\ \A i \in 1..(n - 1) : i \in 1..n
    BY SMT, <1>1
  <1> QED BY Zenon, <1>1, <1>2 DEF ReadOps, n

\* A cycle after the acknowledgement: the target hears x, inverted or not.
Pulse(f, x) ==
  /\ script # <<>> /\ script' = Tail(script)
  /\ Head(script).op \in {"write", "read", "clock"}
  /\ Head(script).op = "write" => level'["swdio"] = Head(script).bit
  /\ f = 1 => ~inverted /\ ~Idling
  /\ inverted' = (inverted \/ f = 1)
  /\ x \in Bit /\ x = (Line + f) % 2 /\ Hears(x)
  /\ got' = IF Head(script).op = "read" THEN Append(got, x) ELSE got
  /\ out' = out /\ turnaround' = turnaround /\ asked' = asked /\ ack' = ack

LEMMA PulseIs ==
  ASSUME Inv, SyncInv, Cycle, synced
  PROVE  \E f \in Bit : Pulse(f, (Line + f) % 2) /\ Line \in Bit
  <1>1. /\ script # <<>> /\ script' = Tail(script)
        /\ UNCHANGED <<turnaround, out, asked, ack>>
        /\ Head(script).op = "write" => level'["swdio"] = Head(script).bit
        /\ Head(script).op \in {"write", "read", "clock"}
        /\ Line \in Bit
    BY Zenon, TransferCycle
  <1>2. out' = out /\ turnaround' = turnaround /\ asked' = asked /\ ack' = ack
    BY <1>1
  <1>3. PICK f \in Bit :
          /\ f = 1 => ~inverted /\ ~Idling
          /\ inverted' = (inverted \/ f = 1)
          /\ (Line + f) % 2 \in Bit
          /\ Hears((Line + f) % 2)
          /\ got' = IF Head(script).op = "read" THEN Append(got, (Line + f) % 2) ELSE got
    BY Zenon, TransferCycle
  <1> QED BY Zenon, <1>1, <1>2, <1>3 DEF Pulse

LEMMA PulseFollows ==
  ASSUME Inv, NEW f \in Bit, NEW x, Pulse(f, x), Line \in Bit,
         NEW z \in Nat, NEW b \in Nat, NEW v \in {0, 1}, Following(z, b, v),
         Len(script) <= z + 1 => z = 0 \/ Idling
  PROVE  Following(z, b, v)' /\ (target' = "answer" => target = "answer")
  <1>1. script # <<>> /\ Head(script).op \in {"write", "read", "clock"}
    BY Zenon DEF Pulse
  <1>2. ASSUME 1 < Len(script), Len(script) <= z + 1
        PROVE  x = Line
    <2>1. z # 0
      BY SMT, <1>2
    <2>2. f # 1
      BY Zenon, <1>2, <2>1 DEF Pulse
    <2> QED BY Zenon, <2>2, NotInverted DEF Pulse
  <1>3. /\ Head(script).op = "write" => level'["swdio"] = Head(script).bit
        /\ x \in Bit /\ Hears(x) /\ script' = Tail(script) /\ UNCHANGED out
    BY Zenon DEF Pulse
  <1> QED BY Zenon, <1>1, <1>2, <1>3, FollowingCycle

\* The word that is read.
LEMMA ReadCycle ==
  ASSUME Inv, pc = "transferred", FollowingRead, NEW f \in Bit, NEW x, Pulse(f, x), Line \in Bit
  PROVE  FollowingRead'
  <1> DEFINE n == Len(script)
             m == Len(plan)
  <1>1. /\ ack = Ok /\ asked.read = 1 /\ Following(IdleCycles, 0, 0) /\ ReadOps /\ ReadSoFar
        /\ target = "answer" => NoTakes
    BY Zenon DEF FollowingRead
  <1>2. PICK w \in Words : /\ done = <<Access(w)>> /\ Nearly(got, Datum(w), inverted)
                           /\ target = "answer" => Sends(w)
    BY Zenon DEF FollowingRead
  <1>3. /\ script # <<>> /\ script' = Tail(script) /\ turnaround' = turnaround
        /\ Head(script).op \in {"write", "read", "clock"}
        /\ x \in Bit /\ x = (Line + f) % 2 /\ Hears(x)
        /\ f = 1 => ~inverted
        /\ inverted' = (inverted \/ f = 1)
        /\ got' = IF Head(script).op = "read" THEN Append(got, x) ELSE got
        /\ asked' = asked /\ ack' = ack
    BY Zenon DEF Pulse
  <1>4. /\ IdleCycles \in Nat /\ 0 \in Nat /\ 0 \in {0, 1} /\ WordBits \in Nat
        /\ turnaround \in Nat /\ turnaround > 0 /\ inverted \in BOOLEAN /\ got \in Seq(Bit)
    BY Sizes DEF Inv, TypeInv, TypeOK
  <1>5. n \in Nat /\ n > 0 /\ Len(script') = n - 1
    BY Zenon, <1>3, ScriptGoesOn DEF Inv, TypeInv, TypeOK
  <1>6. Following(IdleCycles, 0, 0)' /\ (target' = "answer" => target = "answer")
    <2>1. n <= IdleCycles + 1 => Idling
      BY Zenon, <1>1 DEF Idling
    <2> QED BY Zenon, <1>1, <1>4, <2>1, PulseFollows
  <1>7. /\ ReadOps'
        /\ turnaround + IdleCycles + 2 < n => Head(script) = ReadBit
        /\ IdleCycles + 2 < n /\ n <= turnaround + IdleCycles + 2 => Head(script) = Clock
    BY Zenon, <1>1, <1>3, ReadOpsGoOn
  <1>8. /\ n > IdleCycles + 0 + 0 + 2 \/ (IdleCycles + 1 < n /\ n <= IdleCycles + 0 + 1)
           \/ (1 < n /\ n <= IdleCycles + 1)
        /\ n > IdleCycles + 0 + 0 + 2 =>
             target = "answer" /\ m + (IdleCycles + 0 + 2) = n /\ "swdio" \notin out
        /\ 1 < n /\ n <= IdleCycles + 1 => target = "idle"
    BY Zenon, <1>1, <1>3, <1>4, FollowSlot
  <1>9. target \in {"idle", "answer"}
    <2>1. n > IdleCycles + 0 + 0 + 2 \/ (1 < n /\ n <= IdleCycles + 1)
      <3> HIDE DEF n, m
      <3> QED BY SMT, <1>4, <1>5, <1>8
    <2> QED BY <1>8, <2>1
  <1>10. done' = done /\ (target = "answer" => NoTakes')
    BY Zenon, <1>1, <1>3, <1>9, NothingPerformed
  <1>11. target' = "answer" => Sends(w)' /\ NoTakes'
    BY Zenon, <1>2, <1>3, <1>6, <1>10, SendsGoesOn
  <1>12. ReadSoFar' /\ Nearly(got', Datum(w), inverted')
    <2>1. CASE n > turnaround + IdleCycles + 2
      <3> DEFINE g == Len(got)
                 j == WordBits + 1 - g
      <3>1. g + n = turnaround + IdleCycles + 3 + WordBits /\ g \in Nat
        <4>1. g \in Nat
          BY <1>4
        <4> QED BY Zenon, <1>1, <2>1, <4>1 DEF ReadSoFar
      <3>2. got' = Append(got, x) /\ Len(got') = g + 1
        <4>1. Head(script).op = "read"
          BY <1>7, <2>1 DEF ReadBit
        <4>2. Len(Append(got, x)) = g + 1
          BY <1>4
        <4> QED BY Zenon, <1>3, <4>1, <4>2
      <3> HIDE DEF n, m, g
      <3>3. n > IdleCycles + 0 + 0 + 2
        BY SMT, <1>4, <1>5, <2>1
      <3>4. m + (IdleCycles + 0 + 2) = n /\ target = "answer" /\ m \in Nat
        <4>1. m \in Nat
          <5>1. plan \in Seq(Slots)
            BY Zenon DEF Inv, TypeInv
          <5> QED BY <5>1 DEF m
        <4> QED BY Zenon, <1>8, <3>3, <4>1
      <3>5. /\ j \in 1..(WordBits + 1) /\ m = turnaround + j /\ WordBits + 2 - j = g + 1
            /\ turnaround + j <= m /\ g + 1 \in 1..(WordBits + 1)
        BY SMT, <1>4, <1>5, <2>1, <3>1, <3>4
      <3> HIDE DEF j
      <3>6. Head(plan) = Driving(Datum(w)[g + 1])
        <4>1. plan # <<>> /\ plan \in Seq(Slots)
          BY Zenon, <3>4 DEF Inv, TypeInv, OnesInv
        <4>2. Head(plan) = Left(plan, m)
          BY Zenon, <4>1, LeftOfTail DEF m
        <4>3. turnaround + j <= Len(plan)
          BY Zenon, <3>5 DEF m
        <4>4. Left(plan, turnaround + j) = Driving(Datum(w)[WordBits + 2 - j])
          BY Zenon, <1>2, <3>4, <3>5, <4>3 DEF Sends
        <4> QED BY Zenon, <3>5, <4>2, <4>4
      <3>7. Line = Datum(w)[g + 1]
        <4>1. plan # <<>>
          BY Zenon, <3>4 DEF Inv, OnesInv
        <4>2. Head(plan).act = "drive" /\ Head(plan).bit = Datum(w)[g + 1]
          BY <3>6 DEF Driving
        <4> QED BY Zenon, <3>4, <4>1, <4>2 DEF Line, TargetDrives
      <3>8. x = (Datum(w)[Len(got) + 1] + f) % 2 /\ Datum(w)[Len(got) + 1] \in Bit
        BY Zenon, <1>3, <3>7 DEF g
      <3>9. Nearly(Append(got, x), Datum(w), inverted \/ f = 1)
        <4>1. f = 1 => ~inverted
          BY Zenon, <1>3
        <4>2. Nearly(got, Datum(w), inverted)
          BY Zenon, <1>2
        <4> QED BY <1>4, <3>8, <4>1, <4>2, NearlyGoesOn
      <3>10. ReadSoFar'
        <4>1. /\ n - 1 > turnaround + IdleCycles + 2 =>
                   (g + 1) + (n - 1) = turnaround + IdleCycles + 3 + WordBits
              /\ ~(n - 1 > turnaround + IdleCycles + 2) => g + 1 = WordBits + 1
          BY SMT, <1>4, <1>5, <2>1, <3>1
        <4> QED BY Zenon, <1>3, <1>5, <3>2, <4>1 DEF ReadSoFar
      <3> QED BY Zenon, <1>3, <3>2, <3>9, <3>10
    <2>2. CASE ~(n > turnaround + IdleCycles + 2)
      <3>1. Len(got) = WordBits + 1
        BY Zenon, <1>1, <2>2 DEF ReadSoFar
      <3>2. got' = got
        <4>1. CASE IdleCycles + 2 < n
          <5>1. n <= turnaround + IdleCycles + 2
            <6> HIDE DEF n
            <6> QED BY SMT, <1>4, <1>5, <2>2
          <5>2. Head(script).op # "read"
            BY <1>7, <4>1, <5>1 DEF Clock
          <5> QED BY Zenon, <1>3, <5>2
        <4>2. CASE ~(IdleCycles + 2 < n)
          <5>1. 1 < n /\ n <= IdleCycles + 1
            <6> HIDE DEF n, m
            <6> QED BY SMT, <1>4, <1>5, <1>8, <4>2
          <5>2. Head(script).op = "write"
            <6>1. FollowOps(script, Len(script), IdleCycles, 0, 0) /\ script \in Seq(Operations)
              BY Zenon, <1>1 DEF Following, FollowShape, Inv, TypeInv, TypeOK
            <6> QED BY Zenon, <1>3, <5>1, <6>1, FollowHead
          <5>3. Head(script).op # "read"
            BY <5>2
          <5> QED BY Zenon, <1>3, <5>3
        <4> QED BY Zenon, <4>1, <4>2
      <3>3. ReadSoFar'
        <4>1. ~(n - 1 > turnaround + IdleCycles + 2)
          <5> HIDE DEF n
          <5> QED BY SMT, <1>4, <1>5, <2>2
        <4> QED BY Zenon, <1>3, <1>5, <3>1, <3>2, <4>1 DEF ReadSoFar
      <3>4. Nearly(got, Datum(w), inverted')
        <4>1. inverted' \in BOOLEAN /\ (inverted => inverted')
          BY <1>3, <1>4
        <4> QED BY Zenon, <1>2, <1>4, <4>1, NearlyStays
      <3> QED BY Zenon, <3>2, <3>3, <3>4
    <2> QED BY Zenon, <2>1, <2>2
  <1>13. Access(w)' = Access(w)
    BY Zenon, <1>3 DEF Access
  <1>14. ack' = Ok /\ asked'.read = 1 /\ done' = <<Access(w)'>>
    BY Zenon, <1>1, <1>2, <1>3, <1>10, <1>13
  <1> QED BY Zenon, <1>6, <1>7, <1>11, <1>12, <1>14 DEF FollowingRead

LEMMA WriteOpsGoOn ==
  ASSUME Inv, WriteOps, script # <<>>, script' = Tail(script), asked' = asked
  PROVE  /\ WriteOps'
         /\ \A j \in 1..(WordBits + 1) :
              Len(script) = IdleCycles + 1 + j =>
                Head(script) = WriteBit(Datum(asked.word)[WordBits + 2 - j])
  <1> DEFINE n == Len(script)
  <1>1. /\ n \in Nat /\ n > 0 /\ Len(script') = n - 1 /\ Head(script) = Left(script, n)
        /\ \A i \in 1..(n - 1) : Left(script', i) = Left(script, i)
    BY Zenon, ScriptGoesOn DEF Inv, TypeInv, TypeOK
  <1>2. IdleCycles \in Nat /\ WordBits \in Nat
    BY Sizes
  <1> HIDE DEF n
  <1>3. ASSUME NEW j \in 1..(WordBits + 1)
        PROVE  /\ IdleCycles + 1 + j <= n - 1 =>
                    IdleCycles + 1 + j <= n /\ IdleCycles + 1 + j \in 1..(n - 1)
               /\ n = IdleCycles + 1 + j => IdleCycles + 1 + j <= n
    BY SMT, <1>1, <1>2
  <1>4. WriteOps'
    BY Zenon, <1>1, <1>3 DEF WriteOps, n
  <1> QED BY Zenon, <1>1, <1>3, <1>4 DEF WriteOps, n

\* The target takes the word that is sent, or no word.
LEMMA WordArrives ==
  ASSUME asked.word \in Seq(Bit), Len(asked.word) = WordBits, NEW i \in BOOLEAN, NEW y,
         AllTaken(y, Datum(asked.word), i)
  PROVE  y = <<Access(asked.word)>> \/ (y = <<>> /\ i)
  <1>1. PICK data \in Seq(Bit) :
          /\ Len(data) = WordBits + 1 /\ Nearly(data, Datum(asked.word), i)
          /\ y = IF Parity(data) = 0 THEN <<Access(SubSeq(data, 1, WordBits))>> ELSE <<>>
    BY Zenon DEF AllTaken
  <1>2. \/ Parity(data) = 0 /\ SubSeq(data, 1, WordBits) = asked.word
        \/ Parity(data) = 1 /\ i
    BY Zenon, <1>1, NearlyDatum
  <1>3. 1 # 0
    OBVIOUS
  <1> QED BY Zenon, <1>1, <1>2, <1>3

\* The word that is written.
LEMMA WriteCycle ==
  ASSUME Inv, pc = "transferred", FollowingWrite, NEW f \in Bit, NEW x, Pulse(f, x), Line \in Bit
  PROVE  FollowingWrite'
  <1> DEFINE n == Len(script)
             m == Len(plan)
             d == Datum(asked.word)
  <1>1. /\ ack = Ok /\ asked.read = 0 /\ Len(asked.word) = WordBits
        /\ Following(IdleCycles, WordBits + 1, 0) /\ WriteOps
        /\ target = "answer" => done = <<>> /\ Taken(d, inverted)
        /\ target # "answer" => done = <<Access(asked.word)>> \/ (done = <<>> /\ inverted)
    BY Zenon DEF FollowingWrite
  <1>3. /\ script # <<>> /\ script' = Tail(script)
        /\ Head(script).op \in {"write", "read", "clock"}
        /\ Head(script).op = "write" => level'["swdio"] = Head(script).bit
        /\ x \in Bit /\ x = (Line + f) % 2 /\ Hears(x)
        /\ f = 1 => ~inverted
        /\ inverted' = (inverted \/ f = 1)
        /\ asked' = asked /\ ack' = ack
    BY Zenon DEF Pulse
  <1>4. /\ IdleCycles \in Nat /\ WordBits + 1 \in Nat /\ 0 \in {0, 1} /\ WordBits \in Nat
        /\ inverted \in BOOLEAN /\ asked.word \in Seq(Bit)
    BY Sizes DEF Inv, TypeInv, TypeOK, Requests
  <1>5. n \in Nat /\ n > 0 /\ Len(script') = n - 1
    BY Zenon, <1>3, ScriptGoesOn DEF Inv, TypeInv, TypeOK
  <1>6. Following(IdleCycles, WordBits + 1, 0)' /\ (target' = "answer" => target = "answer")
    <2>1. n <= IdleCycles + 1 => Idling
      BY Zenon, <1>1 DEF Idling
    <2> QED BY Zenon, <1>1, <1>4, <2>1, PulseFollows
  <1>7. /\ WriteOps'
        /\ \A j \in 1..(WordBits + 1) :
             n = IdleCycles + 1 + j => Head(script) = WriteBit(d[WordBits + 2 - j])
    BY Zenon, <1>1, <1>3, WriteOpsGoOn
  <1>8. LET first == n > IdleCycles + (WordBits + 1) + 0 + 2
            second == IdleCycles + 1 < n /\ n <= IdleCycles + (WordBits + 1) + 1
            third == 1 < n /\ n <= IdleCycles + 1
        IN  /\ first \/ second \/ third
            /\ first => target = "answer" /\ m + (IdleCycles + 0 + 2) = n /\ "swdio" \notin out
            /\ second => /\ target = "answer" /\ m + (IdleCycles + 1) = n /\ "swdio" \in out
                         /\ ~TargetDrives
            /\ third => target = "idle"
    BY Zenon, <1>1, <1>3, <1>4, FollowSlot
  <1>9. inverted' \in BOOLEAN /\ (inverted => inverted')
    BY <1>3, <1>4
  <1>10. Access(asked.word)' = Access(asked.word) /\ Datum(asked.word)' = d
    BY Zenon, <1>3 DEF Access
  <1>11. CASE target = "answer"
    <2>1. done = <<>> /\ Taken(d, inverted)
      BY Zenon, <1>1, <1>11
    <2>2. \A j \in 1..(WordBits + 1) : d[j] \in Bit
      <3>1. d \in Seq(Bit) /\ Len(d) = WordBits + 1
        BY Zenon, <1>1, <1>4, DatumParity
      <3> HIDE DEF d
      <3> QED BY Zenon, <3>1, ElementOfSeq
    <2>3. m <= WordBits + 1 => x = (d[WordBits + 2 - m] + f) % 2
      <3>1. SUFFICES ASSUME m <= WordBits + 1 PROVE x = (d[WordBits + 2 - m] + f) % 2
        OBVIOUS
      <3>2. m \in Nat /\ m > 0
        <4>1. plan \in Seq(Slots) /\ plan # <<>>
          BY Zenon, <1>11 DEF Inv, TypeInv, OnesInv
        <4>2. m \in Nat
          BY <4>1
        <4> QED BY Zenon, <4>1, <4>2, LeftOfTail
      <3> HIDE DEF n, m
      <3>3. /\ m + (IdleCycles + 1) = n /\ "swdio" \in out /\ ~TargetDrives
        <4>1. ~(n > IdleCycles + (WordBits + 1) + 0 + 2 /\ m + (IdleCycles + 0 + 2) = n)
          BY SMT, <1>4, <1>5, <3>1, <3>2
        <4>2. "idle" # "answer"
          OBVIOUS
        <4> QED BY Zenon, <1>8, <1>11, <4>1, <4>2
      <3>4. n = IdleCycles + 1 + m /\ m \in 1..(WordBits + 1)
        BY SMT, <1>4, <1>5, <3>1, <3>2, <3>3
      <3>5. Head(script) = WriteBit(d[WordBits + 2 - m])
        BY Zenon, <1>7, <3>4
      <3>6. Head(script).op = "write" /\ Head(script).bit = d[WordBits + 2 - m]
        BY <3>5 DEF WriteBit
      <3>7. Line = d[WordBits + 2 - m]
        BY Zenon, <1>3, <3>3, <3>6 DEF Line
      <3> QED BY Zenon, <1>3, <3>7
    <2> HIDE DEF d
    <2>4. UNCHANGED asked
      BY Zenon, <1>3
    <2>5. /\ m # 1 =>
               done' = <<>> /\ RightRequest' /\ Takes' /\ SoFar(heard', plan', d, inverted \/ f = 1)
          /\ m = 1 => AllTaken(done', d, inverted \/ f = 1)
      BY Zenon, <1>3, <1>4, <1>11, <2>1, <2>2, <2>3, <2>4, TakenGoesOn
    <2>6. (m = 1 => target' = "idle") /\ (m # 1 => target' = "answer") /\ "idle" # "answer"
      <3>1. "idle" # "answer"
        OBVIOUS
      <3> QED BY Zenon, <1>3, <1>11, <3>1, PlanGoesOn
    <2>7. CASE m = 1
      <3>1. AllTaken(done', Datum(asked.word), inverted')
        BY Zenon, <1>3, <2>5, <2>7 DEF d
      <3>2. done' = <<Access(asked.word)>> \/ (done' = <<>> /\ inverted')
        BY Zenon, <1>1, <1>4, <1>9, <3>1, WordArrives
      <3> QED BY Zenon, <1>1, <1>3, <1>6, <1>7, <1>10, <2>6, <2>7, <3>2 DEF FollowingWrite
    <2>8. CASE m # 1
      <3>1. done' = <<>>
        BY Zenon, <2>5, <2>8
      <3>2. Taken(Datum(asked.word), inverted)'
        BY Zenon, <1>3, <1>10, <2>5, <2>8 DEF Taken, d
      <3> QED BY Zenon, <1>1, <1>3, <1>6, <1>7, <2>6, <2>8, <3>1, <3>2 DEF FollowingWrite
    <2> QED BY Zenon, <2>7, <2>8
  <1>12. CASE target # "answer"
    <2>1. target = "idle"
      BY Zenon, <1>8, <1>12
    <2>2. done' = done
      BY Zenon, <1>3, <2>1, HearsNothing, TypesGiveWire DEF Inv
    <2>3. target' # "answer"
      BY Zenon, <1>6, <1>12
    <2> QED BY Zenon, <1>1, <1>3, <1>6, <1>7, <1>9, <1>10, <1>12, <2>2, <2>3 DEF FollowingWrite
  <1> QED BY Zenon, <1>11, <1>12

LEMMA FollowTarget ==
  ASSUME NEW z, NEW b, NEW v, Following(z, b, v)
  PROVE  target = "idle" \/ target = "answer"
  <1>1. PICK m \in Nat : FollowPlan(m, b)
    BY Zenon DEF Following
  <1>2. m = 0 \/ m > 0
    BY SMT
  <1> QED BY Zenon, <1>1, <1>2 DEF FollowPlan

\* A transfer that is refused, or of which the acknowledgement got lost.
LEMMA NothingCycle ==
  ASSUME Inv, FollowingNothing, NEW f \in Bit, NEW x, Pulse(f, x), Line \in Bit
  PROVE  FollowingNothing'
  <1>1. PICK b \in Nat, v \in {0, 1} : Following(0, b, v)
    BY Zenon DEF FollowingNothing
  <1>2. /\ ack # Ok /\ (target = "answer" => NoTakes)
        /\ IF ack \in {Wait, Fault} THEN done = <<>> ELSE inverted /\ OnlySent
    BY Zenon DEF FollowingNothing
  <1>3. /\ x \in Bit /\ Hears(x) /\ inverted' = (inverted \/ f = 1)
        /\ asked' = asked /\ ack' = ack /\ script # <<>>
        /\ Head(script).op \in {"write", "read", "clock"}
    BY Zenon DEF Pulse
  <1>4. Following(0, b, v)' /\ (target' = "answer" => target = "answer")
    <2>1. 0 \in Nat /\ 0 = 0
      OBVIOUS
    <2> QED BY Zenon, <1>1, <2>1, PulseFollows
  <1>5. target \in {"idle", "lost", "reset", "answer"}
    <2>1. target = "idle" \/ target = "answer"
      BY Zenon, <1>1, FollowTarget
    <2> QED BY <2>1
  <1>6. done' = done /\ (target = "answer" => NoTakes')
    BY Zenon, <1>2, <1>3, <1>5, NothingPerformed
  <1>7. OnlySent => OnlySent'
    <2>1. \A w : Access(w)' = Access(w)
      BY Zenon, <1>3 DEF Access
    <2> QED BY Zenon, <1>3, <1>6, <2>1 DEF OnlySent
  <1>8. inverted => inverted'
    BY Zenon, <1>3
  <1> QED BY Zenon, <1>1, <1>2, <1>3, <1>4, <1>6, <1>7, <1>8 DEF FollowingNothing

\* A write of which the acknowledgement got lost: the target takes a word that
\* nobody sends.
LEMMA OnesCycle ==
  ASSUME Inv, FollowingOnes, NEW f \in Bit, NEW x, Pulse(f, x), Line \in Bit
  PROVE  FollowingOnes'
  <1> DEFINE n == Len(script)
             m == Len(plan)
             d == Times(WordBits + 1, 1)
  <1>1. /\ ack \notin {Ok, Wait, Fault} /\ asked.read = 0 /\ inverted /\ done = <<>>
        /\ Following(0, 0, 0)
        /\ target = "answer" => Taken(d, FALSE)
    BY Zenon DEF FollowingOnes
  <1>2. /\ x \in Bit /\ Hears(x) /\ asked' = asked /\ ack' = ack /\ script # <<>>
        /\ Head(script).op \in {"write", "read", "clock"}
        /\ inverted' = (inverted \/ f = 1) /\ x = (Line + f) % 2
    BY Zenon DEF Pulse
  <1>3. f # 1 /\ x = Line
    <2>1. f # 1
      BY Zenon, <1>1 DEF Pulse
    <2> QED BY Zenon, <1>2, <2>1, NotInverted
  <1>4. 0 \in Nat /\ 0 \in {0, 1} /\ 0 = 0 /\ 0 \in Bit /\ ~(0 = 1) /\ FALSE \in BOOLEAN
    BY DEF Bit
  <1>5. Following(0, 0, 0)' /\ (target' = "answer" => target = "answer")
    BY Zenon, <1>1, <1>4, PulseFollows
  <1>6. LET first == n > 0 + 0 + 0 + 2
            second == 0 + 1 < n /\ n <= 0 + 0 + 1
            third == 1 < n /\ n <= 0 + 1
        IN  /\ first \/ second \/ third
            /\ first => target = "answer" /\ m + (0 + 0 + 2) = n /\ "swdio" \notin out
    BY Zenon, <1>1, <1>2, <1>4, FollowSlot
  <1>7. target = "answer" /\ "swdio" \notin out
    <2>1. n \in Nat
      <3>1. script \in Seq(Operations)
        BY Zenon DEF Inv, TypeInv, TypeOK
      <3> QED BY <3>1
    <2> HIDE DEF n
    <2>2. n > 0 + 0 + 0 + 2
      BY SMT, <1>6, <2>1
    <2> QED BY Zenon, <1>6, <2>2
  <1>8. Taken(d, FALSE) /\ Takes /\ plan \in Seq(Slots) /\ plan # <<>>
    BY Zenon, <1>1, <1>7 DEF Taken, Inv, TypeInv, OnesInv
  <1>9. WordBits \in Nat /\ WordBits + 1 \in Nat
    BY Sizes
  <1>10. d \in Seq(Bit) /\ Len(d) = WordBits + 1 /\ \A j \in 1..(WordBits + 1) : d[j] = 1
    BY Zenon, <1>9, OnesAre
  <1>11. m \in Nat /\ m > 0 /\ Head(plan) = Left(plan, m)
    <2>1. m \in Nat
      BY <1>8
    <2> QED BY Zenon, <1>8, <2>1, LeftOfTail
  <1> HIDE DEF n, m, d
  <1>12. m <= WordBits + 1 => x = (d[WordBits + 2 - m] + 0) % 2
    <2>1. SUFFICES ASSUME m <= WordBits + 1 PROVE x = (d[WordBits + 2 - m] + 0) % 2
      OBVIOUS
    <2>2. m \in 1..m /\ WordBits + 2 - m \in 1..(WordBits + 1)
      BY SMT, <1>9, <1>11, <2>1
    <2>3. Head(plan).act = "take"
      BY Zenon, <1>8, <1>11, <2>1, <2>2 DEF Takes, m
    <2>4. ~TargetDrives
      BY <2>3 DEF TargetDrives
    <2>5. Line = 1
      BY Zenon, <1>7, <2>4 DEF Line
    <2>6. (1 + 0) % 2 = 1
      BY SMT
    <2> QED BY Zenon, <1>3, <1>10, <2>2, <2>5, <2>6
  <1>13. \A j \in 1..(WordBits + 1) : d[j] \in Bit
    BY Zenon, <1>9, <1>10, ElementOfSeq
  <1>14. UNCHANGED asked
    BY Zenon, <1>2
  <1>15. /\ m # 1 =>
              done' = <<>> /\ RightRequest' /\ Takes' /\ SoFar(heard', plan', d, FALSE \/ 0 = 1)
         /\ m = 1 => AllTaken(done', d, FALSE \/ 0 = 1)
    BY Zenon, <1>1, <1>2, <1>4, <1>7, <1>8, <1>12, <1>13, <1>14, TakenGoesOn DEF m
  <1>16. (FALSE \/ 0 = 1) = FALSE
    OBVIOUS
  <1>17. (m = 1 => target' = "idle") /\ "idle" # "answer"
    <2>1. "idle" # "answer"
      OBVIOUS
    <2> QED BY Zenon, <1>2, <1>7, <2>1, PlanGoesOn DEF m
  <1>18. done' = <<>> /\ (target' = "answer" => Taken(d, FALSE)')
    <2>1. CASE m = 1
      <3>1. AllTaken(done', d, FALSE)
        BY Zenon, <1>15, <1>16, <2>1
      <3>2. PICK data \in Seq(Bit) :
              /\ Len(data) = WordBits + 1 /\ Nearly(data, d, FALSE)
              /\ done' = IF Parity(data) = 0 THEN <<Access(SubSeq(data, 1, WordBits))>> ELSE <<>>
        BY Zenon, <3>1 DEF AllTaken
      <3>3. Parity(data) = 1
        BY Zenon, <3>2, OnesAreNoWord DEF d
      <3>4. 1 # 0
        OBVIOUS
      <3> QED BY Zenon, <1>17, <2>1, <3>2, <3>3, <3>4
    <2>2. CASE m # 1
      BY Zenon, <1>15, <1>16, <2>2 DEF Taken
    <2> QED BY Zenon, <2>1, <2>2
  <1>19. d' = d
    BY DEF d
  <1> QED BY Zenon, <1>1, <1>2, <1>5, <1>18 DEF FollowingOnes, d

\* Cycles that the target does not count: the probe leaves the line high.
LEMMA VainCycle ==
  ASSUME Inv, FollowingInVain, NEW f \in Bit, NEW x, Pulse(f, x), Line \in Bit
  PROVE  FollowingInVain'
  <1> DEFINE n == Len(script)
             m == Len(plan)
             l == Len(heard)
  <1>1. /\ ack \notin {Ok, Wait, Fault} /\ inverted /\ done = <<>>
        /\ FollowOps(script, n, 0, 0, 0) /\ ("swdio" \in out <=> n < 0 + 0 + 0 + 2)
        /\ target = "answer" => n = m + WordBits + 3 /\ NoTakes
        /\ target = "idle" => n >= 10
        /\ target = "header" => l + n >= 10 /\ (l = 7 => heard[7] = 1)
    BY Zenon DEF FollowingInVain, FollowShape
  <1>2. /\ x \in Bit /\ Hears(x) /\ ack' = ack /\ script # <<>> /\ script' = Tail(script)
        /\ Head(script).op \in {"write", "read", "clock"} /\ out' = out
        /\ inverted' = (inverted \/ f = 1) /\ x = (Line + f) % 2
    BY Zenon DEF Pulse
  <1>3. x = Line
    <2>1. f # 1
      BY Zenon, <1>1 DEF Pulse
    <2> QED BY Zenon, <1>2, <2>1, NotInverted
  <1>4. /\ WireOK /\ WordBits \in Nat /\ WordBits >= 8
        /\ script \in Seq(Operations) /\ plan \in Seq(Slots)
    BY Zenon, TypesGiveWire, Sizes, WordsAreEven DEF Inv, TypeInv, TypeOK
  <1>5. n \in Nat /\ n > 0 /\ Len(script') = n - 1
    BY Zenon, <1>2, <1>4, ScriptGoesOn
  <1>6. n > 2
    <2>1. n = 1 => Head(script).op = "level"
      BY Zenon, <1>1, <1>2, <1>4, FollowHead
    <2>2. n = 0 + 0 + 0 + 2 => Head(script).op = "output"
      BY Zenon, <1>1, <1>2, <1>4, FollowHead
    <2>3. n # 1 /\ n # 0 + 0 + 0 + 2
      BY <1>2, <2>1, <2>2
    <2> HIDE DEF n
    <2> QED BY SMT, <1>5, <2>3
  <1>7. ~(n < 0 + 0 + 0 + 2) /\ ~(n - 1 < 0 + 0 + 0 + 2)
    <2> HIDE DEF n
    <2> QED BY SMT, <1>5, <1>6
  <1>8. FollowShape(0, 0, 0)'
    <2>1. FollowOps(script', Len(script'), 0, 0, 0)
      BY Zenon, <1>1, <1>2, <1>4, FollowOpsGoOn
    <2> QED BY Zenon, <1>1, <1>2, <1>5, <1>7, <2>1 DEF FollowShape
  <1>9. /\ "header" # "answer" /\ "idle" # "answer" /\ "header" # "idle" /\ "header" # "reset"
        /\ "header" # "lost" /\ "idle" # "lost" /\ "idle" # "reset" /\ "lost" # "reset"
        /\ "lost" # "answer" /\ "reset" # "answer"
    OBVIOUS
  <1>10. target # "answer" => x = 1
    BY Zenon, <1>1, <1>3, <1>7 DEF Line, TargetDrives
  <1> HIDE DEF n, m, l
  <1>11. /\ done' = done
         /\ target' = "answer" => n - 1 = Len(plan') + WordBits + 3 /\ NoTakes'
         /\ target' = "idle" => n - 1 >= 10
         /\ target' = "header" => Len(heard') + (n - 1) >= 10 /\ (Len(heard') = 7 => heard'[7] = 1)
    <2>1. CASE target = "answer"
      <3>1. /\ m \in Nat /\ m > 0 /\ Len(plan') = m - 1
            /\ m = 1 => target' = "idle"
            /\ m # 1 => target' = "answer"
        BY Zenon, <1>2, <2>1, PlanGoesOn DEF m
      <3>2. n = m + WordBits + 3 /\ NoTakes
        BY Zenon, <1>1, <2>1
      <3>3. done' = done /\ NoTakes'
        BY Zenon, <1>2, <2>1, <3>2, NoTakesGoesOn
      <3>4. n - 1 = (m - 1) + WordBits + 3 /\ n - 1 >= 10
        BY SMT, <1>4, <1>5, <3>1, <3>2
      <3> QED BY Zenon, <1>9, <3>1, <3>3, <3>4
    <2>2. CASE target \in {"lost", "reset"}
      <3>1. done' = done
        BY Zenon, <1>2, <1>4, <2>2, HearsNothing
      <3>2. target' \in {"lost", "reset"}
        <4>1. CASE target = "lost"
          BY Zenon, <1>2, <1>4, <1>9, <4>1, HearsCases
        <4>2. CASE target = "reset"
          <5>1. ones = ResetBits
            BY Zenon, <4>2 DEF Inv, OnesInv
          <5>2. x # 0 /\ ~TargetDrives /\ ~(ones < ResetBits)
            <6>1. ~(ones < ResetBits)
              BY SMT, <5>1, Sizes
            <6>2. x # 0
              BY <1>10, <4>2
            <6> QED BY Zenon, <1>9, <4>2, <6>1, <6>2 DEF TargetDrives
          <5>3. ones' = ones
            BY Zenon, <1>2, <1>4, <5>2, HearsCases
          <5>4. ~(ones' < ResetBits)
            BY Zenon, <5>2, <5>3
          <5> QED BY Zenon, <1>2, <1>4, <5>4, HearsCases
        <4> QED BY Zenon, <2>2, <4>1, <4>2
      <3> QED BY Zenon, <1>9, <3>1, <3>2
    <2>3. CASE target = "idle"
      <3>1. done' = done
        BY Zenon, <1>2, <1>4, <2>3, HearsNothing
      <3>2. x # 0
        BY <1>10, <2>3
      <3>3. target' = "reset" \/ (target' = "header" /\ heard' = <<1>>)
        BY Zenon, <1>2, <1>4, <1>9, <2>3, <3>2, HearsCases
      <3>4. Len(<<1>>) = 1 /\ 1 + (n - 1) >= 10 /\ 1 # 7
        <4>1. n >= 10
          BY Zenon, <1>1, <2>3
        <4>2. 1 + (n - 1) >= 10
          BY SMT, <1>5, <4>1
        <4> QED BY <4>2
      <3> QED BY Zenon, <1>9, <3>1, <3>3, <3>4
    <2>4. CASE target = "header"
      <3>1. l + n >= 10 /\ (l = 7 => heard[7] = 1) /\ x = 1
        BY Zenon, <1>1, <1>9, <1>10, <2>4
      <3>2. /\ done' = done /\ target' \in {"lost", "reset", "header"} /\ l \in 1..7
            /\ target' = "header" => Len(heard') = l + 1 /\ (Len(heard') = 7 => heard'[7] = 1)
        BY Zenon, <1>2, <2>4, <3>1, LateGoesOn DEF l
      <3>3. (l + 1) + (n - 1) >= 10
        BY SMT, <1>5, <3>1, <3>2
      <3> QED BY Zenon, <1>9, <3>2, <3>3
    <2>5. target \in {"lost", "reset", "idle", "header", "answer"}
      BY Zenon DEF Inv, TypeInv, TypeOK
    <2> QED BY Zenon, <2>1, <2>2, <2>3, <2>4, <2>5
  <1>12. inverted'
    BY Zenon, <1>1, <1>2
  <1> QED BY Zenon, <1>1, <1>2, <1>5, <1>8, <1>11, <1>12 DEF FollowingInVain

\* Between the cycles only the pins change.
PinsOnly ==
  /\ script # <<>> /\ ~InCycle /\ script' = Tail(script)
  /\ turnaround' = turnaround /\ dataPhase' = dataPhase /\ asked' = asked /\ ack' = ack
  /\ got' = got /\ target' = target /\ heard' = heard /\ plan' = plan /\ done' = done
  /\ inverted' = inverted

LEMMA SetPinIs ==
  ASSUME SetPin
  PROVE  PinsOnly
  BY DEF SetPin, PinsOnly, config, reply, wire

LEMMA Unheard ==
  ASSUME PinsOnly
  PROVE  /\ \A w : Access(w)' = Access(w) /\ Sends(w)' = Sends(w)
         /\ NoTakes' = NoTakes /\ OnlySent' = OnlySent
         /\ \A d, i : Taken(d, i) => Taken(d, i)'
         /\ Datum(asked.word)' = Datum(asked.word)
  <1>1. /\ turnaround' = turnaround /\ asked' = asked
        /\ heard' = heard /\ plan' = plan /\ done' = done
    BY Zenon DEF PinsOnly
  <1>2. \A w : Access(w)' = Access(w) /\ Sends(w)' = Sends(w)
    BY Zenon, <1>1 DEF Access, Sends
  <1>3. NoTakes' = NoTakes /\ Takes' = Takes /\ RightRequest' = RightRequest
    BY Zenon, <1>1 DEF NoTakes, Takes, RightRequest, Bits
  <1>4. ASSUME NEW d, NEW i, Taken(d, i) PROVE Taken(d, i)'
    BY Zenon, <1>1, <1>3, <1>4 DEF Taken
  <1>5. OnlySent' = OnlySent
    BY Zenon, <1>1, <1>2 DEF OnlySent
  <1>6. Datum(asked.word)' = Datum(asked.word)
    BY Zenon, <1>1
  <1> QED BY Zenon, <1>2, <1>3, <1>4, <1>5, <1>6

LEMMA ReadSetPin ==
  ASSUME Inv, SetPin, FollowingRead
  PROVE  FollowingRead'
  <1> DEFINE n == Len(script)
  <1>1. PinsOnly /\ script \in Seq(Operations)
    BY Zenon, SetPinIs DEF Inv, TypeInv, TypeOK
  <1>2. /\ ack = Ok /\ asked.read = 1 /\ Following(IdleCycles, 0, 0) /\ ReadOps /\ ReadSoFar
        /\ target = "answer" => NoTakes
    BY Zenon DEF FollowingRead
  <1>3. PICK w \in Words : /\ done = <<Access(w)>> /\ Nearly(got, Datum(w), inverted)
                           /\ target = "answer" => Sends(w)
    BY Zenon DEF FollowingRead
  <1>4. Following(IdleCycles, 0, 0)'
    <2>1. IdleCycles \in Nat /\ 0 \in Nat /\ 0 \in {0, 1}
      BY Sizes
    <2> QED BY Zenon, <1>2, <2>1, FollowingSetPin
  <1>5. script # <<>> /\ script' = Tail(script) /\ turnaround' = turnaround
    BY Zenon, <1>1 DEF PinsOnly
  <1>6. /\ ReadOps'
        /\ turnaround + IdleCycles + 2 < n => Head(script) = ReadBit
    BY Zenon, <1>2, <1>5, ReadOpsGoOn
  <1>7. n \in Nat /\ n > 0 /\ Len(script') = n - 1
    BY Zenon, <1>1, <1>5, ScriptGoesOn
  <1>8. ReadSoFar'
    <2>1. ~(turnaround + IdleCycles + 2 < n)
      BY <1>1, <1>6 DEF PinsOnly, InCycle, ReadBit
    <2>2. turnaround \in Nat /\ IdleCycles \in Nat
      BY Sizes DEF Inv, TypeInv, TypeOK
    <2> HIDE DEF n
    <2>3. ~(n > turnaround + IdleCycles + 2) /\ ~(n - 1 > turnaround + IdleCycles + 2)
      BY SMT, <1>7, <2>1, <2>2
    <2>4. Len(got) = WordBits + 1 /\ got' = got
      BY Zenon, <1>1, <1>2, <2>3 DEF ReadSoFar, n, PinsOnly
    <2> QED BY Zenon, <1>5, <1>7, <2>3, <2>4 DEF ReadSoFar
  <1>9. /\ ack' = ack /\ asked' = asked /\ target' = target /\ done' = done
        /\ Nearly(got', Datum(w), inverted') = Nearly(got, Datum(w), inverted)
    BY Zenon, <1>1 DEF PinsOnly
  <1>10. Access(w)' = Access(w) /\ Sends(w)' = Sends(w) /\ NoTakes' = NoTakes
    BY Zenon, <1>1, Unheard
  <1>11. /\ done' = <<Access(w)'>> /\ Nearly(got', Datum(w), inverted')
         /\ target' = "answer" => Sends(w)' /\ NoTakes'
    BY Zenon, <1>2, <1>3, <1>9, <1>10
  <1> QED BY Zenon, <1>2, <1>4, <1>6, <1>8, <1>9, <1>11 DEF FollowingRead

LEMMA OthersSetPin ==
  ASSUME Inv, SetPin
  PROVE  /\ FollowingWrite => FollowingWrite'
         /\ FollowingNothing => FollowingNothing'
         /\ FollowingOnes => FollowingOnes'
  <1>1. PinsOnly
    BY Zenon, SetPinIs
  <1>2. /\ asked' = asked /\ ack' = ack /\ target' = target /\ done' = done
        /\ inverted' = inverted /\ script # <<>> /\ script' = Tail(script)
    BY Zenon, <1>1 DEF PinsOnly
  <1>3. /\ \A w : Access(w)' = Access(w) /\ Sends(w)' = Sends(w)
        /\ NoTakes' = NoTakes /\ OnlySent' = OnlySent
        /\ \A d, i : Taken(d, i) => Taken(d, i)'
        /\ Datum(asked.word)' = Datum(asked.word)
    BY Zenon, <1>1, Unheard
  <1>4. IdleCycles \in Nat /\ WordBits + 1 \in Nat /\ 0 \in Nat /\ 0 \in {0, 1}
    BY Sizes
  <1>5. ASSUME FollowingWrite PROVE FollowingWrite'
    <2>1. Following(IdleCycles, WordBits + 1, 0)' /\ WriteOps'
      BY Zenon, <1>2, <1>4, <1>5, FollowingSetPin, WriteOpsGoOn DEF FollowingWrite
    <2>2. ack' = Ok /\ asked'.read = 0 /\ Len(asked'.word) = WordBits
      BY Zenon, <1>2, <1>5 DEF FollowingWrite
    <2>3. ASSUME target' = "answer" PROVE done' = <<>> /\ Taken(Datum(asked.word), inverted)'
      <3>1. done = <<>> /\ Taken(Datum(asked.word), inverted)
        BY Zenon, <1>2, <1>5, <2>3 DEF FollowingWrite
      <3>2. RightRequest' /\ Takes' /\ SoFar(heard', plan', Datum(asked.word), inverted)
        <4>1. RightRequest' = RightRequest /\ Takes' = Takes /\ heard' = heard /\ plan' = plan
          BY Zenon, <1>1 DEF PinsOnly, RightRequest, Takes, Bits
        <4> QED BY Zenon, <3>1, <4>1 DEF Taken
      <3> QED BY Zenon, <1>2, <1>3, <3>1, <3>2 DEF Taken
    <2>4. ASSUME target' # "answer"
          PROVE  done' = <<Access(asked.word)'>> \/ (done' = <<>> /\ inverted')
      BY Zenon, <1>2, <1>3, <1>5, <2>4 DEF FollowingWrite
    <2> QED BY Zenon, <2>1, <2>2, <2>3, <2>4 DEF FollowingWrite
  <1>6. ASSUME FollowingNothing PROVE FollowingNothing'
    <2>1. \E b \in Nat, v \in {0, 1} : Following(0, b, v)'
      BY Zenon, <1>4, <1>6, FollowingSetPin DEF FollowingNothing
    <2> QED BY Zenon, <1>2, <1>3, <1>6, <2>1 DEF FollowingNothing
  <1>7. ASSUME FollowingOnes PROVE FollowingOnes'
    <2>1. Following(0, 0, 0)'
      BY Zenon, <1>4, <1>7, FollowingSetPin DEF FollowingOnes
    <2>2. target' = "answer" => Taken(Times(WordBits + 1, 1), FALSE)'
      BY Zenon, <1>2, <1>3, <1>7 DEF FollowingOnes
    <2> QED BY Zenon, <1>2, <1>7, <2>1, <2>2 DEF FollowingOnes
  <1> QED BY Zenon, <1>5, <1>6, <1>7

LEMMA VainSetPin ==
  ASSUME Inv, SetPin, FollowingInVain
  PROVE  FollowingInVain'
  <1> DEFINE n == Len(script)
  <1>1. PinsOnly /\ script \in Seq(Operations) /\ plan \in Seq(Slots) /\ heard \in Seq(Bit)
    BY Zenon, SetPinIs DEF Inv, TypeInv, TypeOK
  <1>2. /\ ack \notin {Ok, Wait, Fault} /\ inverted /\ done = <<>>
        /\ FollowOps(script, n, 0, 0, 0) /\ ("swdio" \in out <=> n < 0 + 0 + 0 + 2)
        /\ target = "answer" => n = Len(plan) + WordBits + 3
        /\ target = "idle" => n >= 10
        /\ target = "header" => Len(heard) + n >= 10
    BY Zenon DEF FollowingInVain, FollowShape
  <1>3. /\ script # <<>> /\ ~InCycle /\ script' = Tail(script) /\ target' = target
        /\ ack' = ack /\ inverted' = inverted /\ done' = done
    BY Zenon, <1>1 DEF PinsOnly
  <1>4. n \in Nat /\ n > 0 /\ Len(script') = n - 1
    BY Zenon, <1>1, <1>3, ScriptGoesOn
  <1>5. /\ n = 1 => Head(script).op = "level"
        /\ n = 0 + 0 + 0 + 2 => Head(script).op = "output"
        /\ n > 0 + 0 + 0 + 2 => Head(script).op \in {"write", "read", "clock"}
    BY Zenon, <1>1, <1>2, <1>3, FollowHead
  <1>6. n = 1 \/ n = 0 + 0 + 0 + 2
    <2>1. ~(n > 0 + 0 + 0 + 2)
      BY Zenon, <1>3, <1>5 DEF InCycle
    <2> HIDE DEF n
    <2> QED BY SMT, <1>4, <2>1
  <1>7. out' = CASE Head(script).op = "output" -> out \cup {"swdio"}
                 [] Head(script).op = "input" -> out \ {"swdio"}
                 [] OTHER -> out
    BY Zenon DEF SetPin
  <1>8. "swdio" \in out' /\ n - 1 < 0 + 0 + 0 + 2
    <2>1. CASE n = 0 + 0 + 0 + 2
      <3>1. out' = out \cup {"swdio"}
        BY Zenon, <1>5, <1>7, <2>1
      <3>2. n - 1 < 0 + 0 + 0 + 2
        <4> HIDE DEF n
        <4> QED BY SMT, <2>1
      <3> QED BY <3>1, <3>2
    <2>2. CASE n = 1
      <3>1. out' = out
        BY <1>5, <1>7, <2>2
      <3>2. n < 0 + 0 + 0 + 2 /\ n - 1 < 0 + 0 + 0 + 2
        <4> HIDE DEF n
        <4> QED BY SMT, <2>2
      <3> QED BY Zenon, <1>2, <3>1, <3>2
    <2> QED BY Zenon, <1>6, <2>1, <2>2
  <1>9. FollowShape(0, 0, 0)'
    <2>1. FollowOps(script', Len(script'), 0, 0, 0)
      BY Zenon, <1>1, <1>2, <1>3, FollowOpsGoOn
    <2> QED BY Zenon, <1>4, <1>8, <2>1 DEF FollowShape
  <1>10. target \notin {"answer", "idle", "header"}
    <2>1. Len(plan) \in Nat /\ Len(heard) \in Nat /\ WordBits \in Nat
      BY <1>1, Sizes
    <2>2. target = "header" => Len(heard) \in 1..7
      BY Zenon DEF Inv, OnesInv
    <2> DEFINE p == Len(plan)
               h == Len(heard)
    <2>3. ~(n = p + WordBits + 3) /\ ~(n >= 10) /\ (h \in 1..7 => ~(h + n >= 10))
      <3>1. p \in Nat
        BY <2>1
      <3> HIDE DEF n, p, h
      <3> QED BY SMT, <1>6, <2>1, <3>1, WordsAreEven
    <2> QED BY <1>2, <2>2, <2>3
  <1> QED BY Zenon, <1>2, <1>3, <1>9, <1>10 DEF FollowingInVain

\* The acknowledgement is read: what the probe and the target have come to.
LEMMA AcknowledgedIs ==
  ASSUME Inv, Acknowledged
  PROVE  /\ pc = "acknowledged" /\ script = <<>> /\ ack' = got /\ got' = <<>>
         /\ turnaround' = turnaround /\ dataPhase' = dataPhase /\ out' = out /\ asked' = asked
         /\ target' = target /\ heard' = heard /\ plan' = plan /\ done' = done
         /\ inverted' = inverted
         /\ NoTakes' = NoTakes /\ Takes' = Takes /\ RightRequest' = RightRequest
         /\ OnlySent' = OnlySent
         /\ \A w : Access(w)' = Access(w) /\ Sends(w)' = Sends(w)
  <1>1. /\ pc = "acknowledged" /\ script = <<>> /\ ack' = got /\ got' = <<>>
        /\ turnaround' = turnaround /\ dataPhase' = dataPhase /\ out' = out /\ asked' = asked
        /\ target' = target /\ heard' = heard /\ plan' = plan /\ done' = done
        /\ inverted' = inverted
    BY DEF Acknowledged, config, pins, wire
  <1>2. \A w : Access(w)' = Access(w) /\ Sends(w)' = Sends(w)
    BY Zenon, <1>1 DEF Access, Sends
  <1>3. NoTakes' = NoTakes /\ Takes' = Takes /\ RightRequest' = RightRequest
    BY Zenon, <1>1 DEF NoTakes, Takes, RightRequest, Bits
  <1>4. OnlySent' = OnlySent
    BY Zenon, <1>1, <1>2 DEF OnlySent
  <1> QED BY Zenon, <1>1, <1>2, <1>3, <1>4

HasAnswered(k) ==
  /\ target = "answer" /\ Len(plan) = Follow(k)
  /\ got \in Seq(Bit) /\ Len(got) = 3 /\ Nearly(got, k, inverted)
  /\ asked.read = 0 /\ (k = Ok \/ dataPhase) =>
       \A j \in 1..(WordBits + 1) : Left(plan, j).act \notin Foreign
  /\ AskFollows(k)

LEMMA AskEnds ==
  ASSUME Inv, script = <<>>
  PROVE  /\ Asking => "swdio" \notin out /\ \E k \in Acks : HasAnswered(k)
         /\ AskingInVain =>
              /\ "swdio" \notin out /\ inverted /\ done = <<>>
              /\ got \in Seq(Bit) /\ Len(got) = 3 /\ \A j \in 1..3 : got[j] = 1
              /\ target \in {"lost", "reset", "idle", "header"}
              /\ target = "header" => (Len(heard) = 7 => heard[7] = 1)
  <1>1. turnaround \in Nat /\ WordBits \in Nat /\ got \in Seq(Bit) /\ dataPhase \in BOOLEAN
    BY Sizes DEF Inv, TypeInv, TypeOK
  <1>2. Len(script) = 0
    OBVIOUS
  <1>3. /\ 0 <= turnaround + 4 /\ ~(0 > turnaround + 3) /\ 0 <= 3 /\ ~(0 > turnaround + 4)
    BY SMT, <1>1
  <1>4. ASSUME Len(got) + 0 = 3 PROVE Len(got) = 3
    <2> DEFINE g == Len(got)
    <2>1. g \in Nat /\ g + 0 = 3
      BY <1>1, <1>4
    <2> HIDE DEF g
    <2>2. g = 3
      BY SMT, <2>1
    <2> QED BY Zenon, <2>2 DEF g
  <1>5. ASSUME Asking PROVE "swdio" \notin out /\ \E k \in Acks : HasAnswered(k)
    <2>1. PICK k \in {Ok, Wait, Fault} : AskAnswer(k) /\ AskFollows(k)
      BY Zenon, <1>2, <1>3, <1>5 DEF Asking
    <2>2. /\ target = "answer"
          /\ Len(plan) = Follow(k) + 0
          /\ Len(got) + 0 = 3 /\ Nearly(got, k, inverted)
          /\ asked.read = 0 /\ (k = Ok \/ dataPhase) =>
               \A j \in 1..(WordBits + 1) : Left(plan, j).act \notin Foreign
      BY Zenon, <1>2, <1>3, <2>1 DEF AskAnswer
    <2>3. Follow(k) + 0 = Follow(k)
      <3>1. Follow(k) \in Nat
        BY <1>1 DEF Follow
      <3> QED BY SMT, <3>1
    <2>4. "swdio" \notin out
      BY Zenon, <1>2, <1>3, <1>5 DEF Asking, AskPins
    <2>5. HasAnswered(k) /\ k \in Acks
      BY Zenon, <1>1, <1>4, <2>1, <2>2, <2>3 DEF HasAnswered, Acks
    <2> QED BY Zenon, <2>4, <2>5
  <1>6. ASSUME AskingInVain
        PROVE  /\ "swdio" \notin out /\ inverted /\ done = <<>>
               /\ got \in Seq(Bit) /\ Len(got) = 3 /\ \A j \in 1..3 : got[j] = 1
               /\ target \in {"lost", "reset", "idle", "header"}
               /\ target = "header" => (Len(heard) = 7 => heard[7] = 1)
    <2>1. "swdio" \notin out
      BY Zenon, <1>2, <1>3, <1>6 DEF AskingInVain, AskPins
    <2>2. Len(got) + 0 = 3 /\ \A j \in 1..Len(got) : got[j] = 1
      BY Zenon, <1>2, <1>3, <1>6 DEF AskingInVain
    <2>3. ~WrongBit
      BY Zenon, <1>2, <1>3 DEF WrongBit
    <2>4. target = "header" => (Len(heard) = 7 => heard[7] = 1)
      BY Zenon, <1>6, <2>3 DEF AskingInVain, LateStart
    <2> QED BY Zenon, <1>1, <1>4, <1>6, <2>1, <2>2, <2>4 DEF AskingInVain
  <1> QED BY Zenon, <1>5, <1>6

\* A word is read.
LEMMA ReadBegins ==
  ASSUME Inv, Acknowledged, "swdio" \notin out, HasAnswered(Ok), got = Ok, asked.read = 1
  PROVE  FollowingRead'
  <1> DEFINE c == WordBits + 1 + turnaround
  <1>1. /\ ack' = Ok /\ got' = <<>> /\ turnaround' = turnaround /\ out' = out /\ asked' = asked
        /\ target' = target /\ plan' = plan /\ done' = done
        /\ NoTakes' = NoTakes
        /\ \A w : Access(w)' = Access(w) /\ Sends(w)' = Sends(w)
    BY Zenon, AcknowledgedIs
  <1>2. turnaround \in Turnarounds /\ turnaround \in Nat /\ WordBits \in Nat /\ IdleCycles \in Nat
    BY Sizes DEF Inv, TypeInv, TypeOK
  <1>3. FollowsBy(script', c, IdleCycles, 0, 0) /\ script' = ReadScript \o IdleScript
    BY Zenon, <1>1, ScriptFollows DEF Inv
  <1>4. target = "answer" /\ Len(plan) = c /\ AskFollows(Ok)
    BY Zenon DEF HasAnswered, Follow
  <1>5. /\ c \in Nat /\ c > 0 /\ c = c + 0 /\ 0 \in Nat /\ 0 \in {0, 1}
        /\ \A j : j \notin 1..0
    <2>1. c \in Nat /\ c > 0 /\ c = c + 0
      BY SMT, <1>2
    <2> QED BY <2>1
  <1> HIDE DEF c
  <1>6. Following(IdleCycles, 0, 0)'
    <2>1. Len(plan)' = c + 0 /\ target' = "answer" /\ "swdio" \notin out'
      BY Zenon, <1>1, <1>4, <1>5
    <2> QED BY Zenon, <1>2, <1>3, <1>5, <2>1, FollowingStarts
  <1>7. Len(script') = c + (1 + (0 + (0 + (IdleCycles + 1))))
    BY Zenon, <1>3 DEF FollowsBy
  <1>8. Len(script') \in Nat /\ Len(script') = turnaround + IdleCycles + 3 + WordBits
    <2>1. c + (1 + (0 + (0 + (IdleCycles + 1)))) = turnaround + IdleCycles + 3 + WordBits
          /\ turnaround + IdleCycles + 3 + WordBits \in Nat
      BY SMT, <1>2 DEF c
    <2> QED BY Zenon, <1>7, <2>1
  <1> DEFINE n == turnaround + IdleCycles + 3 + WordBits
  <1>9. ReadOps'
    <2>1. ASSUME NEW i \in 1..n
          PROVE  /\ IdleCycles + 2 < i /\ i <= turnaround + IdleCycles + 2 =>
                      i \in (IdleCycles + 3)..(turnaround + IdleCycles + 2)
                 /\ turnaround + IdleCycles + 2 < i => i \in (turnaround + IdleCycles + 3)..n
      BY SMT, <1>2
    <2>2. /\ \A i \in (turnaround + IdleCycles + 3)..n : Left(script', i) = ReadBit
          /\ \A i \in (IdleCycles + 3)..(turnaround + IdleCycles + 2) : Left(script', i) = Clock
      BY Zenon, <1>2, <1>3, ReadsComeFirst
    <2>3. turnaround' = turnaround /\ Len(script') = n
      BY Zenon, <1>1, <1>8
    <2> HIDE DEF n
    <2> QED BY Zenon, <2>1, <2>2, <2>3 DEF ReadOps
  <1>10. ReadSoFar'
    <2>1. n > turnaround + IdleCycles + 2 /\ 0 + n = n /\ Len(<<>>) = 0
      <3>1. n > turnaround + IdleCycles + 2 /\ 0 + n = n
        BY SMT, <1>2
      <3> QED BY <3>1
    <2> QED BY Zenon, <1>1, <1>8, <2>1 DEF ReadSoFar
  <1>11. PICK w \in Words : done = <<Access(w)>> /\ Sends(w)
    BY Zenon, <1>4 DEF AskFollows
  <1>12. NoTakes
    <2>1. asked.read # 0
      BY SMT
    <2> QED BY Zenon, <1>4, <2>1 DEF AskFollows
  <1>13. done' = <<Access(w)'>> /\ Nearly(got', Datum(w), inverted') /\ Sends(w)' /\ NoTakes'
    BY Zenon, <1>1, <1>11, <1>12, NearlyNothing
  <1> QED BY Zenon, <1>1, <1>6, <1>9, <1>10, <1>13 DEF FollowingRead

\* Nothing has been taken of the word yet.
LEMMA TakingBegins ==
  ASSUME Inv, heard' = heard, plan' = plan, RightRequest', Takes', Len(heard) = 8,
         Len(plan) = WordBits + 1 + turnaround, NEW d, d' = d, NEW i, i' = i
  PROVE  Taken(d, i)'
  <1>1. WordBits \in Nat /\ turnaround \in Nat /\ turnaround > 0 /\ heard \in Seq(Bit)
    BY Sizes DEF Inv, TypeInv, TypeOK
  <1>2. Had(WordBits + 1 + turnaround) = 0
    BY SMT, <1>1 DEF Had
  <1>3. SubSeq(heard, 9, 8) = <<>> /\ 8 + 0 = 8
    BY <1>1
  <1>4. Nearly(<<>>, d, i)
    BY Zenon, NearlyNothing
  <1>5. Len(heard) = 8 + Had(Len(plan)) /\ Nearly(SubSeq(heard, 9, Len(heard)), d, i)
    BY Zenon, <1>2, <1>3, <1>4
  <1>6. SoFar(heard', plan', d, i)
    BY Zenon, <1>5 DEF SoFar
  <1> QED BY Zenon, <1>6 DEF Taken

\* A word is written.
LEMMA WriteBegins ==
  ASSUME Inv, Acknowledged, "swdio" \notin out, HasAnswered(Ok), got = Ok, asked.read = 0
  PROVE  FollowingWrite'
  <1> DEFINE u == Datum(asked.word)
             n == WordBits + 1
             t == turnaround
  <1>1. /\ ack' = Ok /\ turnaround' = turnaround /\ out' = out /\ asked' = asked
        /\ target' = target /\ plan' = plan /\ heard' = heard /\ done' = done
        /\ inverted' = inverted /\ Takes' = Takes /\ RightRequest' = RightRequest
        /\ pc = "acknowledged"
    BY Zenon, AcknowledgedIs
  <1>2. /\ t \in Turnarounds /\ t \in Nat /\ t > 0 /\ n \in Nat /\ IdleCycles \in Nat
        /\ 0 \in {0, 1}
    BY Sizes DEF Inv, TypeInv, TypeOK
  <1>3. asked.word \in Seq(Bit) /\ Len(asked.word) = WordBits
    <2>1. asked \in Requests /\ Len(asked.word) = WordBits
      BY Zenon, <1>1 DEF Inv, TypeInv
    <2>2. asked.word \in Seq(Bit)
      <3> HIDE DEF Bit
      <3> QED BY <2>1 DEF Requests
    <2> QED BY Zenon, <2>1, <2>2
  <1>4. asked.read # 1
    BY SMT
  <1>5. FollowsBy(script', t, IdleCycles, n, 0) /\ script' = WriteScript(asked.word) \o IdleScript
    BY Zenon, <1>1, ScriptFollows DEF Inv
  <1>6. /\ target = "answer" /\ Len(plan) = n + t /\ AskFollows(Ok)
        /\ \A j \in 1..n : Left(plan, j).act \notin Foreign
    BY Zenon DEF HasAnswered, Follow
  <1>7. n + t = t + n
    BY SMT, <1>2
  <1>8. Following(IdleCycles, n, 0)'
    <2>1. /\ Len(plan)' = t + n /\ target' = "answer" /\ "swdio" \notin out'
          /\ \A j \in 1..n : Left(plan', j).act \notin Foreign
      BY Zenon, <1>1, <1>6, <1>7
    <2> HIDE DEF n, t
    <2> QED BY Zenon, <1>2, <1>5, <2>1, FollowingStarts
  <1>9. WriteOps'
    <2>1. \A j \in 1..n : Left(script', IdleCycles + 1 + j) = WriteBit(u[WordBits + 2 - j])
      BY Zenon, <1>2, <1>3, <1>5, WriteScriptWrites
    <2> QED BY Zenon, <1>1, <2>1 DEF WriteOps
  <1>10. done = <<>> /\ RightRequest /\ Len(heard) = 8 /\ Takes
    BY Zenon, <1>4, <1>6 DEF AskFollows
  <1>11. Taken(u, inverted)'
    BY Zenon, <1>1, <1>6, <1>10, TakingBegins
  <1>12. target' = "answer" /\ done' = <<>> /\ asked'.read = 0 /\ Len(asked'.word) = WordBits
    BY Zenon, <1>1, <1>3, <1>6, <1>10
  <1> QED BY Zenon, <1>1, <1>8, <1>9, <1>11, <1>12 DEF FollowingWrite

\* The access is refused.
LEMMA RefusedBegins ==
  ASSUME Inv, Acknowledged, "swdio" \notin out, NEW k \in {Wait, Fault}, HasAnswered(k), got = k
  PROVE  FollowingNothing'
  <1> DEFINE n == WordBits + 1
             t == turnaround
  <1>1. /\ ack' = k /\ out' = out /\ asked' = asked /\ target' = target /\ plan' = plan
        /\ done' = done /\ NoTakes' = NoTakes
    BY Zenon, AcknowledgedIs
  <1>2. /\ t \in Nat /\ t > 0 /\ n \in Nat /\ 0 \in Nat /\ 0 \in {0, 1} /\ 1 \in {0, 1}
        /\ \A j : j \notin 1..0
    <2>1. t \in Nat /\ t > 0 /\ n \in Nat
      BY Sizes DEF Inv, TypeInv, TypeOK
    <2> QED BY <2>1
  <1>3. n + t = t + n /\ n + t = (n + t) + 0 /\ t = t + 0 /\ n + t \in Nat /\ n + t > 0
    <2> HIDE DEF n, t
    <2> QED BY SMT, <1>2
  <1>4. k # Ok
    BY AcksAre
  <1>5. /\ ~dataPhase => FollowsBy(script', t, 0, 0, 0)
        /\ dataPhase /\ asked.read = 1 => FollowsBy(script', n + t, 0, 0, 0)
        /\ dataPhase /\ asked.read = 0 => FollowsBy(script', t, 0, n, 1)
    BY Zenon, <1>1, ScriptFollows DEF Inv
  <1>6. /\ target = "answer" /\ Len(plan) = Follow(k) /\ AskFollows(k)
        /\ asked.read = 0 /\ dataPhase => \A j \in 1..n : Left(plan, j).act \notin Foreign
    BY Zenon DEF HasAnswered
  <1>7. done = <<>> /\ NoTakes
    BY Zenon, <1>4, <1>6 DEF AskFollows
  <1>8. asked.read = 0 \/ asked.read = 1
    <2>1. asked \in Requests
      BY Zenon DEF Inv, TypeInv
    <2> QED BY <2>1 DEF Requests, Bit
  <1>9. target' = "answer" /\ "swdio" \notin out' /\ Len(plan)' = Follow(k)
    BY Zenon, <1>1, <1>6
  <1>10. \E b \in Nat, v \in {0, 1} : Following(0, b, v)'
    <2>1. CASE ~dataPhase
      <3>1. FollowsBy(script', t, 0, 0, 0)
        BY Zenon, <1>5, <2>1
      <3>2. Len(plan)' = t + 0
        BY Zenon, <1>3, <1>4, <1>9, <2>1 DEF Follow
      <3> HIDE DEF n, t
      <3>3. Following(0, 0, 0)'
        BY Zenon, <1>2, <1>9, <3>1, <3>2, FollowingStarts
      <3> QED BY Zenon, <1>2, <3>3
    <2>2. CASE dataPhase /\ asked.read = 1
      <3>1. FollowsBy(script', n + t, 0, 0, 0)
        BY Zenon, <1>5, <2>2
      <3>2. Len(plan)' = (n + t) + 0
        BY Zenon, <1>3, <1>9, <2>2 DEF Follow
      <3> HIDE DEF n, t
      <3>3. Following(0, 0, 0)'
        BY Zenon, <1>2, <1>3, <1>9, <3>1, <3>2, FollowingStarts
      <3> QED BY Zenon, <1>2, <3>3
    <2>3. CASE dataPhase /\ asked.read = 0
      <3>1. FollowsBy(script', t, 0, n, 1)
        BY Zenon, <1>5, <2>3
      <3>2. Len(plan)' = t + n
        BY Zenon, <1>3, <1>9, <2>3 DEF Follow
      <3>4. \A j \in 1..n : Left(plan', j).act \notin Foreign
        BY Zenon, <1>1, <1>6, <2>3
      <3> HIDE DEF n, t
      <3>3. Following(0, n, 1)'
        BY Zenon, <1>2, <1>9, <3>1, <3>2, <3>4, FollowingStarts
      <3> QED BY Zenon, <1>2, <3>3
    <2> QED BY Zenon, <1>8, <2>1, <2>2, <2>3
  <1>11. ack' \in {Wait, Fault} /\ ack' # Ok /\ done' = <<>> /\ (target' = "answer" => NoTakes')
    BY Zenon, <1>1, <1>4, <1>7
  <1> QED BY Zenon, <1>10, <1>11 DEF FollowingNothing

\* There is no acknowledgement, or none that is one.
LEMMA NoAnswerBegins ==
  ASSUME Inv, Acknowledged, "swdio" \notin out, got \notin Acks
  PROVE  /\ FollowsBy(script', WordBits + 1 + turnaround, 0, 0, 0) /\ FollowShape(0, 0, 0)'
         /\ Len(script') = turnaround + (WordBits + 3) /\ ack' \notin Acks
         /\ turnaround + (WordBits + 3) >= 12
  <1> DEFINE c == WordBits + 1 + turnaround
             n == c + (1 + (0 + (0 + (0 + 1))))
  <1>1. ack' = got /\ out' = out
    BY Zenon, AcknowledgedIs
  <1>2. turnaround \in Nat /\ turnaround > 0 /\ WordBits \in Nat
    BY Sizes DEF Inv, TypeInv, TypeOK
  <1>3. FollowsBy(script', c, 0, 0, 0)
    BY Zenon, <1>1, ScriptFollows DEF Inv, Acks
  <1>4. Len(script') = n /\ FollowOps(script', n, 0, 0, 0)
    BY Zenon, <1>3 DEF FollowsBy
  <1>5. n = turnaround + (WordBits + 3) /\ ~(n < 0 + 0 + 0 + 2) /\ turnaround + (WordBits + 3) >= 12
    BY SMT, <1>2, WordsAreEven
  <1> HIDE DEF n, c
  <1>6. FollowShape(0, 0, 0)'
    BY Zenon, <1>1, <1>4, <1>5 DEF FollowShape
  <1> QED BY Zenon, <1>1, <1>3, <1>4, <1>5, <1>6 DEF c

\* The acknowledgement has got lost on its way.
LEMMA LostBegins ==
  ASSUME Inv, Acknowledged, "swdio" \notin out, NEW k \in Acks, HasAnswered(k), got \notin Acks,
         inverted
  PROVE  FollowingNothing' \/ FollowingOnes' \/ FollowingInVain'
  <1> DEFINE n == WordBits + 1
             t == turnaround
  <1>1. /\ out' = out /\ asked' = asked /\ target' = target /\ plan' = plan /\ heard' = heard
        /\ done' = done /\ inverted' = inverted /\ NoTakes' = NoTakes /\ Takes' = Takes
        /\ RightRequest' = RightRequest /\ OnlySent' = OnlySent /\ pc = "acknowledged"
    BY Zenon, AcknowledgedIs
  <1>2. /\ t \in Nat /\ t > 0 /\ n \in Nat /\ 0 \in Nat /\ 0 \in {0, 1}
        /\ \A j : j \notin 1..0
    <2>1. t \in Nat /\ t > 0 /\ n \in Nat
      BY Sizes DEF Inv, TypeInv, TypeOK
    <2> QED BY <2>1
  <1>3. n + t = (n + t) + 0 /\ n + t \in Nat /\ n + t > 0
    <2> HIDE DEF n, t
    <2> QED BY SMT, <1>2
  <1>4. /\ FollowsBy(script', n + t, 0, 0, 0) /\ FollowShape(0, 0, 0)'
        /\ Len(script') = t + (WordBits + 3) /\ ack' \notin {Ok, Wait, Fault}
    BY Zenon, NoAnswerBegins DEF Acks
  <1>5. ack' # Ok /\ ack' \notin {Wait, Fault}
    BY Zenon, <1>4
  <1>6. target = "answer" /\ Len(plan) = Follow(k) /\ AskFollows(k)
    BY Zenon DEF HasAnswered
  <1>7. target' = "answer" /\ "swdio" \notin out' /\ Len(plan)' = Follow(k) /\ inverted'
    BY Zenon, <1>1, <1>6
  <1>8. asked.read = 0 \/ asked.read = 1
    <2>1. asked \in Requests
      BY Zenon DEF Inv, TypeInv
    <2> QED BY <2>1 DEF Requests, Bit
  <1>9. asked.read = 0 => asked.read # 1
    BY SMT
  <1>10. ASSUME Follow(k) = n + t PROVE Following(0, 0, 0)'
    <2>1. Len(plan)' = (n + t) + 0
      BY Zenon, <1>3, <1>7, <1>10
    <2> HIDE DEF n, t
    <2> QED BY Zenon, <1>2, <1>3, <1>4, <1>7, <2>1, FollowingStarts
  <1>11. CASE k = Ok /\ asked.read = 0
    <2>1. Follow(k) = n + t
      BY Zenon, <1>11 DEF Follow
    <2>2. done = <<>> /\ RightRequest /\ Len(heard) = 8 /\ Takes
      BY Zenon, <1>6, <1>9, <1>11 DEF AskFollows
    <2>3. Taken(Times(WordBits + 1, 1), FALSE)'
      <3>1. Len(plan) = WordBits + 1 + turnaround
        BY Zenon, <1>6, <2>1
      <3>2. RightRequest' /\ Takes'
        BY Zenon, <1>1, <2>2
      <3> DEFINE u == Times(WordBits + 1, 1)
                 i == FALSE
      <3>3. u' = u /\ i' = i
        BY DEF Times
      <3>4. Taken(u, i)'
        BY Zenon, <1>1, <2>2, <3>1, <3>2, <3>3, TakingBegins
      <3> QED BY <3>4
    <2>4. done' = <<>> /\ asked'.read = 0
      BY Zenon, <1>1, <1>11, <2>2
    <2>5. FollowingOnes'
      BY Zenon, <1>4, <1>7, <1>10, <2>1, <2>3, <2>4 DEF FollowingOnes
    <2> QED BY Zenon, <2>5
  <1>12. CASE ~(k = Ok /\ asked.read = 0) /\ (k = Ok \/ dataPhase)
    <2>1. Follow(k) = n + t
      BY Zenon, <1>12 DEF Follow
    <2>2. NoTakes
      BY Zenon, <1>6, <1>12 DEF AskFollows
    <2>3. OnlySent
      <3>1. CASE k = Ok /\ asked.read = 1
        BY Zenon, <1>6, <3>1 DEF AskFollows, OnlySent
      <3>2. CASE ~(k = Ok /\ asked.read = 1)
        BY Zenon, <1>6, <3>2 DEF AskFollows, OnlySent
      <3> QED BY Zenon, <3>1, <3>2
    <2>4. FollowingNothing'
      BY Zenon, <1>1, <1>2, <1>5, <1>7, <1>10, <2>1, <2>2, <2>3 DEF FollowingNothing
    <2> QED BY Zenon, <2>4
  <1>13. CASE k # Ok /\ ~dataPhase
    <2>1. Len(plan) = t
      BY Zenon, <1>6, <1>13 DEF Follow
    <2>2. done = <<>> /\ NoTakes
      BY Zenon, <1>6, <1>13 DEF AskFollows
    <2>3. Len(script') = Len(plan') + WordBits + 3
      <3>1. t + (WordBits + 3) = t + WordBits + 3
        BY SMT, <1>2, Sizes
      <3> QED BY Zenon, <1>1, <1>4, <2>1, <3>1
    <2>4. /\ target' = "answer" => Len(script') = Len(plan') + WordBits + 3 /\ NoTakes'
          /\ target' # "idle" /\ target' # "header" /\ done' = <<>>
      <3>1. target' # "idle" /\ target' # "header"
        BY <1>7
      <3> QED BY Zenon, <1>1, <2>2, <2>3, <3>1
    <2>5. FollowingInVain'
      BY Zenon, <1>4, <1>7, <2>4 DEF FollowingInVain
    <2> QED BY Zenon, <2>5
  <1> QED BY Zenon, <1>8, <1>9, <1>11, <1>12, <1>13

\* The target has not answered.
LEMMA VainBegins ==
  ASSUME Inv, Acknowledged, AskingInVain
  PROVE  FollowingInVain'
  <1>1. /\ script = <<>> /\ target' = target /\ heard' = heard /\ done' = done
        /\ inverted' = inverted
    BY Zenon, AcknowledgedIs
  <1>2. /\ "swdio" \notin out /\ inverted /\ done = <<>>
        /\ got \in Seq(Bit) /\ Len(got) = 3 /\ \A j \in 1..3 : got[j] = 1
        /\ target \in {"lost", "reset", "idle", "header"}
        /\ target = "header" => (Len(heard) = 7 => heard[7] = 1)
    BY Zenon, <1>1, AskEnds
  <1>3. got \notin Acks
    BY Zenon, <1>2, OnesAreNoAck
  <1>4. /\ FollowShape(0, 0, 0)' /\ ack' \notin Acks
        /\ Len(script') = turnaround + (WordBits + 3) /\ turnaround + (WordBits + 3) >= 12
    BY Zenon, <1>2, <1>3, NoAnswerBegins
  <1>5. /\ Len(script') >= 10
        /\ target = "header" => Len(heard) + Len(script') >= 10
    <2> DEFINE n == Len(script')
               h == Len(heard)
    <2>1. n = turnaround + (WordBits + 3) /\ n >= 12 /\ turnaround \in Nat /\ WordBits \in Nat
      BY <1>4, Sizes DEF Inv, TypeInv, TypeOK
    <2>2. target = "header" => h \in 1..7
      BY Zenon DEF Inv, OnesInv
    <2> HIDE DEF n, h
    <2>3. n >= 10 /\ (h \in 1..7 => h + n >= 10)
      BY SMT, <2>1
    <2> QED BY Zenon, <2>2, <2>3 DEF n, h
  <1>6. target' # "answer"
    BY <1>1, <1>2
  <1> QED BY Zenon, <1>1, <1>2, <1>4, <1>5, <1>6 DEF FollowingInVain, Acks

LEMMA FollowingBegins ==
  ASSUME Inv, SyncInv, Acknowledged, synced
  PROVE  Follows'
  <1>1. script = <<>> /\ pc = "acknowledged"
    BY Zenon, AcknowledgedIs
  <1>2. Asking \/ AskingInVain
    BY Zenon, <1>1 DEF SyncInv
  <1>3. CASE AskingInVain
    BY Zenon, <1>3, VainBegins DEF Follows
  <1>4. CASE Asking
    <2>1. "swdio" \notin out
      BY Zenon, <1>1, <1>4, AskEnds
    <2>2. PICK k \in Acks : HasAnswered(k)
      BY Zenon, <1>1, <1>4, AskEnds
    <2>3. got \in Seq(Bit) /\ Len(got) = 3 /\ Nearly(got, k, inverted) /\ inverted \in BOOLEAN
      BY Zenon, <2>2 DEF HasAnswered, Inv, TypeInv, TypeOK
    <2>4. got = k \/ (inverted /\ got \notin Acks)
      BY Zenon, <2>3, NearlyAck
    <2>5. CASE got = k
      <3>1. asked.read = 0 \/ asked.read = 1
        <4>1. asked \in Requests
          BY Zenon DEF Inv, TypeInv
        <4> QED BY <4>1 DEF Requests, Bit
      <3>2. CASE k = Ok
        <4>1. got = Ok /\ HasAnswered(Ok)
          BY Zenon, <2>2, <2>5, <3>2
        <4> QED BY Zenon, <2>1, <3>1, <4>1, ReadBegins, WriteBegins DEF Follows
      <3>3. CASE k \in {Wait, Fault}
        BY Zenon, <2>1, <2>2, <2>5, <3>3, RefusedBegins DEF Follows
      <3> QED BY Zenon, <3>2, <3>3 DEF Acks
    <2>6. CASE inverted /\ got \notin Acks
      BY Zenon, <2>1, <2>2, <2>6, LostBegins DEF Follows
    <2> QED BY Zenon, <2>4, <2>5, <2>6
  <1> QED BY Zenon, <1>2, <1>3, <1>4

\* A step on the pins after the acknowledgement.
LEMMA FollowsGoesOn ==
  ASSUME Inv, SyncInv, Cycle \/ SetPin, synced, pc = "transferred"
  PROVE  Follows'
  <1>1. Follows
    BY Zenon DEF SyncInv, Follows
  <1>2. CASE Cycle
    <2>1. PICK f \in Bit : Pulse(f, (Line + f) % 2) /\ Line \in Bit
      BY Zenon, <1>2, PulseIs
    <2> DEFINE x == (Line + f) % 2
    <2>2. Pulse(f, x) /\ Line \in Bit
      BY <2>1
    <2> HIDE DEF x
    <2>3. FollowingRead => FollowingRead'
      BY Zenon, <2>2, ReadCycle
    <2>4. FollowingWrite => FollowingWrite'
      BY Zenon, <2>2, WriteCycle
    <2>5. FollowingNothing => FollowingNothing'
      BY Zenon, <2>2, NothingCycle
    <2>6. FollowingOnes => FollowingOnes'
      BY Zenon, <2>2, OnesCycle
    <2>7. FollowingInVain => FollowingInVain'
      BY Zenon, <2>2, VainCycle
    <2> QED BY Zenon, <1>1, <2>3, <2>4, <2>5, <2>6, <2>7 DEF Follows
  <1>3. CASE SetPin
    BY Zenon, <1>1, <1>3, ReadSetPin, OthersSetPin, VainSetPin DEF Follows
  <1> QED BY Zenon, <1>2, <1>3

-----------------------------------------------------------------------------
(***************************************************************************)
(* The end of a transfer.                                                  *)
(***************************************************************************)
LEMMA FollowingEnds ==
  ASSUME script = <<>>, NEW z \in Nat, NEW b \in Nat, NEW v \in {0, 1}, Following(z, b, v)
  PROVE  target = "idle" /\ "swdio" \in out
  <1>1. PICK m \in Nat : FollowShape(z, b, v) /\ CyclesLeft(0, m, z, b, v) /\ FollowPlan(m, b)
    <2>1. Len(script) = 0
      OBVIOUS
    <2> QED BY Zenon, <2>1 DEF Following
  <1>2. m = 0 /\ 0 < z + b + v + 2
    BY SMT, <1>1 DEF CyclesLeft
  <1>3. Len(script) = 0
    OBVIOUS
  <1> QED BY Zenon, <1>1, <1>2, <1>3 DEF FollowPlan, FollowShape

\* What Transferred leaves alone.
LEMMA TransferredIs ==
  ASSUME Inv, Transferred
  PROVE  /\ pc = "transferred" /\ script = <<>> /\ pc' = "done" /\ script' = <<>>
         /\ port' = port /\ out' = out /\ asked' = asked /\ target' = target /\ done' = done
         /\ synced' = synced /\ inverted' = inverted
         /\ IF ack = Ok /\ asked.read = 1
              THEN /\ result' = SubSeq(got, 1, WordBits)
                   /\ ack' = IF Parity(got) = 1 THEN <<>> ELSE ack
              ELSE ack' = ack
         /\ OnlySent' = OnlySent /\ \A w : Access(w)' = Access(w)
  <1>1. /\ pc = "transferred" /\ script = <<>> /\ pc' = "done" /\ script' = <<>>
        /\ port' = port /\ out' = out /\ asked' = asked /\ target' = target /\ done' = done
        /\ synced' = synced /\ inverted' = inverted
    BY DEF Transferred, config, pins, wire
  <1>2. IF ack = Ok /\ asked.read = 1
          THEN /\ result' = SubSeq(got, 1, WordBits)
               /\ ack' = IF Parity(got) = 1 THEN <<>> ELSE ack
          ELSE ack' = ack
    BY DEF Transferred, Damaged
  <1>3. \A w : Access(w)' = Access(w)
    BY Zenon, <1>1 DEF Access
  <1>4. OnlySent' = OnlySent
    BY Zenon, <1>1, <1>3 DEF OnlySent
  <1> QED BY Zenon, <1>1, <1>2, <1>3, <1>4

LEMMA ReadEnds ==
  ASSUME Inv, Transferred, FollowingRead
  PROVE  Ended'
  <1>1. /\ script = <<>> /\ asked' = asked /\ done' = done
        /\ IF ack = Ok /\ asked.read = 1
             THEN /\ result' = SubSeq(got, 1, WordBits)
                  /\ ack' = IF Parity(got) = 1 THEN <<>> ELSE ack
             ELSE ack' = ack
        /\ OnlySent' = OnlySent /\ \A w : Access(w)' = Access(w)
    BY Zenon, TransferredIs
  <1>2. ack = Ok /\ asked.read = 1 /\ ReadSoFar
    BY Zenon DEF FollowingRead
  <1>3. PICK w \in Words : done = <<Access(w)>> /\ Nearly(got, Datum(w), inverted)
    BY Zenon DEF FollowingRead
  <1>4. got \in Seq(Bit) /\ Len(got) = WordBits + 1 /\ inverted \in BOOLEAN
    <2>1. Len(script) = 0 /\ turnaround \in Nat /\ IdleCycles \in Nat
      BY <1>1, Sizes DEF Inv, TypeInv, TypeOK
    <2>2. ~(0 > turnaround + IdleCycles + 2)
      BY SMT, <2>1
    <2> QED BY Zenon, <1>2, <2>1, <2>2 DEF ReadSoFar, Inv, TypeInv, TypeOK
  <1>5. w \in Seq(Bit) /\ Len(w) = WordBits
    BY Zenon, WordsAre
  <1>6. \/ Parity(got) = 0 /\ SubSeq(got, 1, WordBits) = w
        \/ Parity(got) = 1 /\ inverted
    BY Zenon, <1>3, <1>4, <1>5, NearlyDatum
  <1>7. OnlySent'
    BY Zenon, <1>1, <1>2, <1>3 DEF OnlySent
  <1>8. 0 # 1 /\ <<>> # Ok /\ <<>> \notin {Wait, Fault} /\ Ok \notin {Wait, Fault}
    <2>1. Len(<<>>) # 3
      BY SMT
    <2>2. Len(Ok) = 3 /\ Len(Wait) = 3 /\ Len(Fault) = 3 /\ Ok \notin {Wait, Fault}
      BY DEF Ok, Wait, Fault
    <2> QED BY <2>1, <2>2
  <1>9. ack' \notin {Wait, Fault}
    BY Zenon, <1>1, <1>2, <1>8
  <1>10. ack' = Ok => asked'.read = 1 /\ done' = <<Access(w)'>> /\ result' = w
    BY Zenon, <1>1, <1>2, <1>3, <1>6, <1>8
  <1> QED BY Zenon, <1>7, <1>9, <1>10 DEF Ended

LEMMA OthersEnd ==
  ASSUME Inv, Transferred, FollowingWrite \/ FollowingNothing \/ FollowingOnes \/ FollowingInVain
  PROVE  Ended'
  <1>1. /\ script = <<>> /\ asked' = asked /\ done' = done /\ inverted' = inverted
        /\ IF ack = Ok /\ asked.read = 1
             THEN /\ result' = SubSeq(got, 1, WordBits)
                  /\ ack' = IF Parity(got) = 1 THEN <<>> ELSE ack
             ELSE ack' = ack
        /\ OnlySent' = OnlySent /\ \A w : Access(w)' = Access(w)
    BY Zenon, TransferredIs
  <1>2. 0 # 1 /\ Ok \notin {Wait, Fault} /\ "idle" # "answer"
    BY DEF Ok, Wait, Fault
  <1>3. CASE FollowingWrite
    <2>1. /\ ack = Ok /\ asked.read = 0 /\ Following(IdleCycles, WordBits + 1, 0)
          /\ target # "answer" => done = <<Access(asked.word)>> \/ (done = <<>> /\ inverted)
      BY Zenon, <1>3 DEF FollowingWrite
    <2>2. IdleCycles \in Nat /\ WordBits + 1 \in Nat /\ 0 \in {0, 1}
      BY Sizes
    <2>3. target = "idle"
      BY Zenon, <1>1, <2>1, <2>2, FollowingEnds
    <2>4. done = <<Access(asked.word)>> \/ (done = <<>> /\ inverted)
      BY Zenon, <1>2, <2>1, <2>3
    <2>5. asked.read # 1 /\ ack' = ack
      BY Zenon, <1>1, <1>2, <2>1
    <2>6. OnlySent' \/ (asked'.read = 0 /\ done' = <<Access(asked.word)'>>)
      <3>1. done = <<>> => OnlySent
        BY Zenon DEF OnlySent
      <3> QED BY Zenon, <1>1, <2>1, <2>4, <3>1
    <2>7. asked'.read = 0 /\ (done' = <<>> => inverted')
      <3>1. <<Access(asked.word)>> # <<>>
        OBVIOUS
      <3> QED BY Zenon, <1>1, <2>1, <2>4, <3>1
    <2>8. ack' \notin {Wait, Fault}
      BY Zenon, <1>2, <2>1, <2>5
    <2> QED BY Zenon, <1>1, <2>6, <2>7, <2>8 DEF Ended
  <1>4. CASE ~FollowingWrite
    <2>1. ack # Ok /\ OnlySent /\ (ack \in {Wait, Fault} => done = <<>>)
      <3>1. done = <<>> => OnlySent
        BY Zenon DEF OnlySent
      <3>2. CASE FollowingNothing
        BY Zenon, <3>1, <3>2 DEF FollowingNothing
      <3>3. CASE FollowingOnes \/ FollowingInVain
        BY Zenon, <3>1, <3>3 DEF FollowingOnes, FollowingInVain
      <3> QED BY Zenon, <1>4, <3>2, <3>3
    <2>2. ack' = ack
      BY Zenon, <1>1, <2>1
    <2> QED BY Zenon, <1>1, <2>1, <2>2 DEF Ended
  <1> QED BY Zenon, <1>3, <1>4

\* The cycles that are spent in vain are too many to leave a request unfinished.
LEMMA VainEnds ==
  ASSUME Inv, script = <<>>, FollowingInVain
  PROVE  target \in {"lost", "reset"} /\ inverted /\ "swdio" \in out
  <1>1. /\ inverted /\ FollowShape(0, 0, 0)
        /\ target = "answer" => Len(script) = Len(plan) + WordBits + 3
        /\ target = "idle" => Len(script) >= 10
        /\ target = "header" => Len(heard) + Len(script) >= 10
    BY Zenon DEF FollowingInVain
  <1>2. Len(script) = 0 /\ 0 < 0 + 0 + 0 + 2
    OBVIOUS
  <1>3. "swdio" \in out
    BY Zenon, <1>1, <1>2 DEF FollowShape
  <1>4. plan \in Seq(Slots) /\ heard \in Seq(Bit) /\ WordBits \in Nat
    BY Zenon, Sizes DEF Inv, TypeInv, TypeOK
  <1> DEFINE p == Len(plan)
             h == Len(heard)
  <1>5. p \in Nat /\ (target = "header" => h \in 1..7)
    BY <1>4 DEF Inv, OnesInv
  <1>6. ~(0 >= 10) /\ ~(0 = p + WordBits + 3) /\ (h \in 1..7 => ~(h + 0 >= 10))
    <2>1. p \in Nat
      BY <1>5
    <2> HIDE DEF p, h
    <2> QED BY SMT, <1>4, <2>1
  <1>7. target \notin {"answer", "idle", "header"}
    BY <1>1, <1>2, <1>5, <1>6
  <1>8. target \in {"lost", "reset", "idle", "header", "answer"}
    BY Zenon DEF Inv, TypeInv, TypeOK
  <1> QED BY <1>1, <1>3, <1>7, <1>8

LEMMA TransferEnds ==
  ASSUME Inv, SyncInv, Transferred, synced
  PROVE  /\ "swdio" \in out /\ target \in {"idle", "lost", "reset"} /\ (inverted \/ target = "idle")
         /\ Ended'
  <1>1. pc = "transferred" /\ script = <<>>
    BY Zenon, TransferredIs
  <1>2. Follows
    BY Zenon, <1>1 DEF SyncInv, Follows
  <1>3. Ended'
    BY Zenon, <1>2, ReadEnds, OthersEnd DEF Follows
  <1>4. CASE FollowingInVain
    BY Zenon, <1>1, <1>3, <1>4, VainEnds
  <1>5. CASE ~FollowingInVain
    <2>1. \E z \in Nat, b \in Nat, v \in {0, 1} : Following(z, b, v)
      <3>1. IdleCycles \in Nat /\ WordBits + 1 \in Nat /\ 0 \in Nat /\ 0 \in {0, 1}
        BY Sizes
      <3> QED BY Zenon, <1>2, <1>5, <3>1
              DEF Follows, FollowingRead, FollowingWrite, FollowingNothing, FollowingOnes
    <2>2. target = "idle" /\ "swdio" \in out
      BY Zenon, <1>1, <2>1, FollowingEnds
    <2> QED BY Zenon, <1>3, <2>2
  <1> QED BY Zenon, <1>4, <1>5

-----------------------------------------------------------------------------
LEMMA PinOperationsKeepSync ==
  ASSUME Inv, SyncInv, Cycle \/ SetPin
  PROVE  SyncInv'
  <1>1. /\ script # <<>> /\ pc' = pc
        /\ UNCHANGED <<port, asked, synced>>
    BY Zenon DEF Cycle, SetPin, InCycle, config, reply
  <1>2. pc \notin {"idle", "done"}
    BY Zenon, <1>1 DEF SyncInv
  <1>3. "swclk" \in out => "swclk" \in out'
    <2>1. CASE Cycle
      BY Zenon, <2>1 DEF Cycle
    <2>2. CASE SetPin
      <3>1. out' \in {out, out \cup {"swdio"}, out \ {"swdio"}}
        BY <2>2 DEF SetPin
      <3> QED BY <3>1
    <2> QED BY Zenon, <2>1, <2>2
  <1>4. port' = port /\ asked' = asked /\ synced' = synced
    BY <1>1
  <1>5. synced /\ pc = "acknowledged" => Asking' \/ AskingInVain'
    BY Zenon, AskingCycle, AskingSetPin
  <1>6. synced /\ pc = "transferred" => Follows'
    BY Zenon, FollowsGoesOn
  <1>7. pc # "idle" /\ pc # "done" /\ pc' = pc /\ None' = None
    BY Zenon, <1>1, <1>2 DEF None
  <1> QED BY Zenon, <1>2, <1>3, <1>4, <1>5, <1>6, <1>7 DEF SyncInv, Follows

LEMMA TransfersKeepSync ==
  ASSUME Inv, SyncInv,
         \/ Acknowledged \/ Transferred
         \/ \E a \in Addresses, w \in Words : SwdTransfer(a, w)
  PROVE  SyncInv'
  <1>1. port' = port /\ out' = out /\ synced' = synced
    BY DEF Acknowledged, Transferred, SwdTransfer, config, pins
  <1>2. pc' \in {"acknowledged", "transferred", "done"}
    BY Zenon DEF Acknowledged, Transferred, SwdTransfer
  <1>3. /\ pc' \notin {"idle", "sequence", "short"} /\ pc' # "idle"
        /\ pc' = "acknowledged" =>
             pc' \notin {"transferred", "done"} /\ pc' # "transferred" /\ pc' # "done"
        /\ pc' = "transferred" =>
             pc' \notin {"acknowledged", "done"} /\ pc' # "acknowledged" /\ pc' # "done"
        /\ pc' = "done" => /\ pc' \notin {"acknowledged", "transferred"}
                          /\ pc' # "acknowledged" /\ pc' # "transferred"
    BY <1>2
  <1>4. CASE Acknowledged
    <2>1. pc' = "transferred"
      BY Zenon, <1>4 DEF Acknowledged
    <2>2. synced => Follows'
      BY Zenon, <1>4, FollowingBegins
    <2>3. pc' \notin {"idle", "done"}
      BY <2>1
    <2> QED BY Zenon, <1>1, <1>3, <2>1, <2>2, <2>3 DEF SyncInv, Follows
  <1>5. CASE Transferred
    <2>1. pc' = "done" /\ script' = <<>> /\ target' = target /\ inverted' = inverted
      BY Zenon, <1>5, TransferredIs
    <2>2. synced => /\ "swdio" \in out /\ target \in {"idle", "lost", "reset"}
                    /\ (inverted \/ target = "idle") /\ Ended'
      BY Zenon, <1>5, TransferEnds
    <2> QED BY Zenon, <1>1, <1>3, <2>1, <2>2 DEF SyncInv
  <1>6. ASSUME NEW a \in Addresses, NEW w \in Words, SwdTransfer(a, w)
        PROVE  SyncInv'
    <2>1. pc' = "acknowledged"
      BY Zenon, <1>6 DEF SwdTransfer
    <2>2. Asking' \/ AskingInVain'
      BY Zenon, <1>6, AskingBegins
    <2>3. pc' \notin {"idle", "done"}
      BY <2>1
    <2> QED BY Zenon, <1>1, <1>3, <2>1, <2>2, <2>3 DEF SyncInv
  <1> QED BY Zenon, <1>4, <1>5, <1>6

LEMMA EndsKeepSync ==
  ASSUME Inv, SyncInv, Sequenced \/ Answered
  PROVE  SyncInv'
  <1>1. CASE Sequenced
    <2>1. /\ pc' = "done" /\ script' = <<>> /\ pc \in {"sequence", "short"}
          /\ port' = port /\ out' = out /\ target' = target /\ asked' = asked
          /\ synced' = (port = "swd" /\ "swdio" \in out /\ target = "idle")
      BY <1>1 DEF Sequenced, config, pins, wire, reply
    <2>2. /\ pc' \notin {"idle", "sequence", "short", "acknowledged", "transferred"}
          /\ pc' # "idle" /\ pc' # "acknowledged" /\ pc' # "transferred"
          /\ pc \in {"idle", "sequence", "short"}
      BY <2>1
    <2>3. asked' = None /\ None' = None
      BY Zenon, <2>1, <2>2 DEF SyncInv, None
    <2> QED BY Zenon, <2>1, <2>2, <2>3 DEF SyncInv
  <1>2. CASE Answered
    <2>1. /\ pc = "done" /\ pc' = "idle" /\ got' = <<>> /\ asked' = None /\ done' = <<>>
          /\ port' = port /\ out' = out /\ script' = script /\ target' = target
          /\ synced' = synced /\ inverted' = inverted
      BY <1>2 DEF Answered, config, pins
    <2>2. /\ pc' \notin {"acknowledged", "transferred", "done"}
          /\ pc' # "acknowledged" /\ pc' # "transferred" /\ pc' # "done"
      BY <2>1
    <2> QED BY Zenon, <2>1, <2>2 DEF SyncInv
  <1> QED BY Zenon, <1>1, <1>2

LEMMA CommandsKeepSync ==
  ASSUME Inv, SyncInv,
         \/ \E t \in Turnarounds, d \in BOOLEAN : SwdConfigure(t, d)
         \/ \E s \in BitSequences : SwjSequence(s)
         \/ \E s \in ItemSequences : SwdSequence(s)
         \/ \E c \in PinCommands : SwjPins(c)
  PROVE  SyncInv'
  <1>1. pc = "idle" /\ port' = port /\ out' = out /\ got' = got /\ asked' = asked
    BY DEF SwdConfigure, SwjSequence, SwdSequence, SwjPins, config, pins, reply
  <1>2. asked = None /\ got = <<>> /\ script = <<>> /\ done = <<>> /\ None' = None
    BY Zenon, <1>1 DEF SyncInv, None
  <1>3. ASSUME NEW t \in Turnarounds, NEW d \in BOOLEAN, SwdConfigure(t, d)
        PROVE  SyncInv'
    <2>1. /\ pc' = pc /\ script' = script /\ target' = target /\ done' = done
          /\ synced' = synced /\ inverted' = inverted
      BY <1>3 DEF SwdConfigure, wire
    <2>2. /\ pc' \notin {"acknowledged", "transferred", "done"}
          /\ pc' # "acknowledged" /\ pc' # "transferred" /\ pc' # "done"
      BY <1>1, <2>1
    <2> QED BY Zenon, <1>1, <1>2, <2>1, <2>2 DEF SyncInv
  <1>4. ASSUME \/ \E s \in BitSequences : SwjSequence(s)
               \/ \E s \in ItemSequences : SwdSequence(s)
        PROVE  SyncInv'
    <2>1. pc' \in {"sequence", "short"} /\ synced' = synced
      BY <1>4 DEF SwjSequence, SwdSequence
    <2>2. /\ pc' \notin {"idle", "done", "acknowledged", "transferred"}
          /\ pc' # "idle" /\ pc' # "done" /\ pc' # "acknowledged" /\ pc' # "transferred"
      BY <2>1
    <2> QED BY Zenon, <1>1, <1>2, <2>1, <2>2 DEF SyncInv
  <1>5. ASSUME NEW c \in PinCommands, SwjPins(c)
        PROVE  SyncInv'
    <2>1. pc' = "done" /\ script' = script /\ synced' = FALSE
      BY <1>5 DEF SwjPins
    <2>2. /\ pc' \notin {"idle", "sequence", "short", "acknowledged", "transferred"}
          /\ pc' # "idle" /\ pc' # "acknowledged" /\ pc' # "transferred"
      BY <2>1
    <2> QED BY Zenon, <1>1, <1>2, <2>1, <2>2 DEF SyncInv
  <1> QED BY Zenon, <1>3, <1>4, <1>5

LEMMA ConnectKeepsSync ==
  ASSUME Inv, SyncInv, Connect \/ Disconnect \/ Reset
  PROVE  SyncInv'
  <1>1. /\ pc = "idle" /\ pc' \in {"idle", "done"} /\ script' = script /\ got' = got
        /\ asked' = asked /\ target' = target /\ done' = done
    BY DEF Connect, Disconnect, Reset, reply, wire
  <1>2. script = <<>> /\ got = <<>> /\ asked = None /\ done = <<>> /\ None' = None
    BY Zenon, <1>1 DEF SyncInv, None
  <1>3. /\ pc' \notin {"acknowledged", "transferred"}
        /\ pc' # "acknowledged" /\ pc' # "transferred"
    BY <1>1
  <1>4. \/ UNCHANGED <<port, pins, synced, inverted>>
        \/ \E p \in {"swd", "jtag", "disabled"} : Configure(p)
    BY Zenon DEF Connect, Disconnect, Reset
  <1>5. CASE UNCHANGED <<port, pins, synced, inverted>>
    <2>1. port' = port /\ out' = out /\ synced' = synced /\ inverted' = inverted
      BY <1>5 DEF pins
    <2>2. pc \in {"idle", "done"}
      BY <1>1
    <2> QED BY Zenon, <1>1, <1>2, <1>3, <2>1, <2>2 DEF SyncInv
  <1>6. CASE \E p \in {"swd", "jtag", "disabled"} : Configure(p)
    <2>1. PICK p \in {"swd", "jtag", "disabled"} : Configure(p)
      BY <1>6
    <2>2. port' = p /\ out' = Outputs(p) /\ synced' = FALSE
      BY Zenon, <2>1 DEF Configure
    <2>3. port' = "swd" => "swclk" \in out'
      BY <2>2 DEF Outputs
    <2> QED BY Zenon, <1>1, <1>2, <1>3, <2>2, <2>3 DEF SyncInv
  <1> QED BY Zenon, <1>4, <1>5, <1>6

LEMMA InitSync == Init => SyncInv
  BY DEF Init, SyncInv

LEMMA NothingChanges ==
  ASSUME SyncInv, UNCHANGED vars
  PROVE  SyncInv'
  <1>1. /\ port' = port /\ turnaround' = turnaround /\ dataPhase' = dataPhase /\ out' = out
        /\ level' = level /\ pc' = pc /\ script' = script /\ got' = got /\ asked' = asked
        /\ ack' = ack /\ result' = result /\ target' = target /\ heard' = heard
        /\ plan' = plan /\ done' = done /\ synced' = synced /\ inverted' = inverted
    BY DEF vars, config, pins, reply, wire
  <1>2. \A w : Access(w)' = Access(w) /\ Sends(w)' = Sends(w)
    BY Zenon, <1>1 DEF Access, Sends
  <1>3. /\ NoTakes' = NoTakes /\ Takes' = Takes /\ RightRequest' = RightRequest
        /\ AskOps' = AskOps
    BY Zenon, <1>1 DEF NoTakes, Takes, RightRequest, Bits, AskOps
  <1>4. AskPins' = AskPins /\ AskHeader' = AskHeader
    BY Zenon, <1>1 DEF AskPins, AskHeader, Bits
  <1>5. (LateStart => LateStart') /\ (WrongBit => WrongBit')
    <2>1. LateStart => LateStart'
      BY Zenon, <1>1 DEF LateStart
    <2>2. ASSUME WrongBit PROVE WrongBit'
      <3>1. PICK x \in 2..Len(heard) :
              \A j \in 1..Len(heard) :
                heard[j] = IF j = x THEN 1 - Bits(asked)[j] ELSE Bits(asked)[j]
        BY Zenon, <2>2 DEF WrongBit
      <3>2. Len(script') > turnaround' + 4 /\ Len(heard') + Len(script') = turnaround' + 12
        BY Zenon, <1>1, <2>2 DEF WrongBit
      <3>3. /\ x \in 2..Len(heard')
            /\ \A j \in 1..Len(heard') :
                 heard'[j] = IF j = x THEN 1 - Bits(asked')[j] ELSE Bits(asked')[j]
        BY Zenon, <1>1, <3>1
      <3> QED BY Zenon, <3>2, <3>3 DEF WrongBit
    <2> QED BY Zenon, <2>1, <2>2
  <1>6. Asking => Asking'
    <2>1. ASSUME NEW k \in {Ok, Wait, Fault}, AskAnswer(k), AskFollows(k)
          PROVE  AskAnswer(k)' /\ AskFollows(k)'
      <3>1. AskAnswer(k)'
        BY Zenon, <1>1, <2>1 DEF AskAnswer, Follow
      <3>2. AskFollows(k)'
        BY Zenon, <1>1, <1>2, <1>3, <2>1 DEF AskFollows
      <3> QED BY Zenon, <3>1, <3>2
    <2> QED BY Zenon, <1>1, <1>3, <1>4, <2>1 DEF Asking
  <1>7. AskingInVain => AskingInVain'
    BY Zenon, <1>1, <1>3, <1>4, <1>5 DEF AskingInVain
  <1>8. ASSUME NEW z, NEW b, NEW v
        PROVE  /\ FollowShape(z, b, v) => FollowShape(z, b, v)'
               /\ Following(z, b, v) => Following(z, b, v)'
    <2>1. FollowShape(z, b, v) => FollowShape(z, b, v)'
      BY Zenon, <1>1 DEF FollowShape
    <2>2. ASSUME NEW m, FollowPlan(m, b) PROVE FollowPlan(m, b)'
      BY Zenon, <1>1, <2>2 DEF FollowPlan
    <2> QED BY Zenon, <1>1, <2>1, <2>2 DEF Following
  <1>9. FollowingRead => FollowingRead'
    <2>1. ReadOps' = ReadOps /\ ReadSoFar' = ReadSoFar
      BY Zenon, <1>1 DEF ReadOps, ReadSoFar
    <2> QED BY Zenon, <1>1, <1>2, <1>3, <1>8, <2>1 DEF FollowingRead
  <1>10. ASSUME NEW d, NEW i, Taken(d, i)
         PROVE  RightRequest' /\ Takes' /\ SoFar(heard', plan', d, i)
    BY Zenon, <1>1, <1>3, <1>10 DEF Taken
  <1>11. FollowingWrite => FollowingWrite'
    <2>1. WriteOps' = WriteOps
      BY Zenon, <1>1 DEF WriteOps
    <2>2. Taken(Datum(asked.word), inverted) => Taken(Datum(asked.word), inverted)'
      <3>1. ASSUME Taken(Datum(asked.word), inverted)
            PROVE  RightRequest' /\ Takes' /\ SoFar(heard', plan', Datum(asked.word), inverted)
        BY Zenon, <1>10, <3>1
      <3> QED BY Zenon, <1>1, <3>1 DEF Taken
    <2> QED BY Zenon, <1>1, <1>2, <1>8, <2>1, <2>2 DEF FollowingWrite
  <1>12. OnlySent' = OnlySent
    BY Zenon, <1>1, <1>2 DEF OnlySent
  <1>13. FollowingNothing => FollowingNothing'
    BY Zenon, <1>1, <1>3, <1>8, <1>12 DEF FollowingNothing
  <1>14. FollowingOnes => FollowingOnes'
    <2>1. ASSUME Taken(Times(WordBits + 1, 1), FALSE)
          PROVE  Taken(Times(WordBits + 1, 1), FALSE)'
      <3>1. Taken(Times(WordBits + 1, 1), FALSE)' <=>
              RightRequest' /\ Takes' /\ SoFar(heard', plan', Times(WordBits + 1, 1), FALSE)
        BY DEF Taken
      <3> QED BY Zenon, <1>10, <2>1, <3>1
    <2> QED BY Zenon, <1>1, <1>8, <2>1 DEF FollowingOnes
  <1>15. FollowingInVain => FollowingInVain'
    BY Zenon, <1>1, <1>3, <1>8 DEF FollowingInVain
  <1>16. Ended => Ended'
    BY Zenon, <1>1, <1>2, <1>12 DEF Ended
  <1>17. Follows => Follows'
    BY Zenon, <1>9, <1>11, <1>13, <1>14, <1>15 DEF Follows
  <1>18. None' = None
    BY DEF None
  <1> QED BY Zenon, <1>1, <1>6, <1>7, <1>16, <1>17, <1>18 DEF SyncInv

LEMMA NextKeepsSync ==
  Inv /\ SyncInv /\ [Next]_vars => SyncInv'
  <1> SUFFICES ASSUME Inv, SyncInv, [Next]_vars PROVE SyncInv'
    OBVIOUS
  <1>1. CASE UNCHANGED vars
    BY Zenon, <1>1, NothingChanges
  <1>2. CASE Handler
    BY Zenon, <1>2, PinOperationsKeepSync, TransfersKeepSync, EndsKeepSync DEF Handler
  <1>3. CASE \E a \in Addresses, w \in Words : SwdTransfer(a, w)
    BY Zenon, <1>3, TransfersKeepSync
  <1>4. CASE \/ \E t \in Turnarounds, d \in BOOLEAN : SwdConfigure(t, d)
             \/ \E s \in BitSequences : SwjSequence(s)
             \/ \E s \in ItemSequences : SwdSequence(s)
             \/ \E c \in PinCommands : SwjPins(c)
    BY Zenon, <1>4, CommandsKeepSync
  <1>5. CASE Connect \/ Disconnect \/ Reset
    BY Zenon, <1>5, ConnectKeepsSync
  <1> QED BY Zenon, <1>1, <1>2, <1>3, <1>4, <1>5 DEF Next

\* For every width of the words, every turnaround and every number of idle cycles,
\* a transfer over a line without errors ends with the target idle and SWDIO
\* driven, whatever the target acknowledges, with the data phase and without
\* (swd_transfer, commands_transfer.c:145-257).
THEOREM TransfersStayInSync == Spec => []StaysInSync
  <1>1. SyncInv => StaysInSync
    BY Zenon DEF SyncInv, StaysInSync
  <1> QED BY InitTypes, NextKeepsTypes, InitSync, NextKeepsSync, <1>1, PTL DEF Spec

LEMMA InTransfer ==
  ASSUME Inv, SyncInv, synced, asked # None
  PROVE  \/ pc = "acknowledged" /\ (Asking \/ AskingInVain)
         \/ pc = "transferred" /\ Follows
         \/ pc = "done" /\ target \in {"idle", "lost", "reset"} /\ Ended
  <1>1. pc \in Labels
    BY Zenon DEF Inv, TypeInv, TypeOK
  <1>2. pc \notin {"idle", "sequence", "short"}
    BY Zenon DEF SyncInv
  <1>3. pc = "acknowledged" \/ pc = "transferred" \/ pc = "done"
    BY <1>1, <1>2 DEF Labels
  <1>4. CASE pc = "acknowledged"
    BY Zenon, <1>4 DEF SyncInv
  <1>5. CASE pc = "transferred"
    BY Zenon, <1>5 DEF SyncInv, Follows
  <1>6. CASE pc = "done"
    BY Zenon, <1>6 DEF SyncInv
  <1> QED BY Zenon, <1>3, <1>4, <1>5, <1>6

LEMMA SyncGivesNoContention ==
  ASSUME Inv, SyncInv, synced, asked # None, "swdio" \in out, target = "answer"
  PROVE  Head(plan).act # "drive" /\ (InCycle => Head(plan).act # "turn")
  <1>1. /\ turnaround \in Nat /\ turnaround > 0 /\ script \in Seq(Operations)
        /\ plan \in Seq(Slots) /\ plan # <<>> /\ WordBits \in Nat
    BY Sizes DEF Inv, TypeInv, TypeOK, OnesInv
  <1>2. Len(plan) \in Nat /\ Head(plan) = Left(plan, Len(plan))
    <2>1. Len(plan) \in Nat
      BY <1>1
    <2> QED BY Zenon, <1>1, <2>1, LeftOfTail
  <1>3. Len(script) \in Nat
    BY <1>1
  <1>4. target \notin {"idle", "header", "lost", "reset"} /\ target # "idle" /\ target # "header"
    OBVIOUS
  <1>5. ~AskingInVain /\ target \notin {"idle", "lost", "reset"}
    BY <1>4 DEF AskingInVain
  <1> DEFINE n == Len(script)
             p == Len(plan)
  <1>6. CASE pc = "acknowledged" /\ Asking
    <2>1. Asking
      BY <1>6
    <2>2. /\ n > turnaround + 3 /\ n <= turnaround + 12 /\ n # turnaround + 12
          /\ ~(turnaround + 4 < n /\ n < turnaround + 12)
      BY Zenon, <1>4, <2>1 DEF Asking, AskOps, AskPins, AskHeader
    <2>3. n \in Nat
      BY <1>3
    <2>4. Head(script).op = "input" /\ script # <<>>
      <3>1. script # <<>>
        <4>1. script = <<>> => n = 0
          OBVIOUS
        <4> HIDE DEF n
        <4> QED BY SMT, <1>1, <2>2, <4>1
      <3>2. n = turnaround + 4
        <4> HIDE DEF n
        <4> QED BY SMT, <1>1, <2>2, <2>3
      <3> QED BY Zenon, <2>1, <3>1, <3>2, AskHead DEF Asking
    <2> HIDE DEF n
    <2>5. n <= turnaround + 4 /\ turnaround + 3 \in 4..(turnaround + 3) /\ turnaround + 3 <= n
      BY SMT, <1>1, <2>2, <2>3
    <2>6. PICK k \in {Ok, Wait, Fault} : AskAnswer(k)
      BY Zenon, <2>1, <2>5 DEF Asking, n
    <2>7. Len(plan) = Follow(k) + (turnaround + 3)
      BY Zenon, <2>2, <2>6 DEF AskAnswer, n
    <2>8. Head(plan).act = "turn"
      BY Zenon, <1>2, <2>5, <2>6, <2>7 DEF AskAnswer, n
    <2>9. ~InCycle
      BY <2>4 DEF InCycle
    <2> QED BY <2>8, <2>9
  <1>7. ASSUME NEW z \in Nat, NEW b \in Nat, NEW v \in {0, 1}, Following(z, b, v)
        PROVE  Head(plan).act # "drive" /\ Head(plan).act # "turn"
    <2>1. PICK m \in Nat : FollowShape(z, b, v) /\ CyclesLeft(n, m, z, b, v) /\ FollowPlan(m, b)
      BY Zenon, <1>7 DEF Following
    <2>2. n < z + b + v + 2
      BY Zenon, <2>1 DEF FollowShape
    <2>3. n \in Nat /\ m # 0
      BY Zenon, <1>3, <1>4, <2>1 DEF FollowPlan
    <2>4. CyclesLeft(n, m, z, b, v)
      BY Zenon, <2>1
    <2> HIDE DEF n
    <2>5. m > 0 /\ m \in 1..b /\ m <= m
      BY SMT, <2>2, <2>3, <2>4 DEF CyclesLeft
    <2>6. Head(plan).act \notin Foreign
      BY Zenon, <1>2, <2>1, <2>5 DEF FollowPlan
    <2> QED BY <2>6 DEF Foreign
  <1>8. ~FollowingInVain
    <2>1. SUFFICES ASSUME FollowingInVain PROVE FALSE
      OBVIOUS
    <2>2. n = p + WordBits + 3 /\ n < 0 + 0 + 0 + 2
      BY Zenon, <2>1 DEF FollowingInVain, FollowShape
    <2>3. p \in Nat
      BY <1>2
    <2> HIDE DEF n, p
    <2> QED BY SMT, <1>1, <2>2, <2>3
  <1>9. Follows => \E z \in Nat, b \in Nat, v \in {0, 1} : Following(z, b, v)
    <2>1. IdleCycles \in Nat /\ WordBits + 1 \in Nat /\ 0 \in Nat /\ 0 \in {0, 1}
      BY Sizes
    <2> QED BY Zenon, <1>8, <2>1
            DEF Follows, FollowingRead, FollowingWrite, FollowingNothing, FollowingOnes
  <1> QED BY Zenon, <1>5, <1>6, <1>7, <1>9, InTransfer

\* Whatever the target answers, and although a bit of the request, of the
\* acknowledgement or of the data may be inverted, the probe and the target never drive
\* SWDIO both, and the probe does not drive it while it turns around, for every width of
\* the words, turnaround and number of idle cycles (swd_transfer,
\* commands_transfer.c:160-257).
THEOREM TransfersNeverContend == Spec => []NoContention
  <1>1. Inv /\ SyncInv => NoContention
    BY Zenon, SyncGivesNoContention DEF NoContention
  <1> QED BY InitTypes, NextKeepsTypes, InitSync, NextKeepsSync, <1>1, PTL DEF Spec

\* In every phase of a transfer: what has been performed is nothing or what was asked for.
LEMMA PerformedSoFar ==
  ASSUME Inv, SyncInv, synced, asked # None
  PROVE  OnlySent \/ (asked.read = 0 /\ done = <<Access(asked.word)>>)
  <1>1. done = <<>> => OnlySent
    BY Zenon DEF OnlySent
  <1>2. ASSUME Asking PROVE OnlySent
    <2> DEFINE n == Len(script)
    <2>1. n <= turnaround + 12 /\ n \in Nat /\ turnaround \in Nat
      <3>1. n <= turnaround + 12
        BY Zenon, <1>2 DEF Asking, AskOps
      <3>2. n \in Nat /\ turnaround \in Nat
        BY Sizes DEF Inv, TypeInv, TypeOK
      <3> QED BY Zenon, <3>1, <3>2
    <2>2. AskHeader /\ (n <= turnaround + 4 => \E k \in Acks : AskFollows(k))
      BY Zenon, <1>2 DEF Asking, Acks
    <2>3. \/ n <= turnaround + 4
          \/ n = turnaround + 12
          \/ turnaround + 4 < n /\ n < turnaround + 12
      <3> HIDE DEF n
      <3> QED BY SMT, <2>1
    <2>4. CASE n <= turnaround + 4
      <3>1. PICK k \in Acks : AskFollows(k)
        BY Zenon, <2>2, <2>4
      <3>2. CASE k = Ok /\ asked.read = 1
        BY Zenon, <3>1, <3>2 DEF AskFollows, OnlySent
      <3>3. CASE ~(k = Ok /\ asked.read = 1)
        BY Zenon, <3>1, <3>3 DEF AskFollows, OnlySent
      <3> QED BY Zenon, <3>2, <3>3
    <2>5. CASE n = turnaround + 12 \/ (turnaround + 4 < n /\ n < turnaround + 12)
      BY Zenon, <1>1, <2>2, <2>5 DEF AskHeader
    <2> QED BY Zenon, <2>3, <2>4, <2>5
  <1>3. AskingInVain \/ FollowingOnes \/ FollowingInVain => OnlySent
    BY Zenon, <1>1 DEF AskingInVain, FollowingOnes, FollowingInVain
  <1>4. FollowingRead => OnlySent
    BY Zenon DEF FollowingRead, OnlySent
  <1>5. FollowingWrite => OnlySent \/ (asked.read = 0 /\ done = <<Access(asked.word)>>)
    BY Zenon, <1>1 DEF FollowingWrite
  <1>6. FollowingNothing => OnlySent
    <2>1. CASE ack \in {Wait, Fault}
      BY Zenon, <1>1, <2>1 DEF FollowingNothing
    <2>2. CASE ack \notin {Wait, Fault}
      BY Zenon, <2>2 DEF FollowingNothing
    <2> QED BY Zenon, <2>1, <2>2
  <1>7. Ended => OnlySent \/ (asked.read = 0 /\ done = <<Access(asked.word)>>)
    BY Zenon DEF Ended
  <1> QED BY Zenon, <1>2, <1>3, <1>4, <1>5, <1>6, <1>7, InTransfer DEF Follows

LEMMA SyncGivesOnlyAsked ==
  ASSUME Inv, SyncInv, synced, asked # None
  PROVE  /\ Len(done) <= 1
         /\ \A i \in 1..Len(done) :
              done[i] = IF asked.read = 1 THEN [asked EXCEPT !.word = done[i].word] ELSE asked
  <1>1. OnlySent \/ (asked.read = 0 /\ done = <<Access(asked.word)>>)
    BY Zenon, PerformedSoFar
  <1>2. asked \in Requests
    BY Zenon DEF Inv, TypeInv
  <1>3. \A w : [asked EXCEPT !.word = w] = Access(w) /\ Access(w).word = w
    <2> HIDE DEF Bit
    <2> QED BY <1>2 DEF Requests, Access
  <1>4. Access(asked.word) = asked
    <2> HIDE DEF Bit
    <2> QED BY <1>2 DEF Requests, Access
  <1>5. CASE done = <<>>
    BY <1>5
  <1>6. ASSUME NEW w, asked.read = 1, done = <<Access(w)>>
        PROVE  /\ Len(done) <= 1
               /\ \A i \in 1..Len(done) : done[i] = [asked EXCEPT !.word = done[i].word]
    <2>1. Len(done) = 1 /\ done[1] = Access(w) /\ 1 <= 1 /\ \A i \in 1..1 : i = 1
      BY <1>6
    <2>2. done[1].word = w
      BY Zenon, <1>3, <2>1
    <2>3. done[1] = [asked EXCEPT !.word = done[1].word]
      BY Zenon, <1>3, <2>1, <2>2
    <2> QED BY Zenon, <2>1, <2>3
  <1>7. ASSUME asked.read = 0, done = <<Access(asked.word)>>
        PROVE  Len(done) <= 1 /\ \A i \in 1..Len(done) : done[i] = asked
    <2>1. Len(done) = 1 /\ done[1] = Access(asked.word) /\ 1 <= 1 /\ \A i \in 1..1 : i = 1
      BY <1>7
    <2> QED BY Zenon, <1>4, <2>1
  <1>8. 0 # 1
    OBVIOUS
  <1> QED BY Zenon, <1>1, <1>5, <1>6, <1>7, <1>8 DEF OnlySent

\* The target performs nothing but what it is asked for, and that once, for every width
\* of the words, turnaround and number of idle cycles: no inverted bit makes another
\* request of one, and nothing the probe clocks out after a lost acknowledgement is
\* taken for a request or for a word (swd_transfer, commands_transfer.c:145-257).
THEOREM OnlyWhatIsAsked == Spec => []OnlyAsked
  <1>1. Inv /\ SyncInv => OnlyAsked
    BY Zenon, SyncGivesOnlyAsked DEF OnlyAsked
  <1> QED BY InitTypes, NextKeepsTypes, InitSync, NextKeepsSync, <1>1, PTL DEF Spec

LEMMA EndedGivesTruth ==
  ASSUME Ended
  PROVE  /\ ack = Ok => \/ Len(done) = 1 /\ asked.read = 1 /\ result = done[1].word
                        \/ asked.read = 0 /\ (Len(done) = 1 \/ inverted)
         /\ ack \in {Wait, Fault} => done = <<>>
  <1>1. ack \in {Wait, Fault} => done = <<>>
    BY Zenon DEF Ended
  <1>2. \A w : Len(<<Access(w)>>) = 1 /\ <<Access(w)>>[1].word = w
    BY DEF Access
  <1>3. 0 # 1
    OBVIOUS
  <1>4. CASE ack = Ok /\ asked.read = 1
    <2>1. \E w \in Words : done = <<Access(w)>> /\ result = w
      BY Zenon, <1>3, <1>4 DEF Ended
    <2>2. PICK w \in Words : done = <<Access(w)>> /\ result = w
      BY Zenon, <2>1
    <2> QED BY Zenon, <1>1, <1>2, <1>4, <2>2
  <1>5. CASE ack = Ok /\ asked.read # 1
    <2>1. asked.read = 0 /\ (done = <<>> => inverted)
      BY Zenon, <1>5 DEF Ended
    <2>2. done = <<>> \/ done = <<Access(asked.word)>>
      BY Zenon, <1>5 DEF Ended, OnlySent
    <2> QED BY Zenon, <1>1, <1>2, <2>1, <2>2
  <1>6. CASE ack # Ok
    BY Zenon, <1>1, <1>6
  <1> QED BY Zenon, <1>4, <1>5, <1>6

\* The acknowledgement and the word that a transfer returns are true, for every width of
\* the words, turnaround and number of idle cycles: after OK the access has been performed
\* and its word is the one read, unless a bit of a word to write was inverted, and after
\* WAIT and FAULT it has not been (swd_transfer, commands_transfer.c:160-257).
THEOREM AnswersAreTrue == Spec => []AnswerIsTrue
  <1>1. Inv /\ SyncInv => AnswerIsTrue
    BY Zenon, EndedGivesTruth DEF SyncInv, AnswerIsTrue, Transferring
  <1> QED BY InitTypes, NextKeepsTypes, InitSync, NextKeepsSync, <1>1, PTL DEF Spec
=============================================================================
