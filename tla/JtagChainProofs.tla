--------------------------- MODULE JtagChainProofs ---------------------------
(***************************************************************************)
(* Proofs about JtagChain for any number of devices and lengths of their   *)
(* instruction registers, any configuration and words of any length:       *)
(*                                                                         *)
(*   - WalksReturn: the probe's own walks end where they began;            *)
(*   - TypesAreKept;                                                       *)
(*   - InstructionsAreSet, TransfersAreExact, IdentitiesAreRight: on a     *)
(*     chain that is as the host described it each device gets, and the    *)
(*     probe reads, exactly the bits meant;                                *)
(*   - ScansReadIdentities: on any chain, a scan by JTAG Sequence from any *)
(*     state gives the host the identities of the devices, packed into     *)
(*     bytes.                                                              *)
(*                                                                         *)
(* The three before rest on the invariant ChainInv, the last one on        *)
(* ScanInv.  They say of every cycle of a walk, counted by what is left of *)
(* it, in which state the devices are and how the path, from TDO to TDI,   *)
(* is made up: of what is left of the registers captured, and of the bits  *)
(* that have gone in so far.                                               *)
(***************************************************************************)
EXTENDS JtagChain, SequenceLemmas, FiniteSetTheorems

-----------------------------------------------------------------------------
(***************************************************************************)
(* Where walks lead.                                                       *)
(***************************************************************************)

TapStates == DOMAIN Tap

\* The walk w leads from state p of the state machine to state q, through the
\* states s.
LeadsTo(p, w, q) ==
  \E C : /\ w \in Seq(C)
         /\ \E s \in [0..Len(w) -> TapStates] :
              /\ s[0] = p /\ s[Len(w)] = q
              /\ \A i \in 1..Len(w) : s[i] = Tap[s[i - 1]][w[i].tms + 1]

LEMMA LeadsThrough ==
  ASSUME NEW p, NEW q, NEW C, NEW w \in Seq(C), NEW s \in [0..Len(w) -> TapStates],
         s[0] = p, s[Len(w)] = q, \A i \in 1..Len(w) : s[i] = Tap[s[i - 1]][w[i].tms + 1]
  PROVE  LeadsTo(p, w, q)
  BY Zenon DEF LeadsTo

LEMMA TapSteps ==
  /\ TapStates = {"reset", "idle", "selectDr", "selectIr", "captureDr", "captureIr", "shiftDr",
                  "shiftIr", "exit1Dr", "exit1Ir", "pauseDr", "pauseIr", "exit2Dr", "exit2Ir",
                  "updateDr", "updateIr"}
  /\ Tap["idle"][1] = "idle" /\ Tap["idle"][2] = "selectDr"
  /\ Tap["selectDr"][1] = "captureDr" /\ Tap["selectDr"][2] = "selectIr"
  /\ Tap["selectIr"][1] = "captureIr"
  /\ Tap["captureIr"][1] = "shiftIr" /\ Tap["captureDr"][1] = "shiftDr"
  /\ Tap["shiftIr"][1] = "shiftIr" /\ Tap["shiftIr"][2] = "exit1Ir"
  /\ Tap["shiftDr"][1] = "shiftDr" /\ Tap["shiftDr"][2] = "exit1Dr"
  /\ Tap["exit1Ir"][2] = "updateIr" /\ Tap["exit1Dr"][2] = "updateDr"
  /\ Tap["updateIr"][1] = "idle" /\ Tap["updateDr"][1] = "idle"
  BY DEF Tap, TapStates

LEMMA GoIs == \A b : Go(b).tms = b
  BY DEF Go

\* One cycle.
LEMMA OneCycle ==
  ASSUME NEW p \in TapStates, NEW c, Tap[p][c.tms + 1] \in TapStates
  PROVE  LeadsTo(p, <<c>>, Tap[p][c.tms + 1])
  <1> DEFINE w == <<c>>
             s == [j \in 0..1 |-> IF j = 0 THEN p ELSE Tap[p][c.tms + 1]]
  <1>1. w \in Seq({c}) /\ Len(w) = 1 /\ w[1] = c
    OBVIOUS
  <1>2. s \in [0..1 -> TapStates] /\ s[0] = p /\ s[1] = Tap[p][c.tms + 1]
    <2>1. 0 \in 0..1 /\ 1 \in 0..1 /\ 1 # 0
      BY SMT
    <2> QED BY <2>1
  <1>3. \A i \in 1..1 : i = 1 /\ i - 1 = 0
    BY SMT
  <1> HIDE DEF w, s
  <1>4. \A i \in 1..Len(w) : s[i] = Tap[s[i - 1]][w[i].tms + 1]
    BY <1>1, <1>2, <1>3
  <1> QED BY <1>1, <1>2, <1>4 DEF LeadsTo, w

\* A walk after a walk.
LEMMA WalksCompose ==
  ASSUME NEW p, NEW v, NEW q, NEW w, NEW r, LeadsTo(p, v, q), LeadsTo(q, w, r)
  PROVE  LeadsTo(p, v \o w, r)
  <1>1. PICK C : v \in Seq(C) /\ \E s \in [0..Len(v) -> TapStates] :
                  /\ s[0] = p /\ s[Len(v)] = q
                  /\ \A i \in 1..Len(v) : s[i] = Tap[s[i - 1]][v[i].tms + 1]
    BY DEF LeadsTo
  <1>2. PICK D : w \in Seq(D) /\ \E s \in [0..Len(w) -> TapStates] :
                  /\ s[0] = q /\ s[Len(w)] = r
                  /\ \A i \in 1..Len(w) : s[i] = Tap[s[i - 1]][w[i].tms + 1]
    BY DEF LeadsTo
  <1>3. PICK a \in [0..Len(v) -> TapStates] :
          /\ a[0] = p /\ a[Len(v)] = q
          /\ \A i \in 1..Len(v) : a[i] = Tap[a[i - 1]][v[i].tms + 1]
    BY <1>1
  <1>4. PICK b \in [0..Len(w) -> TapStates] :
          /\ b[0] = q /\ b[Len(w)] = r
          /\ \A i \in 1..Len(w) : b[i] = Tap[b[i - 1]][w[i].tms + 1]
    BY <1>2
  <1>5. v \in Seq(C \cup D) /\ w \in Seq(C \cup D)
    BY <1>1, <1>2, SeqMonotonic
  <1> DEFINE u == v \o w
             m == Len(v)
             n == Len(w)
             s == [j \in 0..(m + n) |-> IF j <= m THEN a[j] ELSE b[j - m]]
  <1>6. /\ u \in Seq(C \cup D) /\ Len(u) = m + n /\ m \in Nat /\ n \in Nat
        /\ \A i \in 1..(m + n) : u[i] = IF i <= m THEN v[i] ELSE w[i - m]
    BY <1>5, ConcatProperties, LenProperties
  <1>7. a \in [0..m -> TapStates] /\ b \in [0..n -> TapStates] /\ a[m] = b[0] /\ a[0] = p /\ b[n] = r
    BY <1>3, <1>4
  <1>8. /\ \A i \in 1..m : a[i] = Tap[a[i - 1]][v[i].tms + 1]
        /\ \A i \in 1..n : b[i] = Tap[b[i - 1]][w[i].tms + 1]
    BY <1>3, <1>4
  <1> HIDE DEF u, m, n
  <1>9. s \in [0..(m + n) -> TapStates]
    <2> SUFFICES ASSUME NEW j \in 0..(m + n)
                 PROVE  (IF j <= m THEN a[j] ELSE b[j - m]) \in TapStates
      OBVIOUS
    <2>1. (j <= m => j \in 0..m) /\ (~(j <= m) => j - m \in 0..n)
      BY SMT, <1>6
    <2> QED BY <1>7, <2>1
  <1>10. s[0] = p /\ s[m + n] = r
    <2>1. 0 \in 0..(m + n) /\ m + n \in 0..(m + n) /\ 0 <= m
      BY SMT, <1>6
    <2>2. s[0] = p
      BY <2>1, <1>7
    <2>3. CASE n = 0
      <3>1. m + n = m /\ m <= m
        BY SMT, <1>6, <2>3
      <3> QED BY <2>1, <2>2, <2>3, <3>1, <1>7
    <2>4. CASE n # 0
      <3>1. ~(m + n <= m) /\ (m + n) - m = n
        BY SMT, <1>6, <2>4
      <3> QED BY <2>1, <2>2, <3>1, <1>7
    <2> QED BY <2>3, <2>4
  <1>11. ASSUME NEW i \in 1..(m + n) PROVE s[i] = Tap[s[i - 1]][u[i].tms + 1]
    <2>1. i \in 0..(m + n) /\ i - 1 \in 0..(m + n)
      BY SMT, <1>6
    <2>2. CASE i <= m
      <3>1. i \in 1..m /\ i - 1 <= m
        BY SMT, <1>6, <2>2
      <3>2. s[i] = a[i] /\ s[i - 1] = a[i - 1] /\ u[i] = v[i]
        BY <2>1, <2>2, <3>1, <1>6
      <3> QED BY <3>1, <3>2, <1>8
    <2>3. CASE ~(i <= m)
      <3>1. i - m \in 1..n /\ i - 1 - m = i - m - 1
        BY SMT, <1>6, <2>3
      <3>2. s[i] = b[i - m] /\ u[i] = w[i - m]
        BY <2>1, <2>3, <1>6
      <3>3. s[i - 1] = b[i - m - 1]
        <4>1. CASE i - 1 <= m
          <5>1. i - 1 = m /\ i - m - 1 = 0
            BY SMT, <1>6, <2>3, <4>1
          <5> QED BY <2>1, <4>1, <5>1, <1>7
        <4>2. CASE ~(i - 1 <= m)
          BY <2>1, <3>1, <4>2
        <4> QED BY <4>1, <4>2
      <3> QED BY <3>1, <3>2, <3>3, <1>8
    <2> QED BY <2>2, <2>3
  <1> HIDE DEF s
  <1>12. LeadsTo(p, u, r)
    <2>1. /\ s \in [0..Len(u) -> TapStates] /\ s[Len(u)] = r
          /\ \A i \in 1..Len(u) : s[i] = Tap[s[i - 1]][u[i].tms + 1]
      BY <1>6, <1>9, <1>10, <1>11
    <2> QED BY <1>6, <1>10, <2>1, LeadsThrough
  <1> QED BY <1>12 DEF u

\* The next cycle of a walk.
LEMMA NextCycle ==
  ASSUME NEW p, NEW w, NEW q, LeadsTo(p, w, q), w # <<>>
  PROVE  /\ LeadsTo(Tap[p][Head(w).tms + 1], Tail(w), q)
         /\ Tap[p][Head(w).tms + 1] \in TapStates
  <1>1. PICK C : w \in Seq(C) /\ \E s \in [0..Len(w) -> TapStates] :
                  /\ s[0] = p /\ s[Len(w)] = q
                  /\ \A i \in 1..Len(w) : s[i] = Tap[s[i - 1]][w[i].tms + 1]
    BY DEF LeadsTo
  <1>2. PICK a \in [0..Len(w) -> TapStates] :
          /\ a[0] = p /\ a[Len(w)] = q
          /\ \A i \in 1..Len(w) : a[i] = Tap[a[i - 1]][w[i].tms + 1]
    BY <1>1
  <1> DEFINE n == Len(w)
             u == Tail(w)
             s == [j \in 0..(n - 1) |-> a[j + 1]]
  <1>3. /\ n \in Nat \ {0} /\ u \in Seq(C) /\ Len(u) = n - 1 /\ Head(w) = w[1]
        /\ \A i \in 1..(n - 1) : u[i] = w[i + 1]
    BY <1>1, HeadTailProperties, EmptySeq, LenProperties
  <1>4. /\ a \in [0..n -> TapStates] /\ a[0] = p /\ a[n] = q
        /\ \A i \in 1..n : a[i] = Tap[a[i - 1]][w[i].tms + 1]
    BY <1>2
  <1> HIDE DEF n, u
  <1>5. 1 \in 1..n /\ 1 \in 0..n /\ 1 - 1 = 0
    BY SMT, <1>3
  <1>6. a[1] = Tap[p][Head(w).tms + 1] /\ a[1] \in TapStates
    BY <1>3, <1>4, <1>5
  <1>7. s \in [0..(n - 1) -> TapStates] /\ s[0] = a[1] /\ s[n - 1] = q
    <2>1. /\ \A j \in 0..(n - 1) : j + 1 \in 0..n
          /\ 0 \in 0..(n - 1) /\ 0 + 1 = 1 /\ n - 1 \in 0..(n - 1) /\ (n - 1) + 1 = n
      BY SMT, <1>3
    <2>2. s \in [0..(n - 1) -> TapStates]
      BY <1>4, <2>1
    <2> QED BY <1>4, <2>1, <2>2
  <1>8. ASSUME NEW i \in 1..(n - 1) PROVE s[i] = Tap[s[i - 1]][u[i].tms + 1]
    <2>1. /\ i \in 0..(n - 1) /\ i - 1 \in 0..(n - 1) /\ (i - 1) + 1 = i /\ (i + 1) - 1 = i
          /\ i + 1 \in 1..n
      BY SMT, <1>3
    <2>2. s[i] = a[i + 1] /\ s[i - 1] = a[i] /\ u[i] = w[i + 1]
      BY <1>3, <2>1
    <2> QED BY <1>4, <2>1, <2>2
  <1> HIDE DEF s
  <1>9. LeadsTo(a[1], u, q)
    <2>1. /\ s \in [0..Len(u) -> TapStates] /\ s[Len(u)] = q
          /\ \A i \in 1..Len(u) : s[i] = Tap[s[i - 1]][u[i].tms + 1]
      BY <1>3, <1>7, <1>8
    <2> QED BY <1>3, <1>7, <2>1, LeadsThrough
  <1> QED BY <1>6, <1>9 DEF u

LEMMA WalkEnds ==
  ASSUME NEW p, NEW q, LeadsTo(p, <<>>, q)
  PROVE  p = q
  <1>1. Len(<<>>) = 0
    BY EmptySeq
  <1> QED BY <1>1 DEF LeadsTo

-----------------------------------------------------------------------------
(***************************************************************************)
(* The walks of the probe.                                                 *)
(***************************************************************************)

\* Cycles that stay where they are.
LEMMA StaysIn ==
  ASSUME NEW p \in TapStates, Tap[p][1] = p, NEW n \in Nat
  PROVE  LeadsTo(p, Fill(Go(0), n), p)
  <1> DEFINE w == Fill(Go(0), n)
             s == [j \in 0..n |-> p]
  <1>1. w \in Seq({Go(0)}) /\ Len(w) = n /\ \A i \in 1..n : w[i] = Go(0)
    BY DEF Fill
  <1>2. s \in [0..n -> TapStates] /\ \A i \in 0..n : s[i] = p
    OBVIOUS
  <1>3. 0 \in 0..n /\ n \in 0..n /\ \A i \in 1..n : i \in 0..n /\ i - 1 \in 0..n
    BY SMT
  <1> HIDE DEF w, s
  <1>4. \A i \in 1..Len(w) : s[i] = Tap[s[i - 1]][w[i].tms + 1]
    BY <1>1, <1>2, <1>3, GoIs
  <1>5. LeadsTo(p, w, p)
    BY <1>1, <1>2, <1>3, <1>4, LeadsThrough
  <1> QED BY <1>5 DEF w

\* Bits that are shifted, of which there is at least one: the last cycle leaves.
LEMMA ShiftLeaves ==
  ASSUME NEW p \in TapStates, NEW q \in TapStates, Tap[p][1] = p, Tap[p][2] = q,
         NEW b, Len(b) \in Nat, NEW n \in Nat, Len(b) + n > 0, NEW read
  PROVE  LeadsTo(p, Shift(b, n, read), q)
  <1> DEFINE m == Len(b) + n
             w == Shift(b, n, read)
             s == [j \in 0..m |-> IF j = m THEN q ELSE p]
             C == {w[i] : i \in 1..m}
  <1>m. m \in Nat /\ m > 0
    BY SMT
  <1>1. w \in Seq(C) /\ Len(w) = m /\ \A i \in 1..m : w[i].tms = IF i = m THEN 1 ELSE 0
    BY <1>m DEF Shift
  <1>2. s \in [0..m -> TapStates] /\ \A i \in 0..m : s[i] = IF i = m THEN q ELSE p
    OBVIOUS
  <1> HIDE DEF w, s, m, C
  <1>3. /\ 0 \in 0..m /\ m \in 0..m /\ 0 # m
        /\ \A i \in 1..m : i \in 0..m /\ i - 1 \in 0..m /\ i - 1 # m
    BY SMT, <1>m
  <1>4. \A i \in 1..Len(w) : s[i] = Tap[s[i - 1]][w[i].tms + 1]
    <2> SUFFICES ASSUME NEW i \in 1..m PROVE s[i] = Tap[p][w[i].tms + 1]
      BY <1>1, <1>2, <1>3
    <2> QED BY <1>1, <1>2, <1>3
  <1>5. LeadsTo(p, w, q)
    BY <1>1, <1>2, <1>3, <1>4, LeadsThrough
  <1> QED BY <1>5 DEF w

\* One cycle, by its value of TMS.
LEMMA GoesTo ==
  ASSUME NEW p \in TapStates, NEW c, NEW q \in TapStates, Tap[p][c.tms + 1] = q
  PROVE  LeadsTo(p, <<c>>, q)
  BY OneCycle

\* A walk from its first cycle on.
LEMMA Pair ==
  ASSUME NEW a, NEW b
  PROVE  <<a, b>> = <<a>> \o <<b>>
  <1> DEFINE S == {a, b}
             u == <<a>> \o <<b>>
  <1>1. <<a>> \in Seq(S) /\ <<b>> \in Seq(S) /\ <<a, b>> \in Seq(S)
    OBVIOUS
  <1>2. Len(<<a>>) = 1 /\ Len(<<b>>) = 1 /\ Len(<<a, b>>) = 2
    OBVIOUS
  <1>3. u \in Seq(S) /\ Len(u) = 2 /\ u[1] = a /\ u[2] = b
    OBVIOUS
  <1>4. \A i \in 1..2 : i = 1 \/ i = 2
    BY SMT
  <1>5. \A i \in 1..Len(<<a, b>>) : <<a, b>>[i] = u[i]
    BY <1>2, <1>3, <1>4
  <1> QED BY <1>1, <1>2, <1>3, <1>5, SeqEqual

LEMMA Triple ==
  ASSUME NEW a, NEW b, NEW c
  PROVE  <<a, b, c>> = <<a>> \o <<b, c>>
  OBVIOUS

LEMMA Quadruple ==
  ASSUME NEW a, NEW b, NEW c, NEW d
  PROVE  <<a, b, c, d>> = <<a>> \o <<b, c, d>>
  OBVIOUS

LEMMA TwoCycles ==
  ASSUME NEW p, NEW q, NEW r, NEW a, NEW b, LeadsTo(p, <<a>>, q), LeadsTo(q, <<b>>, r)
  PROVE  LeadsTo(p, <<a, b>>, r)
  BY WalksCompose, Pair

LEMMA FromIdle ==
  /\ LeadsTo("idle", <<Go(1), Go(1), Go(0), Go(0)>>, "shiftIr")
  /\ LeadsTo("idle", <<Go(1), Go(0), Go(0)>>, "shiftDr")
  <1>1. /\ LeadsTo("idle", <<Go(1)>>, "selectDr") /\ LeadsTo("selectDr", <<Go(1)>>, "selectIr")
        /\ LeadsTo("selectIr", <<Go(0)>>, "captureIr")
        /\ LeadsTo("captureIr", <<Go(0)>>, "shiftIr")
        /\ LeadsTo("selectDr", <<Go(0)>>, "captureDr")
        /\ LeadsTo("captureDr", <<Go(0)>>, "shiftDr")
    BY GoesTo, GoIs, TapSteps
  <1>2. LeadsTo("selectIr", <<Go(0), Go(0)>>, "shiftIr")
    BY <1>1, TwoCycles
  <1>3. LeadsTo("selectDr", <<Go(1)>> \o <<Go(0), Go(0)>>, "shiftIr")
    BY <1>1, <1>2, WalksCompose
  <1>4. LeadsTo("selectDr", <<Go(1), Go(0), Go(0)>>, "shiftIr")
    BY <1>3, Triple
  <1>5. LeadsTo("idle", <<Go(1)>> \o <<Go(1), Go(0), Go(0)>>, "shiftIr")
    BY <1>1, <1>4, WalksCompose
  <1>6. LeadsTo("idle", <<Go(1), Go(1), Go(0), Go(0)>>, "shiftIr")
    BY <1>5, Quadruple
  <1>7. LeadsTo("selectDr", <<Go(0), Go(0)>>, "shiftDr")
    BY <1>1, TwoCycles
  <1>8. LeadsTo("idle", <<Go(1)>> \o <<Go(0), Go(0)>>, "shiftDr")
    BY <1>1, <1>7, WalksCompose
  <1>9. LeadsTo("idle", <<Go(1), Go(0), Go(0)>>, "shiftDr")
    BY <1>8, Triple
  <1> QED BY <1>6, <1>9

LEMMA ToIdle ==
  /\ LeadsTo("exit1Ir", <<Go(1), Go(0)>>, "idle")
  /\ LeadsTo("exit1Dr", <<Go(1), Go(0)>>, "idle")
  <1>1. /\ LeadsTo("exit1Ir", <<Go(1)>>, "updateIr") /\ LeadsTo("updateIr", <<Go(0)>>, "idle")
        /\ LeadsTo("exit1Dr", <<Go(1)>>, "updateDr") /\ LeadsTo("updateDr", <<Go(0)>>, "idle")
    BY GoesTo, GoIs, TapSteps
  <1> QED BY <1>1, TwoCycles

LEMMA AtLeastOne ==
  ASSUME NEW n \in Nat
  PROVE  Max({1, n}) \in Nat \ {0}
  <1>1. \E x \in {1, n} : \A y \in {1, n} : x >= y
    BY SMT
  <1>2. Max({1, n}) \in {1, n} /\ Max({1, n}) >= 1
    BY <1>1 DEF Max
  <1> QED BY SMT, <1>2

LEMMA BitsAreSo ==
  ASSUME NEW v, NEW n \in Nat
  PROVE  Len(BitsOf(v, n)) = n
  BY DEF BitsOf

\* jtag_set_ir.
LEMMA SetIrLeadsToIdle ==
  ASSUME NEW i, NEW code, before[i] \in Nat, after[i] \in Nat, length[i] \in Nat
  PROVE  LeadsTo("idle", SetIrWalk(i, code), "idle")
  <1> DEFINE n == Max({1, length[i]})
             s == Shift(BitsOf(code, n), after[i], FALSE)
             f == Fill(Go(0), before[i])
  <1>1. LeadsTo("shiftIr", f, "shiftIr")
    BY StaysIn, TapSteps
  <1>2. LeadsTo("shiftIr", s, "exit1Ir")
    <2>1. n \in Nat \ {0}
      BY AtLeastOne
    <2> HIDE DEF n
    <2>2. Len(BitsOf(code, n)) = n
      BY <2>1, BitsAreSo
    <2>3. Len(BitsOf(code, n)) \in Nat /\ Len(BitsOf(code, n)) + after[i] > 0
      BY SMT, <2>1, <2>2
    <2> QED BY <2>3, ShiftLeaves, TapSteps
  <1>3. SetIrWalk(i, code) = ((<<Go(1), Go(1), Go(0), Go(0)>> \o f) \o s) \o <<Go(1), Go(0)>>
    BY DEF SetIrWalk
  <1> HIDE DEF f, s
  <1>4. LeadsTo("idle", <<Go(1), Go(1), Go(0), Go(0)>> \o f, "shiftIr")
    BY <1>1, FromIdle, WalksCompose
  <1>5. LeadsTo("idle", (<<Go(1), Go(1), Go(0), Go(0)>> \o f) \o s, "exit1Ir")
    BY <1>2, <1>4, WalksCompose
  <1>6. LeadsTo("idle", ((<<Go(1), Go(1), Go(0), Go(0)>> \o f) \o s) \o <<Go(1), Go(0)>>, "idle")
    BY <1>5, ToIdle, WalksCompose
  <1> QED BY <1>3, <1>6

LEMMA ToDrLeadsToShift ==
  ASSUME NEW i \in Nat \ {0}
  PROVE  LeadsTo("idle", ToDr(i), "shiftDr")
  <1>1. i - 1 \in Nat
    BY SMT
  <1>2. LeadsTo("shiftDr", Fill(Go(0), i - 1), "shiftDr")
    BY <1>1, StaysIn, TapSteps
  <1> QED BY <1>2, FromIdle, WalksCompose DEF ToDr

\* jtag_transfer up to the acknowledgement.
LEMMA AskLeadsToShift ==
  ASSUME NEW i \in Nat \ {0}, NEW request
  PROVE  LeadsTo("idle", AskWalk(i, request), "shiftDr")
  <1> DEFINE w == [j \in 1..3 |-> [tms |-> 0, tdi |-> request[j], read |-> TRUE]]
             s == [j \in 0..3 |-> "shiftDr"]
             C == {w[j] : j \in 1..3}
  <1>1. w \in Seq(C) /\ Len(w) = 3 /\ \A j \in 1..3 : w[j].tms = 0
    OBVIOUS
  <1>2. s \in [0..3 -> TapStates] /\ \A j \in 0..3 : s[j] = "shiftDr"
    BY TapSteps
  <1>3. 0 \in 0..3 /\ 3 \in 0..3 /\ \A j \in 1..3 : j \in 0..3 /\ j - 1 \in 0..3
    BY SMT
  <1>4. AskWalk(i, request) = ToDr(i) \o w
    BY DEF AskWalk
  <1> HIDE DEF w, s, C
  <1>5. \A j \in 1..Len(w) : s[j] = Tap[s[j - 1]][w[j].tms + 1]
    BY <1>1, <1>2, <1>3, TapSteps
  <1>6. LeadsTo("shiftDr", w, "shiftDr")
    BY <1>1, <1>2, <1>3, <1>5, LeadsThrough
  <1> QED BY <1>4, <1>6, ToDrLeadsToShift, WalksCompose

\* The end of jtag_transfer, with the cycles in Run-Test/Idle.
LEMMA EndLeadsToIdle == LeadsTo("exit1Dr", EndWalk, "idle")
  <1>1. LeadsTo("idle", Fill(Go(0), IdleCycles), "idle")
    BY SizesAreLegal, StaysIn, TapSteps
  <1> QED BY <1>1, ToIdle, WalksCompose DEF EndWalk

LEMMA DataLeadsToIdle ==
  ASSUME NEW i, count - i \in Nat, NEW read, NEW word
  PROVE  LeadsTo("shiftDr", DataWalk(i, read, word) \o EndWalk, "idle")
  <1> DEFINE b == IF read THEN Fill(1, WordBits) ELSE BitsOf(word, WordBits)
  <1>1. Len(b) = WordBits
    BY SizesAreLegal DEF BitsOf, Fill
  <1> HIDE DEF b
  <1>2. Len(b) \in Nat /\ Len(b) + (count - i) > 0
    BY SMT, <1>1, SizesAreLegal
  <1>3. LeadsTo("shiftDr", Shift(b, count - i, read), "exit1Dr")
    BY <1>2, ShiftLeaves, TapSteps
  <1>4. DataWalk(i, read, word) = Shift(b, count - i, read)
    BY DEF DataWalk, b
  <1> QED BY <1>3, <1>4, EndLeadsToIdle, WalksCompose

LEMMA RefusedLeadsToIdle == LeadsTo("shiftDr", RefusedWalk \o EndWalk, "idle")
  <1>1. LeadsTo("shiftDr", <<Go(1)>>, "exit1Dr")
    BY GoesTo, GoIs, TapSteps
  <1> QED BY <1>1, EndLeadsToIdle, WalksCompose DEF RefusedWalk

\* The second half of dap_handle_cmd_jtag_idcode.
LEMMA IdcodeLeadsToIdle ==
  ASSUME NEW i \in Nat \ {0}
  PROVE  LeadsTo("idle", IdcodeWalk(i), "idle")
  <1> DEFINE b == Fill(1, WordBits)
             s == Shift(b, 0, TRUE)
  <1>1. Len(b) = WordBits
    BY SizesAreLegal DEF Fill
  <1> HIDE DEF b
  <1>2. Len(b) \in Nat /\ Len(b) + 0 > 0
    BY SMT, <1>1, SizesAreLegal
  <1>3. LeadsTo("shiftDr", s, "exit1Dr")
    BY <1>2, ShiftLeaves, TapSteps
  <1>4. IdcodeWalk(i) = (ToDr(i) \o s) \o <<Go(1), Go(0)>>
    BY DEF IdcodeWalk, b
  <1> HIDE DEF s
  <1>5. LeadsTo("idle", ToDr(i) \o s, "exit1Dr")
    BY <1>3, ToDrLeadsToShift, WalksCompose
  <1> QED BY <1>4, <1>5, ToIdle, WalksCompose

-----------------------------------------------------------------------------
(***************************************************************************)
(* The commands.                                                           *)
(***************************************************************************)

\* What the probe knows of the chain, right or wrong, makes up walks.
ConfigInv ==
  /\ count \in 0..MaxDevices
  /\ length \in [1..MaxDevices -> Nat]
  /\ before \in [1..MaxDevices -> Nat] /\ after \in [1..MaxDevices -> Nat]

\* What is left of the walk leads from where the state machine is to where the
\* next part of the command, or the next command, begins.
WalkInv ==
  /\ ConfigInv
  /\ phase \in {"ir", "ask"} => command.device \in 1..count
  /\ phase \in {"ir", "data", "refused", "idcode"} => LeadsTo(tap, todo, "idle")
  /\ phase = "ask" => LeadsTo(tap, todo, "shiftDr")

LEMMA WalkInvEndsIdle == WalkInv => EndsIdle
  BY WalkEnds DEF WalkInv, EndsIdle

LEMMA InitWalks == Init => WalkInv
  <1> SUFFICES ASSUME Init PROVE WalkInv
    OBVIOUS
  <1>1. Fill(0, MaxDevices) \in [1..MaxDevices -> Nat]
    BY DEF Fill
  <1>2. 0 \in 0..MaxDevices
    BY SMT, SizesAreLegal
  <1> QED BY <1>1, <1>2 DEF Init, WalkInv, ConfigInv

\* Sums of lengths are numbers, and grow.
LEMMA SumsGrow ==
  ASSUME NEW c \in Configs, NEW i \in 1..Len(c)
  PROVE  /\ \A n \in i..Len(c) : Before(i, SubSeq(c, 1, n)) \in Nat
         /\ Before(Len(c) + 1, c) - Before(i + 1, c) \in Nat
  <1> DEFINE l == Len(c)   Sum(s) == FoldLeft(+, 0, s)
  <1>1. c \in Seq(Nat) /\ l \in Nat
    BY ChainsAreLegal, LenProperties
  <1>2. \A s \in Seq(Nat) : Sum(s) \in Nat
    <2>1. 0 \in Nat /\ Nat \in SUBSET Int /\ \A a, b \in Nat : a + b \in Nat
      BY SMT
    <2> QED BY <2>1, SumIsNumber
  <1>3. \A s, t \in Seq(Nat) : Sum(s \o t) = Sum(s) + Sum(t)
    <2>1. \A s \in Seq(Nat) : s \in Seq(Int)
      BY SMT
    <2> QED BY <2>1, SumConcatenates
  <1>4. \A d, s : Before(d, s) = Sum(SubSeq(s, 1, d - 1))
    BY DEF Before
  <1> HIDE DEF Sum
  <1>5. ASSUME NEW n \in i..l PROVE Before(i, SubSeq(c, 1, n)) \in Nat
    <2> HIDE DEF l
    <2> DEFINE s == SubSeq(c, 1, n)
    <2>1. n \in Nat /\ n <= l /\ i - 1 \in Nat /\ i - 1 <= n
      BY SMT, <1>1 DEF l
    <2>2. s \in Seq(Nat) /\ Len(s) = n
      BY SMT, <1>1, <2>1 DEF l
    <2> HIDE DEF s
    <2>3. SubSeq(s, 1, i - 1) \in Seq(Nat)
      BY SMT, <2>1, <2>2
    <2> QED BY <1>2, <1>4, <2>3 DEF s
  <1>6. Before(l + 1, c) - Before(i + 1, c) \in Nat
    <2>1. /\ (l + 1) - 1 = l /\ (i + 1) - 1 = i /\ i \in Nat /\ i <= l /\ i + 1 \in Nat
      BY SMT, <1>1
    <2> DEFINE s == SubSeq(c, 1, i)   t == SubSeq(c, i + 1, l)
    <2>2. s \in Seq(Nat) /\ t \in Seq(Nat) /\ c = s \o t /\ SubSeq(c, 1, l) = c
      <3>1. i \in 0..Len(c)
        BY SMT, <1>1
      <3>2. s \in Seq(Nat) /\ t \in Seq(Nat) /\ c = s \o t
        BY Zenon, <1>1, <3>1, Split
      <3>3. SubSeq(c, 1, l) = c
        BY SMT, <1>1
      <3> QED BY <3>2, <3>3
    <2> HIDE DEF s, t
    <2>3. Sum(c) = Sum(s) + Sum(t) /\ Sum(s) \in Nat /\ Sum(t) \in Nat
      BY <1>2, <1>3, <2>2
    <2>4. Before(l + 1, c) = Sum(c) /\ Before(i + 1, c) = Sum(s)
      BY <1>4, <2>1, <2>2 DEF s
    <2> QED BY SMT, <2>3, <2>4
  <1> QED BY <1>5, <1>6

LEMMA ConfigureKeepsWalk ==
  ASSUME WalkInv, NEW c \in Configs, NEW m \in 0..Len(c), Configure(Len(c), SubSeq(c, 1, m))
  PROVE  WalkInv'
  <1> DEFINE n == Len(c)
             lens == SubSeq(c, 1, m)
  <1>1. c \in Seq(Nat) /\ n \in Nat
    BY ChainsAreLegal, LenProperties
  <1>2. lens \in Seq(Nat) /\ Len(lens) = m /\ (m = n => lens = c)
    <2>1. /\ 1 \in Int /\ m \in Int /\ \A i \in 1..m : i \in 1..n
          /\ m = IF 1 <= m THEN m - 1 + 1 ELSE 0
      BY SMT, <1>1
    <2>2. \A i \in 1..m : c[i] \in Nat
      BY <1>1, <2>1, ElementOfSeq
    <2>3. lens \in Seq(Nat) /\ Len(lens) = IF 1 <= m THEN m - 1 + 1 ELSE 0
      BY <2>1, <2>2, SubSeqProperties
    <2> QED BY <1>1, <2>1, <2>3, SubSeqFull
  <1>3. /\ phase = "none" /\ n <= MaxDevices /\ UNCHANGED phase
        /\ count' = n
        /\ length' = [i \in 1..MaxDevices |-> IF i <= Len(lens) THEN lens[i] ELSE length[i]]
        /\ before' = [i \in 1..MaxDevices |->
                        IF i <= Len(lens) THEN Before(i, lens) ELSE before[i]]
        /\ after' = [i \in 1..MaxDevices |->
                       IF i <= n /\ Len(lens) = n
                         THEN Before(n + 1, lens) - Before(i + 1, lens) ELSE after[i]]
    BY DEF Configure, Idle
  <1>4. count' \in 0..MaxDevices
    <2> HIDE DEF n
    <2> QED BY SMT, <1>1, <1>3, SizesAreLegal
  <1>5. \A i \in 1..MaxDevices :
          /\ i <= m => i \in 1..Len(lens) /\ i \in 1..n /\ m \in i..n
          /\ i <= n => i \in 1..n
    <2> HIDE DEF n, lens
    <2>1. m \in 0..n
      BY DEF n
    <2> QED BY SMT, <1>1, <1>2, <2>1
  <1>6. length' \in [1..MaxDevices -> Nat]
    <2>1. \A i \in 1..MaxDevices : i <= m => lens[i] \in Nat
      BY <1>2, <1>5, ElementOfSeq
    <2> HIDE DEF lens, n
    <2> QED BY <1>2, <1>3, <2>1 DEF WalkInv, ConfigInv
  <1>7. before' \in [1..MaxDevices -> Nat]
    <2>1. \A i \in 1..MaxDevices : i <= m => Before(i, lens) \in Nat
      BY <1>5, SumsGrow
    <2> HIDE DEF lens, n
    <2> QED BY <1>2, <1>3, <2>1 DEF WalkInv, ConfigInv
  <1>8. after' \in [1..MaxDevices -> Nat]
    <2>1. \A i \in 1..MaxDevices : i <= n => Before(n + 1, c) - Before(i + 1, c) \in Nat
      BY <1>5, SumsGrow
    <2> HIDE DEF lens, n
    <2>2. \A i \in 1..MaxDevices :
            i <= n /\ m = n => Before(n + 1, lens) - Before(i + 1, lens) \in Nat
      BY <1>2, <2>1
    <2> QED BY <1>2, <1>3, <2>2 DEF WalkInv, ConfigInv
  <1> QED BY <1>3, <1>4, <1>6, <1>7, <1>8 DEF WalkInv, ConfigInv

\* The first walk of a transfer or an identification.
LEMMA CommandBegins ==
  ASSUME WalkInv, NEW i \in 1..MaxDevices, NEW code, i <= count, tap = "idle",
         UNCHANGED <<tap, config>>, phase' = "ir", todo' = SetIrWalk(i, code),
         command'.device = i
  PROVE  WalkInv'
  <1>1. i \in 1..count
    BY SMT DEF WalkInv, ConfigInv
  <1>2. LeadsTo("idle", SetIrWalk(i, code), "idle")
    BY SetIrLeadsToIdle DEF WalkInv, ConfigInv
  <1> QED BY <1>1, <1>2 DEF WalkInv, ConfigInv, config

LEMMA TransferKeepsWalk ==
  ASSUME WalkInv, NEW i \in 1..MaxDevices, NEW code, NEW r, NEW w, Transfer(i, code, r, w)
  PROVE  WalkInv'
  <1>1. command'.device = i
    BY DEF Transfer
  <1> QED BY <1>1, CommandBegins DEF Transfer

LEMMA IdcodeKeepsWalk ==
  ASSUME WalkInv, NEW i \in 1..MaxDevices, JtagIdcode(i)
  PROVE  WalkInv'
  <1>1. command'.device = i
    BY DEF JtagIdcode
  <1> QED BY <1>1, CommandBegins DEF JtagIdcode

LEMMA CycleKeepsWalk == WalkInv /\ Cycle => WalkInv'
  <1> SUFFICES ASSUME WalkInv, Cycle PROVE WalkInv'
    OBVIOUS
  <1>1. /\ todo # <<>> /\ todo' = Tail(todo) /\ UNCHANGED <<config, command, phase>>
        /\ tap' = Tap[tap][Head(todo).tms + 1]
    BY DEF Cycle, Clock
  <1>2. \A q : LeadsTo(tap, todo, q) => LeadsTo(tap', todo', q)
    BY <1>1, NextCycle
  <1> QED BY <1>1, <1>2 DEF WalkInv, ConfigInv, config

LEMMA PlanKeepsWalk == WalkInv /\ Plan => WalkInv'
  <1> SUFFICES ASSUME WalkInv, Plan PROVE WalkInv'
    OBVIOUS
  <1>1. todo = <<>> /\ UNCHANGED <<tap, config, command>>
    BY DEF Plan, board
  <1>2. phase = "ir" => tap = "idle"
    BY <1>1, WalkEnds DEF WalkInv
  <1>3. phase = "ask" => tap = "shiftDr"
    BY <1>1, WalkEnds DEF WalkInv
  <1>4. phase \in {"ir", "ask"} => command.device \in Nat \ {0} /\ count - command.device \in Nat
    BY SMT DEF WalkInv, ConfigInv
  <1>5. CASE phase = "ir" /\ phase' = "ask" /\ todo' = AskWalk(command.device, command.request)
    BY <1>1, <1>2, <1>4, <1>5, AskLeadsToShift DEF WalkInv, ConfigInv, config
  <1>6. CASE /\ phase = "ask" /\ phase' \in {"data", "refused"}
             /\ \/ todo' = DataWalk(command.device, Reading, command.word) \o EndWalk
                \/ todo' = RefusedWalk \o EndWalk
    <2>1. CASE todo' = DataWalk(command.device, Reading, command.word) \o EndWalk
      <3>1. LeadsTo("shiftDr", todo', "idle")
        BY <1>4, <1>6, <2>1, DataLeadsToIdle
      <3> QED BY <1>1, <1>3, <1>6, <3>1 DEF WalkInv, ConfigInv, config
    <2>2. CASE todo' = RefusedWalk \o EndWalk
      <3>1. LeadsTo("shiftDr", todo', "idle")
        BY <2>2, RefusedLeadsToIdle
      <3> QED BY <1>1, <1>3, <1>6, <3>1 DEF WalkInv, ConfigInv, config
    <2> QED BY <1>6, <2>1, <2>2
  <1>7. CASE phase = "ir" /\ phase' = "idcode" /\ todo' = IdcodeWalk(command.device)
    BY <1>1, <1>2, <1>4, <1>7, IdcodeLeadsToIdle DEF WalkInv, ConfigInv, config
  <1> QED BY <1>5, <1>6, <1>7 DEF Plan

LEMMA StepKeepsWalk == WalkInv /\ [Next]_vars => WalkInv'
  <1> SUFFICES ASSUME WalkInv, [Next]_vars PROVE WalkInv'
    OBVIOUS
  <1>1. CASE \E c \in Configs : \E n \in 0..Len(c) : Configure(Len(c), SubSeq(c, 1, n))
    BY <1>1, ConfigureKeepsWalk
  <1>2. CASE \E i \in 1..MaxDevices : \E code \in {IrAbort, IrDpacc, IrApacc} :
               \E r \in Requests, w \in Words : Transfer(i, code, r, w)
    BY <1>2, TransferKeepsWalk
  <1>3. CASE \E i \in 1..MaxDevices : JtagIdcode(i)
    BY <1>3, IdcodeKeepsWalk
  <1>4. CASE \E s \in Sequences : JtagSequence(s)
    BY <1>4 DEF JtagSequence, WalkInv, ConfigInv, config
  <1>5. CASE Answer
    BY <1>5 DEF Answer, WalkInv, ConfigInv, config
  <1>6. CASE UNCHANGED vars
    BY <1>6 DEF vars, board, config, WalkInv, ConfigInv
  <1>7. CASE Cycle \/ Plan
    BY <1>7, CycleKeepsWalk, PlanKeepsWalk
  <1> QED BY <1>1, <1>2, <1>3, <1>4, <1>5, <1>6, <1>7, Zenon DEF Next

\* Every walk of the probe's own ends in Run-Test/Idle, where it began, for any
\* chain and any configuration, right or wrong, and whatever the target answers
\* (jtag_set_ir, jtag_transfer and the walk of dap_handle_cmd_jtag_idcode).
THEOREM WalksReturn == Spec => []EndsIdle
  <1>1. Spec => []WalkInv
    BY InitWalks, StepKeepsWalk, PTL DEF Spec
  <1> QED BY <1>1, WalkInvEndsIdle, PTL

-----------------------------------------------------------------------------
(***************************************************************************)
(* Powers of two, the bits of a number and the number they stand for.      *)
(***************************************************************************)

\* f holds the powers of two up to the n-th.
Powers(f, n) == f = [k \in 0..n |-> IF k = 0 THEN 1 ELSE 2 * f[k - 1]]

LEMMA PowersExist == \A n \in Nat : \E f : Powers(f, n)
  <1> DEFINE T == {n \in Nat : \E f : Powers(f, n)}
  <1>1. 0 \in T
    <2> DEFINE f == [k \in 0..0 |-> 1]
    <2>1. f = [k \in 0..0 |-> IF k = 0 THEN 1 ELSE 2 * f[k - 1]]
      BY SMT
    <2>2. Powers(f, 0)
      BY <2>1 DEF Powers
    <2> QED BY <2>2
  <1>2. ASSUME NEW n \in T PROVE n + 1 \in T
    <2>1. n \in Nat /\ n + 1 \in Nat
      BY SMT
    <2>2. PICK f : Powers(f, n)
      OBVIOUS
    <2> DEFINE g == [k \in 0..(n + 1) |-> IF k = n + 1 THEN 2 * f[n] ELSE f[k]]
    <2>3. ASSUME NEW k \in 0..(n + 1) PROVE g[k] = IF k = 0 THEN 1 ELSE 2 * g[k - 1]
      <3>1. CASE k = n + 1
        <4>1. k # 0 /\ k - 1 = n /\ n \in 0..(n + 1) /\ n # n + 1
          BY SMT, <2>1, <3>1
        <4>2. g[k] = 2 * f[n] /\ g[n] = f[n]
          BY <3>1, <4>1
        <4> QED BY <4>1, <4>2
      <3>2. CASE k # n + 1
        <4>1. k \in 0..n /\ (k # 0 => k - 1 \in 0..(n + 1) /\ k - 1 # n + 1)
          BY SMT, <2>1, <3>2
        <4>2. g[k] = f[k] /\ (k # 0 => g[k - 1] = f[k - 1])
          BY <3>2, <4>1
        <4>3. f[k] = IF k = 0 THEN 1 ELSE 2 * f[k - 1]
          BY <2>2, <4>1 DEF Powers
        <4> QED BY <4>2, <4>3
      <3> QED BY <3>1, <3>2
    <2>4. g = [k \in 0..(n + 1) |-> IF k = 0 THEN 1 ELSE 2 * g[k - 1]]
      <3>1. g = [k \in 0..(n + 1) |-> g[k]]
        OBVIOUS
      <3> HIDE DEF g
      <3> QED BY <2>3, <3>1
    <2> HIDE DEF g
    <2>5. Powers(g, n + 1)
      BY <2>4 DEF Powers
    <2> QED BY <2>1, <2>5
  <1>3. T \in SUBSET Nat
    OBVIOUS
  <1> HIDE DEF T
  <1>4. T = Nat
    BY <1>1, <1>2, <1>3, InductionOnSet
  <1> QED BY <1>4 DEF T

\* Two that hold them agree as far as both go.
LEMMA PowersAgree ==
  ASSUME NEW m \in Nat, NEW n \in Nat, m <= n, NEW f, NEW g, Powers(f, m), Powers(g, n)
  PROVE  f[m] = g[m]
  <1> DEFINE T == {k \in Nat : k <= m => f[k] = g[k]}
  <1>1. 0 \in T
    <2>1. 0 \in 0..m /\ 0 \in 0..n /\ 0 \in Nat
      BY SMT
    <2>2. f[0] = 1 /\ g[0] = 1
      BY <2>1 DEF Powers
    <2> QED BY <2>1, <2>2
  <1>2. ASSUME NEW k \in T PROVE k + 1 \in T
    <2>1. k \in Nat /\ k + 1 \in Nat /\ k + 1 # 0 /\ (k + 1) - 1 = k
      BY SMT
    <2> SUFFICES ASSUME k + 1 <= m PROVE f[k + 1] = g[k + 1]
      BY <2>1
    <2>2. k <= m /\ k + 1 \in 0..m /\ k + 1 \in 0..n
      BY SMT, <2>1
    <2>3. f[k + 1] = 2 * f[k] /\ g[k + 1] = 2 * g[k]
      BY <2>1, <2>2 DEF Powers
    <2> QED BY <2>2, <2>3
  <1>3. T \in SUBSET Nat
    OBVIOUS
  <1> HIDE DEF T
  <1>4. m \in T
    BY <1>1, <1>2, <1>3, InductionOnSet
  <1> QED BY SMT, <1>4 DEF T

LEMMA Pow2Is == Pow2 = [n \in Nat |-> IF n = 0 THEN 1 ELSE 2 * Pow2[n - 1]]
  <1> DEFINE F(n) == CHOOSE f : Powers(f, n)
             p == [n \in Nat |-> F(n)[n]]
  <1>1. \A n \in Nat : Powers(F(n), n)
    BY PowersExist
  <1> HIDE DEF F
  <1>2. ASSUME NEW n \in Nat PROVE p[n] = IF n = 0 THEN 1 ELSE 2 * p[n - 1]
    <2>1. n \in 0..n /\ (n # 0 => n - 1 \in Nat /\ n - 1 <= n)
      BY SMT
    <2>2. F(n)[n] = IF n = 0 THEN 1 ELSE 2 * F(n)[n - 1]
      BY <1>1, <2>1 DEF Powers
    <2>3. n # 0 => F(n - 1)[n - 1] = F(n)[n - 1]
      BY <1>1, <2>1, PowersAgree
    <2> QED BY <2>1, <2>2, <2>3
  <1>3. p = [n \in Nat |-> IF n = 0 THEN 1 ELSE 2 * p[n - 1]]
    <2>1. p = [n \in Nat |-> p[n]]
      OBVIOUS
    <2> HIDE DEF p
    <2> QED BY <1>2, <2>1
  <1> HIDE DEF p
  <1>4. \E f : f = [n \in Nat |-> IF n = 0 THEN 1 ELSE 2 * f[n - 1]]
    BY <1>3
  <1> QED BY <1>4, Zenon DEF Pow2

LEMMA Pow2Grows ==
  /\ Pow2[0] = 1
  /\ \A n \in Nat : Pow2[n] \in Nat \ {0} /\ Pow2[n + 1] = 2 * Pow2[n]
  <1>1. Pow2[0] = 1
    BY Pow2Is, 0 \in Nat
  <1>2. ASSUME NEW n \in Nat PROVE Pow2[n + 1] = 2 * Pow2[n]
    <2>1. n + 1 \in Nat /\ n + 1 # 0 /\ (n + 1) - 1 = n
      BY SMT
    <2> QED BY <2>1, Pow2Is
  <1> DEFINE T == {n \in Nat : Pow2[n] \in Nat \ {0}}
  <1>3. 0 \in T
    BY SMT, <1>1
  <1>4. ASSUME NEW n \in T PROVE n + 1 \in T
    <2>1. n \in Nat /\ n + 1 \in Nat /\ Pow2[n] \in Nat \ {0} /\ Pow2[n + 1] = 2 * Pow2[n]
      BY <1>2
    <2> QED BY SMT, <2>1
  <1>5. T \in SUBSET Nat
    OBVIOUS
  <1> HIDE DEF T
  <1>6. T = Nat
    BY <1>3, <1>4, <1>5, InductionOnSet
  <1> QED BY <1>1, <1>2, <1>6 DEF T

\* Dividing by a power of two, and by the next one.
LEMMA Halving ==
  ASSUME NEW v \in Nat, NEW p \in Nat \ {0}
  PROVE  /\ v \div p \in Nat /\ v \div (2 * p) = (v \div p) \div 2
         /\ ((v \div p) % 2) \in {0, 1}
         /\ v \div p = 2 * ((v \div p) \div 2) + ((v \div p) % 2)
  <1> DEFINE q == v \div p
             h == q \div 2
             r == v % p
  <1>1. q \in Int /\ r \in Int /\ v = p * q + r /\ 0 <= r /\ r < p
    BY SMT
  <1>2. q >= 0
    BY SMT
  <1> HIDE DEF q, r
  <1>3. h \in Int /\ (q % 2) \in {0, 1} /\ q = 2 * h + (q % 2)
    BY SMT, <1>1
  <1> HIDE DEF h
  <1> DEFINE t == q % 2
  <1>4. t \in {0, 1} /\ q = 2 * h + t
    BY <1>3
  <1> HIDE DEF t
  <1>5. p * q = (2 * p) * h + p * t
    BY SMT, <1>1, <1>3, <1>4
  <1>6. p * t + r >= 0 /\ p * t + r < 2 * p /\ v = (2 * p) * h + (p * t + r)
    BY SMT, <1>1, <1>3, <1>4, <1>5
  <1>7. v \div (2 * p) = h
    <2> DEFINE d == 2 * p
               x == p * t + r
    <2>1. d \in Nat \ {0} /\ x \in Int /\ x >= 0 /\ x < d /\ v = d * h + x
      BY SMT, <1>1, <1>4, <1>6
    <2> HIDE DEF d, x
    <2>2. v \div d = h
      BY SMT, <2>1, <1>3
    <2> QED BY <2>2 DEF d
  <1> QED BY <1>1, <1>2, <1>3, <1>7 DEF q, h, t

LEMMA BitsAreBits ==
  ASSUME NEW v \in Nat, NEW n \in Nat
  PROVE  /\ BitsOf(v, n) \in Seq(Bit) /\ Len(BitsOf(v, n)) = n
         /\ BitsOf(v, n) \in [1..n -> Bit]
         /\ \A i \in 1..n : BitsOf(v, n)[i] = (v \div Pow2[i - 1]) % 2
  <1> DEFINE b == [i \in 1..n |-> (v \div Pow2[i - 1]) % 2]
  <1>1. ASSUME NEW i \in 1..n PROVE (v \div Pow2[i - 1]) % 2 \in Bit
    <2>1. i - 1 \in Nat
      BY SMT
    <2>2. Pow2[i - 1] \in Nat \ {0}
      BY <2>1, Pow2Grows
    <2> QED BY <2>2, Halving DEF Bit
  <1>2. b \in [1..n -> Bit]
    BY <1>1
  <1>3. BitsOf(v, n) = b
    BY DEF BitsOf
  <1>4. b \in Seq(Bit) /\ Len(b) = n
    BY <1>2
  <1> QED BY <1>2, <1>3, <1>4

\* The bits of a number that fits into them stand for it.
LEMMA ValueOfBits ==
  ASSUME NEW n \in Nat, NEW v \in Nat, v < Pow2[n]
  PROVE  ValueOf(BitsOf(v, n)) = v
  <1> DEFINE q(k) == v \div Pow2[k]
             b == BitsOf(v, n)
             s == [i \in 1..n |-> b[i] * Pow2[i - 1]]
             r == [k \in 0..n |-> v - q(k) * Pow2[k]]
  <1>1. \A k \in Nat : Pow2[k] \in Nat \ {0} /\ q(k) \in Nat
    <2>1. \A k \in Nat : Pow2[k] \in Nat \ {0}
      BY Pow2Grows
    <2> QED BY <2>1, Halving
  <1>2. ASSUME NEW k \in 1..n
        PROVE  /\ s[k] = (q(k - 1) % 2) * Pow2[k - 1] /\ s[k] \in Int
               /\ q(k - 1) = 2 * q(k) + (q(k - 1) % 2)
               /\ Pow2[k] = 2 * Pow2[k - 1]
    <2>1. k - 1 \in Nat /\ (k - 1) + 1 = k
      BY SMT
    <2>2. Pow2[k] = 2 * Pow2[k - 1] /\ Pow2[k - 1] \in Nat \ {0}
      BY <2>1, Pow2Grows
    <2>3. q(k) = q(k - 1) \div 2 /\ q(k - 1) % 2 \in {0, 1} /\ q(k - 1) = 2 * (q(k - 1) \div 2) + (q(k - 1) % 2)
      BY <2>2, Halving
    <2>4. s[k] = (q(k - 1) % 2) * Pow2[k - 1]
      BY BitsAreBits
    <2> HIDE DEF q, s
    <2>5. s[k] \in Int
      BY SMT, <2>2, <2>3, <2>4
    <2> QED BY <2>2, <2>3, <2>4, <2>5
  <1>3. s \in Seq(Int) /\ Len(s) = n
    <2>1. s = [i \in 1..n |-> s[i]]
      OBVIOUS
    <2> HIDE DEF s, q
    <2> QED BY <1>2, <2>1
  <1>4. \A k \in 0..n : r[k] = v - q(k) * Pow2[k] /\ r[k] \in Int
    <2> SUFFICES ASSUME NEW k \in 0..n PROVE r[k] = v - q(k) * Pow2[k] /\ r[k] \in Int
      OBVIOUS
    <2>1. k \in Nat
      BY SMT
    <2>2. Pow2[k] \in Nat /\ q(k) \in Nat
      BY <1>1, <2>1
    <2>3. r[k] = v - q(k) * Pow2[k]
      OBVIOUS
    <2> HIDE DEF r, q
    <2> QED BY SMT, <2>2, <2>3
  <1>5. r \in [0..n -> Int]
    <2>1. r = [k \in 0..n |-> r[k]]
      OBVIOUS
    <2> HIDE DEF r, q
    <2> QED BY <1>4, <2>1
  <1>6. r[0] = 0
    <2>1. 0 \in 0..n /\ 0 \in Nat
      BY SMT
    <2>2. r[0] = v - q(0) * Pow2[0] /\ q(0) = v \div 1 /\ Pow2[0] = 1
      BY <1>4, <2>1, Pow2Grows
    <2> HIDE DEF r, q
    <2> QED BY SMT, <2>2
  <1>7. ASSUME NEW k \in 1..n PROVE r[k] = r[k - 1] + s[k]
    <2>1. k \in 0..n /\ k - 1 \in 0..n /\ k \in Nat /\ k - 1 \in Nat
      BY SMT
    <2>2. /\ Pow2[k] \in Nat /\ q(k) \in Nat /\ Pow2[k - 1] \in Nat /\ q(k - 1) \in Nat
          /\ r[k] = v - q(k) * Pow2[k] /\ r[k - 1] = v - q(k - 1) * Pow2[k - 1]
          /\ s[k] = (q(k - 1) % 2) * Pow2[k - 1] /\ Pow2[k] = 2 * Pow2[k - 1]
          /\ q(k - 1) = 2 * q(k) + (q(k - 1) % 2)
      BY <1>1, <1>2, <1>4, <2>1
    <2> DEFINE a == q(k)  c == q(k - 1)  p == Pow2[k - 1]  t == c % 2
    <2>3. a \in Nat /\ c \in Nat /\ p \in Nat /\ t \in Int
      <3>1. a \in Nat /\ c \in Nat /\ p \in Nat
        BY <2>2
      <3> HIDE DEF c
      <3>2. t \in Int
        BY SMT, <3>1
      <3> QED BY <3>1, <3>2
    <2>4. r[k] = v - a * (2 * p) /\ r[k - 1] = v - c * p /\ s[k] = t * p /\ c = 2 * a + t
      BY <2>2
    <2> HIDE DEF r, q, s, a, c, p, t
    <2>5. c * p = a * (2 * p) + t * p
      BY SMT, <2>3, <2>4
    <2>6. r[k - 1] = v - (a * (2 * p) + t * p)
      BY <2>4, <2>5
    <2> DEFINE x == a * (2 * p)  y == t * p
    <2>7. x \in Int /\ y \in Int
      BY SMT, <2>3
    <2> HIDE DEF x, y
    <2>8. r[k] = v - x /\ r[k - 1] = v - (x + y) /\ s[k] = y
      BY <2>4, <2>6 DEF x, y
    <2> QED BY SMT, <2>7, <2>8
  <1>8. r[n] = v
    <2>1. n \in 0..n
      BY SMT
    <2>2. r[n] = v - q(n) * Pow2[n] /\ Pow2[n] \in Nat \ {0}
      BY <1>1, <1>4, <2>1
    <2>3. q(n) = 0
      <3>1. Pow2[n] \in Nat \ {0}
        BY <1>1
      <3> QED BY SMT, <3>1
    <2> HIDE DEF r, q
    <2> QED BY SMT, <2>2, <2>3
  <1>9. ValueOf(b) = FoldLeft(+, 0, s)
    BY BitsAreBits DEF ValueOf
  <1> HIDE DEF r, s, q, b
  <1>10. FoldLeft(+, 0, s) = r[n]
    BY <1>3, <1>5, <1>6, <1>7, SumIs
  <1> QED BY <1>8, <1>9, <1>10 DEF b

-----------------------------------------------------------------------------
(***************************************************************************)
(* The path: the registers of all devices, one after another.              *)
(***************************************************************************)

\* One sequence after another.
LEMMA Concatenated ==
  ASSUME NEW S, NEW a \in Seq(S), NEW b \in Seq(S)
  PROVE  /\ a \o b \in Seq(S) /\ Len(a \o b) = Len(a) + Len(b)
         /\ \A m \in 1..Len(a) : (a \o b)[m] = a[m]
         /\ \A m \in 1..Len(b) : (a \o b)[Len(a) + m] = b[m]
  <1>1. a \o b \in Seq(S) /\ Len(a \o b) = Len(a) + Len(b)
    BY SMT
  <1>2. \A m \in 1..Len(a) : (a \o b)[m] = a[m]
    BY SMT
  <1>3. \A m \in 1..Len(b) : (a \o b)[Len(a) + m] = b[m]
    BY SMT
  <1> QED BY <1>1, <1>2, <1>3

\* Where the parts of a path begin.
\* Sequences joined, without what the provers know of joining them.
Joined(u, v) == u \o v

LEMMA JoinsAssociate ==
  ASSUME NEW S, NEW u \in Seq(S), NEW v \in Seq(S), NEW w \in Seq(S)
  PROVE  Joined(Joined(u, v), w) = Joined(u, Joined(v, w)) /\ Joined(u, v) \in Seq(S)
  <1>1. (u \o v) \o w = u \o (v \o w)
    BY SMT
  <1>2. u \o v \in Seq(S)
    BY ConcatProperties
  <1> QED BY Zenon, <1>1, <1>2 DEF Joined

LEMMA FourJoined ==
  ASSUME NEW S, NEW u \in Seq(S), NEW v \in Seq(S), NEW w \in Seq(S), NEW z \in Seq(S)
  PROVE  Joined(Joined(Joined(u, v), w), z) = Joined(u, Joined(v, Joined(w, z)))
  <1>1. Joined(w, z) \in Seq(S) /\ Joined(u, v) \in Seq(S)
    BY JoinsAssociate
  <1>2. Joined(Joined(u, v), Joined(w, z)) = Joined(u, Joined(v, Joined(w, z)))
    BY SMT, <1>1, JoinsAssociate
  <1>3. Joined(Joined(Joined(u, v), w), z) = Joined(Joined(u, v), Joined(w, z))
    BY SMT, <1>1, JoinsAssociate
  <1> QED BY Zenon, <1>2, <1>3

\* What is behind the first of two.
LEMMA SecondJoined ==
  ASSUME NEW S, NEW p \in Seq(S), NEW x \in Seq(S), NEW m \in 1..Len(x)
  PROVE  Joined(p, x)[Len(p) + m] = x[m]
  <1> DEFINE a == Len(p)   b == Len(x)   u == Joined(p, x)
  <1>1. a \in Nat /\ b \in Nat /\ m \in 1..b
    BY LenProperties
  <1>2. \A q \in 1..(a + b) : u[q] = IF q <= a THEN p[q] ELSE x[q - a]
    BY ConcatProperties DEF Joined
  <1> HIDE DEF a, b, u
  <1>3. a + m \in 1..(a + b) /\ ~(a + m <= a) /\ (a + m) - a = m
    BY SMT, <1>1
  <1>4. u[a + m] = x[m]
    BY Zenon, <1>2, <1>3
  <1> QED BY Zenon, <1>4 DEF a, u

LEMMA BeforeIs ==
  ASSUME NEW s \in Seq(Nat)
  PROVE  /\ Before(1, s) = 0
         /\ \A d \in 1..(Len(s) + 1) : Before(d, s) \in Nat
         /\ \A d \in 1..Len(s) : Before(d + 1, s) = Before(d, s) + s[d]
  <1> DEFINE Sum(t) == FoldLeft(+, 0, t)
  <1>1. \A d : Before(d, s) = Sum(SubSeq(s, 1, d - 1))
    BY DEF Before
  <1>2. \A t \in Seq(Nat) : Sum(t) \in Nat
    <2>1. 0 \in Nat /\ Nat \in SUBSET Int /\ \A a, b \in Nat : a + b \in Nat
      BY SMT
    <2> QED BY <2>1, SumIsNumber
  <1>3. \A t \in Seq(Nat), x \in Nat : Sum(Append(t, x)) = Sum(t) + x
    <2>1. \A t \in Seq(Nat) : t \in Seq(Int)
      BY SMT
    <2>2. \A x \in Nat : x \in Int
      BY SMT
    <2> QED BY <2>1, <2>2, SumAppends
  <1>4. Sum(<<>>) = 0
    BY SumOfNone
  <1> HIDE DEF Sum
  <1>5. \A k \in 0..Len(s) : SubSeq(s, 1, k) \in Seq(Nat)
    BY Split
  <1>6. Before(1, s) = 0
    <2>1. SubSeq(s, 1, 1 - 1) = <<>>
      BY SMT
    <2> QED BY <1>1, <1>4, <2>1
  <1>7. ASSUME NEW d \in 1..(Len(s) + 1) PROVE Before(d, s) \in Nat
    <2>1. d - 1 \in 0..Len(s)
      BY SMT
    <2> QED BY <1>1, <1>2, <1>5, <2>1
  <1>8. ASSUME NEW d \in 1..Len(s) PROVE Before(d + 1, s) = Before(d, s) + s[d]
    <2>1. d - 1 \in 0..Len(s) /\ (d + 1) - 1 = d /\ s[d] \in Nat
      BY SMT
    <2>2. SubSeq(s, 1, d) = Append(SubSeq(s, 1, d - 1), s[d])
      BY SMT
    <2>3. Before(d + 1, s) = Sum(SubSeq(s, 1, d))
      BY <1>1, <2>1
    <2>4. Before(d, s) = Sum(SubSeq(s, 1, d - 1))
      BY <1>1
    <2>5. Sum(Append(SubSeq(s, 1, d - 1), s[d])) = Sum(SubSeq(s, 1, d - 1)) + s[d]
      BY <1>3, <1>5, <2>1
    <2> QED BY <2>2, <2>3, <2>4, <2>5
  <1> QED BY <1>6, <1>7, <1>8

LEMMA BeforeGrows ==
  ASSUME NEW s \in Seq(Nat), NEW d \in 1..Len(s), NEW e \in (d + 1)..(Len(s) + 1)
  PROVE  Before(d, s) + s[d] <= Before(e, s)
  <1> DEFINE T == {k \in Nat : d + 1 + k <= Len(s) + 1 => Before(d, s) + s[d] <= Before(d + 1 + k, s)}
  <1>1. 0 \in T
    <2>1. d + 1 + 0 = d + 1 /\ 0 \in Nat /\ d \in 1..(Len(s) + 1) /\ s[d] \in Nat
      BY SMT
    <2>2. Before(d + 1, s) = Before(d, s) + s[d] /\ Before(d, s) \in Nat
      BY <2>1, BeforeIs
    <2>3. Before(d, s) + s[d] <= Before(d + 1, s)
      BY SMT, <2>1, <2>2
    <2> QED BY <2>1, <2>3
  <1>2. ASSUME NEW k \in T PROVE k + 1 \in T
    <2>1. k \in Nat /\ k + 1 \in Nat
      BY SMT
    <2> SUFFICES ASSUME d + 1 + (k + 1) <= Len(s) + 1
                 PROVE  Before(d, s) + s[d] <= Before(d + 1 + (k + 1), s)
      BY <2>1
    <2> DEFINE f == d + 1 + k
    <2>2. /\ f <= Len(s) + 1 /\ f \in 1..Len(s) /\ f \in 1..(Len(s) + 1) /\ d + 1 + (k + 1) = f + 1
          /\ d \in 1..(Len(s) + 1) /\ s[d] \in Nat
      BY SMT, <2>1
    <2>3. Before(d, s) + s[d] <= Before(f, s)
      BY <2>2
    <2> HIDE DEF f
    <2>4. Before(f + 1, s) = Before(f, s) + s[f] /\ Before(f, s) \in Nat /\ Before(d, s) \in Nat
      BY <2>2, BeforeIs
    <2>5. s[f] \in Nat
      BY <2>2, ElementOfSeq
    <2>6. Before(d, s) + s[d] <= Before(f + 1, s)
      <3> DEFINE b == Before(d, s)   c == s[d]   y == Before(f, s)   z == s[f]
      <3>1. b \in Nat /\ c \in Nat /\ y \in Nat /\ z \in Nat /\ b + c <= y
        BY Zenon, <2>2, <2>3, <2>4, <2>5
      <3> HIDE DEF b, c, y, z
      <3>2. b + c <= y + z
        BY SMT, <3>1
      <3> QED BY Zenon, <2>4, <3>2 DEF b, c, y, z
    <2> QED BY <2>2, <2>6
  <1>3. T \in SUBSET Nat
    OBVIOUS
  <1>4. e - (d + 1) \in Nat /\ d + 1 + (e - (d + 1)) = e /\ e <= Len(s) + 1
    BY SMT
  <1> HIDE DEF T
  <1>5. T = Nat
    BY <1>1, <1>2, <1>3, InductionOnSet
  <1>6. e - (d + 1) \in T
    BY <1>4, <1>5
  <1> QED BY <1>4, <1>6 DEF T

LEMMA BeforeOnes ==
  ASSUME NEW s \in Seq(Nat), NEW d \in 1..(Len(s) + 1), \A e \in 1..(d - 1) : s[e] = 1
  PROVE  Before(d, s) = d - 1
  <1> DEFINE T == {k \in Nat : k <= d - 1 => Before(k + 1, s) = k}
  <1>1. 0 \in T
    <2>1. 0 + 1 = 1 /\ 0 \in Nat
      BY SMT
    <2> QED BY <2>1, BeforeIs
  <1>2. ASSUME NEW k \in T PROVE k + 1 \in T
    <2>1. k \in Nat /\ k + 1 \in Nat
      BY SMT
    <2> SUFFICES ASSUME k + 1 <= d - 1 PROVE Before((k + 1) + 1, s) = k + 1
      BY <2>1
    <2>2. k <= d - 1 /\ k + 1 \in 1..(d - 1) /\ k + 1 \in 1..Len(s)
      BY SMT, <2>1
    <2>3. Before(k + 1, s) = k /\ s[k + 1] = 1
      BY <2>2
    <2> QED BY <2>2, <2>3, BeforeIs
  <1>3. T \in SUBSET Nat
    OBVIOUS
  <1>4. d - 1 \in Nat /\ (d - 1) + 1 = d
    BY SMT
  <1> HIDE DEF T
  <1>5. d - 1 \in T
    BY <1>1, <1>2, <1>3, <1>4, InductionOnSet
  <1> QED BY SMT, <1>4, <1>5 DEF T

\* Sequences joined: the place of each, and the length of all.
LengthsOf(s) == [d \in 1..Len(s) |-> Len(s[d])]

LEMMA FlattenPlaces ==
  ASSUME NEW S, NEW s \in Seq(Seq(S))
  PROVE  /\ LengthsOf(s) \in Seq(Nat) /\ Len(LengthsOf(s)) = Len(s)
         /\ FlattenSeq(s) \in Seq(S) /\ Len(FlattenSeq(s)) = Before(Len(s) + 1, LengthsOf(s))
         /\ \A d \in 1..Len(s) : \A m \in 1..Len(s[d]) :
              FlattenSeq(s)[Before(d, LengthsOf(s)) + m] = s[d][m]
  <1> DEFINE l == LengthsOf(s)
  <1>0. l = [d \in 1..Len(s) |-> Len(s[d])]
    BY DEF LengthsOf
  <1> HIDE DEF l
  <1> DEFINE P(k) == FlattenSeq(SubSeq(s, 1, k))
             Q(k) == /\ P(k) \in Seq(S) /\ Len(P(k)) = Before(k + 1, l)
                     /\ \A d \in 1..k : \A m \in 1..Len(s[d]) : P(k)[Before(d, l) + m] = s[d][m]
             T == {k \in Nat : k <= Len(s) => Q(k)}
  <1>1. \A d \in 1..Len(s) : s[d] \in Seq(S) /\ Len(s[d]) \in Nat
    <2>1. \A d \in 1..Len(s) : s[d] \in Seq(S)
      BY ElementOfSeq
    <2> QED BY <2>1, LenProperties
  <1>2. l \in Seq(Nat) /\ Len(l) = Len(s) /\ \A d \in 1..Len(s) : l[d] = Len(s[d])
    <2>1. Len(s) \in Nat /\ l \in [1..Len(s) -> Nat] /\ \A d \in 1..Len(s) : l[d] = Len(s[d])
      BY <1>0, <1>1
    <2> DEFINE n == Len(s)
    <2>2. n \in Nat /\ l \in [1..n -> Nat]
      BY <2>1
    <2> HIDE DEF n
    <2>3. l \in Seq(Nat) /\ Len(l) = n
      BY <2>2
    <2> QED BY <2>1, <2>3 DEF n
  <1>3. 0 \in T
    <2>1. SubSeq(s, 1, 0) = <<>> /\ 0 \in Nat /\ 0 + 1 = 1 /\ 1..0 = {}
      BY SMT
    <2>2. P(0) = <<>>
      BY <2>1, FlattenOfNone
    <2>3. Len(<<>>) = 0 /\ <<>> \in Seq(S)
      OBVIOUS
    <2>4. Before(1, l) = 0
      BY <1>2, BeforeIs
    <2> QED BY <2>1, <2>2, <2>3, <2>4
  <1>4. ASSUME NEW k \in T PROVE k + 1 \in T
    <2>1. k \in Nat /\ k + 1 \in Nat
      BY SMT
    <2> SUFFICES ASSUME k + 1 <= Len(s) PROVE Q(k + 1)
      BY <2>1
    <2>2. k \in 0..Len(s) /\ k + 1 \in 1..Len(s) /\ k <= Len(s) /\ k + 1 \in 0..Len(s)
      BY SMT, <2>1
    <2>3. Q(k)
      BY <2>2
    <2>4. SubSeq(s, 1, k) \in Seq(Seq(S)) /\ SubSeq(s, 1, k + 1) = Append(SubSeq(s, 1, k), s[k + 1])
      <3>1. SubSeq(s, 1, k) \in Seq(Seq(S))
        BY <2>2, Split
      <3>2. SubSeq(s, 1, k + 1) = Append(SubSeq(s, 1, k), s[k + 1])
        BY SMT, <2>2, <2>1
      <3> QED BY <3>1, <3>2
    <2>5. P(k + 1) = P(k) \o s[k + 1]
      <3> DEFINE t == SubSeq(s, 1, k)   x == s[k + 1]
      <3>1. t \in Seq(Seq(S)) /\ x \in Seq(S) /\ SubSeq(s, 1, k + 1) = Append(t, x)
        BY <1>1, <2>2, <2>4
      <3> HIDE DEF t, x
      <3>2. FlattenSeq(Append(t, x)) = FlattenSeq(t) \o x
        BY <3>1, FlattenAppends
      <3> QED BY <3>1, <3>2 DEF t, x
    <2> HIDE DEF P
    <2> DEFINE p == P(k)   x == s[k + 1]   b == Before(k + 1, l)   u == P(k + 1)
    <2>6. p \in Seq(S) /\ x \in Seq(S) /\ Len(p) = b /\ Len(x) = l[k + 1] /\ u = p \o x
      BY <1>1, <1>2, <2>2, <2>3, <2>5
    <2>7. Before((k + 1) + 1, l) = b + l[k + 1] /\ b \in Nat
      <3>1. k + 1 \in 1..Len(l) /\ k + 1 \in 1..(Len(l) + 1)
        BY SMT, <1>2, <2>2
      <3> QED BY <1>2, <3>1, BeforeIs
    <2>8. ASSUME NEW d \in 1..(k + 1), NEW m \in 1..Len(s[d]) PROVE u[Before(d, l) + m] = s[d][m]
      <3>1. CASE d = k + 1
        <4>1. m \in 1..Len(x) /\ s[d] = x /\ Before(d, l) = b
          BY <3>1
        <4> HIDE DEF p, x, b, u
        <4>2. u[Len(p) + m] = x[m]
          <5>1. p \in Seq(S) /\ x \in Seq(S) /\ m \in 1..Len(x)
            BY Zenon, <2>6, <4>1
          <5>2. Joined(p, x)[Len(p) + m] = x[m]
            BY SMT, <5>1, SecondJoined
          <5> QED BY Zenon, <2>6, <5>2 DEF Joined
        <4> QED BY <2>6, <4>1, <4>2
      <3>2. CASE d # k + 1
        <4>1. d \in 1..k /\ d \in 1..Len(l) /\ k + 1 \in (d + 1)..(Len(l) + 1) /\ d \in 1..(Len(l) + 1) /\ d \in 1..Len(s)
          BY SMT, <1>2, <2>1, <2>2, <3>2
        <4>2. p[Before(d, l) + m] = s[d][m]
          BY <2>3, <4>1
        <4>3. Before(d, l) + l[d] <= b /\ Before(d, l) \in Nat /\ l[d] = Len(s[d]) /\ Len(s[d]) \in Nat
          BY <1>1, <1>2, <4>1, BeforeGrows, BeforeIs
        <4> HIDE DEF p, x, b, u
        <4> DEFINE j == Before(d, l) + m
        <4>4. j \in 1..b
          <5> DEFINE c == Before(d, l)   e == l[d]
          <5>1. c \in Nat /\ e \in Nat /\ c + e <= b /\ m \in 1..e /\ j = c + m
            BY <4>3
          <5> HIDE DEF c, e, j
          <5> QED BY SMT, <2>7, <5>1
        <4> HIDE DEF j
        <4>5. u[j] = p[j]
          BY SMT, <2>6, <4>4
        <4> QED BY <4>2, <4>5 DEF j
      <3> QED BY <3>1, <3>2
    <2>9. u \in Seq(S) /\ Len(u) = Before((k + 1) + 1, l)
      <3> HIDE DEF p, x, b, u
      <3>1. p \o x \in Seq(S) /\ Len(p \o x) = Len(p) + Len(x)
        BY <2>6, Concatenated
      <3> QED BY <2>6, <2>7, <3>1
    <2> QED BY <2>8, <2>9
  <1>5. T \in SUBSET Nat
    OBVIOUS
  <1> HIDE DEF T
  <1>6. Len(s) \in T
    <2>1. T = Nat
      BY <1>3, <1>4, <1>5, InductionOnSet
    <2> QED BY <2>1, LenProperties
  <1>7. SubSeq(s, 1, Len(s)) = s /\ Len(s) <= Len(s)
    BY SMT
  <1>8. Q(Len(s))
    BY <1>6, <1>7 DEF T
  <1>9. P(Len(s)) = FlattenSeq(s)
    BY <1>7
  <1> HIDE DEF P
  <1>10. /\ FlattenSeq(s) \in Seq(S) /\ Len(FlattenSeq(s)) = Before(Len(s) + 1, l)
         /\ \A d \in 1..Len(s) : \A m \in 1..Len(s[d]) : FlattenSeq(s)[Before(d, l) + m] = s[d][m]
    BY <1>8, <1>9
  <1> QED BY Zenon, <1>2, <1>10 DEF l

LEMMA FlattenLayout ==
  ASSUME NEW S, NEW s \in Seq(Seq(S)), NEW l, l = [d \in 1..Len(s) |-> Len(s[d])]
  PROVE  /\ l \in Seq(Nat) /\ Len(l) = Len(s)
         /\ FlattenSeq(s) \in Seq(S) /\ Len(FlattenSeq(s)) = Before(Len(s) + 1, l)
         /\ \A d \in 1..Len(s) : \A m \in 1..Len(s[d]) : FlattenSeq(s)[Before(d, l) + m] = s[d][m]
  <1>1. l = LengthsOf(s)
    BY DEF LengthsOf
  <1>2. /\ LengthsOf(s) \in Seq(Nat) /\ Len(LengthsOf(s)) = Len(s)
        /\ FlattenSeq(s) \in Seq(S) /\ Len(FlattenSeq(s)) = Before(Len(s) + 1, LengthsOf(s))
        /\ \A d \in 1..Len(s) : \A m \in 1..Len(s[d]) :
             FlattenSeq(s)[Before(d, LengthsOf(s)) + m] = s[d][m]
    BY FlattenPlaces
  <1> QED BY <1>1, <1>2

IrStates == {"shiftIr", "exit1Ir", "pauseIr", "exit2Ir", "updateIr"}
DrStates == {"shiftDr", "exit1Dr", "pauseDr", "exit2Dr", "updateDr"}

\* A register is on the path from when it is captured until it is updated.
LEMMA TapMoves ==
  ASSUME NEW p \in DOMAIN Tap, NEW b \in Bit
  PROVE  /\ Tap[p][b + 1] \in DOMAIN Tap
         /\ Tap[p][b + 1] \in IrStates => p \in (IrStates \ {"updateIr"}) \cup {"captureIr"}
         /\ Tap[p][b + 1] \in DrStates => p \in (DrStates \ {"updateDr"}) \cup {"captureDr"}
  <1>1. DOMAIN Tap = {"reset", "idle", "selectDr", "selectIr", "captureDr", "captureIr", "shiftDr",
                  "shiftIr", "exit1Dr", "exit1Ir", "pauseDr", "pauseIr", "exit2Dr", "exit2Ir",
                  "updateDr", "updateIr"}
    BY DEF Tap
  <1>2. CASE b = 0
    <2>1. b + 1 = 1
      BY <1>2
    <2>2. Tap[p][1] \in DOMAIN Tap
      BY <1>1 DEF Tap
    <2>3. Tap[p][1] \in IrStates => p \in (IrStates \ {"updateIr"}) \cup {"captureIr"}
      BY <1>1 DEF Tap, IrStates
    <2>4. Tap[p][1] \in DrStates => p \in (DrStates \ {"updateDr"}) \cup {"captureDr"}
      BY <1>1 DEF Tap, DrStates
    <2> QED BY <2>1, <2>2, <2>3, <2>4
  <1>3. CASE b = 1
    <2>1. b + 1 = 2
      BY <1>3
    <2>2. Tap[p][2] \in DOMAIN Tap
      BY <1>1 DEF Tap
    <2>3. Tap[p][2] \in IrStates => p \in (IrStates \ {"updateIr"}) \cup {"captureIr"}
      BY <1>1 DEF Tap, IrStates
    <2>4. Tap[p][2] \in DrStates => p \in (DrStates \ {"updateDr"}) \cup {"captureDr"}
      BY <1>1 DEF Tap, DrStates
    <2> QED BY <2>1, <2>2, <2>3, <2>4
  <1> QED BY <1>2, <1>3 DEF Bit

LEMMA ChainIs ==
  ASSUME chain \in Chains
  PROVE  /\ chain \in Seq(Nat \ {0}) /\ chain \in Seq(Nat) /\ Len(chain) \in Nat \ {0}
         /\ Len(chain) <= MaxDevices /\ Devices = 1..Len(chain) /\ Devices # {}
         /\ \A d \in Devices : chain[d] \in Nat \ {0}
  <1>1. chain \in Seq(Nat \ {0}) /\ Len(chain) \in 1..MaxDevices
    BY ChainsAreLegal
  <1>2. chain \in Seq(Nat) /\ Len(chain) \in Nat \ {0} /\ Len(chain) <= MaxDevices /\ 1 \in 1..Len(chain)
    BY SMT, <1>1, SizesAreLegal
  <1>3. \A d \in 1..Len(chain) : chain[d] \in Nat \ {0}
    BY <1>1, ElementOfSeq
  <1> QED BY <1>1, <1>2, <1>3 DEF Devices

LEMMA WordsAre == Words \subseteq Nat /\ \A w \in Words : w < Pow2[WordBits]
  <1>1. Pow2[WordBits] \in Nat /\ Words \subseteq 0..(Pow2[WordBits] - 1)
    BY SizesAreLegal, Pow2Grows
  <1> QED BY SMT, <1>1

\* An acknowledgement and a word.
LEMMA AnswerBits ==
  ASSUME NEW ack \in Nat, NEW word \in Nat
  PROVE  /\ BitsOf(ack, 3) \o BitsOf(word, WordBits) \in Seq(Bit)
         /\ Len(BitsOf(ack, 3) \o BitsOf(word, WordBits)) = 3 + WordBits
         /\ \A m \in 1..3 : (BitsOf(ack, 3) \o BitsOf(word, WordBits))[m] = BitsOf(ack, 3)[m]
         /\ \A m \in 1..WordBits :
              (BitsOf(ack, 3) \o BitsOf(word, WordBits))[3 + m] = BitsOf(word, WordBits)[m]
  <1> DEFINE x == BitsOf(ack, 3)   y == BitsOf(word, WordBits)   n == WordBits
  <1>1. n \in Nat /\ x \in Seq(Bit) /\ Len(x) = 3 /\ y \in Seq(Bit) /\ Len(y) = n
    BY SizesAreLegal, BitsAreBits
  <1> HIDE DEF x, y, n
  <1>2. /\ x \o y \in Seq(Bit) /\ Len(x \o y) = Len(x) + Len(y)
        /\ \A m \in 1..Len(x) : (x \o y)[m] = x[m]
        /\ \A m \in 1..Len(y) : (x \o y)[Len(x) + m] = y[m]
    <2>1. x \in Seq(Bit) /\ y \in Seq(Bit)
      BY <1>1
    <2> QED BY <2>1, Concatenated
  <1> QED BY <1>1, <1>2 DEF x, y, n

\* What devices capture: at least one bit each.
LEMMA CapturedIs ==
  ASSUME chain \in Chains, NEW d \in Devices, NEW o, o.ack \in Nat, o.word \in Nat
  PROVE  /\ Captured(d, o) \in Seq(Bit) /\ Len(Captured(d, o)) \in Nat \ {0}
         /\ Accessing(d) => Len(Captured(d, o)) = 3 + WordBits
  <1>0. WordBits \in Nat \ {0} /\ d \in Nat
    BY SMT, SizesAreLegal DEF Devices
  <1>3. /\ BitsOf(o.ack, 3) \o BitsOf(o.word, WordBits) \in Seq(Bit)
        /\ Len(BitsOf(o.ack, 3) \o BitsOf(o.word, WordBits)) = 3 + WordBits
    BY AnswerBits
  <1>4. /\ <<0>> \in Seq(Bit) /\ Len(<<0>>) = 1 /\ <<0, 1>> \in Seq(Bit) /\ Len(<<0, 1>>) = 2
    BY DEF Bit
  <1>5. Idcode(d) \in Nat
    <2>1. Pow2[WordBits] \in Nat \ {0}
      BY <1>0, Pow2Grows
    <2> QED BY SMT, <1>0, <2>1 DEF Idcode
  <1>6. /\ BitsOf(Idcode(d), WordBits) \in Seq(Bit) /\ Len(BitsOf(Idcode(d), WordBits)) = WordBits
    BY <1>0, <1>5, BitsAreBits
  <1> DEFINE c == Captured(d, o)
  <1>7. c \in Seq(Bit) /\ Len(c) \in {1, 2, WordBits, 3 + WordBits} /\ (Accessing(d) => Len(c) = 3 + WordBits)
    <2>1. CASE Accessing(d)
      BY <1>3, <2>1 DEF Captured
    <2>2. CASE ~Accessing(d)
      BY <1>4, <1>6, <2>2, Zenon DEF Captured
    <2> QED BY <2>1, <2>2
  <1> HIDE DEF c
  <1>8. Len(c) \in Nat \ {0}
    <2>1. c \in Seq(Bit) /\ (Len(c) = 1 \/ Len(c) = 2 \/ Len(c) = WordBits \/ Len(c) = 3 + WordBits)
      BY <1>7
    <2>2. WordBits \in Nat \ {0} /\ 3 + WordBits \in Nat \ {0} /\ 1 \in Nat \ {0} /\ 2 \in Nat \ {0}
      BY <1>0, SMT
    <2> QED BY <2>1, <2>2, Zenon
  <1> QED BY <1>7, <1>8 DEF c

BoardInv ==
  /\ chain \in Chains /\ tap \in DOMAIN Tap
  /\ DOMAIN ir = Devices /\ \A d \in Devices : ir[d] \in [1..chain[d] -> Bit]
  /\ path \in Seq(Bit)
  /\ offer.ack \in 0..7 /\ offer.word \in Words \cup {0}
  /\ tap \in IrStates => Len(path) = Before(Len(chain) + 1, chain)
  /\ tap \in DrStates => path # <<>>

\* The parts of a path are where the lengths put them.
LEMMA PartIs ==
  ASSUME NEW s \in Seq(Nat), path \in Seq(Bit), Before(Len(s) + 1, s) <= Len(path),
         NEW d \in 1..Len(s)
  PROVE  /\ Part(d, s) \in [1..s[d] -> Bit] /\ Part(d, s) \in Seq(Bit) /\ Len(Part(d, s)) = s[d]
         /\ \A m \in 1..s[d] : Part(d, s)[m] = path[Before(d, s) + m]
  <1> DEFINE b == Before(d, s)   n == s[d]   p == SubSeq(path, b + 1, b + n)
  <1>1. b \in Nat /\ n \in Nat /\ b + n <= Len(path)
    <2>1. d \in 1..(Len(s) + 1) /\ Len(s) + 1 \in (d + 1)..(Len(s) + 1) /\ Len(s) + 1 \in 1..(Len(s) + 1) /\ s[d] \in Nat
      BY SMT
    <2>2. b \in Nat /\ Before(Len(s) + 1, s) \in Nat /\ b + n <= Before(Len(s) + 1, s)
      BY <2>1, BeforeIs, BeforeGrows
    <2> HIDE DEF b, n
    <2>3. n \in Nat
      BY <2>1 DEF n
    <2> QED BY SMT, <2>2, <2>3
  <1>2. Part(d, s) = p
    BY DEF Part
  <1> HIDE DEF b, n
  <1>3. p \in Seq(Bit) /\ Len(p) = n /\ \A m \in 1..n : p[m] = path[b + m]
    BY SMT, <1>1
  <1> HIDE DEF p
  <1>4. p \in [1..n -> Bit]
    BY SMT, <1>1, <1>3
  <1> QED BY <1>2, <1>3, <1>4 DEF b, n

\* The registers on the path when instructions are captured, and when data are.
LEMMA InstructionsCaptured ==
  ASSUME chain \in Chains
  PROVE  LET p == FlattenSeq([d \in Devices |-> <<1>> \o Fill(0, chain[d] - 1)])
         IN  p \in Seq(Bit) /\ Len(p) = Before(Len(chain) + 1, chain)
  <1> DEFINE s == [d \in Devices |-> <<1>> \o Fill(0, chain[d] - 1)]
             l == [d \in 1..Len(s) |-> Len(s[d])]
  <1>1. \A d \in Devices : <<1>> \o Fill(0, chain[d] - 1) \in Seq(Bit) /\ Len(<<1>> \o Fill(0, chain[d] - 1)) = chain[d]
    <2> SUFFICES ASSUME NEW d \in Devices
                 PROVE  <<1>> \o Fill(0, chain[d] - 1) \in Seq(Bit) /\ Len(<<1>> \o Fill(0, chain[d] - 1)) = chain[d]
      OBVIOUS
    <2> DEFINE n == chain[d] - 1   f == Fill(0, n)   x == <<1>>
    <2>1. chain[d] \in Nat \ {0}
      BY ChainIs
    <2>2. n \in Nat /\ 1 + n = chain[d]
      BY SMT, <2>1
    <2>3. f \in Seq(Bit) /\ Len(f) = n /\ x \in Seq(Bit) /\ Len(x) = 1
      BY <2>2 DEF Fill, Bit
    <2> HIDE DEF f, n, x
    <2>4. x \o f \in Seq(Bit) /\ Len(x \o f) = Len(x) + Len(f)
      BY <2>3, Concatenated
    <2> QED BY <2>2, <2>3, <2>4 DEF f, n, x
  <1>2. Devices = 1..Len(chain) /\ chain \in Seq(Nat) /\ Len(chain) \in Nat
    BY ChainIs
  <1>3. s \in Seq(Seq(Bit)) /\ Len(s) = Len(chain) /\ \A d \in 1..Len(chain) : Len(s[d]) = chain[d]
    BY <1>1, <1>2
  <1> HIDE DEF s
  <1>4. l = chain
    <2>1. l \in Seq(Nat) /\ Len(l) = Len(chain) /\ \A d \in 1..Len(chain) : l[d] = chain[d]
      <3>1. l \in Seq(Nat) /\ Len(l) = Len(s)
        BY <1>3, FlattenLayout
      <3>2. \A d \in 1..Len(chain) : l[d] = chain[d]
        BY <1>3
      <3> QED BY <1>3, <3>1, <3>2
    <2> HIDE DEF l
    <2> QED BY <1>2, <2>1, SeqEqual
  <1>5. FlattenSeq(s) \in Seq(Bit) /\ Len(FlattenSeq(s)) = Before(Len(s) + 1, l)
    BY <1>3, FlattenLayout
  <1> HIDE DEF l
  <1>6. FlattenSeq(s) \in Seq(Bit) /\ Len(FlattenSeq(s)) = Before(Len(chain) + 1, chain)
    BY <1>3, <1>4, <1>5
  <1> QED BY <1>6 DEF s

CapturedAll(o) == [d \in Devices |-> Captured(d, o)]
CapturedLengths(o) == [d \in Devices |-> Len(Captured(d, o))]

LEMMA DataCaptured ==
  ASSUME chain \in Chains, NEW o, o.ack \in Nat, o.word \in Nat
  PROVE  /\ CapturedLengths(o) \in Seq(Nat) /\ Len(CapturedLengths(o)) = Len(chain)
         /\ FlattenSeq(CapturedAll(o)) \in Seq(Bit)
         /\ Len(FlattenSeq(CapturedAll(o))) = Before(Len(chain) + 1, CapturedLengths(o))
         /\ FlattenSeq(CapturedAll(o)) # <<>>
         /\ \A d \in Devices : \A m \in 1..Len(Captured(d, o)) :
              FlattenSeq(CapturedAll(o))[Before(d, CapturedLengths(o)) + m] = Captured(d, o)[m]
  <1> DEFINE all == CapturedAll(o)   lens == CapturedLengths(o)
  <1>1. \A d \in Devices : Captured(d, o) \in Seq(Bit) /\ Len(Captured(d, o)) \in Nat \ {0}
    BY CapturedIs
  <1>2. Devices = 1..Len(chain) /\ Len(chain) \in Nat \ {0}
    BY ChainIs
  <1>3. all \in Seq(Seq(Bit)) /\ Len(all) = Len(chain) /\ \A d \in 1..Len(chain) : all[d] = Captured(d, o)
    BY <1>1, <1>2 DEF CapturedAll
  <1>4. lens = [d \in 1..Len(all) |-> Len(all[d])]
    BY <1>2, <1>3 DEF CapturedLengths
  <1> HIDE DEF all, lens
  <1>5. /\ lens \in Seq(Nat) /\ Len(lens) = Len(all)
        /\ FlattenSeq(all) \in Seq(Bit) /\ Len(FlattenSeq(all)) = Before(Len(all) + 1, lens)
        /\ \A d \in 1..Len(all) : \A m \in 1..Len(all[d]) : FlattenSeq(all)[Before(d, lens) + m] = all[d][m]
    <2>1. all \in Seq(Seq(Bit)) /\ lens = [d \in 1..Len(all) |-> Len(all[d])]
      BY <1>3, <1>4
    <2>2. lens \in Seq(Nat) /\ Len(lens) = Len(all)
      BY <2>1, FlattenLayout
    <2>3. FlattenSeq(all) \in Seq(Bit) /\ Len(FlattenSeq(all)) = Before(Len(all) + 1, lens)
      BY <2>1, FlattenLayout
    <2>4. ASSUME NEW d \in 1..Len(all), NEW m \in 1..Len(all[d])
          PROVE  FlattenSeq(all)[Before(d, lens) + m] = all[d][m]
      <3>1. lens = LengthsOf(all)
        BY <2>1 DEF LengthsOf
      <3>2. FlattenSeq(all)[Before(d, LengthsOf(all)) + m] = all[d][m]
        BY Zenon, <2>1, FlattenPlaces
      <3> QED BY Zenon, <3>1, <3>2
    <2> QED BY <2>2, <2>3, <2>4
  <1>6. FlattenSeq(all) # <<>>
    <2>1. 1 \in 1..Len(all) /\ Len(all) + 1 \in 2..(Len(all) + 1) /\ 1 + 1 = 2 /\ 1 \in Devices
      BY SMT, <1>2, <1>3
    <2>2. Before(1, lens) + lens[1] <= Before(Len(all) + 1, lens) /\ Before(1, lens) = 0
      BY <1>5, <2>1, BeforeGrows, BeforeIs
    <2>3. lens[1] \in Nat \ {0}
      BY <1>1, <1>3, <1>4, <2>1
    <2>4. Before(Len(all) + 1, lens) # 0
      <3>1. Before(Len(all) + 1, lens) \in Nat
        BY <1>5, LenProperties
      <3> QED BY SMT, <2>2, <2>3, <3>1
    <2>5. Len(<<>>) = 0
      OBVIOUS
    <2> QED BY <1>5, <2>4, <2>5
  <1>7. \A d \in Devices : \A m \in 1..Len(Captured(d, o)) : FlattenSeq(all)[Before(d, lens) + m] = Captured(d, o)[m]
    <2> SUFFICES ASSUME NEW d \in Devices, NEW m \in 1..Len(Captured(d, o))
                 PROVE  FlattenSeq(all)[Before(d, lens) + m] = Captured(d, o)[m]
      OBVIOUS
    <2>1. d \in 1..Len(all) /\ all[d] = Captured(d, o)
      BY <1>2, <1>3
    <2>2. m \in 1..Len(all[d])
      BY <2>1
    <2> QED BY <1>5, <2>1, <2>2, Zenon
  <1> QED BY <1>3, <1>5, <1>6, <1>7 DEF all, lens

\* One bit in, one bit out.
LEMMA Shifted ==
  ASSUME NEW p \in Seq(Bit), p # <<>>, NEW b \in Bit
  PROVE  /\ Append(Tail(p), b) \in Seq(Bit) /\ Len(Append(Tail(p), b)) = Len(p)
         /\ Len(p) \in Nat \ {0} /\ p[1] \in Bit
         /\ Append(Tail(p), b)[Len(p)] = b
         /\ \A i \in 1..(Len(p) - 1) : Append(Tail(p), b)[i] = p[i + 1]
  <1>1. /\ Append(Tail(p), b) \in Seq(Bit) /\ Len(Append(Tail(p), b)) = Len(p)
        /\ Len(p) \in Nat \ {0}
    BY SMT
  <1>2. Append(Tail(p), b)[Len(p)] = b
    BY SMT
  <1>3. \A i \in 1..(Len(p) - 1) : Append(Tail(p), b)[i] = p[i + 1]
    BY SMT
  <1>4. 1 \in 1..Len(p)
    BY SMT, <1>1
  <1>5. p[1] \in Bit
    BY <1>4, ElementOfSeq
  <1> QED BY <1>1, <1>2, <1>3, <1>5

LEMMA OfferIs ==
  ASSUME offer.ack \in 0..7, offer.word \in Words \cup {0}
  PROVE  offer.ack \in Nat /\ offer.word \in Nat
  <1>1. \A w \in Words \cup {0} : w \in Nat
    BY WordsAre
  <1>2. \A a \in 0..7 : a \in Nat
    OBVIOUS
  <1> QED BY <1>1, <1>2

\* While instructions are shifted there is something on the path.
LEMMA IrOnPath == BoardInv /\ tap = "shiftIr" => path # <<>>
  <1> SUFFICES ASSUME BoardInv, tap = "shiftIr" PROVE path # <<>>
    OBVIOUS
  <1>1. Len(path) = Before(Len(chain) + 1, chain) /\ chain \in Chains
    BY DEF BoardInv, IrStates
  <1>2. /\ 1 \in 1..Len(chain) /\ Len(chain) + 1 \in 2..(Len(chain) + 1) /\ 1 + 1 = 2
        /\ 1 \in Devices /\ Len(chain) + 1 \in 1..(Len(chain) + 1)
    <2>1. Len(chain) \in Nat \ {0} /\ Devices = 1..Len(chain)
      BY <1>1, ChainIs
    <2> QED BY SMT, <2>1
  <1>3. /\ Before(1, chain) + chain[1] <= Before(Len(chain) + 1, chain) /\ Before(1, chain) = 0
        /\ chain[1] \in Nat \ {0} /\ Before(Len(chain) + 1, chain) \in Nat
    BY <1>1, <1>2, ChainIs, BeforeGrows, BeforeIs
  <1>4. Before(Len(chain) + 1, chain) # 0
    BY SMT, <1>3
  <1>5. Len(<<>>) = 0
    OBVIOUS
  <1> QED BY <1>1, <1>4, <1>5

\* The length of the path stays, and its bits are bits.
LEMMA ClockKeepsBoard ==
  ASSUME BoardInv, NEW tms \in Bit, NEW tdi \in Bit, Clock(tms, tdi)
  PROVE  BoardInv'
  <1>1. /\ tap' = Tap[tap][tms + 1] /\ UNCHANGED chain /\ tap \in DOMAIN Tap /\ chain \in Chains
        /\ UNCHANGED Devices
    BY DEF Clock, BoardInv, Devices
  <1>2. /\ tap' \in DOMAIN Tap
        /\ tap' \in IrStates => tap \in (IrStates \ {"updateIr"}) \cup {"captureIr"}
        /\ tap' \in DrStates => tap \in (DrStates \ {"updateDr"}) \cup {"captureDr"}
    BY <1>1, TapMoves
  <1> DEFINE Ir == DOMAIN ir = Devices /\ \A d \in Devices : ir[d] \in [1..chain[d] -> Bit]
             Offer == offer.ack \in 0..7 /\ offer.word \in Words \cup {0}
  <1>3. Ir /\ Offer /\ path \in Seq(Bit)
    BY DEF BoardInv
  <1>4. CASE /\ tap = "captureIr"
             /\ path' = FlattenSeq([d \in Devices |-> <<1>> \o Fill(0, chain[d] - 1)])
             /\ UNCHANGED <<ir, offer, updates>>
    <2>1. path' \in Seq(Bit) /\ Len(path') = Before(Len(chain) + 1, chain)
      BY <1>1, <1>4, InstructionsCaptured
    <2>2. tap' \notin DrStates
      BY <1>2, <1>4 DEF DrStates
    <2> QED BY <1>1, <1>2, <1>3, <1>4, <2>1, <2>2 DEF BoardInv
  <1>5. CASE /\ tap = "captureDr"
             /\ \E o \in [ack : {JtagWait, JtagOk}, word : Words] :
                  /\ offer' = o
                  /\ path' = FlattenSeq([d \in Devices |-> Captured(d, o)])
             /\ UNCHANGED <<ir, updates>>
    <2>1. PICK o \in [ack : {JtagWait, JtagOk}, word : Words] :
            offer' = o /\ path' = FlattenSeq(CapturedAll(o))
      BY <1>5 DEF CapturedAll
    <2>2. o.ack \in Nat /\ o.word \in Nat /\ o.ack \in 0..7 /\ o.word \in Words
      <3>1. o.ack \in {1, 2} /\ o.word \in Words
        BY DEF JtagWait, JtagOk
      <3>2. 1 \in Nat /\ 2 \in Nat /\ 1 \in 0..7 /\ 2 \in 0..7
        OBVIOUS
      <3>3. o.word \in Nat
        BY <3>1, WordsAre
      <3> QED BY <3>1, <3>2, <3>3, Zenon
    <2>3. path' \in Seq(Bit) /\ path' # <<>>
      BY <1>1, <2>1, <2>2, DataCaptured
    <2>4. tap' \notin IrStates
      BY <1>2, <1>5 DEF IrStates
    <2> QED BY <1>1, <1>2, <1>3, <1>5, <2>1, <2>2, <2>3, <2>4 DEF BoardInv
  <1>6. CASE /\ tap = "reset"
             /\ ir' = [d \in Devices |-> BitsOf(IrIdcode, chain[d])]
             /\ UNCHANGED <<path, offer, updates>>
    <2>1. \A d \in Devices : BitsOf(IrIdcode, chain[d]) \in [1..chain[d] -> Bit]
      BY <1>1, ChainIs, BitsAreBits, 14 \in Nat DEF IrIdcode
    <2>2. tap' \notin IrStates /\ tap' \notin DrStates
      BY <1>2, <1>6 DEF IrStates, DrStates
    <2> QED BY <1>1, <1>2, <1>3, <1>6, <2>1, <2>2 DEF BoardInv
  <1>7. CASE Shifting /\ path' = Append(Tail(path), tdi) /\ UNCHANGED <<ir, offer, updates>>
    <2>1. path # <<>>
      <3>1. CASE tap = "shiftDr"
        BY <3>1 DEF BoardInv, DrStates
      <3>2. CASE tap = "shiftIr"
        BY <3>2, IrOnPath
      <3> QED BY <1>7, <3>1, <3>2 DEF Shifting
    <2>2. path' \in Seq(Bit) /\ Len(path') = Len(path) /\ path' # <<>>
      <3>1. path' \in Seq(Bit) /\ Len(path') = Len(path) /\ Len(path) # 0
        BY <1>3, <1>7, <2>1, Shifted
      <3>2. Len(<<>>) = 0
        OBVIOUS
      <3> QED BY <3>1, <3>2
    <2>3. tap' \in IrStates => tap \in IrStates
      BY <1>2, <1>7 DEF Shifting
    <2> QED BY <1>1, <1>2, <1>3, <1>7, <2>2, <2>3 DEF BoardInv
  <1>8. CASE /\ tap = "updateIr"
             /\ ir' = [d \in Devices |-> Part(d, chain)]
             /\ path' = <<>>
             /\ UNCHANGED <<offer, updates>>
    <2>1. Len(path) = Before(Len(chain) + 1, chain) /\ Before(Len(chain) + 1, chain) \in Nat /\ chain \in Seq(Nat) /\ Devices = 1..Len(chain)
      <3>1. Len(path) = Before(Len(chain) + 1, chain)
        BY <1>8 DEF BoardInv, IrStates
      <3>2. chain \in Seq(Nat) /\ Devices = 1..Len(chain)
        BY <1>1, ChainIs
      <3> QED BY <1>3, <3>1, <3>2, LenProperties
    <2>2. \A d \in Devices : Part(d, chain) \in [1..chain[d] -> Bit]
      <3>1. Before(Len(chain) + 1, chain) <= Len(path)
        BY SMT, <2>1
      <3> QED BY <1>3, <2>1, <3>1, PartIs
    <2>3. tap' \notin IrStates /\ tap' \notin DrStates
      BY <1>2, <1>8 DEF IrStates, DrStates
    <2>4. <<>> \in Seq(Bit)
      OBVIOUS
    <2> QED BY <1>1, <1>2, <1>3, <1>8, <2>2, <2>3, <2>4 DEF BoardInv
  <1>9. CASE tap = "updateDr" /\ path' = <<>> /\ UNCHANGED <<ir, offer>>
    <2>1. tap' \notin IrStates /\ tap' \notin DrStates
      BY <1>2, <1>9 DEF IrStates, DrStates
    <2>2. <<>> \in Seq(Bit)
      OBVIOUS
    <2> QED BY <1>1, <1>2, <1>3, <1>9, <2>1, <2>2 DEF BoardInv
  <1>10. CASE /\ tap \notin {"reset", "captureIr", "captureDr", "updateIr", "updateDr"} /\ ~Shifting
              /\ UNCHANGED <<ir, path, offer, updates>>
    <2>1. (tap' \in IrStates => tap \in IrStates) /\ (tap' \in DrStates => tap \in DrStates)
      BY <1>2, <1>10
    <2> QED BY <1>1, <1>2, <1>3, <1>10, <2>1 DEF BoardInv
  <1> QED BY <1>4, <1>5, <1>6, <1>7, <1>8, <1>9, <1>10, Zenon DEF Clock

-----------------------------------------------------------------------------
(***************************************************************************)
(* Types: what the probe clocks and reads, and what the chain holds.       *)
(***************************************************************************)

Cycles == [tms : Bit, tdi : Bit, read : BOOLEAN]

LEMMA GoIsCycle == Go(0) \in Cycles /\ Go(1) \in Cycles
  BY DEF Go, Cycles, Bit

LEMMA FillIsWalk ==
  ASSUME NEW n \in Nat
  PROVE  Fill(Go(0), n) \in Seq(Cycles) /\ Len(Fill(Go(0), n)) = n
  BY GoIsCycle DEF Fill

LEMMA ShortWalks ==
  /\ <<Go(1), Go(1), Go(0), Go(0)>> \in Seq(Cycles) /\ <<Go(1), Go(0), Go(0)>> \in Seq(Cycles)
  /\ <<Go(1), Go(0)>> \in Seq(Cycles) /\ <<Go(1)>> \in Seq(Cycles)
  BY GoIsCycle

LEMMA ShiftIsWalk ==
  ASSUME NEW b \in Seq(Bit), NEW n \in Nat, NEW read \in BOOLEAN
  PROVE  /\ Shift(b, n, read) \in Seq(Cycles) /\ Len(Shift(b, n, read)) = Len(b) + n
         /\ \A j \in 1..(Len(b) + n) :
              Shift(b, n, read)[j] = [tms  |-> IF j = Len(b) + n THEN 1 ELSE 0,
                                      tdi  |-> IF j <= Len(b) THEN b[j] ELSE 1,
                                      read |-> read /\ j <= Len(b)]
  <1> DEFINE m == Len(b) + n
             c(j) == [tms  |-> IF j = m THEN 1 ELSE 0,
                      tdi  |-> IF j <= Len(b) THEN b[j] ELSE 1,
                      read |-> read /\ j <= Len(b)]
             w == [j \in 1..m |-> c(j)]
  <1>1. m \in Nat
    BY SMT
  <1>2. ASSUME NEW j \in 1..m PROVE c(j) \in Cycles
    <2>1. (IF j = m THEN 1 ELSE 0) \in Bit
      BY DEF Bit
    <2>2. (IF j <= Len(b) THEN b[j] ELSE 1) \in Bit
      <3>1. CASE j <= Len(b)
        <4>1. j \in 1..Len(b)
          BY SMT, <3>1
        <4> QED BY <3>1, <4>1, ElementOfSeq
      <3>2. CASE ~(j <= Len(b))
        BY <3>2 DEF Bit
      <3> QED BY <3>1, <3>2
    <2>3. (read /\ j <= Len(b)) \in BOOLEAN
      OBVIOUS
    <2> QED BY <2>1, <2>2, <2>3, Zenon DEF Cycles
  <1>3. Shift(b, n, read) = w
    BY DEF Shift
  <1> HIDE DEF m, c
  <1>4. w \in Seq(Cycles) /\ Len(w) = m /\ \A j \in 1..m : w[j] = c(j)
    BY <1>1, <1>2
  <1> HIDE DEF w
  <1> QED BY <1>3, <1>4 DEF m, c

LEMMA WalkJoin ==
  ASSUME NEW v \in Seq(Cycles), NEW w \in Seq(Cycles)
  PROVE  v \o w \in Seq(Cycles)
  BY ConcatProperties

LEMMA SetIrIsWalk ==
  ASSUME ConfigInv, NEW i \in 1..MaxDevices, NEW code \in Nat
  PROVE  SetIrWalk(i, code) \in Seq(Cycles)
  <1> DEFINE n == Max({1, length[i]})
             a == <<Go(1), Go(1), Go(0), Go(0)>>
             b == Fill(Go(0), before[i])
             c == Shift(BitsOf(code, n), after[i], FALSE)
             d == <<Go(1), Go(0)>>
  <1>1. n \in Nat /\ before[i] \in Nat /\ after[i] \in Nat
    BY AtLeastOne DEF ConfigInv
  <1>2. a \in Seq(Cycles) /\ b \in Seq(Cycles) /\ d \in Seq(Cycles)
    BY <1>1, ShortWalks, FillIsWalk
  <1> HIDE DEF n
  <1>3. c \in Seq(Cycles)
    <2>1. BitsOf(code, n) \in Seq(Bit)
      BY <1>1, BitsAreBits
    <2> QED BY <1>1, <2>1, ShiftIsWalk
  <1>4. SetIrWalk(i, code) = ((a \o b) \o c) \o d
    BY DEF SetIrWalk, n
  <1> HIDE DEF a, b, c, d
  <1> QED BY <1>2, <1>3, <1>4, WalkJoin

LEMMA ToDrIsWalk ==
  ASSUME NEW i \in Nat \ {0}
  PROVE  ToDr(i) \in Seq(Cycles)
  <1>1. i - 1 \in Nat
    BY SMT
  <1> QED BY <1>1, ShortWalks, FillIsWalk, WalkJoin DEF ToDr

LEMMA RequestIs ==
  ASSUME NEW r \in Requests
  PROVE  r \in Seq(Bit) /\ Len(r) = 3 /\ \A j \in 1..3 : r[j] \in Bit
  <1>1. PICK x \in {0, 1}, a \in {0, 1} : r = <<x, a, 1 - a>>
    BY DEF Requests
  <1>2. x \in Bit /\ a \in Bit /\ 1 - a \in Bit
    BY SMT DEF Bit
  <1>3. r \in Seq(Bit) /\ Len(r) = 3
    BY <1>1, <1>2
  <1> QED BY <1>3, ElementOfSeq

LEMMA AskIsWalk ==
  ASSUME NEW i \in Nat \ {0}, NEW r \in Requests
  PROVE  AskWalk(i, r) \in Seq(Cycles)
  <1> DEFINE w == [j \in 1..3 |-> [tms |-> 0, tdi |-> r[j], read |-> TRUE]]
  <1>1. \A j \in 1..3 : [tms |-> 0, tdi |-> r[j], read |-> TRUE] \in Cycles
    BY RequestIs DEF Cycles, Bit
  <1>2. w \in Seq(Cycles)
    BY <1>1
  <1> QED BY <1>2, ToDrIsWalk, WalkJoin DEF AskWalk

LEMMA OnesAreBits ==
  ASSUME NEW n \in Nat
  PROVE  Fill(1, n) \in Seq(Bit) /\ Len(Fill(1, n)) = n /\ \A j \in 1..n : Fill(1, n)[j] = 1
  BY DEF Fill, Bit

LEMMA EndIsWalk == EndWalk \in Seq(Cycles)
  BY SizesAreLegal, ShortWalks, FillIsWalk, WalkJoin DEF EndWalk

LEMMA RefusedIsWalk == RefusedWalk \o EndWalk \in Seq(Cycles)
  BY ShortWalks, EndIsWalk, WalkJoin DEF RefusedWalk

LEMMA DataIsWalk ==
  ASSUME NEW i, count - i \in Nat, NEW read \in BOOLEAN, NEW word \in Nat
  PROVE  DataWalk(i, read, word) \o EndWalk \in Seq(Cycles)
  <1> DEFINE b == IF read THEN Fill(1, WordBits) ELSE BitsOf(word, WordBits)
  <1>1. b \in Seq(Bit)
    BY SizesAreLegal, OnesAreBits, BitsAreBits
  <1> HIDE DEF b
  <1>2. DataWalk(i, read, word) \in Seq(Cycles)
    <2>1. Shift(b, count - i, read) \in Seq(Cycles)
      BY <1>1, ShiftIsWalk
    <2> QED BY <2>1 DEF DataWalk, b
  <1> QED BY <1>2, EndIsWalk, WalkJoin

LEMMA IdcodeIsWalk ==
  ASSUME NEW i \in Nat \ {0}
  PROVE  IdcodeWalk(i) \in Seq(Cycles)
  <1> DEFINE s == Shift(Fill(1, WordBits), 0, TRUE)
  <1>1. s \in Seq(Cycles)
    BY SizesAreLegal, OnesAreBits, ShiftIsWalk, 0 \in Nat
  <1> HIDE DEF s
  <1>2. IdcodeWalk(i) = (ToDr(i) \o s) \o <<Go(1), Go(0)>>
    BY DEF IdcodeWalk, s
  <1> QED BY <1>1, <1>2, ToDrIsWalk, ShortWalks, WalkJoin

Items == [tms : Bit, tdi : Seq(Bit), capture : BOOLEAN]

LEMMA SequenceIsWalk ==
  ASSUME NEW items \in Seq(Items)
  PROVE  SequenceWalk(items) \in Seq(Cycles)
  <1> DEFINE c(i) == [k \in 1..Len(items[i].tdi) |->
                        [tms |-> items[i].tms, tdi |-> items[i].tdi[k], read |-> items[i].capture]]
             s == [i \in 1..Len(items) |-> c(i)]
  <1>1. ASSUME NEW i \in 1..Len(items) PROVE c(i) \in Seq(Cycles)
    <2>1. items[i] \in Items
      BY ElementOfSeq
    <2>2. items[i].tms \in Bit /\ items[i].tdi \in Seq(Bit) /\ items[i].capture \in BOOLEAN
      BY <2>1 DEF Items
    <2>3. \A k \in 1..Len(items[i].tdi) : items[i].tdi[k] \in Bit
      BY <2>2, ElementOfSeq
    <2>4. \A k \in 1..Len(items[i].tdi) :
            [tms |-> items[i].tms, tdi |-> items[i].tdi[k], read |-> items[i].capture] \in Cycles
      BY <2>2, <2>3 DEF Cycles
    <2>5. Len(items[i].tdi) \in Nat
      BY <2>2, LenProperties
    <2> QED BY <2>4, <2>5
  <1>2. SequenceWalk(items) = FlattenSeq(s)
    BY DEF SequenceWalk
  <1> HIDE DEF c
  <1>3. s \in Seq(Seq(Cycles))
    <2>1. Len(items) \in Nat
      BY LenProperties
    <2> QED BY <1>1, <2>1
  <1> HIDE DEF s
  <1> QED BY <1>2, <1>3, FlattenIsSequence

\* What is clocked of a cut request is made of its items too.
LEMMA CutsAreItems ==
  ASSUME NEW items \in Seq(Items), NEW c \in Cuts(items)
  PROVE  c \in Seq(Items)
  <1>1. PICK k \in 0..(Len(items) - 1) : \E m \in 0..BytesOf(Len(items[k + 1].tdi)) : c = UpTo(items, k, m)
    BY DEF Cuts
  <1>2. PICK m \in 0..BytesOf(Len(items[k + 1].tdi)) : c = UpTo(items, k, m)
    BY <1>1
  <1> DEFINE x == items[k + 1]
             n == Min({m * ByteBits, Len(x.tdi)})
             y == [x EXCEPT !.tdi = SubSeq(@, 1, n)]
             z == IF m = 0 THEN <<>> ELSE <<y>>
  <1>3. k \in 0..Len(items) /\ k + 1 \in 1..Len(items)
    BY SMT
  <1>4. SubSeq(items, 1, k) \in Seq(Items)
    BY <1>3, Split
  <1>5. x \in Items
    BY <1>3, ElementOfSeq
  <1>6. x.tms \in Bit /\ x.tdi \in Seq(Bit) /\ x.capture \in BOOLEAN
    BY <1>5 DEF Items
  <1>7. n \in 0..Len(x.tdi)
    <2> DEFINE a == m * ByteBits   l == Len(x.tdi)
    <2>1. l \in Nat
      BY <1>6, LenProperties
    <2>2. m \in Nat
      <3>1. \A q : q \in 0..BytesOf(Len(items[k + 1].tdi)) => q \in Nat
        OBVIOUS
      <3> QED BY <3>1
    <2>3. a \in Nat
      BY SMT, <2>2, SizesAreLegal
    <2> HIDE DEF a, l
    <2>4. \E q \in {a, l} : \A p \in {a, l} : q <= p
      BY SMT, <2>1, <2>3
    <2>5. Min({a, l}) \in {a, l} /\ \A p \in {a, l} : Min({a, l}) <= p
      BY <2>4 DEF Min
    <2>6. Min({a, l}) \in 0..l
      BY SMT, <2>1, <2>3, <2>5
    <2> QED BY <2>6 DEF a, l
  <1> HIDE DEF n
  <1>8. SubSeq(x.tdi, 1, n) \in Seq(Bit)
    <2> DEFINE t == x.tdi
    <2>1. t \in Seq(Bit) /\ n \in 0..Len(t)
      BY <1>6, <1>7
    <2> HIDE DEF t, x
    <2>2. SubSeq(t, 1, n) \in Seq(Bit)
      BY <2>1, Split
    <2> QED BY <2>2 DEF t
  <1>9. y \in Items
    BY <1>5, <1>8 DEF Items
  <1> HIDE DEF y
  <1>10. z \in Seq(Items)
    BY <1>9
  <1>11. c = SubSeq(items, 1, k) \o z
    BY <1>2 DEF UpTo, y, n
  <1> HIDE DEF z
  <1> QED BY <1>4, <1>10, <1>11, ConcatProperties

Transfers ==
  [kind : {"transfer"}, device : 1..MaxDevices, code : {IrAbort, IrDpacc, IrApacc},
   request : Requests, word : Words]
Identifications == [kind : {"idcode"}, device : 1..MaxDevices, code : {IrIdcode}]

\* What the probe runs is a command, and what it clocks are cycles.
ProbeInv ==
  /\ bits \in Seq(Bit)
  /\ phase \in {"none", "ir", "ask", "data", "refused", "idcode", "sequence", "short"}
  /\ todo \in Seq(Cycles)
  /\ phase = "ir" => command \in Transfers \cup Identifications
  /\ phase \in {"ask", "data", "refused"} => command \in Transfers
  /\ phase = "idcode" => command \in Identifications

TypeInv == WalkInv /\ BoardInv /\ ProbeInv

LEMMA TypeInvImpliesTypeOK == TypeInv => TypeOK
  <1> SUFFICES ASSUME TypeInv PROVE TypeOK
    OBVIOUS
  <1>1. \A i \in 1..Len(todo) : todo[i].tms \in Bit /\ todo[i].tdi \in Bit
    <2>1. \A i \in 1..Len(todo) : todo[i] \in Cycles
      BY ElementOfSeq DEF TypeInv, ProbeInv
    <2> QED BY <2>1 DEF Cycles
  <1> QED BY <1>1 DEF TypeInv, WalkInv, ConfigInv, BoardInv, ProbeInv, TypeOK

LEMMA InitTypes == Init => TypeInv
  <1> SUFFICES ASSUME Init PROVE TypeInv
    OBVIOUS
  <1>1. WalkInv
    BY InitWalks
  <1>2. chain \in Chains /\ ir = [d \in Devices |-> Fill(0, chain[d])] /\ tap = "idle"
        /\ path = <<>> /\ offer = [ack |-> 0, word |-> 0]
    BY DEF Init, NoOffer
  <1>3. \A d \in Devices : Fill(0, chain[d]) \in [1..chain[d] -> Bit]
    BY DEF Fill, Bit
  <1>4. tap \in DOMAIN Tap /\ tap \notin IrStates /\ tap \notin DrStates
    BY <1>2, TapSteps DEF IrStates, DrStates, TapStates
  <1>5. BoardInv
    BY <1>2, <1>3, <1>4 DEF BoardInv
  <1>6. ProbeInv
    BY DEF Init, ProbeInv
  <1> QED BY <1>1, <1>5, <1>6 DEF TypeInv

LEMMA BoardStays ==
  ASSUME BoardInv, UNCHANGED <<chain, ir, path, offer, tap>>
  PROVE  BoardInv'
  <1>1. chain' = chain /\ ir' = ir /\ path' = path /\ offer' = offer /\ tap' = tap /\ UNCHANGED Devices
    BY DEF Devices
  <1> QED BY <1>1 DEF BoardInv

LEMMA CycleKeepsTypes == TypeInv /\ Cycle => BoardInv' /\ ProbeInv'
  <1> SUFFICES ASSUME TypeInv, Cycle PROVE BoardInv' /\ ProbeInv'
    OBVIOUS
  <1>1. /\ todo # <<>> /\ Clock(Head(todo).tms, Head(todo).tdi)
        /\ bits' = IF Head(todo).read THEN Append(bits, IF Shifting THEN path[1] ELSE 1) ELSE bits
        /\ todo' = Tail(todo) /\ UNCHANGED <<command, phase>>
    BY DEF Cycle
  <1>2. todo \in Seq(Cycles) /\ bits \in Seq(Bit) /\ path \in Seq(Bit)
    BY DEF TypeInv, ProbeInv, BoardInv
  <1>3. Head(todo) \in Cycles /\ Tail(todo) \in Seq(Cycles)
    BY <1>1, <1>2, HeadTailProperties
  <1>4. Head(todo).tms \in Bit /\ Head(todo).tdi \in Bit
    BY <1>3 DEF Cycles
  <1>5. BoardInv'
    BY <1>1, <1>4, ClockKeepsBoard DEF TypeInv
  <1>6. Shifting => path # <<>>
    <2>1. CASE tap = "shiftDr"
      BY <2>1 DEF TypeInv, BoardInv, DrStates
    <2>2. CASE tap = "shiftIr"
      BY <2>2, IrOnPath DEF TypeInv
    <2> QED BY <2>1, <2>2 DEF Shifting
  <1>7. (IF Shifting THEN path[1] ELSE 1) \in Bit
    <2>1. CASE Shifting
      BY <1>2, <1>6, <2>1, Shifted, 0 \in Bit DEF Bit
    <2>2. CASE ~Shifting
      BY <2>2 DEF Bit
    <2> QED BY <2>1, <2>2
  <1>8. bits' \in Seq(Bit)
    BY <1>1, <1>2, <1>7, AppendProperties
  <1>9. ProbeInv'
    BY <1>1, <1>3, <1>8 DEF TypeInv, ProbeInv
  <1> QED BY <1>5, <1>9

LEMMA PlanKeepsTypes == TypeInv /\ Plan => BoardInv' /\ ProbeInv'
  <1> SUFFICES ASSUME TypeInv, Plan PROVE BoardInv' /\ ProbeInv'
    OBVIOUS
  <1>1. UNCHANGED <<chain, ir, path, offer, tap, bits, command, count>>
    BY DEF Plan, board, config
  <1>2. BoardInv'
    BY <1>1, BoardStays DEF TypeInv
  <1>3. phase \in {"ir", "ask"} => command.device \in Nat \ {0} /\ count - command.device \in Nat
    BY SMT DEF TypeInv, WalkInv, ConfigInv
  <1>4. CASE phase = "ir" /\ command.kind = "transfer" /\ phase' = "ask" /\ todo' = AskWalk(command.device, command.request)
    <2>1. command \in Transfers
      BY <1>4 DEF TypeInv, ProbeInv, Identifications
    <2>2. command.request \in Requests
      BY <2>1 DEF Transfers
    <2>3. todo' \in Seq(Cycles)
      BY <1>3, <1>4, <2>2, AskIsWalk
    <2> QED BY <1>1, <1>2, <1>4, <2>1, <2>3 DEF TypeInv, ProbeInv
  <1>5. CASE /\ phase = "ask" /\ phase' \in {"data", "refused"}
             /\ \/ todo' = DataWalk(command.device, Reading, command.word) \o EndWalk
                \/ todo' = RefusedWalk \o EndWalk
    <2>1. command \in Transfers
      BY <1>5 DEF TypeInv, ProbeInv
    <2>2. command.word \in Nat /\ Reading \in BOOLEAN
      BY <2>1, WordsAre DEF Transfers, Reading
    <2>3. DataWalk(command.device, Reading, command.word) \o EndWalk \in Seq(Cycles)
      BY <1>3, <1>5, <2>2, DataIsWalk
    <2>4. todo' \in Seq(Cycles)
      BY <1>5, <2>3, RefusedIsWalk
    <2> QED BY <1>1, <1>2, <1>5, <2>1, <2>4 DEF TypeInv, ProbeInv
  <1>6. CASE phase = "ir" /\ command.kind = "idcode" /\ phase' = "idcode" /\ todo' = IdcodeWalk(command.device)
    <2>1. command \in Identifications
      BY <1>6 DEF TypeInv, ProbeInv, Transfers
    <2>2. todo' \in Seq(Cycles)
      BY <1>3, <1>6, IdcodeIsWalk
    <2> QED BY <1>1, <1>2, <1>6, <2>1, <2>2 DEF TypeInv, ProbeInv
  <1> QED BY <1>4, <1>5, <1>6 DEF Plan

LEMMA OthersKeepTypes ==
  ASSUME TypeInv, [Next]_vars, ~Cycle, ~Plan
  PROVE  BoardInv' /\ ProbeInv'
  <1>1. CASE \E c \in Configs : \E n \in 0..Len(c) : Configure(Len(c), SubSeq(c, 1, n))
    <2>1. UNCHANGED <<chain, ir, path, offer, tap>> /\ UNCHANGED <<command, phase, todo, bits>>
      BY <1>1 DEF Configure, board
    <2> QED BY <2>1, BoardStays DEF TypeInv, ProbeInv
  <1>2. CASE \E i \in 1..MaxDevices : \E code \in {IrAbort, IrDpacc, IrApacc} :
               \E r \in Requests, w \in Words : Transfer(i, code, r, w)
    <2>1. PICK i \in 1..MaxDevices, code \in {IrAbort, IrDpacc, IrApacc}, r \in Requests, w \in Words :
            Transfer(i, code, r, w)
      BY <1>2
    <2>2. code \in Nat
      BY SMT DEF IrAbort, IrDpacc, IrApacc
    <2>3. SetIrWalk(i, code) \in Seq(Cycles)
      BY <2>2, SetIrIsWalk DEF TypeInv, WalkInv
    <2>4. /\ UNCHANGED <<chain, ir, path, offer, tap>> /\ bits' = <<>> /\ phase' = "ir"
          /\ todo' = SetIrWalk(i, code)
          /\ command' = [kind |-> "transfer", device |-> i, code |-> code, request |-> r, word |-> w]
      BY <2>1 DEF Transfer
    <2>5. command' \in Transfers
      BY <2>4 DEF Transfers
    <2>6. <<>> \in Seq(Bit)
      OBVIOUS
    <2> QED BY <2>3, <2>4, <2>5, <2>6, BoardStays DEF TypeInv, ProbeInv
  <1>3. CASE \E i \in 1..MaxDevices : JtagIdcode(i)
    <2>1. PICK i \in 1..MaxDevices : JtagIdcode(i)
      BY <1>3
    <2>2. SetIrWalk(i, IrIdcode) \in Seq(Cycles)
      BY SetIrIsWalk, 14 \in Nat DEF TypeInv, WalkInv, IrIdcode
    <2>3. /\ UNCHANGED <<chain, ir, path, offer, tap>> /\ bits' = <<>> /\ phase' = "ir"
          /\ todo' = SetIrWalk(i, IrIdcode)
          /\ command' = [kind |-> "idcode", device |-> i, code |-> IrIdcode]
      BY <2>1 DEF JtagIdcode
    <2>4. command' \in Identifications
      BY <2>3 DEF Identifications
    <2>5. <<>> \in Seq(Bit)
      OBVIOUS
    <2> QED BY <2>2, <2>3, <2>4, <2>5, BoardStays DEF TypeInv, ProbeInv
  <1>4. CASE \E s \in Sequences : JtagSequence(s)
    <2>1. PICK s \in Sequences : JtagSequence(s)
      BY <1>4
    <2>2. s \in Seq(Items)
      <3>1. s \in Seq([tms : {0, 1}, tdi : Seq({0, 1}) \ {<<>>}, capture : BOOLEAN])
        BY ChainsAreLegal
      <3>2. [tms : {0, 1}, tdi : Seq({0, 1}) \ {<<>>}, capture : BOOLEAN] \subseteq Items
        BY DEF Items, Bit
      <3> QED BY <3>1, <3>2, SeqMonotonic
    <2>3. todo' \in Seq(Cycles) /\ phase' \in {"sequence", "short"}
      <3>1. \A c \in Cuts(s) : SequenceWalk(c) \in Seq(Cycles)
        BY <2>2, CutsAreItems, SequenceIsWalk
      <3>2. SequenceWalk(s) \in Seq(Cycles)
        BY <2>2, SequenceIsWalk
      <3> QED BY <2>1, <3>1, <3>2 DEF JtagSequence
    <2>4. UNCHANGED <<chain, ir, path, offer, tap>> /\ bits' = <<>>
      BY <2>1 DEF JtagSequence
    <2>5. <<>> \in Seq(Bit)
      OBVIOUS
    <2> QED BY <2>3, <2>4, <2>5, BoardStays DEF TypeInv, ProbeInv
  <1>5. CASE Answer
    <2>1. /\ UNCHANGED <<chain, ir, path, tap, todo>> /\ phase' = "none" /\ bits' = <<>>
          /\ offer' = [ack |-> 0, word |-> 0]
      BY <1>5 DEF Answer, NoOffer
    <2>2. BoardInv'
      <3>1. chain' = chain /\ ir' = ir /\ path' = path /\ tap' = tap /\ UNCHANGED Devices
        BY <2>1 DEF Devices
      <3>2. offer'.ack \in 0..7 /\ offer'.word \in Words \cup {0}
        BY <2>1
      <3> QED BY <3>1, <3>2 DEF TypeInv, BoardInv
    <2>3. <<>> \in Seq(Bit)
      OBVIOUS
    <2> QED BY <2>1, <2>2, <2>3 DEF TypeInv, ProbeInv
  <1>6. CASE UNCHANGED vars
    BY <1>6, BoardStays DEF vars, board, TypeInv, ProbeInv
  <1> QED BY <1>1, <1>2, <1>3, <1>4, <1>5, <1>6, Zenon DEF Next

LEMMA StepKeepsTypes == TypeInv /\ [Next]_vars => TypeInv'
  <1> SUFFICES ASSUME TypeInv, [Next]_vars PROVE TypeInv'
    OBVIOUS
  <1>1. WalkInv'
    BY StepKeepsWalk DEF TypeInv
  <1>2. BoardInv' /\ ProbeInv'
    BY CycleKeepsTypes, PlanKeepsTypes, OthersKeepTypes
  <1> QED BY <1>1, <1>2 DEF TypeInv

\* The registers hold bits, as many as they have; what the probe clocks and reads
\* are bits; and the arrays it keeps have an entry per device it can know, for
\* chains and configurations of any size (the arrays of dap->jtag, the states of
\* IEEE 1149.1).
THEOREM TypesAreKept == Spec => []TypeOK
  <1>1. Spec => []TypeInv
    BY InitTypes, StepKeepsTypes, PTL DEF Spec
  <1> QED BY <1>1, TypeInvImpliesTypeOK, PTL

-----------------------------------------------------------------------------
(***************************************************************************)
(* Walks on a chain the host has described.                                *)
(***************************************************************************)

\* Counted from its last cycle, which is F[k + 1], the walk w consists of the cycles F.
Counts(w, F, k) == \A x \in 1..Len(w) : w[Len(w) + 1 - x] = F[k + x]

LEMMA CountsJoin ==
  ASSUME NEW C, NEW u \in Seq(C), NEW v \in Seq(C), NEW F, NEW k \in Nat,
         Counts(v, F, k), Counts(u, F, k + Len(v))
  PROVE  /\ Counts(u \o v, F, k) /\ u \o v \in Seq(C) /\ Len(u \o v) = Len(u) + Len(v)
  <1> DEFINE m == Len(u)   n == Len(v)   w == u \o v
  <1>1. m \in Nat /\ n \in Nat
    BY LenProperties
  <1>2. w \in Seq(C) /\ Len(w) = m + n /\ (\A j \in 1..m : w[j] = u[j]) /\ (\A j \in 1..n : w[m + j] = v[j])
    BY Concatenated
  <1>3. /\ \A x \in 1..n : v[n + 1 - x] = F[k + x]
        /\ \A x \in 1..m : u[m + 1 - x] = F[(k + n) + x]
    BY DEF Counts
  <1> HIDE DEF m, n, w
  <1>4. ASSUME NEW x \in 1..(m + n) PROVE w[(m + n) + 1 - x] = F[k + x]
    <2>1. CASE x <= n
      <3>1. x \in 1..n /\ n + 1 - x \in 1..n /\ (m + n) + 1 - x = m + (n + 1 - x)
        BY SMT, <1>1, <2>1
      <3> QED BY <1>2, <1>3, <3>1
    <2>2. CASE ~(x <= n)
      <3>1. x - n \in 1..m /\ m + 1 - (x - n) \in 1..m /\ (m + n) + 1 - x = m + 1 - (x - n) /\ (k + n) + (x - n) = k + x
        BY SMT, <1>1, <2>2
      <3> QED BY <1>2, <1>3, <3>1
    <2> QED BY <2>1, <2>2
  <1>5. Counts(w, F, k)
    BY <1>2, <1>4 DEF Counts
  <1> QED BY <1>2, <1>5 DEF m, n, w

\* The next cycle of a walk is the one counted last.
LEMMA CountsOn ==
  ASSUME NEW C, NEW w \in Seq(C), w # <<>>, NEW F, Counts(w, F, 0)
  PROVE  /\ Head(w) = F[Len(w)] /\ Len(w) \in Nat \ {0}
         /\ Tail(w) \in Seq(C) /\ Len(Tail(w)) = Len(w) - 1 /\ Counts(Tail(w), F, 0)
  <1> DEFINE n == Len(w)   t == Tail(w)
  <1>1. n \in Nat \ {0} /\ t \in Seq(C) /\ Len(t) = n - 1 /\ Head(w) = w[1] /\ \A j \in 1..(n - 1) : t[j] = w[j + 1]
    BY HeadTailProperties, EmptySeq, LenProperties
  <1>2. \A x \in 1..n : w[n + 1 - x] = F[0 + x]
    BY DEF Counts
  <1> HIDE DEF n, t
  <1>3. Head(w) = F[n]
    <2>1. n \in 1..n /\ n + 1 - n = 1 /\ 0 + n = n
      BY SMT, <1>1
    <2> QED BY <1>1, <1>2, <2>1
  <1>4. ASSUME NEW x \in 1..(n - 1) PROVE t[(n - 1) + 1 - x] = F[0 + x]
    <2>1. x \in 1..n /\ (n - 1) + 1 - x \in 1..(n - 1) /\ ((n - 1) + 1 - x) + 1 = n + 1 - x
      BY SMT, <1>1
    <2> QED BY <1>1, <1>2, <2>1
  <1>5. Counts(t, F, 0)
    BY <1>1, <1>4 DEF Counts
  <1> QED BY <1>1, <1>3, <1>5 DEF n, t

\* On a path p of l bits k bits of the sequence in have been shifted, and what is
\* left of the register out, which began after the first at bits, comes next.
Shifts(p, l, in, k, at, out) ==
  /\ Len(p) = l
  /\ \A m \in 1..k : p[(l - k) + m] = in[m]
  /\ \A m \in 1..Len(out) : k < at + m => p[at + m - k] = out[m]

LEMMA ShiftsOn ==
  ASSUME NEW p \in Seq(Bit), NEW l \in Nat, NEW in, NEW k \in Nat, k < l, NEW at \in Nat,
         NEW out \in Seq(Bit), at + Len(out) <= l, Shifts(p, l, in, k, at, out), in[k + 1] \in Bit
  PROVE  /\ Shifts(Append(Tail(p), in[k + 1]), l, in, k + 1, at, out)
         /\ k + 1 - at \in 1..Len(out) => p[1] = out[k + 1 - at]
  <1> DEFINE b == in[k + 1]
             q == Append(Tail(p), b)
             o == Len(out)
  <1>1. Len(p) = l /\ o \in Nat /\ at + o <= l /\ p # <<>>
    <2>1. Len(p) = l
      BY DEF Shifts
    <2>2. l # 0
      BY SMT
    <2> QED BY <2>1, <2>2, LenProperties, EmptySeq
  <1>2. q \in Seq(Bit) /\ Len(q) = l /\ q[l] = b /\ \A j \in 1..(l - 1) : q[j] = p[j + 1]
    BY <1>1, Shifted
  <1>3. \A m \in 1..k : p[(l - k) + m] = in[m]
    BY DEF Shifts
  <1>4. \A m \in 1..o : k < at + m => p[at + m - k] = out[m]
    BY DEF Shifts
  <1> HIDE DEF q, o
  <1>5. ASSUME NEW m \in 1..(k + 1) PROVE q[(l - (k + 1)) + m] = in[m]
    <2>1. CASE m = k + 1
      <3>1. (l - (k + 1)) + m = l
        BY SMT, <2>1
      <3> QED BY <1>2, <2>1, <3>1
    <2>2. CASE m # k + 1
      <3>1. m \in 1..k /\ (l - (k + 1)) + m \in 1..(l - 1) /\ ((l - (k + 1)) + m) + 1 = (l - k) + m
        BY SMT, <2>2
      <3> QED BY <1>2, <1>3, <3>1
    <2> QED BY <2>1, <2>2
  <1>6. ASSUME NEW m \in 1..o, k + 1 < at + m PROVE q[at + m - (k + 1)] = out[m]
    <2>1. at + m - (k + 1) \in 1..(l - 1) /\ (at + m - (k + 1)) + 1 = at + m - k /\ k < at + m
      BY SMT, <1>1, <1>6
    <2> QED BY <1>2, <1>4, <2>1
  <1>7. Shifts(q, l, in, k + 1, at, out)
    BY <1>2, <1>5, <1>6 DEF Shifts, o
  <1>8. ASSUME k + 1 - at \in 1..o PROVE p[1] = out[k + 1 - at]
    <2>1. k < at + (k + 1 - at) /\ at + (k + 1 - at) - k = 1
      BY SMT
    <2> QED BY <1>4, <1>8, <2>1
  <1> QED BY <1>7, <1>8 DEF q, o

\* A path as it was captured.
LEMMA ShiftsBegin ==
  ASSUME NEW p, NEW l \in Nat, Len(p) = l, NEW in, NEW at \in Nat, NEW out,
         \A m \in 1..Len(out) : p[at + m] = out[m]
  PROVE  Shifts(p, l, in, 0, at, out)
  <1>1. ASSUME NEW m \in 1..Len(out) PROVE p[at + m - 0] = out[m]
    <2>1. at + m - 0 = at + m
      BY SMT
    <2> QED BY <2>1
  <1>2. 1..0 = {}
    OBVIOUS
  <1> QED BY <1>1, <1>2 DEF Shifts

LEMMA ShiftsEnd ==
  ASSUME NEW p, NEW l \in Nat, NEW in, NEW at, NEW out, Shifts(p, l, in, l, at, out)
  PROVE  Len(p) = l /\ \A m \in 1..l : p[m] = in[m]
  <1>1. \A m \in 1..l : (l - l) + m = m
    BY SMT
  <1> QED BY <1>1 DEF Shifts

\* A set of one element, and of none, as a sequence.
LEMMA SequenceOfOne == \A x : SetToSeq({x}) = <<x>>
  <1> SUFFICES ASSUME NEW x PROVE SetToSeq({x}) = <<x>>
    OBVIOUS
  <1> DEFINE F == [1..1 -> {x}]
             g == <<x>>
  <1>1. Cardinality({x}) = 1
    BY FS_Singleton
  <1>2. g \in F /\ IsInjective(g)
    <2>1. g \in [1..1 -> {x}] /\ DOMAIN g = 1..1
      OBVIOUS
    <2>2. \A i, j \in 1..1 : i = j
      BY SMT
    <2> QED BY <2>1, <2>2 DEF IsInjective
  <1>3. \A f \in F : f = g
    <2> SUFFICES ASSUME NEW f \in F PROVE f = g
      OBVIOUS
    <2>1. f = [i \in 1..1 |-> f[i]] /\ \A i \in 1..1 : f[i] = x
      OBVIOUS
    <2>2. g = [i \in 1..1 |-> x]
      OBVIOUS
    <2> HIDE DEF g
    <2> QED BY <2>1, <2>2
  <1>4. SetToSeq({x}) = CHOOSE f \in F : IsInjective(f)
    BY <1>1 DEF SetToSeq
  <1> HIDE DEF F, g
  <1>5. SetToSeq({x}) \in F
    BY <1>2, <1>4, Zenon
  <1>6. SetToSeq({x}) = g
    BY <1>3, <1>5
  <1> QED BY <1>6 DEF g

LEMMA SequenceOfNone == SetToSeq({}) = <<>>
  <1> DEFINE F == [1..0 -> {}]
             g == <<>>
  <1>1. Cardinality({}) = 0
    BY FS_EmptySet
  <1>2. g \in F /\ IsInjective(g)
    <2>1. g \in [1..0 -> {}] /\ DOMAIN g = {}
      OBVIOUS
    <2> QED BY <2>1 DEF IsInjective
  <1>3. \A f \in F : f = g
    OBVIOUS
  <1>4. SetToSeq({}) = CHOOSE f \in F : IsInjective(f)
    BY <1>1 DEF SetToSeq
  <1> HIDE DEF F, g
  <1>5. SetToSeq({}) \in F
    BY <1>2, <1>4, Zenon
  <1>6. SetToSeq({}) = g
    BY <1>3, <1>5
  <1> QED BY <1>6 DEF g

LEMMA OfOneOrNone ==
  /\ \A x : <<>> \o <<x>> = <<x>>
  /\ <<>> \o <<>> = <<>>
  OBVIOUS

\* The configuration of a chain that was described is the chain's.
DescribedInv ==
  described =>
    /\ count = Len(chain)
    /\ \A i \in 1..Len(chain) :
         /\ length[i] = chain[i] /\ before[i] = Before(i, chain)
         /\ after[i] = Before(Len(chain) + 1, chain) - Before(i + 1, chain)

LEMMA ConfigureDescribes ==
  ASSUME TypeInv, NEW c \in Configs, NEW m \in 0..Len(c), Configure(Len(c), SubSeq(c, 1, m))
  PROVE  DescribedInv'
  <1> DEFINE n == Len(c)   lens == SubSeq(c, 1, m)
  <1>1. /\ n <= MaxDevices /\ chain' = chain
        /\ count' = n
        /\ length' = [i \in 1..MaxDevices |-> IF i <= Len(lens) THEN lens[i] ELSE length[i]]
        /\ before' = [i \in 1..MaxDevices |->
                        IF i <= Len(lens) THEN Before(i, lens) ELSE before[i]]
        /\ after' = [i \in 1..MaxDevices |->
                       IF i <= n /\ Len(lens) = n
                         THEN Before(n + 1, lens) - Before(i + 1, lens) ELSE after[i]]
        /\ described' = (Len(lens) = n /\ lens = chain)
    BY DEF Configure, board
  <1> HIDE DEF n, lens
  <1> SUFFICES ASSUME Len(lens) = n, lens = chain
               PROVE  /\ count' = Len(chain)
                      /\ \A i \in 1..Len(chain) :
                           /\ length'[i] = chain[i] /\ before'[i] = Before(i, chain)
                           /\ after'[i] = Before(Len(chain) + 1, chain) - Before(i + 1, chain)
    BY <1>1 DEF DescribedInv
  <1>2. n \in Nat /\ Len(chain) = n
    BY ChainIs DEF TypeInv, BoardInv
  <1>3. \A i \in 1..n : i \in 1..MaxDevices /\ i <= n
    BY SMT, <1>1, <1>2, SizesAreLegal
  <1> QED BY <1>1, <1>2, <1>3

LEMMA DescribedStays ==
  ASSUME DescribedInv, UNCHANGED <<chain, config>>
  PROVE  DescribedInv'
  <1>1. chain' = chain /\ count' = count /\ length' = length /\ before' = before /\ after' = after /\ described' = described
    BY DEF config
  <1> QED BY <1>1 DEF DescribedInv

LEMMA StepKeepsDescribed == TypeInv /\ DescribedInv /\ [Next]_vars => DescribedInv'
  <1> SUFFICES ASSUME TypeInv, DescribedInv, [Next]_vars PROVE DescribedInv'
    OBVIOUS
  <1>1. CASE \E c \in Configs : \E n \in 0..Len(c) : Configure(Len(c), SubSeq(c, 1, n))
    BY <1>1, ConfigureDescribes
  <1>2. CASE ~ \E c \in Configs : \E n \in 0..Len(c) : Configure(Len(c), SubSeq(c, 1, n))
    <2>1. CASE \E i \in 1..MaxDevices : \E code \in {IrAbort, IrDpacc, IrApacc} :
                 \E r \in Requests, w \in Words : Transfer(i, code, r, w)
      BY <2>1, DescribedStays DEF Transfer
    <2>2. CASE \E i \in 1..MaxDevices : JtagIdcode(i)
      BY <2>2, DescribedStays DEF JtagIdcode
    <2>3. CASE \E s \in Sequences : JtagSequence(s)
      BY <2>3, DescribedStays DEF JtagSequence
    <2>4. CASE Cycle
      BY <2>4, DescribedStays DEF Cycle, Clock
    <2>5. CASE Plan
      BY <2>5, DescribedStays DEF Plan, board
    <2>6. CASE Answer
      BY <2>6, DescribedStays DEF Answer
    <2>7. CASE UNCHANGED vars
      BY <2>7, DescribedStays DEF vars, board
    <2> QED BY <1>2, <2>1, <2>2, <2>3, <2>4, <2>5, <2>6, <2>7, Zenon DEF Next
  <1> QED BY <1>1, <1>2

\* What one clock cycle does, by the state it begins in.
LEMMA ClockDoes ==
  ASSUME NEW tms, NEW tdi, Clock(tms, tdi)
  PROVE  /\ tap' = Tap[tap][tms + 1] /\ chain' = chain
         /\ tap \notin {"reset", "updateIr"} => ir' = ir
         /\ tap # "captureDr" => offer' = offer
         /\ tap # "updateDr" => updates' = updates
         /\ tap \in {"idle", "selectDr", "selectIr", "exit1Ir", "exit1Dr"} => path' = path
         /\ tap \in {"shiftIr", "shiftDr"} => path' = Append(Tail(path), tdi)
         /\ tap = "captureIr" =>
              path' = FlattenSeq([d \in Devices |-> <<1>> \o Fill(0, chain[d] - 1)])
         /\ tap = "updateIr" => ir' = [d \in Devices |-> Part(d, chain)]
         /\ tap = "captureDr" =>
              \E o \in [ack : {JtagWait, JtagOk}, word : Words] :
                offer' = o /\ path' = FlattenSeq(CapturedAll(o))
         /\ tap = "updateDr" =>
              updates' = updates \o
                SetToSeq({[device |-> d, ir |-> ir[d], bits |-> Part(d, DrLengths)] :
                            d \in {e \in Devices : Accessing(e) /\ offer.ack = JtagOk}})
  BY Zenon DEF Clock, Shifting, CapturedAll

-----------------------------------------------------------------------------
(***************************************************************************)
(* Setting an instruction.                                                 *)
(***************************************************************************)

\* Bits of all instruction registers.
Total(c) == Before(Len(c) + 1, c)

\* What is shifted into them: the code for device i, and ones for the others.
IrIn(c, i, code) ==
  [m \in 1..Total(c) |->
     IF m \in (Before(i, c) + 1)..(Before(i, c) + c[i])
       THEN BitsOf(code, c[i])[m - Before(i, c)] ELSE 1]

\* The cycles of the walk, and the states it goes through, by how many are left.
IrCycles(c, i, code) ==
  [x \in 1..(Total(c) + 6) |->
     IF x = 1 \/ x = Total(c) + 3 \/ x = Total(c) + 4 THEN Go(0)
     ELSE IF x = 2 \/ x > Total(c) + 4 THEN Go(1)
     ELSE [tms |-> IF x = 3 THEN 1 ELSE 0, tdi |-> IrIn(c, i, code)[Total(c) + 3 - x], read |-> FALSE]]

IrTap(c) ==
  [n \in 0..(Total(c) + 6) |->
     IF n = 0 \/ n = Total(c) + 6 THEN "idle"
     ELSE IF n = 1 THEN "updateIr" ELSE IF n = 2 THEN "exit1Ir"
     ELSE IF n = Total(c) + 3 THEN "captureIr" ELSE IF n = Total(c) + 4 THEN "selectIr"
     ELSE IF n = Total(c) + 5 THEN "selectDr" ELSE "shiftIr"]

\* The layout of the chain: device i, and what is before and behind it.
LEMMA Layout ==
  ASSUME chain \in Chains, NEW i \in Devices
  PROVE  /\ Total(chain) \in Nat /\ Before(i, chain) \in Nat /\ chain[i] \in Nat \ {0}
         /\ Total(chain) - Before(i + 1, chain) \in Nat
         /\ Before(i + 1, chain) = Before(i, chain) + chain[i]
         /\ \A d \in Devices :
              /\ d < i => Before(d, chain) + chain[d] <= Before(i, chain)
              /\ d > i => Before(i, chain) + chain[i] <= Before(d, chain)
  <1> DEFINE n == Len(chain)
  <1>1. chain \in Seq(Nat) /\ n \in Nat \ {0} /\ Devices = 1..n /\ \A d \in Devices : chain[d] \in Nat \ {0}
    BY ChainIs
  <1>2. n + 1 \in (i + 1)..(n + 1) /\ i \in 1..n /\ i \in 1..(n + 1) /\ n + 1 \in 1..(n + 1)
    <2> HIDE DEF n
    <2> QED BY SMT, <1>1
  <1>3. /\ Total(chain) \in Nat /\ Before(i, chain) \in Nat
        /\ Before(i, chain) + chain[i] <= Total(chain)
        /\ Before(i + 1, chain) = Before(i, chain) + chain[i]
    BY <1>1, <1>2, BeforeIs, BeforeGrows DEF Total
  <1>4. chain[i] \in Nat \ {0}
    BY <1>1
  <1>5. Total(chain) - Before(i + 1, chain) \in Nat
    BY SMT, <1>3, <1>4
  <1>6. ASSUME NEW d \in Devices, d < i PROVE Before(d, chain) + chain[d] <= Before(i, chain)
    <2>1. d \in 1..n /\ i \in (d + 1)..(n + 1)
      <3> HIDE DEF n
      <3> QED BY SMT, <1>1, <1>6
    <2> QED BY <1>1, <2>1, BeforeGrows
  <1>7. ASSUME NEW d \in Devices, d > i PROVE Before(i, chain) + chain[i] <= Before(d, chain)
    <2>1. i \in 1..n /\ d \in (i + 1)..(n + 1)
      <3> HIDE DEF n
      <3> QED BY SMT, <1>1, <1>7
    <2> QED BY <1>1, <2>1, BeforeGrows
  <1> QED BY <1>3, <1>4, <1>5, <1>6, <1>7

\* What is shifted in is a bit, and where.
LEMMA IrInIs ==
  ASSUME chain \in Chains, NEW i \in Devices, NEW code \in Nat
  PROVE  /\ \A m \in 1..Total(chain) : IrIn(chain, i, code)[m] \in Bit
         /\ \A m \in 1..Before(i, chain) : IrIn(chain, i, code)[m] = 1
         /\ \A m \in 1..chain[i] : /\ Before(i, chain) + m \in 1..Total(chain)
                                   /\ IrIn(chain, i, code)[Before(i, chain) + m] = BitsOf(code, chain[i])[m]
         /\ \A m \in (Before(i, chain) + chain[i] + 1)..Total(chain) : IrIn(chain, i, code)[m] = 1
  <1> DEFINE l == Total(chain)   b == Before(i, chain)   n == chain[i]   w == BitsOf(code, n)
             f == IrIn(chain, i, code)
  <1>1. l \in Nat /\ b \in Nat /\ n \in Nat \ {0} /\ b + n <= l
    <2>1. l \in Nat /\ b \in Nat /\ n \in Nat \ {0} /\ l - Before(i + 1, chain) \in Nat /\ Before(i + 1, chain) = b + n
      BY Layout
    <2> HIDE DEF l, b, n
    <2> QED BY SMT, <2>1
  <1>2. f = [m \in 1..l |-> IF m \in (b + 1)..(b + n) THEN w[m - b] ELSE 1]
    BY DEF IrIn
  <1>3. \A m \in 1..n : w[m] \in Bit
    <2>1. n \in Nat
      BY <1>1
    <2>2. w \in [1..n -> Bit]
      BY <2>1, BitsAreBits
    <2> QED BY <2>2
  <1> HIDE DEF l, b, n, w, f
  <1>4. 1 \in Bit
    BY DEF Bit
  <1>5. ASSUME NEW m \in 1..l PROVE f[m] \in Bit
    <2>1. m \in (b + 1)..(b + n) => m - b \in 1..n
      BY SMT, <1>1
    <2> QED BY <1>2, <1>3, <1>4, <2>1
  <1>6. ASSUME NEW m \in 1..b PROVE f[m] = 1
    <2>1. m \in 1..l /\ m \notin (b + 1)..(b + n)
      BY SMT, <1>1
    <2> QED BY <1>2, <2>1
  <1>7. ASSUME NEW m \in 1..n PROVE b + m \in 1..l /\ f[b + m] = w[m]
    <2>1. b + m \in 1..l /\ b + m \in (b + 1)..(b + n) /\ (b + m) - b = m
      BY SMT, <1>1
    <2> QED BY <1>2, <2>1
  <1>8. ASSUME NEW m \in (b + n + 1)..l PROVE f[m] = 1
    <2>1. m \in 1..l /\ m \notin (b + 1)..(b + n)
      BY SMT, <1>1
    <2> QED BY <1>2, <2>1
  <1> QED BY <1>5, <1>6, <1>7, <1>8 DEF l, b, n, w, f

LEMMA IrCyclesAre ==
  ASSUME chain \in Chains, NEW i \in Devices, NEW code
  PROVE  LET l == Total(chain)   F == IrCycles(chain, i, code)
         IN  /\ F[1] = Go(0) /\ F[2] = Go(1) /\ F[l + 3] = Go(0) /\ F[l + 4] = Go(0)
             /\ F[l + 5] = Go(1) /\ F[l + 6] = Go(1)
             /\ \A x \in 3..(l + 2) :
                  F[x] = [tms |-> IF x = 3 THEN 1 ELSE 0, tdi |-> IrIn(chain, i, code)[l + 3 - x],
                          read |-> FALSE]
  <1> DEFINE l == Total(chain)   F == IrCycles(chain, i, code)   in == IrIn(chain, i, code)
  <1>1. l \in Nat /\ l > 0
    <2>1. l \in Nat /\ Before(i, chain) \in Nat /\ chain[i] \in Nat \ {0} /\ l - Before(i + 1, chain) \in Nat
          /\ Before(i + 1, chain) = Before(i, chain) + chain[i]
      BY Layout
    <2> HIDE DEF l
    <2> QED BY SMT, <2>1
  <1>2. F = [x \in 1..(l + 6) |->
               IF x = 1 \/ x = l + 3 \/ x = l + 4 THEN Go(0)
               ELSE IF x = 2 \/ x > l + 4 THEN Go(1)
               ELSE [tms |-> IF x = 3 THEN 1 ELSE 0, tdi |-> in[l + 3 - x], read |-> FALSE]]
    BY DEF IrCycles
  <1> HIDE DEF l, F, in
  <1>3. /\ 1 \in 1..(l + 6) /\ 2 \in 1..(l + 6) /\ l + 3 \in 1..(l + 6) /\ l + 4 \in 1..(l + 6)
        /\ l + 5 \in 1..(l + 6) /\ l + 6 \in 1..(l + 6)
        /\ 2 # 1 /\ 2 # l + 3 /\ 2 # l + 4 /\ l + 5 # 1 /\ l + 5 # l + 3 /\ l + 5 # l + 4 /\ l + 5 > l + 4
        /\ l + 6 # 1 /\ l + 6 # l + 3 /\ l + 6 # l + 4 /\ l + 6 > l + 4
    BY SMT, <1>1
  <1>4. ASSUME NEW x \in 3..(l + 2)
        PROVE  F[x] = [tms |-> IF x = 3 THEN 1 ELSE 0, tdi |-> in[l + 3 - x], read |-> FALSE]
    <2>1. x \in 1..(l + 6) /\ ~(x = 1 \/ x = l + 3 \/ x = l + 4) /\ ~(x = 2 \/ x > l + 4)
      BY SMT, <1>1
    <2> QED BY <1>2, <2>1
  <1>5. /\ F[1] = Go(0) /\ F[2] = Go(1) /\ F[l + 3] = Go(0) /\ F[l + 4] = Go(0)
        /\ F[l + 5] = Go(1) /\ F[l + 6] = Go(1)
    BY <1>2, <1>3
  <1> QED BY <1>4, <1>5 DEF l, F, in

LEMMA OfOne ==
  ASSUME NEW n \in Nat \ {0}
  PROVE  Max({1, n}) = n
  <1>1. n \in {1, n} /\ \A y \in {1, n} : n >= y
    BY SMT
  <1>2. Max({1, n}) \in {1, n} /\ \A y \in {1, n} : Max({1, n}) >= y
    BY <1>1 DEF Max
  <1> QED BY SMT, <1>2

\* jtag_set_ir, cycle by cycle.
LEMMA SetIrCounts ==
  ASSUME TypeInv, DescribedInv, described, NEW i \in Devices, NEW code \in Nat
  PROVE  /\ Counts(SetIrWalk(i, code), IrCycles(chain, i, code), 0)
         /\ Len(SetIrWalk(i, code)) = Total(chain) + 6
  <1> DEFINE l == Total(chain)   b == Before(i, chain)   n == chain[i]
             F == IrCycles(chain, i, code)   in == IrIn(chain, i, code)
             e == l - (b + n)
             bs == BitsOf(code, n)
             u == <<Go(1), Go(1), Go(0), Go(0)>>
             v == Fill(Go(0), b)
             w == Shift(bs, e, FALSE)
             z == <<Go(1), Go(0)>>
  <1>1. chain \in Chains
    BY DEF TypeInv, BoardInv
  <1>2. l \in Nat /\ b \in Nat /\ n \in Nat \ {0} /\ n \in Nat /\ e \in Nat /\ Before(i + 1, chain) = b + n
    BY <1>1, Layout
  <1>3. length[i] = n /\ before[i] = b /\ after[i] = e
    BY <1>2 DEF DescribedInv, Total, Devices
  <1>4. SetIrWalk(i, code) = ((u \o v) \o w) \o z
    BY <1>2, <1>3, OfOne DEF SetIrWalk
  <1>5. /\ F[1] = Go(0) /\ F[2] = Go(1) /\ F[l + 3] = Go(0) /\ F[l + 4] = Go(0)
        /\ F[l + 5] = Go(1) /\ F[l + 6] = Go(1)
        /\ \A x \in 3..(l + 2) :
             F[x] = [tms |-> IF x = 3 THEN 1 ELSE 0, tdi |-> in[l + 3 - x], read |-> FALSE]
    BY <1>1, IrCyclesAre
  <1>6. /\ \A m \in 1..b : in[m] = 1
        /\ \A m \in 1..n : in[b + m] = bs[m]
        /\ \A m \in (b + n + 1)..l : in[m] = 1
    BY <1>1, IrInIs
  <1>7. z \in Seq(Cycles) /\ Len(z) = 2 /\ Counts(z, F, 0)
    <2>1. z \in Seq(Cycles) /\ Len(z) = 2 /\ z[1] = Go(1) /\ z[2] = Go(0)
      BY ShortWalks
    <2> HIDE DEF F, z
    <2>2. ASSUME NEW x \in 1..2 PROVE z[2 + 1 - x] = F[0 + x]
      <3>1. (x = 1 /\ 2 + 1 - x = 2 /\ 0 + x = 1) \/ (x = 2 /\ 2 + 1 - x = 1 /\ 0 + x = 2)
        BY SMT
      <3> QED BY <1>5, <2>1, <3>1
    <2> QED BY <2>1, <2>2 DEF Counts
  <1>8. w \in Seq(Cycles) /\ Len(w) = n + e /\ Counts(w, F, 2)
    <2>1. bs \in Seq(Bit) /\ Len(bs) = n
      BY <1>2, BitsAreBits
    <2> HIDE DEF bs, e
    <2>2. /\ w \in Seq(Cycles) /\ Len(w) = n + e
          /\ \A j \in 1..(n + e) :
               w[j] = [tms |-> IF j = n + e THEN 1 ELSE 0, tdi |-> IF j <= n THEN bs[j] ELSE 1,
                       read |-> FALSE /\ j <= n]
      <3> DEFINE o == Len(bs)
      <3>1. bs \in Seq(Bit) /\ e \in Nat /\ FALSE \in BOOLEAN
        BY <1>2, <2>1
      <3>2. w \in Seq(Cycles) /\ Len(w) = o + e
        BY <3>1, ShiftIsWalk
      <3>3. ASSUME NEW j \in 1..(o + e)
            PROVE  w[j] = [tms |-> IF j = o + e THEN 1 ELSE 0, tdi |-> IF j <= o THEN bs[j] ELSE 1,
                           read |-> FALSE /\ j <= o]
        BY <3>1, ShiftIsWalk
      <3>4. o = n
        BY <2>1
      <3> HIDE DEF o, w
      <3> QED BY <3>2, <3>3, <3>4
    <2> HIDE DEF w, F, in, l, b, n
    <2>3. ASSUME NEW x \in 1..(n + e) PROVE w[(n + e) + 1 - x] = F[2 + x]
      <3> DEFINE j == (n + e) + 1 - x
      <3>1. l = b + n + e
        BY SMT, <1>2 DEF e
      <3>2. j \in 1..(n + e) /\ 2 + x \in 3..(l + 2) /\ (j = n + e <=> 2 + x = 3) /\ l + 3 - (2 + x) = b + j
        BY SMT, <1>2, <3>1
      <3>3. in[b + j] = IF j <= n THEN bs[j] ELSE 1
        <4>1. (j <= n => j \in 1..n) /\ (~(j <= n) => b + j \in (b + n + 1)..l)
          BY SMT, <1>2, <3>1
        <4> HIDE DEF j
        <4> QED BY <1>6, <4>1
      <3> HIDE DEF j
      <3>4. w[j] = [tms |-> IF j = n + e THEN 1 ELSE 0, tdi |-> IF j <= n THEN bs[j] ELSE 1, read |-> FALSE]
        BY <2>2, <3>2
      <3>5. F[2 + x] = [tms |-> IF j = n + e THEN 1 ELSE 0, tdi |-> in[b + j], read |-> FALSE]
        BY <1>5, <3>2
      <3>6. w[j] = F[2 + x]
        BY <3>3, <3>4, <3>5
      <3> QED BY <3>6 DEF j
    <2> QED BY <2>2, <2>3 DEF Counts
  <1>9. v \in Seq(Cycles) /\ Len(v) = b /\ Counts(v, F, n + e + 2)
    <2>1. v \in Seq(Cycles) /\ Len(v) = b /\ \A j \in 1..b : v[j] = Go(0)
      BY <1>2, FillIsWalk DEF Fill
    <2> HIDE DEF v, F, in, l, b, n, e
    <2>2. l = b + n + e
      BY SMT, <1>2 DEF e
    <2>3. ASSUME NEW x \in 1..b PROVE v[b + 1 - x] = F[(n + e + 2) + x]
      <3>1. b + 1 - x \in 1..b /\ (n + e + 2) + x \in 3..(l + 2) /\ (n + e + 2) + x # 3
            /\ l + 3 - ((n + e + 2) + x) = b + 1 - x
        BY SMT, <1>2, <2>2
      <3>2. v[b + 1 - x] = Go(0) /\ in[b + 1 - x] = 1
        BY <1>6, <2>1, <3>1
      <3>3. F[(n + e + 2) + x] = [tms |-> 0, tdi |-> in[b + 1 - x], read |-> FALSE]
        BY <1>5, <3>1
      <3> QED BY <3>2, <3>3 DEF Go
    <2> QED BY <2>1, <2>3 DEF Counts
  <1>10. u \in Seq(Cycles) /\ Len(u) = 4 /\ Counts(u, F, l + 2)
    <2>1. u \in Seq(Cycles) /\ Len(u) = 4 /\ u[1] = Go(1) /\ u[2] = Go(1) /\ u[3] = Go(0) /\ u[4] = Go(0)
      BY ShortWalks
    <2> HIDE DEF F, u, l
    <2>2. ASSUME NEW x \in 1..4 PROVE u[4 + 1 - x] = F[(l + 2) + x]
      <3>1. \/ x = 1 /\ 4 + 1 - x = 4 /\ (l + 2) + x = l + 3
            \/ x = 2 /\ 4 + 1 - x = 3 /\ (l + 2) + x = l + 4
            \/ x = 3 /\ 4 + 1 - x = 2 /\ (l + 2) + x = l + 5
            \/ x = 4 /\ 4 + 1 - x = 1 /\ (l + 2) + x = l + 6
        BY SMT, <1>2
      <3> QED BY <1>5, <2>1, <3>1
    <2> QED BY <2>1, <2>2 DEF Counts
  <1> HIDE DEF u, v, w, z, F, in, l, b, n, bs
  <1>11. l = b + n + e /\ n + e + 2 \in Nat /\ l + 2 \in Nat /\ 0 \in Nat /\ 2 \in Nat
        /\ 0 + 2 = 2 /\ 2 + (n + e) = n + e + 2 /\ (n + e + 2) + b = l + 2
    BY SMT, <1>2 DEF e
  <1> DEFINE wz == w \o z   vwz == v \o wz   all == u \o vwz
  <1>12. wz \in Seq(Cycles) /\ Len(wz) = n + e + 2 /\ Counts(wz, F, 0)
    BY <1>7, <1>8, <1>11, CountsJoin
  <1> HIDE DEF wz
  <1>13. vwz \in Seq(Cycles) /\ Len(vwz) = l + 2 /\ Counts(vwz, F, 0)
    <2>1. 0 + (n + e + 2) = n + e + 2 /\ b + (n + e + 2) = l + 2
      BY SMT, <1>2, <1>11
    <2> QED BY <1>9, <1>11, <1>12, <2>1, CountsJoin
  <1> HIDE DEF vwz
  <1>14. Len(all) = l + 6 /\ Counts(all, F, 0)
    <2>1. 0 + (l + 2) = l + 2 /\ 4 + (l + 2) = l + 6
      BY SMT, <1>2
    <2> QED BY <1>10, <1>11, <1>13, <2>1, CountsJoin
  <1>15. ((u \o v) \o w) \o z = all
    <2>1. u \in Seq(Cycles) /\ v \in Seq(Cycles) /\ w \in Seq(Cycles) /\ z \in Seq(Cycles)
      BY <1>7, <1>8, <1>9, <1>10
    <2>2. Joined(Joined(Joined(u, v), w), z) = Joined(u, Joined(v, Joined(w, z)))
      BY SMT, <2>1, FourJoined
    <2> QED BY Zenon, <2>2 DEF Joined, wz, vwz
  <1> HIDE DEF all
  <1> QED BY <1>4, <1>14, <1>15 DEF F, l

LEMMA IrTapMoves ==
  ASSUME chain \in Chains, NEW i \in Devices, NEW code
  PROVE  LET l == Total(chain)   F == IrCycles(chain, i, code)   t == IrTap(chain)
         IN  /\ t[0] = "idle" /\ t[1] = "updateIr" /\ t[2] = "exit1Ir" /\ t[l + 3] = "captureIr"
             /\ t[l + 4] = "selectIr" /\ t[l + 5] = "selectDr" /\ t[l + 6] = "idle"
             /\ \A n \in 3..(l + 2) : t[n] = "shiftIr"
             /\ \A n \in 1..(l + 6) : Tap[t[n]][F[n].tms + 1] = t[n - 1]
  <1> DEFINE l == Total(chain)   F == IrCycles(chain, i, code)   t == IrTap(chain)
  <1>1. l \in Nat /\ l > 0
    <2>1. l \in Nat /\ Before(i, chain) \in Nat /\ chain[i] \in Nat \ {0} /\ l - Before(i + 1, chain) \in Nat
          /\ Before(i + 1, chain) = Before(i, chain) + chain[i]
      BY Layout
    <2> HIDE DEF l
    <2> QED BY SMT, <2>1
  <1>2. t = [n \in 0..(l + 6) |->
               IF n = 0 \/ n = l + 6 THEN "idle"
               ELSE IF n = 1 THEN "updateIr" ELSE IF n = 2 THEN "exit1Ir"
               ELSE IF n = l + 3 THEN "captureIr" ELSE IF n = l + 4 THEN "selectIr"
               ELSE IF n = l + 5 THEN "selectDr" ELSE "shiftIr"]
    BY DEF IrTap
  <1>3. /\ F[1] = Go(0) /\ F[2] = Go(1) /\ F[l + 3] = Go(0) /\ F[l + 4] = Go(0)
        /\ F[l + 5] = Go(1) /\ F[l + 6] = Go(1)
        /\ \A x \in 3..(l + 2) :
             F[x] = [tms |-> IF x = 3 THEN 1 ELSE 0, tdi |-> IrIn(chain, i, code)[l + 3 - x], read |-> FALSE]
    BY IrCyclesAre
  <1> HIDE DEF l, F, t
  <1>4. /\ t[0] = "idle" /\ t[1] = "updateIr" /\ t[2] = "exit1Ir" /\ t[l + 3] = "captureIr"
        /\ t[l + 4] = "selectIr" /\ t[l + 5] = "selectDr" /\ t[l + 6] = "idle"
    <2>1. /\ 0 \in 0..(l + 6) /\ 1 \in 0..(l + 6) /\ 2 \in 0..(l + 6) /\ l + 3 \in 0..(l + 6)
          /\ l + 4 \in 0..(l + 6) /\ l + 5 \in 0..(l + 6) /\ l + 6 \in 0..(l + 6)
          /\ 1 # 0 /\ 1 # l + 6 /\ 2 # 0 /\ 2 # l + 6 /\ 2 # 1
          /\ l + 3 # 0 /\ l + 3 # l + 6 /\ l + 3 # 1 /\ l + 3 # 2
          /\ l + 4 # 0 /\ l + 4 # l + 6 /\ l + 4 # 1 /\ l + 4 # 2 /\ l + 4 # l + 3
          /\ l + 5 # 0 /\ l + 5 # l + 6 /\ l + 5 # 1 /\ l + 5 # 2 /\ l + 5 # l + 3 /\ l + 5 # l + 4
      BY SMT, <1>1
    <2> QED BY <1>2, <2>1
  <1>5. ASSUME NEW n \in 3..(l + 2) PROVE t[n] = "shiftIr"
    <2>1. n \in 0..(l + 6) /\ n # 0 /\ n # l + 6 /\ n # 1 /\ n # 2 /\ n # l + 3 /\ n # l + 4 /\ n # l + 5
      BY SMT, <1>1
    <2> QED BY <1>2, <2>1
  <1>6. ASSUME NEW n \in 1..(l + 6) PROVE Tap[t[n]][F[n].tms + 1] = t[n - 1]
    <2>1. CASE n = 1
      BY <1>3, <1>4, <2>1, GoIs, TapSteps
    <2>2. CASE n = 2
      BY <1>3, <1>4, <2>2, GoIs, TapSteps
    <2>3. CASE n = l + 6
      <3>1. n - 1 = l + 5
        BY SMT, <1>1, <2>3
      <3> QED BY <1>3, <1>4, <2>3, <3>1, GoIs, TapSteps
    <2>4. CASE n = l + 5
      <3>1. n - 1 = l + 4
        BY SMT, <1>1, <2>4
      <3> QED BY <1>3, <1>4, <2>4, <3>1, GoIs, TapSteps
    <2>5. CASE n = l + 4
      <3>1. n - 1 = l + 3
        BY SMT, <1>1, <2>5
      <3> QED BY <1>3, <1>4, <2>5, <3>1, GoIs, TapSteps
    <2>6. CASE n = l + 3
      <3>1. n - 1 = l + 2 /\ l + 2 \in 3..(l + 2)
        BY SMT, <1>1, <2>6
      <3>2. t[n - 1] = "shiftIr" /\ t[n] = "captureIr" /\ F[n].tms = 0
        BY <1>3, <1>4, <1>5, <2>6, <3>1, GoIs
      <3> QED BY <3>2, TapSteps
    <2>7. CASE n = 3
      <3>1. 3 \in 3..(l + 2) /\ 3 - 1 = 2
        BY SMT, <1>1
      <3>2. t[n - 1] = "exit1Ir" /\ t[n] = "shiftIr" /\ F[n].tms = 1
        <4>1. F[3] = [tms |-> 1, tdi |-> IrIn(chain, i, code)[l + 3 - 3], read |-> FALSE]
          BY <1>3, <3>1
        <4>2. F[n].tms = 1
          BY <2>7, <4>1
        <4>3. t[n] = "shiftIr" /\ t[n - 1] = "exit1Ir"
          BY <1>4, <1>5, <2>7, <3>1
        <4> QED BY <4>2, <4>3
      <3> QED BY <3>2, TapSteps
    <2>8. CASE n \in 4..(l + 2)
      <3>1. n \in 3..(l + 2) /\ n - 1 \in 3..(l + 2) /\ n # 3
        BY SMT, <1>1, <2>8
      <3>2. t[n - 1] = "shiftIr" /\ t[n] = "shiftIr" /\ F[n].tms = 0
        <4>1. F[n] = [tms |-> 0, tdi |-> IrIn(chain, i, code)[l + 3 - n], read |-> FALSE]
          BY <1>3, <3>1
        <4>2. F[n].tms = 0
          BY <4>1
        <4>3. t[n - 1] = "shiftIr" /\ t[n] = "shiftIr"
          BY <1>5, <3>1
        <4> QED BY <4>2, <4>3
      <3> QED BY <3>2, TapSteps
    <2>9. n = 1 \/ n = 2 \/ n = l + 6 \/ n = l + 5 \/ n = l + 4 \/ n = l + 3 \/ n = 3 \/ n \in 4..(l + 2)
      BY SMT, <1>1
    <2> QED BY <2>1, <2>2, <2>3, <2>4, <2>5, <2>6, <2>7, <2>8, <2>9
  <1> QED BY <1>4, <1>5, <1>6 DEF l, F, t

\* The device asked for has the instruction, and the others are bypassed.
IrSet ==
  \A d \in Devices :
    IF d = command.device THEN ir[d] = BitsOf(command.code, chain[d]) ELSE Bypassed(d)

\* While an instruction is set: the walk, the state machine, and what has been
\* shifted so far.
IrInv ==
  LET l == Total(chain)   n == Len(todo)   in == IrIn(chain, command.device, command.code)
  IN  /\ n <= l + 6 /\ Counts(todo, IrCycles(chain, command.device, command.code), 0)
      /\ tap = IrTap(chain)[n]
      /\ bits = <<>> /\ updates = <<>>
      /\ n \in 2..(l + 2) => Shifts(path, l, in, l + 2 - n, 0, <<>>)
      /\ n = 1 => Shifts(path, l, in, l, 0, <<>>)
      /\ n = 0 => IrSet

\* When the registers are updated, each has the bits meant for it.
LEMMA IrUpdates ==
  ASSUME chain \in Chains, path \in Seq(Bit), command.device \in Devices, command.code \in Nat,
         Shifts(path, Total(chain), IrIn(chain, command.device, command.code), Total(chain), 0, <<>>),
         NEW d \in Devices
  PROVE  IF d = command.device THEN Part(d, chain) = BitsOf(command.code, chain[d])
         ELSE Len(Part(d, chain)) = chain[d] /\ \A m \in 1..chain[d] : Part(d, chain)[m] = 1
  <1> DEFINE i == command.device   code == command.code   l == Total(chain)
             in == IrIn(chain, i, code)   p == Part(d, chain)
             b == Before(i, chain)   n == chain[i]   a == Before(d, chain)   k == chain[d]
  <1>1. l \in Nat /\ b \in Nat /\ n \in Nat \ {0} /\ a \in Nat /\ k \in Nat \ {0}
    BY Layout
  <1>2. Len(path) = l /\ \A m \in 1..l : path[m] = in[m]
    BY <1>1, ShiftsEnd
  <1>3. p \in Seq(Bit) /\ Len(p) = k /\ \A m \in 1..k : p[m] = path[a + m]
    <2>1. chain \in Seq(Nat) /\ d \in 1..Len(chain)
      BY ChainIs
    <2>2. Before(Len(chain) + 1, chain) <= Len(path)
      <3>1. l <= l
        <4> HIDE DEF l
        <4> QED BY SMT, <1>1
      <3> QED BY <1>2, <3>1 DEF Total
    <2> QED BY <2>1, <2>2, PartIs
  <1>4. a + k <= l
    <2>1. l - Before(d + 1, chain) \in Nat /\ Before(d + 1, chain) = a + k
      BY Layout
    <2> HIDE DEF l, a, k
    <2> QED BY SMT, <1>1, <2>1
  <1>5. /\ \A m \in 1..b : in[m] = 1
        /\ \A m \in 1..n : b + m \in 1..l /\ in[b + m] = BitsOf(code, n)[m]
        /\ \A m \in (b + n + 1)..l : in[m] = 1
    BY IrInIs
  <1>6. CASE d = i
    <2>1. a = b /\ k = n
      BY <1>6
    <2>2. BitsOf(code, n) \in Seq(Bit) /\ Len(BitsOf(code, n)) = n
      BY <1>1, BitsAreBits
    <2> HIDE DEF i, code, l, in, p, b, n, a, k
    <2>3. \A m \in 1..n : p[m] = BitsOf(code, n)[m]
      BY <1>2, <1>3, <1>5, <2>1
    <2>4. p = BitsOf(code, n)
      BY <1>3, <2>1, <2>2, <2>3, SeqEqual
    <2> QED BY <1>6, <2>1, <2>4 DEF i, code, p, k
  <1>7. CASE d # i
    <2>1. (d < i => a + k <= b) /\ (d > i => b + n <= a) /\ (d < i \/ d > i)
      <3>1. (d < i => a + k <= b) /\ (d > i => b + n <= a)
        BY Layout
      <3>2. d \in Nat /\ i \in Nat
        <4>1. Devices \subseteq Nat
          BY DEF Devices
        <4> QED BY <4>1
      <3> HIDE DEF i, b, n, a, k
      <3>3. d < i \/ d > i
        BY SMT, <1>7, <3>2
      <3> QED BY <3>1, <3>3
    <2> HIDE DEF i, code, l, in, p, b, n, a, k
    <2>2. ASSUME NEW m \in 1..k PROVE p[m] = 1
      <3>1. a + m \in 1..l /\ (a + m \in 1..b \/ a + m \in (b + n + 1)..l)
        BY SMT, <1>1, <1>4, <2>1
      <3>2. in[a + m] = 1
        BY <1>5, <3>1
      <3> QED BY <1>2, <1>3, <3>1, <3>2
    <2> QED BY <1>3, <1>7, <2>2 DEF i, p, k
  <1> QED BY <1>6, <1>7

LEMMA CommandIs ==
  ASSUME TypeInv, DescribedInv, described, phase \in {"ir", "ask"}
  PROVE  command.device \in Devices /\ command.code \in Nat
  <1>1. command.device \in Devices
    BY DEF TypeInv, WalkInv, DescribedInv, Devices
  <1>2. IrAbort \in Nat /\ IrDpacc \in Nat /\ IrApacc \in Nat /\ IrIdcode \in Nat
    BY SMT DEF IrAbort, IrDpacc, IrApacc, IrIdcode
  <1>3. command.code \in {IrAbort, IrDpacc, IrApacc, IrIdcode}
    BY DEF TypeInv, ProbeInv, Transfers, Identifications
  <1> QED BY <1>1, <1>2, <1>3

LEMMA CycleKeepsIr ==
  ASSUME TypeInv, DescribedInv, described, phase = "ir", IrInv, Cycle
  PROVE  IrInv'
  <1> DEFINE i == command.device   code == command.code   l == Total(chain)   n == Len(todo)
             in == IrIn(chain, i, code)   F == IrCycles(chain, i, code)   t == IrTap(chain)
             c == Head(todo)
  <1>1. i \in Devices /\ code \in Nat /\ chain \in Chains /\ path \in Seq(Bit) /\ todo \in Seq(Cycles)
    BY CommandIs DEF TypeInv, BoardInv, ProbeInv
  <1>2. /\ todo # <<>> /\ Clock(c.tms, c.tdi) /\ todo' = Tail(todo) /\ command' = command
        /\ bits' = IF c.read THEN Append(bits, IF Shifting THEN path[1] ELSE 1) ELSE bits
    BY DEF Cycle
  <1>3. /\ n <= l + 6 /\ Counts(todo, F, 0) /\ tap = t[n] /\ bits = <<>> /\ updates = <<>>
        /\ n \in 2..(l + 2) => Shifts(path, l, in, l + 2 - n, 0, <<>>)
        /\ n = 1 => Shifts(path, l, in, l, 0, <<>>)
    BY DEF IrInv
  <1>4. /\ c = F[n] /\ n \in Nat \ {0} /\ todo' \in Seq(Cycles) /\ Len(todo') = n - 1
        /\ Counts(todo', F, 0)
    BY <1>1, <1>2, <1>3, CountsOn
  <1>5. l \in Nat /\ l > 0
    <2>1. l \in Nat /\ Before(i, chain) \in Nat /\ chain[i] \in Nat \ {0} /\ l - Before(i + 1, chain) \in Nat
          /\ Before(i + 1, chain) = Before(i, chain) + chain[i]
      BY <1>1, Layout
    <2> HIDE DEF l, i
    <2> QED BY SMT, <2>1
  <1>6. /\ F[1] = Go(0) /\ F[2] = Go(1) /\ F[l + 3] = Go(0) /\ F[l + 4] = Go(0)
        /\ F[l + 5] = Go(1) /\ F[l + 6] = Go(1)
        /\ \A x \in 3..(l + 2) :
             F[x] = [tms |-> IF x = 3 THEN 1 ELSE 0, tdi |-> in[l + 3 - x], read |-> FALSE]
    BY <1>1, IrCyclesAre
  <1>7. /\ t[0] = "idle" /\ t[1] = "updateIr" /\ t[2] = "exit1Ir" /\ t[l + 3] = "captureIr"
        /\ t[l + 4] = "selectIr" /\ t[l + 5] = "selectDr" /\ t[l + 6] = "idle"
        /\ \A x \in 3..(l + 2) : t[x] = "shiftIr"
        /\ \A x \in 1..(l + 6) : Tap[t[x]][F[x].tms + 1] = t[x - 1]
    BY <1>1, IrTapMoves
  <1>8. \A m \in 1..l : in[m] \in Bit
    BY <1>1, IrInIs
  <1>9. /\ tap' = Tap[tap][c.tms + 1] /\ chain' = chain
        /\ tap # "updateDr" => updates' = updates
        /\ tap \in {"idle", "selectDr", "selectIr", "exit1Ir", "exit1Dr"} => path' = path
        /\ tap \in {"shiftIr", "shiftDr"} => path' = Append(Tail(path), c.tdi)
        /\ tap = "captureIr" =>
             path' = FlattenSeq([d \in Devices |-> <<1>> \o Fill(0, chain[d] - 1)])
        /\ tap = "updateIr" => ir' = [d \in Devices |-> Part(d, chain)]
    BY <1>2, ClockDoes
  <1>10. FlattenSeq([d \in Devices |-> <<1>> \o Fill(0, chain[d] - 1)]) \in Seq(Bit)
         /\ Len(FlattenSeq([d \in Devices |-> <<1>> \o Fill(0, chain[d] - 1)])) = l
    BY <1>1, InstructionsCaptured DEF Total
  <1>11. \A x : Go(x).read = FALSE
    BY DEF Go
  <1>a. n \in Nat /\ n <= l + 6 /\ l \in Nat
    BY <1>3, <1>4, <1>5
  <1> HIDE DEF l, n, in, F, t, c
  <1>12. (n = 0 \/ n = 1) \/ n = 2 \/ n = l + 6 \/ n = l + 5 \/ n = l + 4 \/ n = l + 3 \/ n \in 3..(l + 2)
    BY SMT, <1>a
  <1>13. c.read = FALSE /\ tap # "updateDr"
    <2>1. CASE n \in 3..(l + 2)
      <3>1. F[n] = [tms |-> IF n = 3 THEN 1 ELSE 0, tdi |-> in[l + 3 - n], read |-> FALSE]
        BY <1>6, <2>1
      <3>2. F[n].read = FALSE
        BY <3>1
      <3> QED BY <1>3, <1>4, <1>7, <2>1, <3>2
    <2>2. CASE n \notin 3..(l + 2)
      <3>1. n # 0
        BY <1>4
      <3>2. F[n] = Go(0) \/ F[n] = Go(1)
        BY <1>6, <1>12, <2>2, <3>1
      <3>3. F[n].read = FALSE
        BY <1>11, <3>2
      <3>4. tap # "updateDr"
        BY <1>3, <1>7, <1>12, <2>2, <3>1
      <3> QED BY <1>4, <3>3, <3>4
    <2> QED BY <2>1, <2>2
  <1>14. bits' = <<>> /\ updates' = <<>>
    BY <1>2, <1>3, <1>9, <1>13
  <1>15. n - 1 <= l + 6 /\ tap' = t[n - 1]
    <2>1. n \in 1..(l + 6) /\ n - 1 <= l + 6
      BY SMT, <1>3, <1>4, <1>5
    <2> QED BY <1>3, <1>4, <1>7, <1>9, <2>1
  <1>16. ASSUME n - 1 \in 2..(l + 2) PROVE Shifts(path', l, in, l + 2 - (n - 1), 0, <<>>)
    <2>1. CASE n = l + 3
      <3>1. Len(path') = l /\ 0 \in Nat
        BY <1>3, <1>7, <1>9, <1>10, <2>1
      <3>2. l + 2 - (n - 1) = 0
        BY SMT, <1>5, <2>1
      <3>3. \A m \in 1..Len(<<>>) : path'[0 + m] = <<>>[m]
        OBVIOUS
      <3> QED BY <1>5, <3>1, <3>2, <3>3, ShiftsBegin
    <2>2. CASE n \in 3..(l + 2)
      <3> DEFINE k == l + 2 - n
      <3>1. k \in Nat /\ k < l /\ k + 1 = l + 3 - n /\ k + 1 \in 1..l /\ l + 2 - (n - 1) = k + 1 /\ n \in 2..(l + 2)
        BY SMT, <1>5, <2>2
      <3>2. Shifts(path, l, in, k, 0, <<>>)
        BY <1>3, <3>1
      <3> HIDE DEF k
      <3>3. c.tdi = in[k + 1]
        <4>1. F[n] = [tms |-> IF n = 3 THEN 1 ELSE 0, tdi |-> in[l + 3 - n], read |-> FALSE]
          BY <1>6, <2>2
        <4>2. F[n].tdi = in[l + 3 - n]
          BY <4>1
        <4> QED BY <1>4, <3>1, <4>2
      <3>4. path' = Append(Tail(path), in[k + 1])
        BY <1>3, <1>7, <1>9, <2>2, <3>3
      <3>5. in[k + 1] \in Bit /\ <<>> \in Seq(Bit) /\ 0 \in Nat /\ Len(<<>>) = 0 /\ 0 + 0 <= l
        BY <1>5, <1>8, <3>1
      <3>6. Shifts(Append(Tail(path), in[k + 1]), l, in, k + 1, 0, <<>>)
        BY <1>1, <1>5, <3>1, <3>2, <3>5, ShiftsOn
      <3> QED BY <3>1, <3>4, <3>6
    <2>3. n = l + 3 \/ n \in 3..(l + 2)
      BY SMT, <1>4, <1>5, <1>16
    <2> QED BY <2>1, <2>2, <2>3
  <1>17. ASSUME n - 1 = 1 PROVE Shifts(path', l, in, l, 0, <<>>)
    <2>1. n = 2 /\ n \in 2..(l + 2) /\ l + 2 - n = l
      BY SMT, <1>4, <1>5, <1>17
    <2>2. path' = path
      BY <1>3, <1>7, <1>9, <2>1
    <2> QED BY <1>3, <2>1, <2>2
  <1>18. ASSUME n - 1 = 0 PROVE IrSet'
    <2>1. n = 1
      BY SMT, <1>4, <1>18
    <2>2. ir' = [d \in Devices |-> Part(d, chain)] /\ Shifts(path, l, in, l, 0, <<>>)
      BY <1>3, <1>7, <1>9, <2>1
    <2>3. \A d \in Devices :
            IF d = i THEN Part(d, chain) = BitsOf(code, chain[d])
            ELSE Len(Part(d, chain)) = chain[d] /\ \A m \in 1..chain[d] : Part(d, chain)[m] = 1
      BY <1>1, <2>2, IrUpdates DEF l, in
    <2>4. command' = command /\ chain' = chain /\ Devices' = Devices
      BY <1>2, <1>9 DEF Devices
    <2> HIDE DEF i, code
    <2>5. ASSUME NEW d \in Devices
          PROVE  IF d = i THEN ir'[d] = BitsOf(code, chain[d])
                 ELSE \A m \in 1..Len(ir'[d]) : ir'[d][m] = 1
      <3>1. ir'[d] = Part(d, chain)
        BY <2>2
      <3> QED BY <2>3, <3>1
    <2> QED BY <2>4, <2>5 DEF IrSet, Bypassed, i, code
  <1>19. Len(todo') = n - 1 /\ command' = command /\ chain' = chain
    BY <1>2, <1>4, <1>9
  <1> QED BY <1>4, <1>14, <1>15, <1>16, <1>17, <1>18, <1>19 DEF IrInv, l, in, F, t

-----------------------------------------------------------------------------
(***************************************************************************)
(* Data registers: the device asked for has a register on the path, all    *)
(* others one bit of bypass.                                               *)
(***************************************************************************)
LEMMA OneLong ==
  ASSUME NEW s \in Seq(Nat), NEW i \in 1..Len(s), \A e \in 1..Len(s) : e # i => s[e] = 1
  PROVE  Before(i, s) = i - 1 /\ Before(Len(s) + 1, s) = Len(s) - 1 + s[i]
  <1>1. Before(i, s) = i - 1
    <2>1. i \in 1..(Len(s) + 1) /\ \A e \in 1..(i - 1) : e \in 1..Len(s) /\ e # i
      BY SMT
    <2>2. \A e \in 1..(i - 1) : s[e] = 1
      BY <2>1
    <2> QED BY <2>1, <2>2, BeforeOnes
  <1> DEFINE T == {k \in Nat : i + 1 + k <= Len(s) + 1 => Before(i + 1 + k, s) = i - 1 + s[i] + k}
  <1>2. 0 \in T
    <2>1. i + 1 + 0 = i + 1 /\ 0 \in Nat /\ s[i] \in Nat
      BY SMT
    <2>2. Before(i + 1, s) = i - 1 + s[i]
      BY <1>1, BeforeIs
    <2>3. i - 1 + s[i] + 0 = i - 1 + s[i]
      BY SMT, <2>1
    <2> QED BY <2>1, <2>2, <2>3
  <1>3. ASSUME NEW k \in T PROVE k + 1 \in T
    <2>1. k \in Nat /\ k + 1 \in Nat /\ s[i] \in Nat
      BY SMT
    <2> SUFFICES ASSUME i + 1 + (k + 1) <= Len(s) + 1
                 PROVE  Before(i + 1 + (k + 1), s) = i - 1 + s[i] + (k + 1)
      BY <2>1
    <2> DEFINE e == i + 1 + k
    <2>2. i + 1 + k <= Len(s) + 1 /\ e \in 1..Len(s) /\ e # i /\ i + 1 + (k + 1) = e + 1
      BY SMT, <2>1
    <2>3. Before(e, s) = i - 1 + s[i] + k
      BY <2>2
    <2> HIDE DEF e
    <2>4. Before(e + 1, s) = (i - 1 + s[i] + k) + 1
      <3>1. Before(e + 1, s) = Before(e, s) + s[e] /\ s[e] = 1
        BY <2>2, BeforeIs
      <3> QED BY <2>3, <3>1
    <2>5. (i - 1 + s[i] + k) + 1 = i - 1 + s[i] + (k + 1)
      <3> DEFINE v == s[i]
      <3>1. v \in Nat /\ i \in Nat
        BY <2>1
      <3> HIDE DEF v, T
      <3>2. (i - 1 + v + k) + 1 = i - 1 + v + (k + 1)
        BY SMT, <2>1, <3>1
      <3> QED BY <3>2 DEF v
    <2> QED BY <2>2, <2>4, <2>5
  <1>4. T \in SUBSET Nat
    OBVIOUS
  <1> HIDE DEF T
  <1>5. T = Nat
    BY <1>2, <1>3, <1>4, InductionOnSet
  <1> DEFINE j == Len(s) - i
  <1>6. j \in Nat /\ i + 1 + j = Len(s) + 1 /\ i + 1 + j <= Len(s) + 1 /\ s[i] \in Nat
    BY SMT
  <1>7. Before(i + 1 + j, s) = i - 1 + s[i] + j
    BY <1>5, <1>6 DEF T
  <1>8. i - 1 + s[i] + j = Len(s) - 1 + s[i]
    BY SMT, <1>6
  <1> QED BY <1>1, <1>6, <1>7, <1>8

\* Instructions of a debug port are told from each other, and from bypass, by their
\* first and third bits.
LEMMA CodesDiffer ==
  ASSUME NEW n \in Nat, n >= 3
  PROVE  /\ BitsOf(IrAbort, n)[1] = 0 /\ BitsOf(IrDpacc, n)[1] = 0 /\ BitsOf(IrIdcode, n)[1] = 0
         /\ BitsOf(IrAbort, n)[3] = 0 /\ BitsOf(IrDpacc, n)[3] = 0 /\ BitsOf(IrApacc, n)[3] = 0
         /\ BitsOf(IrIdcode, n)[3] = 1
  <1>1. Pow2[0] = 1 /\ Pow2[2] = 4
    <2>1. 0 + 1 = 1 /\ 1 + 1 = 2 /\ 0 \in Nat /\ 1 \in Nat
      OBVIOUS
    <2>2. Pow2[1] = 2 * 1 /\ Pow2[2] = 2 * Pow2[1]
      BY <2>1, Pow2Grows
    <2>3. Pow2[2] = 2 * (2 * 1)
      BY <2>2
    <2> QED BY <2>3, Pow2Grows
  <1>2. 1 \in 1..n /\ 3 \in 1..n /\ 1 - 1 = 0 /\ 3 - 1 = 2
    BY SMT
  <1>3. ASSUME NEW v \in Nat
        PROVE  BitsOf(v, n)[1] = (v \div 1) % 2 /\ BitsOf(v, n)[3] = (v \div 4) % 2
    <2>1. \A q \in 1..n : BitsOf(v, n)[q] = (v \div Pow2[q - 1]) % 2
      BY BitsAreBits
    <2> QED BY <1>1, <1>2, <2>1
  <1>4. /\ (8 \div 1) % 2 = 0 /\ (10 \div 1) % 2 = 0 /\ (14 \div 1) % 2 = 0
        /\ (8 \div 4) % 2 = 0 /\ (10 \div 4) % 2 = 0 /\ (11 \div 4) % 2 = 0 /\ (14 \div 4) % 2 = 1
    BY SMT
  <1>5. 8 \in Nat /\ 10 \in Nat /\ 11 \in Nat /\ 14 \in Nat
    OBVIOUS
  <1> QED BY <1>3, <1>4, <1>5 DEF IrAbort, IrDpacc, IrApacc, IrIdcode

Answered(o) == BitsOf(o.ack, 3) \o BitsOf(o.word, WordBits)

\* Devices that are bypassed capture one bit; the device asked for answers.
LEMMA WhoCaptures ==
  ASSUME chain \in Chains, command.device \in Devices, IrSet, NEW o
  PROVE  /\ \A d \in Devices : d # command.device => ~Accessing(d) /\ Captured(d, o) = <<0>>
         /\ command.code \in {IrAbort, IrDpacc, IrApacc} /\ chain[command.device] = DpLength =>
              Accessing(command.device) /\ Captured(command.device, o) = Answered(o)
         /\ command.code = IrIdcode /\ chain[command.device] >= DpLength =>
              Captured(command.device, o) = BitsOf(Idcode(command.device), WordBits)
  <1> DEFINE i == command.device
  <1>1. DpLength \in Nat /\ DpLength >= 3
    BY SMT, SizesAreLegal
  <1>2. 1 \in 1..DpLength /\ 3 \in 1..DpLength
    BY SMT, <1>1
  <1>3. IrAbort \in Nat /\ IrDpacc \in Nat /\ IrApacc \in Nat /\ IrIdcode \in Nat
    BY SMT DEF IrAbort, IrDpacc, IrApacc, IrIdcode
  <1>4. \A c \in {IrAbort, IrDpacc, IrApacc} :
          Len(BitsOf(c, DpLength)) = DpLength /\ (BitsOf(c, DpLength)[1] # 1 \/ BitsOf(c, DpLength)[3] # 1)
    <2>1. /\ BitsOf(IrAbort, DpLength)[1] = 0 /\ BitsOf(IrDpacc, DpLength)[1] = 0
          /\ BitsOf(IrApacc, DpLength)[3] = 0
      BY <1>1, CodesDiffer
    <2>2. /\ Len(BitsOf(IrAbort, DpLength)) = DpLength /\ Len(BitsOf(IrDpacc, DpLength)) = DpLength
          /\ Len(BitsOf(IrApacc, DpLength)) = DpLength
      BY <1>1, <1>3, BitsAreBits
    <2>3. 0 # 1
      OBVIOUS
    <2> QED BY <2>1, <2>2, <2>3
  <1>5. ASSUME NEW d \in Devices, d # i PROVE ~Accessing(d) /\ Captured(d, o) = <<0>>
    <2>1. Bypassed(d)
      BY <1>5 DEF IrSet
    <2>2. \A c \in {IrAbort, IrDpacc, IrApacc} : ir[d] # BitsOf(c, DpLength)
      BY <1>2, <1>4, <2>1 DEF Bypassed
    <2>3. ~Accessing(d)
      BY <2>2 DEF Accessing
    <2> QED BY <2>1, <2>3 DEF Captured
  <1>6. ASSUME command.code \in {IrAbort, IrDpacc, IrApacc}, chain[i] = DpLength
        PROVE  Accessing(i) /\ Captured(i, o) = Answered(o)
    <2>1. ir[i] = BitsOf(command.code, DpLength)
      BY <1>6 DEF IrSet
    <2>2. Accessing(i)
      BY <1>6, <2>1 DEF Accessing
    <2> QED BY <2>2 DEF Captured, Answered
  <1>7. ASSUME command.code = IrIdcode, chain[i] >= DpLength
        PROVE  Captured(i, o) = BitsOf(Idcode(i), WordBits)
    <2>0. chain[i] \in Nat
      BY ChainIs
    <2>1. chain[i] \in Nat /\ chain[i] >= 3
      <3> DEFINE m == chain[i]
      <3>1. m \in Nat /\ m >= DpLength
        BY <1>7, <2>0
      <3> HIDE DEF m
      <3>2. m >= 3
        BY SMT, <1>1, <3>1
      <3> QED BY <2>0, <3>2 DEF m
    <2>2. ir[i] = BitsOf(IrIdcode, chain[i])
      BY <1>7 DEF IrSet
    <2>3. ir[i][1] = 0 /\ ir[i][3] = 1 /\ Len(ir[i]) = chain[i]
      <3> DEFINE m == chain[i]
      <3>1. m \in Nat /\ m >= 3
        BY <2>1
      <3> HIDE DEF m
      <3>2. BitsOf(IrIdcode, m)[1] = 0 /\ BitsOf(IrIdcode, m)[3] = 1
        BY <3>1, CodesDiffer
      <3>3. Len(BitsOf(IrIdcode, m)) = m
        BY <1>3, <3>1, BitsAreBits
      <3> QED BY <2>2, <3>2, <3>3 DEF m
    <2>4. ~Accessing(i)
      <3>1. \A c \in {IrAbort, IrDpacc, IrApacc} : BitsOf(c, DpLength)[3] = 0
        BY <1>1, CodesDiffer
      <3>2. 0 # 1
        OBVIOUS
      <3> QED BY <2>3, <3>1, <3>2 DEF Accessing
    <2>5. ~Bypassed(i)
      <3>1. 1 \in 1..Len(ir[i])
        <4> DEFINE m == chain[i]
        <4>1. m \in Nat /\ m >= 3
          BY <2>1
        <4> HIDE DEF m
        <4>2. 1 \in 1..m
          BY SMT, <4>1
        <4> QED BY <2>3, <4>2 DEF m
      <3> QED BY <2>3, <3>1 DEF Bypassed
    <2>6. Identifying(i)
      BY <2>2 DEF Identifying
    <2> QED BY <2>4, <2>5, <2>6 DEF Captured
  <1> QED BY <1>5, <1>6, <1>7

\* The path when data are captured.
LEMMA PathCaptured ==
  ASSUME chain \in Chains, command.device \in Devices, IrSet, NEW o, o.ack \in Nat, o.word \in Nat,
         NEW out, out \in Seq(Bit), Captured(command.device, o) = out
  PROVE  /\ FlattenSeq(CapturedAll(o)) \in Seq(Bit)
         /\ Len(FlattenSeq(CapturedAll(o))) = Len(chain) - 1 + Len(out)
         /\ \A m \in 1..Len(out) : FlattenSeq(CapturedAll(o))[(command.device - 1) + m] = out[m]
         /\ Before(command.device, CapturedLengths(o)) = command.device - 1
         /\ Before(Len(chain) + 1, CapturedLengths(o)) = Len(chain) - 1 + Len(out)
  <1> DEFINE i == command.device   s == CapturedLengths(o)   p == FlattenSeq(CapturedAll(o))
  <1>1. /\ s \in Seq(Nat) /\ Len(s) = Len(chain) /\ p \in Seq(Bit)
        /\ Len(p) = Before(Len(chain) + 1, s)
        /\ \A m \in 1..Len(out) : p[Before(i, s) + m] = out[m]
    BY DataCaptured
  <1>2. Devices = 1..Len(chain) /\ i \in 1..Len(s)
    BY <1>1, ChainIs
  <1>3. \A e \in 1..Len(s) : s[e] = Len(Captured(e, o))
    BY <1>1, <1>2 DEF CapturedLengths
  <1>4. \A e \in 1..Len(s) : e # i => s[e] = 1
    <2>1. \A e \in 1..Len(s) : e # i => Captured(e, o) = <<0>>
      BY <1>1, <1>2, WhoCaptures
    <2>2. Len(<<0>>) = 1
      OBVIOUS
    <2> QED BY <1>3, <2>1, <2>2
  <1>5. s[i] = Len(out)
    BY <1>2, <1>3
  <1> HIDE DEF s
  <1>6. Before(i, s) = i - 1 /\ Before(Len(s) + 1, s) = Len(s) - 1 + s[i]
    BY <1>1, <1>2, <1>4, OneLong
  <1> HIDE DEF i, p
  <1> QED BY <1>1, <1>5, <1>6 DEF i, p, s

-----------------------------------------------------------------------------
(***************************************************************************)
(* The walks through the data registers, counted from their last cycles.   *)
(***************************************************************************)

\* The cycles of the walks through the data registers, and the states they go
\* through, by how many are left.
AskCycles(i, r) ==
  [x \in 1..(i + 5) |->
     IF x <= 3 THEN [tms |-> 0, tdi |-> r[4 - x], read |-> TRUE]
     ELSE IF x = i + 5 THEN Go(1) ELSE Go(0)]

AskTap(i) ==
  [n \in 0..(i + 5) |->
     IF n = i + 5 THEN "idle" ELSE IF n = i + 4 THEN "selectDr"
     ELSE IF n = i + 3 THEN "captureDr" ELSE "shiftDr"]

DataCycles(e, read, b) ==
  [x \in 1..(IdleCycles + 2 + (WordBits + e)) |->
     IF x <= IdleCycles + 1 THEN Go(0) ELSE IF x = IdleCycles + 2 THEN Go(1)
     ELSE LET y == x - (IdleCycles + 2)   j == WordBits + e + 1 - y
          IN  [tms  |-> IF y = 1 THEN 1 ELSE 0,
               tdi  |-> IF j <= WordBits THEN b[j] ELSE 1,
               read |-> read /\ j <= WordBits]]

RefusedCycles == [x \in 1..(IdleCycles + 3) |-> IF x <= IdleCycles + 1 THEN Go(0) ELSE Go(1)]

EndTap ==
  [n \in Nat |->
     IF n <= IdleCycles THEN "idle" ELSE IF n = IdleCycles + 1 THEN "updateDr"
     ELSE IF n = IdleCycles + 2 THEN "exit1Dr" ELSE "shiftDr"]

IdcodeCycles(i) ==
  [x \in 1..(WordBits + i + 4) |->
     IF x = 1 THEN Go(0) ELSE IF x = 2 \/ x = WordBits + i + 4 THEN Go(1)
     ELSE IF x <= WordBits + 2 THEN [tms |-> IF x = 3 THEN 1 ELSE 0, tdi |-> 1, read |-> TRUE]
     ELSE Go(0)]

IdcodeTap(i) ==
  [n \in 0..(WordBits + i + 4) |->
     IF n = 0 \/ n = WordBits + i + 4 THEN "idle"
     ELSE IF n = 1 THEN "updateDr" ELSE IF n = 2 THEN "exit1Dr"
     ELSE IF n = WordBits + i + 3 THEN "selectDr" ELSE IF n = WordBits + i + 2 THEN "captureDr"
     ELSE "shiftDr"]

LEMMA ToDrCounts ==
  ASSUME NEW i \in Nat \ {0}, NEW F, NEW k \in Nat,
         \A x \in 1..(i + 1) : F[k + x] = Go(0), F[k + (i + 2)] = Go(1)
  PROVE  ToDr(i) \in Seq(Cycles) /\ Len(ToDr(i)) = i + 2 /\ Counts(ToDr(i), F, k)
  <1> DEFINE j == i - 1   u == <<Go(1), Go(0), Go(0)>>   v == Fill(Go(0), j)
  <1>1. j \in Nat /\ i = j + 1 /\ i + 2 = 3 + j /\ k + j \in Nat
    BY SMT
  <1>2. u \in Seq(Cycles) /\ Len(u) = 3 /\ u[1] = Go(1) /\ u[2] = Go(0) /\ u[3] = Go(0)
    BY ShortWalks
  <1>3. v \in Seq(Cycles) /\ Len(v) = j /\ \A x \in 1..j : v[x] = Go(0)
    BY <1>1, FillIsWalk DEF Fill
  <1>4. ToDr(i) = u \o v
    BY DEF ToDr
  <1> HIDE DEF j, u, v
  <1>5. ASSUME NEW x \in 1..j PROVE v[j + 1 - x] = F[k + x]
    <2>1. j + 1 - x \in 1..j /\ x \in 1..(i + 1)
      BY SMT, <1>1
    <2> QED BY <1>3, <2>1
  <1>6. Counts(v, F, k)
    BY <1>3, <1>5 DEF Counts
  <1>7. ASSUME NEW x \in 1..3 PROVE u[3 + 1 - x] = F[(k + j) + x]
    <2>1. \/ x = 1 /\ 3 + 1 - x = 3 /\ (k + j) + x = k + i /\ i \in 1..(i + 1)
          \/ x = 2 /\ 3 + 1 - x = 2 /\ (k + j) + x = k + (i + 1) /\ i + 1 \in 1..(i + 1)
          \/ x = 3 /\ 3 + 1 - x = 1 /\ (k + j) + x = k + (i + 2)
      BY SMT, <1>1
    <2> QED BY <1>2, <2>1
  <1>8. Counts(u, F, k + Len(v))
    BY <1>2, <1>3, <1>7 DEF Counts
  <1>9. Len(u) + Len(v) = i + 2
    BY SMT, <1>1, <1>2, <1>3
  <1>10. Counts(u \o v, F, k) /\ u \o v \in Seq(Cycles) /\ Len(u \o v) = Len(u) + Len(v)
    BY <1>2, <1>3, <1>6, <1>8, CountsJoin
  <1> QED BY <1>4, <1>9, <1>10

LEMMA ShiftCounts ==
  ASSUME NEW b \in Seq(Bit), NEW e \in Nat, NEW read \in BOOLEAN, NEW F, NEW k \in Nat,
         \A y \in 1..(Len(b) + e) :
           F[k + y] = [tms  |-> IF y = 1 THEN 1 ELSE 0,
                       tdi  |-> IF Len(b) + e + 1 - y <= Len(b) THEN b[Len(b) + e + 1 - y] ELSE 1,
                       read |-> read /\ Len(b) + e + 1 - y <= Len(b)]
  PROVE  /\ Shift(b, e, read) \in Seq(Cycles) /\ Len(Shift(b, e, read)) = Len(b) + e
         /\ Counts(Shift(b, e, read), F, k)
  <1> DEFINE o == Len(b)   w == Shift(b, e, read)
  <1>1. o \in Nat
    BY LenProperties
  <1>2. w \in Seq(Cycles) /\ Len(w) = o + e
    BY ShiftIsWalk
  <1>3. \A j \in 1..(o + e) :
          w[j] = [tms |-> IF j = o + e THEN 1 ELSE 0, tdi |-> IF j <= o THEN b[j] ELSE 1,
                  read |-> read /\ j <= o]
    BY ShiftIsWalk
  <1>4. \A y \in 1..(o + e) :
          F[k + y] = [tms |-> IF y = 1 THEN 1 ELSE 0, tdi |-> IF o + e + 1 - y <= o THEN b[o + e + 1 - y] ELSE 1,
                      read |-> read /\ o + e + 1 - y <= o]
    OBVIOUS
  <1> HIDE DEF o, w
  <1>5. ASSUME NEW x \in 1..(o + e) PROVE w[(o + e) + 1 - x] = F[k + x]
    <2> DEFINE j == o + e + 1 - x
    <2>1. j \in 1..(o + e) /\ (j = o + e <=> x = 1)
      BY SMT, <1>1
    <2>2. F[k + x] = [tms |-> IF x = 1 THEN 1 ELSE 0, tdi |-> IF j <= o THEN b[j] ELSE 1, read |-> read /\ j <= o]
      BY <1>4
    <2> HIDE DEF j
    <2>3. w[j] = F[k + x]
      BY <1>3, <2>1, <2>2
    <2> QED BY <2>3 DEF j
  <1> QED BY <1>2, <1>5 DEF Counts, o, w

LEMMA EndCounts ==
  ASSUME NEW F, \A x \in 1..(IdleCycles + 1) : F[x] = Go(0), F[IdleCycles + 2] = Go(1)
  PROVE  EndWalk \in Seq(Cycles) /\ Len(EndWalk) = IdleCycles + 2 /\ Counts(EndWalk, F, 0)
  <1> DEFINE j == IdleCycles   u == <<Go(1), Go(0)>>   v == Fill(Go(0), j)
  <1>1. j \in Nat
    BY SizesAreLegal
  <1>2. u \in Seq(Cycles) /\ Len(u) = 2 /\ u[1] = Go(1) /\ u[2] = Go(0)
    BY ShortWalks
  <1>3. v \in Seq(Cycles) /\ Len(v) = j /\ \A x \in 1..j : v[x] = Go(0)
    BY <1>1, FillIsWalk DEF Fill
  <1>4. EndWalk = u \o v
    BY DEF EndWalk
  <1>f. (\A x \in 1..(j + 1) : F[x] = Go(0)) /\ F[j + 2] = Go(1)
    OBVIOUS
  <1> HIDE DEF j, u, v
  <1>5. ASSUME NEW x \in 1..j PROVE v[j + 1 - x] = F[0 + x]
    <2>1. j + 1 - x \in 1..j /\ x \in 1..(j + 1) /\ 0 + x = x
      BY SMT, <1>1
    <2> QED BY <1>3, <1>f, <2>1
  <1>6. Counts(v, F, 0)
    BY <1>3, <1>5 DEF Counts
  <1>7. ASSUME NEW x \in 1..2 PROVE u[2 + 1 - x] = F[(0 + j) + x]
    <2>1. \/ x = 1 /\ 2 + 1 - x = 2 /\ (0 + j) + x = j + 1 /\ j + 1 \in 1..(j + 1)
          \/ x = 2 /\ 2 + 1 - x = 1 /\ (0 + j) + x = j + 2
      BY SMT, <1>1
    <2> QED BY <1>2, <1>f, <2>1
  <1>8. Counts(u, F, 0 + Len(v))
    BY <1>2, <1>3, <1>7 DEF Counts
  <1>9. Len(u) + Len(v) = j + 2 /\ 0 \in Nat
    BY SMT, <1>1, <1>2, <1>3
  <1>10. Counts(u \o v, F, 0) /\ u \o v \in Seq(Cycles) /\ Len(u \o v) = Len(u) + Len(v)
    BY <1>2, <1>3, <1>6, <1>8, <1>9, CountsJoin
  <1> QED BY <1>4, <1>9, <1>10 DEF j

LEMMA AskCounts ==
  ASSUME NEW i \in Nat \ {0}, NEW r \in Requests
  PROVE  AskWalk(i, r) \in Seq(Cycles) /\ Len(AskWalk(i, r)) = i + 5 /\ Counts(AskWalk(i, r), AskCycles(i, r), 0)
  <1> DEFINE F == AskCycles(i, r)   v == [j \in 1..3 |-> [tms |-> 0, tdi |-> r[j], read |-> TRUE]]
             u == ToDr(i)
  <1>1. AskWalk(i, r) = u \o v
    BY DEF AskWalk
  <1>2. v \in Seq(Cycles) /\ Len(v) = 3 /\ \A j \in 1..3 : v[j] = [tms |-> 0, tdi |-> r[j], read |-> TRUE]
    <2>1. \A j \in 1..3 : [tms |-> 0, tdi |-> r[j], read |-> TRUE] \in Cycles
      BY RequestIs DEF Cycles, Bit
    <2> QED BY <2>1
  <1>3. /\ \A x \in 1..3 : F[x] = [tms |-> 0, tdi |-> r[4 - x], read |-> TRUE]
        /\ \A x \in 1..(i + 1) : F[3 + x] = Go(0)
        /\ F[3 + (i + 2)] = Go(1)
    <2>1. /\ \A x \in 1..3 : x \in 1..(i + 5) /\ x <= 3
          /\ \A x \in 1..(i + 1) : 3 + x \in 1..(i + 5) /\ ~(3 + x <= 3) /\ 3 + x # i + 5
          /\ 3 + (i + 2) \in 1..(i + 5) /\ ~(3 + (i + 2) <= 3) /\ 3 + (i + 2) = i + 5
      BY SMT
    <2> QED BY <2>1 DEF AskCycles
  <1> HIDE DEF F, v
  <1>4. u \in Seq(Cycles) /\ Len(u) = i + 2 /\ Counts(u, F, 3)
    BY <1>3, ToDrCounts
  <1> HIDE DEF u
  <1>5. ASSUME NEW x \in 1..3 PROVE v[3 + 1 - x] = F[0 + x]
    <2>1. 3 + 1 - x = 4 - x /\ 4 - x \in 1..3 /\ 0 + x = x
      BY SMT
    <2> QED BY <1>2, <1>3, <2>1
  <1>6. Counts(v, F, 0)
    BY <1>2, <1>5 DEF Counts
  <1>7. 0 \in Nat /\ 0 + 3 = 3 /\ (i + 2) + 3 = i + 5
    BY SMT
  <1>8. Counts(u, F, 0 + Len(v)) /\ Len(u) + Len(v) = i + 5
    BY <1>2, <1>4, <1>7
  <1>9. Counts(u \o v, F, 0) /\ u \o v \in Seq(Cycles) /\ Len(u \o v) = Len(u) + Len(v)
    BY <1>2, <1>4, <1>6, <1>7, <1>8, CountsJoin
  <1> QED BY <1>1, <1>8, <1>9 DEF F

LEMMA AskMoves ==
  ASSUME NEW i \in Nat \ {0}, NEW r
  PROVE  /\ AskTap(i)[i + 5] = "idle" /\ AskTap(i)[i + 4] = "selectDr" /\ AskTap(i)[i + 3] = "captureDr"
         /\ \A n \in 0..(i + 2) : AskTap(i)[n] = "shiftDr"
         /\ \A x \in 1..3 : AskCycles(i, r)[x] = [tms |-> 0, tdi |-> r[4 - x], read |-> TRUE]
         /\ \A x \in 4..(i + 4) : AskCycles(i, r)[x] = Go(0)
         /\ AskCycles(i, r)[i + 5] = Go(1)
         /\ \A n \in 1..(i + 5) : Tap[AskTap(i)[n]][AskCycles(i, r)[n].tms + 1] = AskTap(i)[n - 1]
  <1> DEFINE F == AskCycles(i, r)   t == AskTap(i)
  <1>1. /\ t[i + 5] = "idle" /\ t[i + 4] = "selectDr" /\ t[i + 3] = "captureDr"
        /\ \A n \in 0..(i + 2) : t[n] = "shiftDr"
    <2>1. /\ i + 5 \in 0..(i + 5) /\ i + 4 \in 0..(i + 5) /\ i + 3 \in 0..(i + 5)
          /\ i + 4 # i + 5 /\ i + 3 # i + 5 /\ i + 3 # i + 4
          /\ \A n \in 0..(i + 2) : n \in 0..(i + 5) /\ n # i + 5 /\ n # i + 4 /\ n # i + 3
      BY SMT
    <2> QED BY <2>1 DEF AskTap
  <1>2. /\ \A x \in 1..3 : F[x] = [tms |-> 0, tdi |-> r[4 - x], read |-> TRUE]
        /\ \A x \in 4..(i + 4) : F[x] = Go(0)
        /\ F[i + 5] = Go(1)
    <2>1. /\ \A x \in 1..3 : x \in 1..(i + 5) /\ x <= 3
          /\ \A x \in 4..(i + 4) : x \in 1..(i + 5) /\ ~(x <= 3) /\ x # i + 5
          /\ i + 5 \in 1..(i + 5) /\ ~(i + 5 <= 3)
      BY SMT
    <2> QED BY <2>1 DEF AskCycles
  <1> HIDE DEF F, t
  <1>3. ASSUME NEW n \in 1..(i + 5) PROVE Tap[t[n]][F[n].tms + 1] = t[n - 1]
    <2>1. CASE n = i + 5
      <3>1. n - 1 = i + 4
        BY SMT, <2>1
      <3> QED BY <1>1, <1>2, <2>1, <3>1, GoIs, TapSteps
    <2>2. CASE n \in 1..(i + 4)
      <3>1. F[n].tms = 0
        <4>1. n \in 1..3 \/ n \in 4..(i + 4)
          BY SMT, <2>2
        <4>2. ASSUME n \in 1..3 PROVE F[n].tms = 0
          <5>1. F[n] = [tms |-> 0, tdi |-> r[4 - n], read |-> TRUE]
            BY <1>2, <4>2
          <5> QED BY <5>1
        <4>3. ASSUME n \in 4..(i + 4) PROVE F[n].tms = 0
          BY <1>2, <4>3, GoIs
        <4> QED BY <4>1, <4>2, <4>3
      <3>2. \/ n = i + 4 /\ n - 1 = i + 3
            \/ n = i + 3 /\ n - 1 = i + 2 /\ i + 2 \in 0..(i + 2)
            \/ n \in 0..(i + 2) /\ n - 1 \in 0..(i + 2)
        BY SMT, <2>2
      <3> QED BY <1>1, <3>1, <3>2, TapSteps
    <2>3. n = i + 5 \/ n \in 1..(i + 4)
      BY SMT
    <2> QED BY <2>1, <2>2, <2>3
  <1> QED BY <1>1, <1>2, <1>3 DEF F, t

LEMMA DataCyclesAre ==
  ASSUME NEW e \in Nat, NEW read, NEW b
  PROVE  LET F == DataCycles(e, read, b)
         IN  /\ \A x \in 1..(IdleCycles + 1) : F[x] = Go(0)
             /\ F[IdleCycles + 2] = Go(1)
             /\ \A y \in 1..(WordBits + e) :
                  F[(IdleCycles + 2) + y] =
                    [tms  |-> IF y = 1 THEN 1 ELSE 0,
                     tdi  |-> IF WordBits + e + 1 - y <= WordBits THEN b[WordBits + e + 1 - y] ELSE 1,
                     read |-> read /\ WordBits + e + 1 - y <= WordBits]
  <1> DEFINE j == IdleCycles   w == WordBits
             c(y) == [tms  |-> IF y = 1 THEN 1 ELSE 0,
                      tdi  |-> IF w + e + 1 - y <= w THEN b[w + e + 1 - y] ELSE 1,
                      read |-> read /\ w + e + 1 - y <= w]
             F == DataCycles(e, read, b)
  <1>1. j \in Nat /\ w \in Nat
    BY SizesAreLegal
  <1>2. F = [x \in 1..(j + 2 + (w + e)) |->
               IF x <= j + 1 THEN Go(0) ELSE IF x = j + 2 THEN Go(1) ELSE c(x - (j + 2))]
    BY DEF DataCycles
  <1> HIDE DEF j, w, c, F
  <1>3. /\ \A x \in 1..(j + 1) : x \in 1..(j + 2 + (w + e)) /\ x <= j + 1
        /\ j + 2 \in 1..(j + 2 + (w + e)) /\ ~(j + 2 <= j + 1)
        /\ \A y \in 1..(w + e) :
             /\ (j + 2) + y \in 1..(j + 2 + (w + e)) /\ ~((j + 2) + y <= j + 1) /\ (j + 2) + y # j + 2
             /\ ((j + 2) + y) - (j + 2) = y
    BY SMT, <1>1
  <1>4. /\ \A x \in 1..(j + 1) : F[x] = Go(0)
        /\ F[j + 2] = Go(1)
        /\ \A y \in 1..(w + e) : F[(j + 2) + y] = c(y)
    BY <1>2, <1>3
  <1> QED BY <1>4 DEF j, w, c, F

LEMMA DataCounts ==
  ASSUME NEW b \in Seq(Bit), Len(b) = WordBits, NEW e \in Nat, NEW read \in BOOLEAN
  PROVE  /\ Counts(Shift(b, e, read) \o EndWalk, DataCycles(e, read, b), 0)
         /\ Len(Shift(b, e, read) \o EndWalk) = IdleCycles + 2 + (WordBits + e)
  <1> DEFINE F == DataCycles(e, read, b)   u == Shift(b, e, read)   v == EndWalk
  <1>1. /\ \A x \in 1..(IdleCycles + 1) : F[x] = Go(0)
        /\ F[IdleCycles + 2] = Go(1)
        /\ \A y \in 1..(WordBits + e) :
             F[(IdleCycles + 2) + y] =
               [tms  |-> IF y = 1 THEN 1 ELSE 0,
                tdi  |-> IF WordBits + e + 1 - y <= WordBits THEN b[WordBits + e + 1 - y] ELSE 1,
                read |-> read /\ WordBits + e + 1 - y <= WordBits]
    BY DataCyclesAre
  <1> HIDE DEF F
  <1>2. v \in Seq(Cycles) /\ Len(v) = IdleCycles + 2 /\ Counts(v, F, 0)
    BY <1>1, EndCounts
  <1>3. IdleCycles + 2 \in Nat
    BY SMT, SizesAreLegal
  <1>4. u \in Seq(Cycles) /\ Len(u) = WordBits + e /\ Counts(u, F, IdleCycles + 2)
    <2>1. \A y \in 1..(Len(b) + e) :
            F[(IdleCycles + 2) + y] =
              [tms  |-> IF y = 1 THEN 1 ELSE 0,
               tdi  |-> IF Len(b) + e + 1 - y <= Len(b) THEN b[Len(b) + e + 1 - y] ELSE 1,
               read |-> read /\ Len(b) + e + 1 - y <= Len(b)]
      BY <1>1, Zenon
    <2>2. u \in Seq(Cycles) /\ Len(u) = Len(b) + e /\ Counts(u, F, IdleCycles + 2)
      BY <1>3, <2>1, ShiftCounts
    <2> QED BY <2>2
  <1>5. 0 + (IdleCycles + 2) = IdleCycles + 2 /\ 0 \in Nat
    BY SMT, <1>3
  <1>6. Counts(u, F, 0 + Len(v))
    BY <1>2, <1>4, <1>5
  <1> HIDE DEF u, v
  <1>7. Counts(u \o v, F, 0) /\ Len(u \o v) = Len(u) + Len(v)
    BY <1>2, <1>4, <1>5, <1>6, CountsJoin
  <1>8. Len(u) + Len(v) = IdleCycles + 2 + (WordBits + e)
    BY SMT, <1>2, <1>4, SizesAreLegal
  <1> QED BY <1>7, <1>8 DEF u, v, F

\* The states at the end of a walk through data registers.
LEMMA EndTapIs ==
  /\ \A n \in 0..IdleCycles : EndTap[n] = "idle"
  /\ EndTap[IdleCycles + 1] = "updateDr" /\ EndTap[IdleCycles + 2] = "exit1Dr"
  /\ \A n \in Nat : n > IdleCycles + 2 => EndTap[n] = "shiftDr"
  <1>1. /\ \A n \in 0..IdleCycles : n \in Nat /\ n <= IdleCycles
        /\ IdleCycles + 1 \in Nat /\ ~(IdleCycles + 1 <= IdleCycles)
        /\ IdleCycles + 2 \in Nat /\ ~(IdleCycles + 2 <= IdleCycles) /\ IdleCycles + 2 # IdleCycles + 1
        /\ \A n \in Nat : n > IdleCycles + 2 =>
             ~(n <= IdleCycles) /\ n # IdleCycles + 1 /\ n # IdleCycles + 2
    BY SMT, SizesAreLegal
  <1> QED BY <1>1 DEF EndTap

\* From the last bit of data on.
LEMMA EndMoves ==
  ASSUME NEW F, \A x \in 1..(IdleCycles + 1) : F[x] = Go(0), F[IdleCycles + 2] = Go(1),
         F[IdleCycles + 3].tms = 1, NEW n \in 1..(IdleCycles + 3)
  PROVE  Tap[EndTap[n]][F[n].tms + 1] = EndTap[n - 1]
  <1>1. \/ n \in 1..IdleCycles /\ n - 1 \in 0..IdleCycles /\ n \in 0..IdleCycles /\ n \in 1..(IdleCycles + 1)
        \/ n = IdleCycles + 1 /\ n - 1 = IdleCycles /\ IdleCycles \in 0..IdleCycles /\ n \in 1..(IdleCycles + 1)
        \/ n = IdleCycles + 2 /\ n - 1 = IdleCycles + 1
        \/ n = IdleCycles + 3 /\ n - 1 = IdleCycles + 2 /\ n \in Nat /\ n > IdleCycles + 2
    BY SMT, SizesAreLegal
  <1> QED BY <1>1, EndTapIs, GoIs, TapSteps

LEMMA DataMoves ==
  ASSUME NEW e \in Nat, NEW read, NEW b, NEW n \in 1..(IdleCycles + 2 + (WordBits + e))
  PROVE  Tap[EndTap[n]][DataCycles(e, read, b)[n].tms + 1] = EndTap[n - 1]
  <1> DEFINE F == DataCycles(e, read, b)   j == IdleCycles   w == WordBits
  <1>1. /\ \A x \in 1..(j + 1) : F[x] = Go(0)
        /\ F[j + 2] = Go(1)
        /\ \A y \in 1..(w + e) :
             F[(j + 2) + y] =
               [tms  |-> IF y = 1 THEN 1 ELSE 0,
                tdi  |-> IF w + e + 1 - y <= w THEN b[w + e + 1 - y] ELSE 1,
                read |-> read /\ w + e + 1 - y <= w]
    BY DataCyclesAre
  <1>2. j \in Nat /\ w \in Nat \ {0}
    BY SizesAreLegal
  <1>3. ASSUME NEW y \in 1..(w + e) PROVE F[(j + 2) + y].tms = IF y = 1 THEN 1 ELSE 0
    <2>1. F[(j + 2) + y] =
            [tms  |-> IF y = 1 THEN 1 ELSE 0,
             tdi  |-> IF w + e + 1 - y <= w THEN b[w + e + 1 - y] ELSE 1,
             read |-> read /\ w + e + 1 - y <= w]
      BY <1>1
    <2> HIDE DEF F
    <2> QED BY <2>1
  <1> HIDE DEF F
  <1>4. F[j + 3].tms = 1
    <2> HIDE DEF j, w
    <2>1. 1 \in 1..(w + e) /\ (j + 2) + 1 = j + 3
      BY SMT, <1>2
    <2> QED BY <1>3, <2>1
  <1> SUFFICES Tap[EndTap[n]][F[n].tms + 1] = EndTap[n - 1]
    BY DEF F
  <1>5. CASE n \in 1..(j + 3)
    BY <1>1, <1>4, <1>5, EndMoves
  <1>6. CASE n \notin 1..(j + 3)
    <2> HIDE DEF j, w
    <2>1. /\ n - (j + 2) \in 1..(w + e) /\ n - (j + 2) # 1 /\ (j + 2) + (n - (j + 2)) = n
          /\ n \in Nat /\ n > j + 2 /\ n - 1 \in Nat /\ n - 1 > j + 2
      BY SMT, <1>2, <1>6 DEF j, w
    <2>2. F[n].tms = 0
      BY <1>3, <2>1
    <2>3. EndTap[n] = "shiftDr" /\ EndTap[n - 1] = "shiftDr"
      BY <2>1, EndTapIs DEF j
    <2> QED BY <2>2, <2>3, TapSteps
  <1> QED BY <1>5, <1>6

LEMMA RefusedCounts ==
  /\ Counts(RefusedWalk \o EndWalk, RefusedCycles, 0)
  /\ Len(RefusedWalk \o EndWalk) = IdleCycles + 3
  /\ \A x \in 1..(IdleCycles + 1) : RefusedCycles[x] = Go(0)
  /\ RefusedCycles[IdleCycles + 2] = Go(1) /\ RefusedCycles[IdleCycles + 3] = Go(1)
  <1> DEFINE F == RefusedCycles   u == <<Go(1)>>   v == EndWalk
  <1>1. /\ \A x \in 1..(IdleCycles + 1) : F[x] = Go(0)
        /\ F[IdleCycles + 2] = Go(1) /\ F[IdleCycles + 3] = Go(1)
    <2>1. /\ \A x \in 1..(IdleCycles + 1) : x \in 1..(IdleCycles + 3) /\ x <= IdleCycles + 1
          /\ IdleCycles + 2 \in 1..(IdleCycles + 3) /\ ~(IdleCycles + 2 <= IdleCycles + 1)
          /\ IdleCycles + 3 \in 1..(IdleCycles + 3) /\ ~(IdleCycles + 3 <= IdleCycles + 1)
      BY SMT, SizesAreLegal
    <2> QED BY <2>1 DEF RefusedCycles
  <1> HIDE DEF F
  <1>2. v \in Seq(Cycles) /\ Len(v) = IdleCycles + 2 /\ Counts(v, F, 0)
    BY <1>1, EndCounts
  <1>3. u \in Seq(Cycles) /\ Len(u) = 1 /\ u[1] = Go(1)
    BY ShortWalks
  <1> HIDE DEF u, v
  <1>4. /\ 0 \in Nat /\ Len(u) + Len(v) = IdleCycles + 3
        /\ \A x \in 1..1 : 1 + 1 - x = 1 /\ (0 + (IdleCycles + 2)) + x = IdleCycles + 3
    BY SMT, <1>2, <1>3, SizesAreLegal
  <1>5. Counts(u, F, 0 + Len(v))
    BY <1>1, <1>2, <1>3, <1>4 DEF Counts
  <1>6. Counts(u \o v, F, 0) /\ Len(u \o v) = Len(u) + Len(v)
    BY <1>2, <1>3, <1>4, <1>5, CountsJoin
  <1> QED BY <1>1, <1>4, <1>6 DEF F, u, v, RefusedWalk

LEMMA RefusedMoves ==
  ASSUME NEW n \in 1..(IdleCycles + 3)
  PROVE  Tap[EndTap[n]][RefusedCycles[n].tms + 1] = EndTap[n - 1]
  BY RefusedCounts, EndMoves, GoIs

LEMMA IdcodeCyclesAre ==
  ASSUME NEW i \in Nat \ {0}
  PROVE  LET F == IdcodeCycles(i)
         IN  /\ F[1] = Go(0) /\ F[2] = Go(1) /\ F[WordBits + i + 4] = Go(1)
             /\ \A x \in 3..(WordBits + 2) : F[x] = [tms |-> IF x = 3 THEN 1 ELSE 0, tdi |-> 1, read |-> TRUE]
             /\ \A x \in (WordBits + 3)..(WordBits + i + 3) : F[x] = Go(0)
  <1> DEFINE w == WordBits   F == IdcodeCycles(i)
  <1>1. w \in Nat
    BY SizesAreLegal
  <1>2. F = [x \in 1..(w + i + 4) |->
               IF x = 1 THEN Go(0) ELSE IF x = 2 \/ x = w + i + 4 THEN Go(1)
               ELSE IF x <= w + 2 THEN [tms |-> IF x = 3 THEN 1 ELSE 0, tdi |-> 1, read |-> TRUE]
               ELSE Go(0)]
    BY DEF IdcodeCycles
  <1> HIDE DEF w, F
  <1>3. /\ 1 \in 1..(w + i + 4) /\ 2 \in 1..(w + i + 4) /\ w + i + 4 \in 1..(w + i + 4) /\ w + i + 4 # 1 /\ 2 # 1
        /\ \A x \in 3..(w + 2) : x \in 1..(w + i + 4) /\ x # 1 /\ x # 2 /\ x # w + i + 4 /\ x <= w + 2
        /\ \A x \in (w + 3)..(w + i + 3) : x \in 1..(w + i + 4) /\ x # 1 /\ x # 2 /\ x # w + i + 4 /\ ~(x <= w + 2)
    BY SMT, <1>1
  <1>4. F[1] = Go(0) /\ F[2] = Go(1) /\ F[w + i + 4] = Go(1)
    BY <1>2, <1>3
  <1>5. ASSUME NEW x \in 3..(w + 2) PROVE F[x] = [tms |-> IF x = 3 THEN 1 ELSE 0, tdi |-> 1, read |-> TRUE]
    BY <1>2, <1>3
  <1>6. ASSUME NEW x \in (w + 3)..(w + i + 3) PROVE F[x] = Go(0)
    BY <1>2, <1>3
  <1> QED BY <1>4, <1>5, <1>6 DEF w, F

LEMMA IdcodeCounts ==
  ASSUME NEW i \in Nat \ {0}
  PROVE  Counts(IdcodeWalk(i), IdcodeCycles(i), 0) /\ Len(IdcodeWalk(i)) = WordBits + i + 4
  <1> DEFINE F == IdcodeCycles(i)   w == WordBits   b == Fill(1, w)
             u == ToDr(i)   s == Shift(b, 0, TRUE)   v == <<Go(1), Go(0)>>
  <1>1. /\ F[1] = Go(0) /\ F[2] = Go(1) /\ F[w + i + 4] = Go(1)
        /\ \A x \in 3..(w + 2) : F[x] = [tms |-> IF x = 3 THEN 1 ELSE 0, tdi |-> 1, read |-> TRUE]
        /\ \A x \in (w + 3)..(w + i + 3) : F[x] = Go(0)
    BY IdcodeCyclesAre
  <1>2. w \in Nat /\ b \in Seq(Bit) /\ Len(b) = w /\ \A j \in 1..w : b[j] = 1
    BY SizesAreLegal, OnesAreBits
  <1>3. IdcodeWalk(i) = (u \o s) \o v
    BY DEF IdcodeWalk
  <1>4. v \in Seq(Cycles) /\ Len(v) = 2 /\ v[1] = Go(1) /\ v[2] = Go(0)
    BY ShortWalks
  <1> HIDE DEF F, w, b, v
  <1>5. Counts(v, F, 0)
    <2>1. ASSUME NEW x \in 1..2 PROVE v[2 + 1 - x] = F[0 + x]
      <3>1. (x = 1 /\ 2 + 1 - x = 2 /\ 0 + x = 1) \/ (x = 2 /\ 2 + 1 - x = 1 /\ 0 + x = 2)
        BY SMT
      <3> QED BY <1>1, <1>4, <3>1
    <2> QED BY <1>4, <2>1 DEF Counts
  <1>6. ASSUME NEW y \in 1..(Len(b) + 0)
        PROVE  F[2 + y] = [tms  |-> IF y = 1 THEN 1 ELSE 0,
                           tdi  |-> IF Len(b) + 0 + 1 - y <= Len(b) THEN b[Len(b) + 0 + 1 - y] ELSE 1,
                           read |-> TRUE /\ Len(b) + 0 + 1 - y <= Len(b)]
    <2> DEFINE j == Len(b) + 0 + 1 - y
    <2>1. j <= Len(b) /\ j \in 1..w /\ 2 + y \in 3..(w + 2) /\ (2 + y = 3 <=> y = 1)
      BY SMT, <1>2
    <2>2. b[j] = 1
      BY <1>2, <2>1
    <2>3. F[2 + y] = [tms |-> IF 2 + y = 3 THEN 1 ELSE 0, tdi |-> 1, read |-> TRUE]
      BY <1>1, <2>1
    <2>4. (IF 2 + y = 3 THEN 1 ELSE 0) = (IF y = 1 THEN 1 ELSE 0)
      BY <2>1
    <2> HIDE DEF j
    <2>5. F[2 + y] = [tms |-> IF y = 1 THEN 1 ELSE 0, tdi |-> IF j <= Len(b) THEN b[j] ELSE 1,
                      read |-> TRUE /\ j <= Len(b)]
      BY <2>1, <2>2, <2>3, <2>4
    <2> QED BY <2>5 DEF j
  <1>7. s \in Seq(Cycles) /\ Len(s) = Len(b) + 0 /\ Counts(s, F, 2)
    <2>1. 0 \in Nat /\ 2 \in Nat /\ TRUE \in BOOLEAN
      OBVIOUS
    <2> QED BY <1>2, <1>6, <2>1, ShiftCounts
  <1> HIDE DEF s
  <1>8. /\ \A x \in 1..(i + 1) : (2 + w) + x \in (w + 3)..(w + i + 3)
        /\ (2 + w) + (i + 2) = w + i + 4 /\ 2 + w \in Nat /\ w + 0 = w /\ 2 \in Nat /\ 0 \in Nat /\ 0 + 2 = 2
        /\ ((i + 2) + w) + 2 = w + i + 4
    BY SMT, <1>2
  <1>9. u \in Seq(Cycles) /\ Len(u) = i + 2 /\ Counts(u, F, 2 + w)
    <2>1. (\A x \in 1..(i + 1) : F[(2 + w) + x] = Go(0)) /\ F[(2 + w) + (i + 2)] = Go(1)
      BY <1>1, <1>8
    <2> QED BY <1>8, <2>1, ToDrCounts
  <1> HIDE DEF u
  <1>10. Counts(u \o s, F, 2) /\ u \o s \in Seq(Cycles) /\ Len(u \o s) = (i + 2) + w
    <2>1. Counts(u, F, 2 + Len(s)) /\ Len(s) = w
      BY <1>2, <1>7, <1>8, <1>9
    <2>2. Counts(u \o s, F, 2) /\ u \o s \in Seq(Cycles) /\ Len(u \o s) = Len(u) + Len(s)
      BY <1>7, <1>8, <1>9, <2>1, CountsJoin
    <2> QED BY <1>9, <2>1, <2>2
  <1> DEFINE z == u \o s
  <1>11. Counts(z, F, 0 + Len(v)) /\ z \in Seq(Cycles) /\ Len(z) = (i + 2) + w
    BY <1>4, <1>8, <1>10
  <1> HIDE DEF z
  <1>12. Counts(z \o v, F, 0) /\ Len(z \o v) = Len(z) + Len(v)
    BY <1>4, <1>5, <1>8, <1>11, CountsJoin
  <1> QED BY <1>3, <1>4, <1>8, <1>11, <1>12 DEF z, F, w

LEMMA IdcodeMoves ==
  ASSUME NEW i \in Nat \ {0}
  PROVE  LET l == WordBits + i   t == IdcodeTap(i)
         IN  /\ t[0] = "idle" /\ t[1] = "updateDr" /\ t[2] = "exit1Dr" /\ t[l + 2] = "captureDr"
             /\ t[l + 3] = "selectDr" /\ t[l + 4] = "idle"
             /\ \A n \in 3..(l + 1) : t[n] = "shiftDr"
             /\ \A n \in 1..(l + 4) : Tap[t[n]][IdcodeCycles(i)[n].tms + 1] = t[n - 1]
  <1> DEFINE w == WordBits   l == w + i   t == IdcodeTap(i)   F == IdcodeCycles(i)
  <1>1. w \in Nat \ {0}
    BY SizesAreLegal
  <1>2. l \in Nat /\ l >= 2 /\ w <= l
    <2> HIDE DEF w
    <2> QED BY SMT, <1>1
  <1>3. t = [n \in 0..(l + 4) |->
               IF n = 0 \/ n = l + 4 THEN "idle"
               ELSE IF n = 1 THEN "updateDr" ELSE IF n = 2 THEN "exit1Dr"
               ELSE IF n = l + 3 THEN "selectDr" ELSE IF n = l + 2 THEN "captureDr"
               ELSE "shiftDr"]
    BY DEF IdcodeTap
  <1>4. /\ F[1] = Go(0) /\ F[2] = Go(1) /\ F[l + 4] = Go(1)
        /\ \A x \in 3..(w + 2) : F[x] = [tms |-> IF x = 3 THEN 1 ELSE 0, tdi |-> 1, read |-> TRUE]
        /\ \A x \in (w + 3)..(l + 3) : F[x] = Go(0)
    BY IdcodeCyclesAre
  <1> HIDE DEF w, l, t, F
  <1>5. /\ t[0] = "idle" /\ t[1] = "updateDr" /\ t[2] = "exit1Dr" /\ t[l + 2] = "captureDr"
        /\ t[l + 3] = "selectDr" /\ t[l + 4] = "idle"
    <2>1. /\ 0 \in 0..(l + 4) /\ 1 \in 0..(l + 4) /\ 2 \in 0..(l + 4) /\ l + 2 \in 0..(l + 4)
          /\ l + 3 \in 0..(l + 4) /\ l + 4 \in 0..(l + 4)
          /\ 1 # 0 /\ 1 # l + 4 /\ 2 # 0 /\ 2 # l + 4 /\ 2 # 1
          /\ l + 2 # 0 /\ l + 2 # l + 4 /\ l + 2 # 1 /\ l + 2 # 2 /\ l + 2 # l + 3
          /\ l + 3 # 0 /\ l + 3 # l + 4 /\ l + 3 # 1 /\ l + 3 # 2
      BY SMT, <1>2
    <2> QED BY <1>3, <2>1
  <1>6. ASSUME NEW n \in 3..(l + 1) PROVE t[n] = "shiftDr"
    <2>1. n \in 0..(l + 4) /\ n # 0 /\ n # l + 4 /\ n # 1 /\ n # 2 /\ n # l + 2 /\ n # l + 3
      BY SMT, <1>2
    <2> QED BY <1>3, <2>1
  <1>7. ASSUME NEW n \in 1..(l + 4) PROVE Tap[t[n]][F[n].tms + 1] = t[n - 1]
    <2>1. \/ n = 1 /\ n - 1 = 0
          \/ n = 2 /\ n - 1 = 1
          \/ n = l + 4 /\ n - 1 = l + 3
          \/ n \in 3..(l + 3)
      BY SMT, <1>2
    <2>2. CASE n \in 3..(l + 3)
      <3>1. F[n].tms = IF n = 3 THEN 1 ELSE 0
        <4>1. n \in 3..(w + 2) \/ (n \in (w + 3)..(l + 3) /\ n # 3)
          BY SMT, <1>1, <1>2, <2>2
        <4>2. CASE n \in 3..(w + 2)
          <5>1. F[n] = [tms |-> IF n = 3 THEN 1 ELSE 0, tdi |-> 1, read |-> TRUE]
            BY <1>4, <4>2
          <5> QED BY <5>1
        <4>3. CASE n \in (w + 3)..(l + 3) /\ n # 3
          BY <1>4, <4>3, GoIs
        <4> QED BY <4>1, <4>2, <4>3
      <3>2. \/ n = 3 /\ n - 1 = 2 /\ n \in 3..(l + 1)
            \/ n # 3 /\ n \in 3..(l + 1) /\ n - 1 \in 3..(l + 1)
            \/ n # 3 /\ n = l + 2 /\ n - 1 \in 3..(l + 1)
            \/ n # 3 /\ n = l + 3 /\ n - 1 = l + 2
        BY SMT, <1>2, <2>2
      <3>3. CASE n = 3 /\ n - 1 = 2 /\ n \in 3..(l + 1)
        BY <1>5, <1>6, <3>1, <3>3, TapSteps
      <3>4. CASE n # 3 /\ n \in 3..(l + 1) /\ n - 1 \in 3..(l + 1)
        BY <1>6, <3>1, <3>4, TapSteps
      <3>5. CASE n # 3 /\ n = l + 2 /\ n - 1 \in 3..(l + 1)
        BY <1>5, <1>6, <3>1, <3>5, TapSteps
      <3>6. CASE n # 3 /\ n = l + 3 /\ n - 1 = l + 2
        BY <1>5, <3>1, <3>6, TapSteps
      <3> QED BY <3>2, <3>3, <3>4, <3>5, <3>6
    <2> QED BY <1>4, <1>5, <2>1, <2>2, GoIs, TapSteps
  <1> QED BY <1>5, <1>6, <1>7 DEF w, l, t, F

\* What is shifted into the path when device i is transferred to: request r, then
\* the bits b, and ones before and behind.
TransferIn(c, i, r, b) ==
  [m \in 1..(Len(c) + 2 + WordBits) |->
     IF m \in i..(i + 2) THEN r[m - i + 1]
     ELSE IF m \in (i + 3)..(i + 2 + WordBits) THEN b[m - i - 2] ELSE 1]

LEMMA TransferInIs ==
  ASSUME NEW c, Len(c) \in Nat, NEW i \in 1..Len(c), NEW r, NEW b,
         \A j \in 1..3 : r[j] \in Bit, \A j \in 1..WordBits : b[j] \in Bit
  PROVE  LET in == TransferIn(c, i, r, b)
         IN  /\ \A m \in 1..(Len(c) + 2 + WordBits) : in[m] \in Bit
             /\ \A m \in 1..(i - 1) : in[m] = 1
             /\ \A j \in 1..3 : in[(i - 1) + j] = r[j]
             /\ \A j \in 1..WordBits : in[(i + 2) + j] = b[j]
             /\ \A j \in 1..(Len(c) - i) : in[(i + 2 + WordBits) + j] = 1
  <1> DEFINE n == Len(c)   w == WordBits   in == TransferIn(c, i, r, b)
  <1>1. n \in Nat /\ w \in Nat /\ i \in 1..n
    BY SizesAreLegal
  <1>2. in = [m \in 1..(n + 2 + w) |->
                IF m \in i..(i + 2) THEN r[m - i + 1]
                ELSE IF m \in (i + 3)..(i + 2 + w) THEN b[m - i - 2] ELSE 1]
    BY DEF TransferIn
  <1>3. (\A j \in 1..3 : r[j] \in Bit) /\ (\A j \in 1..w : b[j] \in Bit) /\ 1 \in Bit
    BY DEF Bit
  <1> HIDE DEF n, w, in
  <1>4. ASSUME NEW m \in 1..(n + 2 + w) PROVE in[m] \in Bit
    <2>1. /\ m \in i..(i + 2) => m - i + 1 \in 1..3
          /\ m \in (i + 3)..(i + 2 + w) => m - i - 2 \in 1..w
      BY SMT, <1>1
    <2> QED BY <1>2, <1>3, <2>1
  <1>5. ASSUME NEW m \in 1..(i - 1) PROVE in[m] = 1
    <2>1. m \in 1..(n + 2 + w) /\ m \notin i..(i + 2) /\ m \notin (i + 3)..(i + 2 + w)
      BY SMT, <1>1
    <2> QED BY <1>2, <2>1
  <1>6. ASSUME NEW j \in 1..3 PROVE in[(i - 1) + j] = r[j]
    <2>1. (i - 1) + j \in 1..(n + 2 + w) /\ (i - 1) + j \in i..(i + 2) /\ ((i - 1) + j) - i + 1 = j
      BY SMT, <1>1
    <2> QED BY <1>2, <2>1
  <1>7. ASSUME NEW j \in 1..w PROVE in[(i + 2) + j] = b[j]
    <2>1. /\ (i + 2) + j \in 1..(n + 2 + w) /\ (i + 2) + j \notin i..(i + 2)
          /\ (i + 2) + j \in (i + 3)..(i + 2 + w) /\ ((i + 2) + j) - i - 2 = j
      BY SMT, <1>1
    <2> QED BY <1>2, <2>1
  <1>8. ASSUME NEW j \in 1..(n - i) PROVE in[(i + 2 + w) + j] = 1
    <2>1. /\ (i + 2 + w) + j \in 1..(n + 2 + w) /\ (i + 2 + w) + j \notin i..(i + 2)
          /\ (i + 2 + w) + j \notin (i + 3)..(i + 2 + w)
      BY SMT, <1>1
    <2> QED BY <1>2, <2>1
  <1> QED BY <1>4, <1>5, <1>6, <1>7, <1>8 DEF n, w, in

-----------------------------------------------------------------------------
(***************************************************************************)
(* The inductive invariant: what has been shifted and read in each part of *)
(* a command, cycle by cycle.                                              *)
(***************************************************************************)

DataBits(cmd) == IF cmd.request[1] = 1 THEN Fill(1, WordBits) ELSE BitsOf(cmd.word, WordBits)

\* Of the answer a the first k bits have been read.
HasRead(b, k, a) == Len(b) = k /\ \A q \in 1..k : b[q] = a[q]

\* While a debug port is asked: the walk, the state machine, what has been shifted
\* of the request, and what has been read of the answer.
AskInv ==
  LET n == Len(todo)   i == command.device   l == Len(chain) + 2 + WordBits
      in == TransferIn(chain, i, command.request, DataBits(command))
  IN  /\ i \in Devices /\ n <= i + 5 /\ Counts(todo, AskCycles(i, command.request), 0)
      /\ tap = AskTap(i)[n] /\ IrSet
      /\ n >= i + 2 => bits = <<>>
      /\ chain[i] = DpLength =>
           /\ updates = <<>>
           /\ n <= i + 2 =>
                /\ offer.ack \in {JtagWait, JtagOk}
                /\ Shifts(path, l, in, i + 2 - n, i - 1, Answered(offer))
                /\ HasRead(bits, IF n <= 3 THEN 3 - n ELSE 0, Answered(offer))

\* How much has been read of the answer when n cycles are left, e devices are
\* behind and data are read, or not.
DataRead(n, e, read) ==
  3 + (IF ~read THEN 0
       ELSE IF n >= IdleCycles + 2 + e THEN IdleCycles + 2 + (WordBits + e) - n ELSE WordBits)

\* While data are transferred.
DataInv ==
  LET n == Len(todo)   i == command.device   e == Len(chain) - i   l == Len(chain) + 2 + WordBits
      in == TransferIn(chain, i, command.request, DataBits(command))
  IN  /\ i \in Devices /\ n <= IdleCycles + 2 + (WordBits + e)
      /\ Counts(todo, DataCycles(e, Reading, DataBits(command)), 0)
      /\ tap = EndTap[n] /\ IrSet
      /\ chain[i] = DpLength =>
           /\ offer.ack = JtagOk
           /\ n > IdleCycles =>
                /\ updates = <<>>
                /\ Shifts(path, l, in, IF n = IdleCycles + 1 THEN l ELSE l - (n - IdleCycles - 2),
                          i - 1, Answered(offer))
           /\ n <= IdleCycles =>
                /\ Len(updates) = 1 /\ updates[1].device = i
                /\ updates[1].bits \in Seq(Bit) /\ Len(updates[1].bits) = 3 + WordBits
                /\ \A m \in 1..(3 + WordBits) : updates[1].bits[m] = in[(i - 1) + m]
           /\ HasRead(bits, DataRead(n, e, Reading), Answered(offer))

\* While a walk ends without data.
RefusedInv ==
  LET n == Len(todo)
  IN  /\ command.device \in Devices /\ n <= IdleCycles + 3
      /\ Counts(todo, RefusedCycles, 0) /\ tap = EndTap[n] /\ IrSet
      /\ chain[command.device] = DpLength => offer.ack = JtagWait /\ updates = <<>>

\* While an identity is read.
IdcodeInv ==
  LET n == Len(todo)   i == command.device   l == Len(chain) - 1 + WordBits
      out == BitsOf(Idcode(i), WordBits)
  IN  /\ i \in Devices /\ n <= WordBits + i + 4
      /\ Counts(todo, IdcodeCycles(i), 0) /\ tap = IdcodeTap(i)[n] /\ IrSet
      /\ chain[i] >= DpLength =>
           /\ n \in 2..(WordBits + i + 1) =>
                Shifts(path, l, Fill(1, l), WordBits + i + 1 - n, i - 1, out)
           /\ HasRead(bits, IF n > WordBits + 2 THEN 0 ELSE IF n >= 2 THEN WordBits + 2 - n ELSE WordBits, out)

PhaseInv ==
  described =>
    /\ phase = "ir" => IrInv
    /\ phase = "ask" => AskInv
    /\ phase = "data" => DataInv
    /\ phase = "refused" => RefusedInv
    /\ phase = "idcode" => IdcodeInv

ChainInv == TypeInv /\ DescribedInv /\ PhaseInv

LEMMA ReadOn ==
  ASSUME NEW b \in Seq(Bit), NEW k \in Nat, NEW a, HasRead(b, k, a), NEW x \in Bit, x = a[k + 1]
  PROVE  HasRead(Append(b, x), k + 1, a)
  <1>1. Len(b) = k /\ \A q \in 1..k : b[q] = a[q]
    BY DEF HasRead
  <1> DEFINE c == Append(b, x)
  <1>2. Len(c) = k + 1 /\ c[k + 1] = x /\ \A q \in 1..k : c[q] = b[q]
    BY <1>1, AppendProperties
  <1> HIDE DEF c
  <1>3. ASSUME NEW q \in 1..(k + 1) PROVE c[q] = a[q]
    <2>1. q = k + 1 \/ q \in 1..k
      BY SMT
    <2> QED BY <1>1, <1>2, <2>1
  <1> QED BY <1>2, <1>3 DEF HasRead, c

LEMMA ReadNone == \A a : HasRead(<<>>, 0, a)
  BY DEF HasRead

LEMMA IrSetStays ==
  ASSUME IrSet, ir' = ir, chain' = chain, command' = command
  PROVE  IrSet'
  <1>1. Devices' = Devices
    BY DEF Devices
  <1> QED BY <1>1 DEF IrSet, Bypassed

\* The next cycle of a walk F through the states t.
LEMMA CycleIs ==
  ASSUME TypeInv, Cycle, NEW F, NEW t, Counts(todo, F, 0), tap = t[Len(todo)],
         \A n \in 1..Len(todo) : Tap[t[n]][F[n].tms + 1] = t[n - 1]
  PROVE  /\ Len(todo) \in Nat \ {0} /\ Len(todo') = Len(todo) - 1 /\ Counts(todo', F, 0)
         /\ tap' = t[Len(todo) - 1] /\ Clock(F[Len(todo)].tms, F[Len(todo)].tdi)
         /\ bits' = IF F[Len(todo)].read THEN Append(bits, IF Shifting THEN path[1] ELSE 1) ELSE bits
         /\ chain' = chain /\ command' = command
  <1>1. /\ todo # <<>> /\ Clock(Head(todo).tms, Head(todo).tdi) /\ todo' = Tail(todo) /\ command' = command
        /\ bits' = IF Head(todo).read THEN Append(bits, IF Shifting THEN path[1] ELSE 1) ELSE bits
    BY DEF Cycle
  <1>2. todo \in Seq(Cycles)
    BY DEF TypeInv, ProbeInv
  <1>3. /\ Head(todo) = F[Len(todo)] /\ Len(todo) \in Nat \ {0} /\ Len(todo') = Len(todo) - 1
        /\ Counts(todo', F, 0)
    BY <1>1, <1>2, CountsOn
  <1>4. tap' = Tap[tap][F[Len(todo)].tms + 1] /\ chain' = chain
    BY <1>1, <1>3, ClockDoes
  <1>5. Len(todo) \in 1..Len(todo)
    BY SMT, <1>3
  <1> QED BY <1>1, <1>3, <1>4, <1>5

\* What a transfer is about.
LEMMA TransferIs ==
  ASSUME TypeInv, phase \in {"ask", "data", "refused"}, command.device \in Devices
  PROVE  /\ command.request \in Requests /\ command.word \in Words /\ command.code \in {IrAbort, IrDpacc, IrApacc}
         /\ DataBits(command) \in Seq(Bit) /\ Len(DataBits(command)) = WordBits
         /\ command.word \in Nat /\ Reading \in BOOLEAN
         /\ Len(chain) \in Nat /\ command.device \in 1..Len(chain) /\ WordBits \in Nat \ {0}
         /\ path \in Seq(Bit) /\ bits \in Seq(Bit) /\ chain \in Chains
         /\ Answered(offer) \in Seq(Bit) /\ Len(Answered(offer)) = 3 + WordBits
  <1>1. command \in Transfers
    BY DEF TypeInv, ProbeInv
  <1>2. command.request \in Requests /\ command.word \in Words /\ command.code \in {IrAbort, IrDpacc, IrApacc}
    BY <1>1 DEF Transfers
  <1>3. command.word \in Nat /\ Reading \in BOOLEAN
    BY <1>2, WordsAre DEF Reading
  <1>4. WordBits \in Nat \ {0}
    BY SizesAreLegal
  <1>5. DataBits(command) \in Seq(Bit) /\ Len(DataBits(command)) = WordBits
    BY <1>3, <1>4, OnesAreBits, BitsAreBits DEF DataBits
  <1>6. path \in Seq(Bit) /\ bits \in Seq(Bit) /\ chain \in Chains
    BY DEF TypeInv, BoardInv, ProbeInv
  <1>7. Len(chain) \in Nat /\ command.device \in 1..Len(chain)
    BY <1>6, ChainIs
  <1>8. offer.ack \in Nat /\ offer.word \in Nat
    BY OfferIs DEF TypeInv, BoardInv
  <1>9. Answered(offer) \in Seq(Bit) /\ Len(Answered(offer)) = 3 + WordBits
    BY <1>8, AnswerBits DEF Answered
  <1> QED BY <1>2, <1>3, <1>4, <1>5, <1>6, <1>7, <1>9

\* What is shifted into the path, bit by bit.
LEMMA TransferShifts ==
  ASSUME TypeInv, phase \in {"ask", "data"}, command.device \in Devices
  PROVE  LET i == command.device   in == TransferIn(chain, i, command.request, DataBits(command))
         IN  /\ \A m \in 1..(Len(chain) + 2 + WordBits) : in[m] \in Bit
             /\ \A m \in 1..(i - 1) : in[m] = 1
             /\ \A j \in 1..3 : in[(i - 1) + j] = command.request[j]
             /\ \A j \in 1..WordBits : in[(i + 2) + j] = DataBits(command)[j]
             /\ \A j \in 1..(Len(chain) - i) : in[(i + 2 + WordBits) + j] = 1
  <1>1. /\ command.request \in Requests /\ DataBits(command) \in Seq(Bit) /\ Len(DataBits(command)) = WordBits
        /\ Len(chain) \in Nat /\ command.device \in 1..Len(chain)
    BY TransferIs
  <1>2. \A j \in 1..3 : command.request[j] \in Bit
    BY <1>1, RequestIs
  <1>3. \A j \in 1..WordBits : DataBits(command)[j] \in Bit
    BY <1>1, ElementOfSeq
  <1> DEFINE c == chain   i == command.device   r == command.request   b == DataBits(command)
  <1>4. Len(c) \in Nat /\ i \in 1..Len(c) /\ (\A j \in 1..3 : r[j] \in Bit) /\ (\A j \in 1..WordBits : b[j] \in Bit)
    BY <1>1, <1>2, <1>3
  <1> HIDE DEF c, i, r, b
  <1>5. /\ \A m \in 1..(Len(c) + 2 + WordBits) : TransferIn(c, i, r, b)[m] \in Bit
        /\ \A m \in 1..(i - 1) : TransferIn(c, i, r, b)[m] = 1
        /\ \A j \in 1..3 : TransferIn(c, i, r, b)[(i - 1) + j] = r[j]
        /\ \A j \in 1..WordBits : TransferIn(c, i, r, b)[(i + 2) + j] = b[j]
        /\ \A j \in 1..(Len(c) - i) : TransferIn(c, i, r, b)[(i + 2 + WordBits) + j] = 1
    BY <1>4, TransferInIs
  <1> QED BY <1>5 DEF c, i, r, b

LEMMA CycleKeepsAsk ==
  ASSUME TypeInv, phase = "ask", AskInv, Cycle
  PROVE  AskInv'
  <1> DEFINE n == Len(todo)   i == command.device   w == WordBits   l == Len(chain) + 2 + w
             r == command.request   d == DataBits(command)
             in == TransferIn(chain, i, r, d)   F == AskCycles(i, r)   t == AskTap(i)
             out == Answered(offer)
             rd(k) == IF k <= 3 THEN 3 - k ELSE 0
  <1>1. /\ i \in Devices /\ n <= i + 5 /\ Counts(todo, F, 0) /\ tap = t[n] /\ IrSet
        /\ n >= i + 2 => bits = <<>>
        /\ chain[i] = DpLength =>
             /\ updates = <<>>
             /\ n <= i + 2 =>
                  /\ offer.ack \in {JtagWait, JtagOk}
                  /\ Shifts(path, l, in, i + 2 - n, i - 1, out)
                  /\ HasRead(bits, rd(n), out)
    BY DEF AskInv
  <1>2. /\ r \in Requests /\ command.code \in {IrAbort, IrDpacc, IrApacc}
        /\ Len(chain) \in Nat /\ i \in 1..Len(chain) /\ w \in Nat \ {0}
        /\ path \in Seq(Bit) /\ bits \in Seq(Bit) /\ chain \in Chains
        /\ out \in Seq(Bit) /\ Len(out) = 3 + w
    BY <1>1, TransferIs
  <1>3. /\ \A m \in 1..l : in[m] \in Bit
        /\ \A m \in 1..(i - 1) : in[m] = 1
        /\ \A j \in 1..3 : in[(i - 1) + j] = r[j]
    BY <1>1, TransferShifts
  <1>4. i \in Nat \ {0} /\ i <= Len(chain) /\ l \in Nat
    <2> HIDE DEF i, w
    <2> QED BY SMT, <1>2
  <1>5. /\ t[i + 5] = "idle" /\ t[i + 4] = "selectDr" /\ t[i + 3] = "captureDr"
        /\ \A x \in 0..(i + 2) : t[x] = "shiftDr"
        /\ \A x \in 1..3 : F[x] = [tms |-> 0, tdi |-> r[4 - x], read |-> TRUE]
        /\ \A x \in 4..(i + 4) : F[x] = Go(0)
        /\ F[i + 5] = Go(1)
        /\ \A x \in 1..(i + 5) : Tap[t[x]][F[x].tms + 1] = t[x - 1]
    <2>1. i \in Nat \ {0}
      BY <1>4
    <2> HIDE DEF i, r
    <2> QED BY <2>1, AskMoves
  <1>6. \A x \in 1..n : Tap[t[x]][F[x].tms + 1] = t[x - 1]
    <2>1. \A x \in 1..n : x \in 1..(i + 5)
      <3>1. n \in Nat
        BY LenProperties DEF TypeInv, ProbeInv
      <3> HIDE DEF n, i
      <3> QED BY SMT, <1>1, <1>4, <3>1
    <2> HIDE DEF F, t, n
    <2> QED BY <1>5, <2>1
  <1>7. /\ n \in Nat \ {0} /\ Len(todo') = n - 1 /\ Counts(todo', F, 0) /\ tap' = t[n - 1]
        /\ Clock(F[n].tms, F[n].tdi)
        /\ bits' = IF F[n].read THEN Append(bits, IF Shifting THEN path[1] ELSE 1) ELSE bits
        /\ chain' = chain /\ command' = command
    BY <1>1, <1>6, CycleIs
  <1>8. /\ tap \notin {"reset", "updateIr"} => ir' = ir
        /\ tap # "captureDr" => offer' = offer
        /\ tap # "updateDr" => updates' = updates
        /\ tap \in {"shiftIr", "shiftDr"} => path' = Append(Tail(path), F[n].tdi)
        /\ tap = "captureDr" =>
             \E o \in [ack : {JtagWait, JtagOk}, word : Words] :
               offer' = o /\ path' = FlattenSeq(CapturedAll(o))
    BY <1>7, ClockDoes
  <1>9. Answered(offer)' = Answered(offer') /\ Devices' = Devices
    BY <1>7 DEF Answered, Devices
  <1> HIDE DEF n, i, w, l, r, d, in, F, t, rd
  <1>10. \/ n = i + 5 \/ n = i + 4 \/ n = i + 3 \/ n \in 1..(i + 2)
    BY SMT, <1>1, <1>4, <1>7
  <1>11. tap \in {"idle", "selectDr", "captureDr", "shiftDr"}
    <2>1. \A x \in 1..(i + 2) : x \in 0..(i + 2)
      BY SMT, <1>4
    <2> QED BY <1>1, <1>5, <1>10, <2>1
  <1>12. IrSet' /\ updates' = updates
    <2>1. ir' = ir /\ updates' = updates
      BY <1>8, <1>11
    <2> QED BY <1>1, <1>7, <2>1, IrSetStays
  <1>13. n - 1 <= i + 5
    BY SMT, <1>1, <1>4, <1>7
  <1>14. ASSUME n - 1 >= i + 2 PROVE bits' = <<>>
    <2>1. n >= i + 2 /\ (n \in 4..(i + 4) \/ n = i + 5)
      BY SMT, <1>4, <1>10, <1>14
    <2>2. F[n].read = FALSE
      BY <1>5, <2>1 DEF Go
    <2> QED BY <1>1, <1>7, <2>1, <2>2
  <1>15. ASSUME chain[i] = DpLength, n - 1 <= i + 2
         PROVE  /\ offer'.ack \in {JtagWait, JtagOk}
                /\ Shifts(path', l, in, i + 2 - (n - 1), i - 1, Answered(offer'))
                /\ HasRead(bits', rd(n - 1), Answered(offer'))
    <2>1. CASE n = i + 3
      <3>1. tap = "captureDr" /\ bits' = <<>> /\ i + 2 - (n - 1) = 0 /\ rd(n - 1) = 0
        <4>1. tap = "captureDr"
          BY <1>1, <1>5, <2>1
        <4>2. n - 1 >= i + 2 /\ i + 2 - (n - 1) = 0 /\ (n - 1 <= 3 => 3 - (n - 1) = 0)
          BY SMT, <1>4, <2>1
        <4>3. bits' = <<>>
          BY <1>14, <4>2
        <4>4. rd(n - 1) = 0
          BY <4>2 DEF rd
        <4> QED BY <4>1, <4>2, <4>3, <4>4
      <3>2. PICK o \in [ack : {JtagWait, JtagOk}, word : Words] :
              offer' = o /\ path' = FlattenSeq(CapturedAll(o))
        BY <1>8, <3>1
      <3>3. o.ack \in {JtagWait, JtagOk} /\ o.ack \in Nat /\ o.word \in Nat
        <4>1. o.ack \in {JtagWait, JtagOk} /\ o.word \in Words
          BY <3>2
        <4>2. JtagWait \in Nat /\ JtagOk \in Nat
          BY DEF JtagWait, JtagOk
        <4> QED BY <4>1, <4>2, WordsAre
      <3>4. Captured(i, o) = Answered(o) /\ Answered(o) \in Seq(Bit) /\ Len(Answered(o)) = 3 + w
        <4>1. Answered(o) \in Seq(Bit) /\ Len(Answered(o)) = 3 + w
          BY <3>3, AnswerBits DEF Answered, w
        <4>2. Captured(i, o) = Answered(o)
          BY <1>1, <1>2, <1>15, WhoCaptures DEF i
        <4> QED BY <4>1, <4>2
      <3>5. /\ Len(path') = Len(chain) - 1 + Len(Answered(o))
            /\ \A m \in 1..Len(Answered(o)) : path'[(i - 1) + m] = Answered(o)[m]
        BY <1>1, <1>2, <3>2, <3>3, <3>4, PathCaptured DEF i
      <3>6. Len(path') = l /\ i - 1 \in Nat
        <4>1. Len(chain) - 1 + (3 + w) = Len(chain) + 2 + w /\ i - 1 \in Nat
          BY SMT, <1>2, <1>4
        <4> QED BY <3>4, <3>5, <4>1 DEF l
      <3>7. Shifts(path', l, in, 0, i - 1, Answered(o))
        BY <1>4, <3>5, <3>6, ShiftsBegin
      <3>8. HasRead(bits', 0, Answered(o))
        BY <3>1, ReadNone
      <3> QED BY <3>1, <3>2, <3>3, <3>7, <3>8
    <2>2. CASE n \in 1..(i + 2)
      <3> DEFINE k == i + 2 - n   at == i - 1
      <3>1. /\ k \in Nat /\ k < l /\ at \in Nat /\ i + 2 - (n - 1) = k + 1 /\ n <= i + 2
            /\ n \in 0..(i + 2) /\ at + (3 + w) <= l /\ k + 1 \in 1..l
        BY SMT, <1>2, <1>4, <2>2 DEF l
      <3>2. /\ tap = "shiftDr" /\ offer' = offer /\ path' = Append(Tail(path), F[n].tdi)
            /\ Shifts(path, l, in, k, at, out) /\ HasRead(bits, rd(n), out)
            /\ offer.ack \in {JtagWait, JtagOk}
        <4>1. tap = "shiftDr"
          BY <1>1, <1>5, <3>1
        <4>2. Shifts(path, l, in, k, at, out) /\ HasRead(bits, rd(n), out) /\ offer.ack \in {JtagWait, JtagOk}
          BY <1>1, <1>15, <3>1
        <4> QED BY <1>8, <4>1, <4>2
      <3> HIDE DEF out
      <3>3. F[n].tdi = in[k + 1]
        <4>1. CASE n \in 1..3
          <5>1. 4 - n \in 1..3 /\ k + 1 = (i - 1) + (4 - n)
            BY SMT, <1>4, <4>1
          <5>2. F[n] = [tms |-> 0, tdi |-> r[4 - n], read |-> TRUE]
            BY <1>5, <4>1
          <5>3. F[n].tdi = r[4 - n]
            BY <5>2
          <5> HIDE DEF k
          <5> QED BY <1>3, <5>1, <5>3
        <4>2. CASE n \notin 1..3
          <5>1. n \in 4..(i + 4) /\ k + 1 \in 1..(i - 1)
            BY SMT, <1>4, <2>2, <4>2
          <5>2. F[n].tdi = 1
            BY <1>5, <5>1 DEF Go
          <5> HIDE DEF k
          <5> QED BY <1>3, <5>1, <5>2
        <4> QED BY <4>1, <4>2
      <3> HIDE DEF k, at
      <3>4. in[k + 1] \in Bit
        BY <1>3, <3>1
      <3>5. /\ Shifts(path', l, in, k + 1, at, out)
            /\ k + 1 - at \in 1..Len(out) => path[1] = out[k + 1 - at]
        <4>1. at + Len(out) <= l
          BY <1>2, <3>1
        <4>2. /\ Shifts(Append(Tail(path), in[k + 1]), l, in, k + 1, at, out)
              /\ k + 1 - at \in 1..Len(out) => path[1] = out[k + 1 - at]
          <5>1. /\ path \in Seq(Bit) /\ l \in Nat /\ k \in Nat /\ k < l /\ at \in Nat /\ out \in Seq(Bit)
                /\ at + Len(out) <= l /\ Shifts(path, l, in, k, at, out) /\ in[k + 1] \in Bit
            BY <1>2, <1>4, <3>1, <3>2, <3>4, <4>1
          <5> QED BY <5>1, ShiftsOn
        <4> QED BY <3>2, <3>3, <4>2
      <3>6. HasRead(bits', rd(n - 1), out)
        <4>1. CASE n \in 1..3
          <5>1. /\ rd(n) = 3 - n /\ rd(n - 1) = (3 - n) + 1 /\ 3 - n \in Nat
            <6>1. n <= 3 /\ n - 1 <= 3 /\ 3 - (n - 1) = (3 - n) + 1 /\ 3 - n \in Nat
              BY SMT, <4>1
            <6> QED BY <6>1 DEF rd
          <5>2. (3 - n) + 1 = k + 1 - at /\ (3 - n) + 1 \in 1..(3 + w)
            BY SMT, <1>2, <1>4, <4>1 DEF k, at
          <5>3. path[1] = out[(3 - n) + 1]
            BY <1>2, <3>5, <5>2
          <5>4. F[n].read = TRUE
            <6>1. F[n] = [tms |-> 0, tdi |-> r[4 - n], read |-> TRUE]
              BY <1>5, <4>1
            <6> QED BY <6>1
          <5>5. bits' = Append(bits, path[1])
            BY <1>7, <3>2, <5>4 DEF Shifting
          <5>6. out[(3 - n) + 1] \in Bit
            BY <1>2, <5>2, ElementOfSeq
          <5>7. HasRead(Append(bits, path[1]), (3 - n) + 1, out)
            BY <1>2, <3>2, <5>1, <5>3, <5>6, ReadOn
          <5> QED BY <5>1, <5>5, <5>7
        <4>2. CASE n \notin 1..3
          <5>1. n \in 4..(i + 4) /\ ~(n <= 3) /\ (n - 1 <= 3 => 3 - (n - 1) = 0)
            BY SMT, <1>4, <2>2, <4>2
          <5>2. rd(n) = 0 /\ rd(n - 1) = 0
            BY <5>1 DEF rd
          <5>3. bits' = bits
            BY <1>5, <1>7, <5>1 DEF Go
          <5> QED BY <3>2, <5>2, <5>3
        <4> QED BY <4>1, <4>2
      <3> QED BY <3>1, <3>2, <3>5, <3>6 DEF out, at
    <2>3. n = i + 3 \/ n \in 1..(i + 2)
      BY SMT, <1>4, <1>7, <1>15
    <2> QED BY <2>1, <2>2, <2>3
  <1>16. /\ Len(chain') + 2 + WordBits = l /\ command'.device = i /\ command'.request = r
         /\ TransferIn(chain', i, r, DataBits(command')) = in
         /\ DataBits(command)' = DataBits(command')
    BY <1>7 DEF l, w, i, r, in, d, DataBits
  <1> DEFINE m == Len(todo')
  <1>17. m = n - 1
    BY <1>7
  <1> HIDE DEF m
  <1>18. /\ i \in Devices' /\ m <= i + 5 /\ Counts(todo', F, 0) /\ tap' = t[m]
         /\ m >= i + 2 => bits' = <<>>
         /\ chain'[i] = DpLength =>
              /\ updates' = <<>>
              /\ m <= i + 2 =>
                   /\ offer'.ack \in {JtagWait, JtagOk}
                   /\ Shifts(path', l, in, i + 2 - m, i - 1, Answered(offer'))
                   /\ HasRead(bits', IF m <= 3 THEN 3 - m ELSE 0, Answered(offer'))
    <2>1. i \in Devices' /\ m <= i + 5 /\ Counts(todo', F, 0) /\ tap' = t[m]
      BY <1>1, <1>7, <1>9, <1>13, <1>17
    <2>2. m >= i + 2 => bits' = <<>>
      BY <1>14, <1>17
    <2>3. chain'[i] = DpLength => updates' = <<>>
      BY <1>1, <1>7, <1>12
    <2>4. ASSUME chain'[i] = DpLength, m <= i + 2
          PROVE  /\ offer'.ack \in {JtagWait, JtagOk}
                 /\ Shifts(path', l, in, i + 2 - m, i - 1, Answered(offer'))
                 /\ HasRead(bits', IF m <= 3 THEN 3 - m ELSE 0, Answered(offer'))
      BY <1>7, <1>15, <1>17, <2>4 DEF rd
    <2> QED BY <2>1, <2>2, <2>3, <2>4
  <1> QED BY <1>7, <1>9, <1>12, <1>16, <1>18 DEF AskInv, m, F, t

\* Each bit of data that is read follows what has been read before.
LEMMA DataReadIs ==
  ASSUME NEW e \in Nat, NEW read \in BOOLEAN
  PROVE  /\ DataRead(IdleCycles + 2 + (WordBits + e), e, read) = 3
         /\ DataRead(0, e, read) = IF read THEN 3 + WordBits ELSE 3
         /\ \A n \in 1..(IdleCycles + 2) : DataRead(n - 1, e, read) = DataRead(n, e, read)
         /\ \A y \in 1..(WordBits + e) :
              IF read /\ WordBits + e + 1 - y <= WordBits
                THEN /\ DataRead((IdleCycles + 2) + y, e, read) = 2 + (WordBits + e + 1 - y)
                     /\ DataRead((IdleCycles + 2) + y - 1, e, read) = 3 + (WordBits + e + 1 - y)
                ELSE DataRead((IdleCycles + 2) + y - 1, e, read) = DataRead((IdleCycles + 2) + y, e, read)
  <1> DEFINE j == IdleCycles   w == WordBits
  <1>1. j \in Nat /\ w \in Nat \ {0}
    BY SizesAreLegal
  <1>2. CASE read = TRUE
    <2>1. \A n : DataRead(n, e, read) = 3 + (IF n >= j + 2 + e THEN j + 2 + (w + e) - n ELSE w)
      BY <1>2 DEF DataRead
    <2> HIDE DEF j, w
    <2>2. \A n \in Nat : /\ n >= j + 2 + e => DataRead(n, e, read) = 3 + (j + 2 + (w + e) - n)
                         /\ ~(n >= j + 2 + e) => DataRead(n, e, read) = 3 + w
      BY <2>1
    <2>3. DataRead(j + 2 + (w + e), e, read) = 3
      <3>1. j + 2 + (w + e) \in Nat /\ j + 2 + (w + e) >= j + 2 + e /\ 3 + (j + 2 + (w + e) - (j + 2 + (w + e))) = 3
        BY SMT, <1>1
      <3> QED BY <2>2, <3>1
    <2>4. DataRead(0, e, read) = 3 + w
      <3>1. 0 \in Nat /\ ~(0 >= j + 2 + e)
        BY SMT, <1>1
      <3> QED BY <2>2, <3>1
    <2>5. ASSUME NEW n \in 1..(j + 2) PROVE DataRead(n, e, read) = 3 + w /\ DataRead(n - 1, e, read) = 3 + w
      <3>1. n \in Nat /\ n - 1 \in Nat /\ ~(n - 1 >= j + 2 + e)
        BY SMT, <1>1
      <3>2. n >= j + 2 + e => 3 + (j + 2 + (w + e) - n) = 3 + w
        BY SMT, <1>1
      <3> QED BY <2>2, <3>1, <3>2
    <2>6. ASSUME NEW y \in 1..(w + e), w + e + 1 - y <= w
          PROVE  /\ DataRead((j + 2) + y, e, read) = 2 + (w + e + 1 - y)
                 /\ DataRead((j + 2) + y - 1, e, read) = 3 + (w + e + 1 - y)
      <3>1. /\ (j + 2) + y \in Nat /\ (j + 2) + y - 1 \in Nat /\ (j + 2) + y >= j + 2 + e /\ (j + 2) + y - 1 >= j + 2 + e
            /\ 3 + (j + 2 + (w + e) - ((j + 2) + y)) = 2 + (w + e + 1 - y)
            /\ 3 + (j + 2 + (w + e) - ((j + 2) + y - 1)) = 3 + (w + e + 1 - y)
        BY SMT, <1>1, <2>6
      <3> QED BY <2>2, <3>1
    <2>7. ASSUME NEW y \in 1..(w + e), ~(w + e + 1 - y <= w)
          PROVE  DataRead((j + 2) + y - 1, e, read) = DataRead((j + 2) + y, e, read)
      <3>1. /\ (j + 2) + y \in Nat /\ (j + 2) + y - 1 \in Nat /\ ~((j + 2) + y - 1 >= j + 2 + e)
            /\ (j + 2) + y >= j + 2 + e => 3 + (j + 2 + (w + e) - ((j + 2) + y)) = 3 + w
        BY SMT, <1>1, <2>7
      <3> QED BY <2>2, <3>1
    <2> QED BY <1>2, <2>3, <2>4, <2>5, <2>6, <2>7 DEF j, w
  <1>3. CASE read = FALSE
    <2>1. \A n : DataRead(n, e, read) = 3
      BY <1>3 DEF DataRead
    <2> QED BY <1>3, <2>1
  <1> QED BY <1>2, <1>3

\* The bits of a walk, one by one, are those shifted into the path.
LEMMA DataShifts ==
  ASSUME TypeInv, phase = "data", command.device \in Devices,
         NEW y \in 1..(WordBits + (Len(chain) - command.device))
  PROVE  LET i == command.device   e == Len(chain) - i   l == Len(chain) + 2 + WordBits
             in == TransferIn(chain, i, command.request, DataBits(command))
             q == WordBits + e + 1 - y
         IN  /\ l - y \in Nat /\ l - y < l /\ l - y + 1 = i + 2 + q /\ l - y + 1 \in 1..l /\ q \in Nat \ {0}
             /\ in[l - y + 1] = IF q <= WordBits THEN DataBits(command)[q] ELSE 1
  <1> DEFINE i == command.device   c == Len(chain)   w == WordBits   e == c - i   l == c + 2 + w
             d == DataBits(command)   in == TransferIn(chain, i, command.request, d)
             q == w + e + 1 - y
  <1>1. c \in Nat /\ i \in 1..c /\ w \in Nat \ {0}
    BY TransferIs
  <1>2. /\ \A j \in 1..w : in[(i + 2) + j] = d[j]
        /\ \A j \in 1..e : in[(i + 2 + w) + j] = 1
    BY TransferShifts
  <1>3. y \in 1..(w + e)
    OBVIOUS
  <1> HIDE DEF i, c, w, d, in
  <1>4. l - y \in Nat /\ l - y < l /\ l - y + 1 = i + 2 + q /\ l - y + 1 \in 1..l /\ q \in Nat \ {0}
    BY SMT, <1>1, <1>3
  <1>5. in[l - y + 1] = IF q <= w THEN d[q] ELSE 1
    <2>1. CASE q <= w
      <3>1. q \in 1..w /\ l - y + 1 = (i + 2) + q
        BY SMT, <1>1, <1>3, <2>1
      <3> HIDE DEF q, l
      <3> QED BY <1>2, <2>1, <3>1
    <2>2. CASE ~(q <= w)
      <3>1. q - w \in 1..e /\ l - y + 1 = (i + 2 + w) + (q - w)
        BY SMT, <1>1, <1>3, <2>2
      <3> HIDE DEF q, l
      <3> QED BY <1>2, <2>2, <3>1
    <2> QED BY <2>1, <2>2
  <1> QED BY <1>4, <1>5 DEF i, c, w, d, in

\* What a debug port that acknowledged is given: its part of the path.
LEMMA UpdateIs ==
  ASSUME TypeInv, command.device \in Devices, IrSet, command.code \in {IrAbort, IrDpacc, IrApacc},
         chain[command.device] = DpLength, offer.ack = JtagOk,
         Len(path) = Len(chain) + 2 + WordBits, updates = <<>>,
         updates' = updates \o
           SetToSeq({[device |-> d, ir |-> ir[d], bits |-> Part(d, DrLengths)] :
                       d \in {e \in Devices : Accessing(e) /\ offer.ack = JtagOk}})
  PROVE  /\ Len(updates') = 1 /\ updates'[1].device = command.device
         /\ updates'[1].bits \in Seq(Bit) /\ Len(updates'[1].bits) = 3 + WordBits
         /\ \A m \in 1..(3 + WordBits) : updates'[1].bits[m] = path[(command.device - 1) + m]
  <1> DEFINE i == command.device   s == CapturedLengths(offer)   out == Answered(offer)
             p == Part(i, s)   x == [device |-> i, ir |-> ir[i], bits |-> p]
  <1>1. /\ chain \in Chains /\ path \in Seq(Bit) /\ offer.ack \in Nat /\ offer.word \in Nat
    BY OfferIs DEF TypeInv, BoardInv
  <1>2. Captured(i, offer) = out /\ Accessing(i) /\ \A d \in Devices : d # i => ~Accessing(d)
    BY <1>1, WhoCaptures
  <1>3. out \in Seq(Bit) /\ Len(out) = 3 + WordBits
    BY <1>1, AnswerBits DEF Answered
  <1>4. s \in Seq(Nat) /\ Len(s) = Len(chain) /\ i \in 1..Len(s) /\ Len(chain) \in Nat
    BY <1>1, DataCaptured, ChainIs
  <1>5. Before(i, s) = i - 1 /\ Before(Len(s) + 1, s) = Len(chain) - 1 + (3 + WordBits) /\ s[i] = 3 + WordBits
    <2>1. Before(i, s) = i - 1 /\ Before(Len(chain) + 1, s) = Len(chain) - 1 + Len(out)
      BY <1>1, <1>2, <1>3, PathCaptured
    <2>2. s[i] = Len(out)
      BY <1>2 DEF CapturedLengths
    <2> QED BY <1>3, <1>4, <2>1, <2>2
  <1>6. Before(Len(s) + 1, s) <= Len(path)
    <2>1. WordBits \in Nat
      BY SizesAreLegal
    <2>2. Len(chain) - 1 + (3 + WordBits) <= Len(chain) + 2 + WordBits
      BY SMT, <1>4, <2>1
    <2> QED BY <1>5, <2>2
  <1>7. p \in Seq(Bit) /\ Len(p) = 3 + WordBits /\ \A m \in 1..(3 + WordBits) : p[m] = path[(i - 1) + m]
    <2> HIDE DEF s, i
    <2>1. p \in Seq(Bit) /\ Len(p) = s[i] /\ \A m \in 1..s[i] : p[m] = path[Before(i, s) + m]
      BY <1>1, <1>4, <1>6, PartIs
    <2> HIDE DEF p
    <2> QED BY <1>5, <2>1
  <1>8. DrLengths = s
    BY DEF DrLengths, CapturedLengths
  <1>9. {[device |-> d, ir |-> ir[d], bits |-> Part(d, DrLengths)] :
           d \in {e \in Devices : Accessing(e) /\ offer.ack = JtagOk}} = {x}
    <2>1. {e \in Devices : Accessing(e) /\ offer.ack = JtagOk} = {i}
      BY <1>2
    <2> QED BY <1>8, <2>1
  <1>10. updates' = <<x>>
    BY <1>9, SequenceOfOne, OfOneOrNone
  <1>11. x.device = i /\ x.bits = p
    OBVIOUS
  <1> HIDE DEF x, p
  <1>12. Len(updates') = 1 /\ updates'[1] = x
    BY <1>10
  <1> QED BY <1>7, <1>11, <1>12

LEMMA CycleKeepsData ==
  ASSUME TypeInv, phase = "data", DataInv, Cycle
  PROVE  DataInv'
  <1> DEFINE n == Len(todo)   i == command.device   w == WordBits   j == IdleCycles
             e == Len(chain) - i   l == Len(chain) + 2 + w
             r == command.request   d == DataBits(command)
             in == TransferIn(chain, i, r, d)   F == DataCycles(e, Reading, d)
             out == Answered(offer)
             sh(k) == IF k = j + 1 THEN l ELSE l - (k - j - 2)
  <1>1. /\ i \in Devices /\ n <= j + 2 + (w + e) /\ Counts(todo, F, 0) /\ tap = EndTap[n] /\ IrSet
        /\ chain[i] = DpLength =>
             /\ offer.ack = JtagOk
             /\ n > j => updates = <<>> /\ Shifts(path, l, in, sh(n), i - 1, out)
             /\ n <= j =>
                  /\ Len(updates) = 1 /\ updates[1].device = i
                  /\ updates[1].bits \in Seq(Bit) /\ Len(updates[1].bits) = 3 + w
                  /\ \A m \in 1..(3 + w) : updates[1].bits[m] = in[(i - 1) + m]
             /\ HasRead(bits, DataRead(n, e, Reading), out)
    BY DEF DataInv
  <1>2. /\ command.code \in {IrAbort, IrDpacc, IrApacc} /\ Reading \in BOOLEAN
        /\ Len(chain) \in Nat /\ i \in 1..Len(chain) /\ w \in Nat \ {0} /\ j \in Nat
        /\ path \in Seq(Bit) /\ bits \in Seq(Bit) /\ chain \in Chains
        /\ out \in Seq(Bit) /\ Len(out) = 3 + w
    BY <1>1, TransferIs, SizesAreLegal
  <1>3. \A m \in 1..l : in[m] \in Bit
    BY <1>1, TransferShifts
  <1>4. i \in Nat \ {0} /\ i <= Len(chain) /\ l \in Nat /\ e \in Nat /\ l = i + e + 2 + w
    <2> HIDE DEF i, w
    <2> QED BY SMT, <1>2
  <1>5. /\ \A x \in 1..(j + 1) : F[x] = Go(0)
        /\ F[j + 2] = Go(1)
        /\ \A y \in 1..(w + e) :
             F[(j + 2) + y] =
               [tms  |-> IF y = 1 THEN 1 ELSE 0,
                tdi  |-> IF w + e + 1 - y <= w THEN d[w + e + 1 - y] ELSE 1,
                read |-> Reading /\ w + e + 1 - y <= w]
    <2>1. e \in Nat
      BY <1>4
    <2> HIDE DEF e, d
    <2> QED BY <2>1, DataCyclesAre
  <1>6. \A x \in 1..n : Tap[EndTap[x]][F[x].tms + 1] = EndTap[x - 1]
    <2> SUFFICES ASSUME NEW x \in 1..n PROVE Tap[EndTap[x]][F[x].tms + 1] = EndTap[x - 1]
      OBVIOUS
    <2>1. e \in Nat /\ x \in 1..(j + 2 + (w + e))
      <3>1. n \in Nat
        BY LenProperties DEF TypeInv, ProbeInv
      <3> HIDE DEF n, e, j, w
      <3> QED BY SMT, <1>1, <1>2, <1>4, <3>1
    <2> HIDE DEF e, d
    <2> QED BY <2>1, DataMoves
  <1>7. /\ n \in Nat \ {0} /\ Len(todo') = n - 1 /\ Counts(todo', F, 0) /\ tap' = EndTap[n - 1]
        /\ Clock(F[n].tms, F[n].tdi)
        /\ bits' = IF F[n].read THEN Append(bits, IF Shifting THEN path[1] ELSE 1) ELSE bits
        /\ chain' = chain /\ command' = command
    BY <1>1, <1>6, CycleIs
  <1>8. /\ tap \notin {"reset", "updateIr"} => ir' = ir
        /\ tap # "captureDr" => offer' = offer
        /\ tap # "updateDr" => updates' = updates
        /\ tap \in {"idle", "exit1Dr"} => path' = path
        /\ tap \in {"shiftIr", "shiftDr"} => path' = Append(Tail(path), F[n].tdi)
        /\ tap = "updateDr" =>
              updates' = updates \o
                SetToSeq({[device |-> x, ir |-> ir[x], bits |-> Part(x, DrLengths)] :
                            x \in {y \in Devices : Accessing(y) /\ offer.ack = JtagOk}})
    BY <1>7, ClockDoes, Zenon
  <1>9. /\ DataRead(0, e, Reading) = IF Reading THEN 3 + w ELSE 3
        /\ \A x \in 1..(j + 2) : DataRead(x - 1, e, Reading) = DataRead(x, e, Reading)
        /\ \A y \in 1..(w + e) :
             IF Reading /\ w + e + 1 - y <= w
               THEN /\ DataRead((j + 2) + y, e, Reading) = 2 + (w + e + 1 - y)
                    /\ DataRead((j + 2) + y - 1, e, Reading) = 3 + (w + e + 1 - y)
               ELSE DataRead((j + 2) + y - 1, e, Reading) = DataRead((j + 2) + y, e, Reading)
    <2>1. e \in Nat /\ Reading \in BOOLEAN
      BY <1>2, <1>4
    <2> HIDE DEF e
    <2> QED BY <2>1, DataReadIs
  <1>10. \A y \in 1..(w + e) :
           /\ l - y \in Nat /\ l - y < l /\ l - y + 1 = i + 2 + (w + e + 1 - y) /\ l - y + 1 \in 1..l
           /\ in[l - y + 1] = IF w + e + 1 - y <= w THEN d[w + e + 1 - y] ELSE 1
    BY <1>1, DataShifts
  <1>11. Answered(offer)' = Answered(offer') /\ Devices' = Devices /\ Reading' = Reading
    BY <1>7 DEF Answered, Devices, Reading
  <1>12. /\ \A x \in 0..j : EndTap[x] = "idle"
         /\ EndTap[j + 1] = "updateDr" /\ EndTap[j + 2] = "exit1Dr"
         /\ \A x \in Nat : x > j + 2 => EndTap[x] = "shiftDr"
    BY EndTapIs
  <1> HIDE DEF n, i, w, j, e, l, r, d, in, F, sh
  <1>13. \/ n \in 1..j
         \/ n = j + 1
         \/ n = j + 2
         \/ n > j + 2 /\ n - (j + 2) \in 1..(w + e) /\ (j + 2) + (n - (j + 2)) = n
    BY SMT, <1>1, <1>2, <1>4, <1>7
  <1>14. tap \in {"idle", "updateDr", "exit1Dr", "shiftDr"}
    <2>1. \A x \in 1..j : x \in 0..j
      BY SMT, <1>2
    <2> QED BY <1>1, <1>7, <1>12, <1>13, <2>1
  <1>15. IrSet' /\ offer' = offer
    <2>1. ir' = ir /\ offer' = offer
      BY <1>8, <1>14
    <2> QED BY <1>1, <1>7, <2>1, IrSetStays
  <1>16. n - 1 <= j + 2 + (w + e)
    BY SMT, <1>1, <1>2, <1>4, <1>7
  <1> DEFINE Given(u) ==
        /\ Len(u) = 1 /\ u[1].device = i
        /\ u[1].bits \in Seq(Bit) /\ Len(u[1].bits) = 3 + w
        /\ \A m \in 1..(3 + w) : u[1].bits[m] = in[(i - 1) + m]
      Passed(u, p, k) == u = <<>> /\ Shifts(p, l, in, sh(k), i - 1, out)
  <1>17. ASSUME chain[i] = DpLength
         PROVE  /\ n - 1 > j => Passed(updates', path', n - 1)
                /\ n - 1 <= j => Given(updates')
                /\ HasRead(bits', DataRead(n - 1, e, Reading), out)
    <2>1. /\ offer.ack = JtagOk /\ HasRead(bits, DataRead(n, e, Reading), out)
          /\ n > j => Passed(updates, path, n)
          /\ n <= j => Given(updates)
      BY <1>1, <1>17
    <2> HIDE DEF out
    <2>2. ASSUME n \in 1..(j + 2) PROVE HasRead(bits', DataRead(n - 1, e, Reading), out)
      <3>1. n \in 1..(j + 1) \/ n = j + 2
        BY SMT, <1>2, <2>2
      <3>2. F[n].read = FALSE
        BY <1>5, <3>1 DEF Go
      <3>3. DataRead(n - 1, e, Reading) = DataRead(n, e, Reading)
        BY <1>9, <2>2
      <3> QED BY <1>7, <2>1, <3>2, <3>3
    <2>3. CASE n \in 1..j
      <3>1. n <= j /\ n - 1 <= j /\ ~(n - 1 > j) /\ n \in 0..j /\ n \in 1..(j + 2)
        BY SMT, <1>2, <2>3
      <3>2. updates' = updates
        BY <1>1, <1>8, <1>12, <3>1
      <3> HIDE DEF Given, Passed
      <3> QED BY <2>1, <2>2, <3>1, <3>2
    <2>4. CASE n = j + 1
      <3>1. n > j /\ n - 1 <= j /\ ~(n - 1 > j) /\ n \in 1..(j + 2) /\ tap = "updateDr"
        <4>1. n > j /\ n - 1 <= j /\ ~(n - 1 > j) /\ n \in 1..(j + 2)
          BY SMT, <1>2, <2>4
        <4> QED BY <1>1, <1>12, <2>4, <4>1
      <3>2. updates = <<>> /\ Shifts(path, l, in, l, i - 1, out)
        BY <2>1, <2>4, <3>1 DEF sh
      <3>3. Len(path) = l /\ \A m \in 1..l : path[m] = in[m]
        BY <1>4, <3>2, ShiftsEnd
      <3>4. updates' = updates \o
                SetToSeq({[device |-> x, ir |-> ir[x], bits |-> Part(x, DrLengths)] :
                            x \in {y \in Devices : Accessing(y) /\ offer.ack = JtagOk}})
        BY <1>8, <3>1
      <3>5. /\ Len(updates') = 1 /\ updates'[1].device = i
            /\ updates'[1].bits \in Seq(Bit) /\ Len(updates'[1].bits) = 3 + w
            /\ \A m \in 1..(3 + w) : updates'[1].bits[m] = path[(i - 1) + m]
        BY <1>1, <1>2, <1>17, <2>1, <3>2, <3>3, <3>4, UpdateIs DEF i, l, w
      <3>6. \A m \in 1..(3 + w) : (i - 1) + m \in 1..l
        BY SMT, <1>2, <1>4
      <3>7. \A m \in 1..(3 + w) : updates'[1].bits[m] = in[(i - 1) + m]
        BY <3>3, <3>5, <3>6
      <3>8. Given(updates')
        BY <3>5, <3>7
      <3> HIDE DEF Given, Passed
      <3> QED BY <2>2, <3>1, <3>8
    <2>5. CASE n = j + 2
      <3>1. n > j /\ n - 1 > j /\ ~(n - 1 <= j) /\ n \in 1..(j + 2) /\ n - 1 = j + 1 /\ n # j + 1 /\ l - (n - j - 2) = l
        BY SMT, <1>2, <1>4, <2>5
      <3>2. tap = "exit1Dr"
        BY <1>1, <1>12, <2>5
      <3>3. path' = path /\ updates' = updates
        BY <1>8, <3>2
      <3>4. sh(n) = l /\ sh(n - 1) = l
        BY <3>1 DEF sh
      <3>5. Passed(updates', path', n - 1)
        BY <2>1, <3>1, <3>3, <3>4
      <3> HIDE DEF Given, Passed
      <3> QED BY <2>2, <3>1, <3>5
    <2>6. CASE n > j + 2 /\ n - (j + 2) \in 1..(w + e) /\ (j + 2) + (n - (j + 2)) = n
      <3> DEFINE y == n - (j + 2)   q == w + e + 1 - y   k == l - y   at == i - 1
      <3>1. y \in 1..(w + e) /\ (j + 2) + y = n /\ (j + 2) + y - 1 = n - 1
        <4>1. y \in 1..(w + e) /\ (j + 2) + y = n
          BY <2>6
        <4> HIDE DEF y, Given, Passed
        <4>2. (j + 2) + y - 1 = n - 1
          BY SMT, <1>2, <1>4, <1>7, <4>1
        <4> QED BY <4>1, <4>2
      <3>2. /\ k \in Nat /\ k < l /\ k + 1 = i + 2 + q /\ k + 1 \in 1..l
            /\ in[k + 1] = IF q <= w THEN d[q] ELSE 1
        BY <1>10, <3>1
      <3>3. /\ sh(n) = k /\ sh(n - 1) = k + 1 /\ n > j /\ n - 1 > j /\ ~(n - 1 <= j)
        <4>1. /\ n # j + 1 /\ l - (n - j - 2) = k /\ n > j /\ n - 1 > j /\ ~(n - 1 <= j)
              /\ n - 1 # j + 1 => l - ((n - 1) - j - 2) = k + 1
              /\ n - 1 = j + 1 => FALSE
          BY SMT, <1>2, <1>4, <1>7, <2>6
        <4> QED BY <4>1 DEF sh
      <3>4. /\ F[n].tdi = in[k + 1] /\ F[n].read = (Reading /\ q <= w)
        <4>1. F[n] = [tms |-> IF y = 1 THEN 1 ELSE 0, tdi |-> IF q <= w THEN d[q] ELSE 1,
                      read |-> Reading /\ q <= w]
          BY <1>5, <3>1
        <4>2. F[n].tdi = (IF q <= w THEN d[q] ELSE 1) /\ F[n].read = (Reading /\ q <= w)
          <5> HIDE DEF q, y
          <5> QED BY <4>1
        <4> HIDE DEF k, q
        <4> QED BY <3>2, <4>2
      <3>5. /\ IF Reading /\ q <= w
                 THEN DataRead(n, e, Reading) = 2 + q /\ DataRead(n - 1, e, Reading) = 3 + q
                 ELSE DataRead(n - 1, e, Reading) = DataRead(n, e, Reading)
        BY <1>9, <3>1
      <3>6. q \in Nat \ {0} /\ at \in Nat /\ at + (3 + w) <= l /\ k + 1 - at = 3 + q
            /\ (q <= w => 3 + q \in 1..(3 + w)) /\ 2 + q \in Nat /\ (2 + q) + 1 = 3 + q
        <4>1. w \in Nat \ {0} /\ e \in Nat /\ i \in Nat \ {0} /\ l = i + e + 2 + w /\ y \in 1..(w + e)
          BY <1>2, <1>4, <3>1
        <4> HIDE DEF y, Given, Passed
        <4> QED BY SMT, <4>1
      <3>7. tap = "shiftDr"
        BY <1>1, <1>7, <1>12, <2>6
      <3>8. /\ path' = Append(Tail(path), in[k + 1]) /\ updates' = updates
            /\ updates = <<>> /\ Shifts(path, l, in, k, at, out)
        BY <1>8, <2>1, <3>3, <3>4, <3>7
      <3> HIDE DEF y, q, k, at, Given, Passed
      <3>9. /\ Shifts(path', l, in, k + 1, at, out)
            /\ k + 1 - at \in 1..Len(out) => path[1] = out[k + 1 - at]
        <4>1. /\ path \in Seq(Bit) /\ l \in Nat /\ k \in Nat /\ k < l /\ at \in Nat /\ out \in Seq(Bit)
              /\ at + Len(out) <= l /\ Shifts(path, l, in, k, at, out) /\ in[k + 1] \in Bit
          BY <1>2, <1>3, <1>4, <3>2, <3>6, <3>8
        <4>2. Shifts(Append(Tail(path), in[k + 1]), l, in, k + 1, at, out)
          BY <4>1, ShiftsOn
        <4>3. k + 1 - at \in 1..Len(out) => path[1] = out[k + 1 - at]
          BY <4>1, ShiftsOn
        <4> QED BY <3>8, <4>2, <4>3
      <3>10. HasRead(bits', DataRead(n - 1, e, Reading), out)
        <4>1. CASE Reading /\ q <= w
          <5>1. path[1] = out[3 + q] /\ out[3 + q] \in Bit
            <6>1. path[1] = out[3 + q] /\ 3 + q \in 1..Len(out)
              BY <1>2, <3>6, <3>9, <4>1
            <6> QED BY <1>2, <6>1, ElementOfSeq
          <5>2. bits' = Append(bits, path[1])
            BY <1>7, <3>4, <3>7, <4>1 DEF Shifting
          <5>3. HasRead(bits, 2 + q, out) /\ DataRead(n - 1, e, Reading) = 3 + q
            BY <2>1, <3>5, <4>1
          <5>4. /\ bits \in Seq(Bit) /\ 2 + q \in Nat /\ path[1] \in Bit /\ path[1] = out[(2 + q) + 1]
            BY <1>2, <3>6, <5>1
          <5>5. HasRead(Append(bits, path[1]), (2 + q) + 1, out)
            BY <5>3, <5>4, ReadOn
          <5> QED BY <3>6, <5>2, <5>3, <5>5
        <4>2. CASE ~(Reading /\ q <= w)
          BY <1>7, <2>1, <3>4, <3>5, <4>2
        <4> QED BY <4>1, <4>2
      <3>11. Passed(updates', path', n - 1)
        BY <3>3, <3>8, <3>9 DEF at, Passed
      <3> QED BY <3>3, <3>10, <3>11
    <2> QED BY <1>13, <2>3, <2>4, <2>5, <2>6
  <1>18. /\ Len(chain') + 2 + WordBits = l /\ command'.device = i /\ command'.request = r
         /\ TransferIn(chain', i, r, DataBits(command')) = in
         /\ DataBits(command)' = DataBits(command') /\ Len(chain') - i = e
         /\ DataCycles(e, Reading', DataBits(command')) = F
    BY <1>7, <1>11 DEF l, w, i, r, in, d, e, F, DataBits
  <1> DEFINE m == Len(todo')
  <1>19. m = n - 1 /\ Answered(offer') = out /\ Reading' = Reading
    BY <1>7, <1>11, <1>15
  <1> HIDE DEF m, out
  <1>20. /\ i \in Devices' /\ m <= j + 2 + (w + e) /\ Counts(todo', F, 0) /\ tap' = EndTap[m]
         /\ chain'[i] = DpLength =>
              /\ offer'.ack = JtagOk
              /\ m > j => Passed(updates', path', m)
              /\ m <= j => Given(updates')
              /\ HasRead(bits', DataRead(m, e, Reading), out)
    <2> HIDE DEF Passed, Given
    <2>1. i \in Devices' /\ m <= j + 2 + (w + e) /\ Counts(todo', F, 0) /\ tap' = EndTap[m]
      BY <1>1, <1>7, <1>11, <1>16, <1>19
    <2>2. ASSUME chain'[i] = DpLength
          PROVE  /\ offer'.ack = JtagOk
                 /\ m > j => Passed(updates', path', m)
                 /\ m <= j => Given(updates')
                 /\ HasRead(bits', DataRead(m, e, Reading), out)
      BY <1>1, <1>7, <1>15, <1>17, <1>19, <2>2
    <2> QED BY <2>1, <2>2
  <1> QED BY <1>7, <1>11, <1>15, <1>18, <1>19, <1>20 DEF DataInv, m, j, w, sh

LEMMA CycleKeepsRefused ==
  ASSUME TypeInv, phase = "refused", RefusedInv, Cycle
  PROVE  RefusedInv'
  <1> DEFINE n == Len(todo)   i == command.device   j == IdleCycles   F == RefusedCycles
  <1>1. /\ i \in Devices /\ n <= j + 3 /\ Counts(todo, F, 0) /\ tap = EndTap[n] /\ IrSet
        /\ chain[i] = DpLength => offer.ack = JtagWait /\ updates = <<>>
    BY DEF RefusedInv
  <1>2. j \in Nat
    BY SizesAreLegal
  <1>3. \A x \in 1..n : Tap[EndTap[x]][F[x].tms + 1] = EndTap[x - 1]
    <2>1. \A x \in 1..n : x \in 1..(j + 3)
      <3>1. n \in Nat
        BY LenProperties DEF TypeInv, ProbeInv
      <3> HIDE DEF n, j
      <3> QED BY SMT, <1>1, <1>2, <3>1
    <2> QED BY <2>1, RefusedMoves
  <1>4. /\ n \in Nat \ {0} /\ Len(todo') = n - 1 /\ Counts(todo', F, 0) /\ tap' = EndTap[n - 1]
        /\ Clock(F[n].tms, F[n].tdi) /\ chain' = chain /\ command' = command
    BY <1>1, <1>3, CycleIs
  <1>5. /\ tap \notin {"reset", "updateIr"} => ir' = ir
        /\ tap # "captureDr" => offer' = offer
        /\ tap # "updateDr" => updates' = updates
        /\ tap = "updateDr" =>
              updates' = updates \o
                SetToSeq({[device |-> x, ir |-> ir[x], bits |-> Part(x, DrLengths)] :
                            x \in {y \in Devices : Accessing(y) /\ offer.ack = JtagOk}})
    BY <1>4, ClockDoes, Zenon
  <1>6. tap \in {"idle", "updateDr", "exit1Dr", "shiftDr"}
    <2>1. \/ n \in 0..j
          \/ n = j + 1
          \/ n = j + 2
          \/ n \in Nat /\ n > j + 2
      <3> HIDE DEF n, j
      <3> QED BY SMT, <1>1, <1>2, <1>4
    <2> QED BY <1>1, <2>1, EndTapIs
  <1>7. IrSet' /\ offer' = offer /\ Devices' = Devices
    <2>1. ir' = ir /\ offer' = offer
      BY <1>5, <1>6
    <2>2. Devices' = Devices
      BY <1>4 DEF Devices
    <2> QED BY <1>1, <1>4, <2>1, <2>2, IrSetStays
  <1>8. ASSUME chain[i] = DpLength PROVE updates' = <<>>
    <2>1. updates = <<>> /\ offer.ack # JtagOk
      BY <1>1, <1>8 DEF JtagWait, JtagOk
    <2>2. CASE tap = "updateDr"
      <3>1. {[device |-> x, ir |-> ir[x], bits |-> Part(x, DrLengths)] :
                x \in {y \in Devices : Accessing(y) /\ offer.ack = JtagOk}} = {}
        BY <2>1
      <3>2. updates' = <<>> \o SetToSeq({})
        BY <1>5, <2>1, <2>2, <3>1
      <3> QED BY <3>2, SequenceOfNone, OfOneOrNone
    <2>3. CASE tap # "updateDr"
      BY <1>5, <2>1, <2>3
    <2> QED BY <2>2, <2>3
  <1>9. n - 1 <= j + 3
    <2> HIDE DEF n, j
    <2> QED BY SMT, <1>1, <1>2, <1>4
  <1>10. command'.device = i
    BY <1>4
  <1> HIDE DEF n, i, F
  <1> QED BY <1>1, <1>4, <1>7, <1>8, <1>9, <1>10 DEF RefusedInv, F

LEMMA CycleKeepsIdcode ==
  ASSUME TypeInv, phase = "idcode", IdcodeInv, Cycle
  PROVE  IdcodeInv'
  <1> DEFINE n == Len(todo)   i == command.device   w == WordBits   c == Len(chain)
             l == c - 1 + w   ones == Fill(1, l)   out == BitsOf(Idcode(i), w)
             F == IdcodeCycles(i)   t == IdcodeTap(i)
             rd(k) == IF k > w + 2 THEN 0 ELSE IF k >= 2 THEN w + 2 - k ELSE w
  <1>1. /\ i \in Devices /\ n <= w + i + 4 /\ Counts(todo, F, 0) /\ tap = t[n] /\ IrSet
        /\ chain[i] >= DpLength =>
             /\ n \in 2..(w + i + 1) => Shifts(path, l, ones, w + i + 1 - n, i - 1, out)
             /\ HasRead(bits, rd(n), out)
    BY DEF IdcodeInv
  <1>2. command.code = IrIdcode /\ path \in Seq(Bit) /\ bits \in Seq(Bit) /\ chain \in Chains
    BY DEF TypeInv, ProbeInv, BoardInv, Identifications
  <1>3. c \in Nat /\ i \in 1..c /\ w \in Nat \ {0}
    BY <1>1, <1>2, ChainIs, SizesAreLegal
  <1>4. i \in Nat \ {0} /\ i <= c /\ l \in Nat
    <2> HIDE DEF i, w, c
    <2> QED BY SMT, <1>3
  <1>5. out \in Seq(Bit) /\ Len(out) = w
    <2>1. Idcode(i) \in Nat
      <3>1. Pow2[w] \in Nat \ {0}
        BY <1>3, Pow2Grows
      <3> HIDE DEF i, w
      <3> QED BY SMT, <1>4, <3>1 DEF Idcode, w
    <2> HIDE DEF i
    <2> QED BY <1>3, <2>1, BitsAreBits
  <1>6. \A m \in 1..l : ones[m] = 1
    BY <1>4, OnesAreBits
  <1>7. /\ t[0] = "idle" /\ t[1] = "updateDr" /\ t[2] = "exit1Dr" /\ t[w + i + 2] = "captureDr"
        /\ t[w + i + 3] = "selectDr" /\ t[w + i + 4] = "idle"
        /\ \A x \in 3..(w + i + 1) : t[x] = "shiftDr"
        /\ \A x \in 1..(w + i + 4) : Tap[t[x]][F[x].tms + 1] = t[x - 1]
    <2>1. i \in Nat \ {0}
      BY <1>4
    <2> HIDE DEF i
    <2> QED BY <2>1, IdcodeMoves
  <1>8. /\ F[1] = Go(0) /\ F[2] = Go(1) /\ F[w + i + 4] = Go(1)
        /\ \A x \in 3..(w + 2) : F[x] = [tms |-> IF x = 3 THEN 1 ELSE 0, tdi |-> 1, read |-> TRUE]
        /\ \A x \in (w + 3)..(w + i + 3) : F[x] = Go(0)
    <2>1. i \in Nat \ {0}
      BY <1>4
    <2> HIDE DEF i
    <2> QED BY <2>1, IdcodeCyclesAre
  <1>9. \A x \in 1..n : Tap[t[x]][F[x].tms + 1] = t[x - 1]
    <2>1. \A x \in 1..n : x \in 1..(w + i + 4)
      <3>1. n \in Nat
        BY LenProperties DEF TypeInv, ProbeInv
      <3> HIDE DEF n, i, w
      <3> QED BY SMT, <1>1, <1>3, <1>4, <3>1
    <2> HIDE DEF F, t, n, w
    <2> QED BY <1>7, <2>1
  <1>10. /\ n \in Nat \ {0} /\ Len(todo') = n - 1 /\ Counts(todo', F, 0) /\ tap' = t[n - 1]
         /\ Clock(F[n].tms, F[n].tdi)
         /\ bits' = IF F[n].read THEN Append(bits, IF Shifting THEN path[1] ELSE 1) ELSE bits
         /\ chain' = chain /\ command' = command
    BY <1>1, <1>9, CycleIs
  <1>11. /\ tap \notin {"reset", "updateIr"} => ir' = ir
         /\ tap \in {"idle", "selectDr", "selectIr", "exit1Ir", "exit1Dr"} => path' = path
         /\ tap \in {"shiftIr", "shiftDr"} => path' = Append(Tail(path), F[n].tdi)
         /\ tap = "captureDr" =>
              \E o \in [ack : {JtagWait, JtagOk}, word : Words] :
                offer' = o /\ path' = FlattenSeq(CapturedAll(o))
    BY <1>10, ClockDoes
  <1>12. Devices' = Devices /\ Len(chain') - 1 + WordBits = l /\ command'.device = i
         /\ command'.code = command.code
    BY <1>10 DEF Devices
  <1> HIDE DEF n, i, w, c, l, ones, out, F, t, rd
  <1>13. n = 1 \/ n = 2 \/ n = w + i + 4 \/ n = w + i + 3 \/ n = w + i + 2 \/ n \in 3..(w + i + 1)
    BY SMT, <1>1, <1>3, <1>4, <1>10
  <1>14. tap \in {"idle", "updateDr", "exit1Dr", "captureDr", "selectDr", "shiftDr"}
    BY <1>1, <1>7, <1>13
  <1>15. IrSet'
    <2>1. ir' = ir
      BY <1>11, <1>14
    <2> QED BY <1>1, <1>10, <2>1, IrSetStays
  <1>16. n - 1 <= w + i + 4
    BY SMT, <1>1, <1>3, <1>4, <1>10
  <1>17. ASSUME chain[i] >= DpLength
         PROVE  /\ n - 1 \in 2..(w + i + 1) => Shifts(path', l, ones, w + i + 1 - (n - 1), i - 1, out)
                /\ HasRead(bits', rd(n - 1), out)
    <2>1. HasRead(bits, rd(n), out)
      BY <1>1, <1>17
    <2>2. CASE n \in 3..(w + i + 1)
      <3> DEFINE k == w + i + 1 - n   at == i - 1
      <3>1. /\ k \in Nat /\ k < l /\ k + 1 \in 1..l /\ at \in Nat /\ at + w <= l
            /\ w + i + 1 - (n - 1) = k + 1 /\ n \in 2..(w + i + 1)
            /\ n \in 3..(w + 2) \/ n \in (w + 3)..(w + i + 3)
        BY SMT, <1>3, <1>4, <2>2 DEF l
      <3>2. Shifts(path, l, ones, k, at, out) /\ tap = "shiftDr"
        BY <1>1, <1>7, <1>17, <2>2, <3>1
      <3>3. F[n].tdi = 1
        <4>1. CASE n \in 3..(w + 2)
          <5>1. F[n] = [tms |-> IF n = 3 THEN 1 ELSE 0, tdi |-> 1, read |-> TRUE]
            BY <1>8, <4>1
          <5> QED BY <5>1
        <4>2. CASE n \in (w + 3)..(w + i + 3)
          BY <1>8, <4>2 DEF Go
        <4> QED BY <3>1, <4>1, <4>2
      <3>4. ones[k + 1] = 1 /\ ones[k + 1] \in Bit
        BY <1>6, <3>1 DEF Bit
      <3>5. path' = Append(Tail(path), ones[k + 1])
        BY <1>11, <3>2, <3>3, <3>4
      <3> HIDE DEF k, at
      <3>6. /\ Shifts(path', l, ones, k + 1, at, out)
            /\ k + 1 - at \in 1..Len(out) => path[1] = out[k + 1 - at]
        <4>1. /\ path \in Seq(Bit) /\ l \in Nat /\ k \in Nat /\ k < l /\ at \in Nat /\ out \in Seq(Bit)
              /\ at + Len(out) <= l /\ Shifts(path, l, ones, k, at, out) /\ ones[k + 1] \in Bit
          BY <1>2, <1>4, <1>5, <3>1, <3>2, <3>4
        <4>2. Shifts(Append(Tail(path), ones[k + 1]), l, ones, k + 1, at, out)
          BY <4>1, ShiftsOn
        <4>3. k + 1 - at \in 1..Len(out) => path[1] = out[k + 1 - at]
          BY <4>1, ShiftsOn
        <4> QED BY <3>5, <4>2, <4>3
      <3>7. HasRead(bits', rd(n - 1), out)
        <4>1. CASE n \in 3..(w + 2)
          <5> DEFINE x == w + 2 - n
          <5>1. /\ x \in Nat /\ x + 1 = k + 1 - at /\ x + 1 \in 1..w
                /\ ~(n > w + 2) /\ n >= 2 /\ ~(n - 1 > w + 2) /\ n - 1 >= 2 /\ w + 2 - (n - 1) = x + 1
            BY SMT, <1>3, <1>4, <4>1 DEF k, at
          <5>2. rd(n) = x /\ rd(n - 1) = x + 1
            BY <5>1 DEF rd
          <5> HIDE DEF x
          <5>3. path[1] = out[x + 1] /\ out[x + 1] \in Bit
            BY <1>5, <3>6, <5>1, ElementOfSeq
          <5>4. F[n].read = TRUE
            <6>1. F[n] = [tms |-> IF n = 3 THEN 1 ELSE 0, tdi |-> 1, read |-> TRUE]
              BY <1>8, <4>1
            <6> QED BY <6>1
          <5>5. bits' = Append(bits, path[1])
            BY <1>10, <3>2, <5>4 DEF Shifting
          <5>6. HasRead(Append(bits, path[1]), x + 1, out)
            BY <1>2, <2>1, <5>1, <5>2, <5>3, ReadOn
          <5> QED BY <5>2, <5>5, <5>6
        <4>2. CASE n \in (w + 3)..(w + i + 3)
          <5>1. n > w + 2 /\ (~(n - 1 > w + 2) => n - 1 >= 2 /\ w + 2 - (n - 1) = 0)
            BY SMT, <1>3, <1>4, <4>2
          <5>2. rd(n) = 0 /\ rd(n - 1) = 0
            BY <5>1 DEF rd
          <5>3. bits' = bits
            BY <1>8, <1>10, <4>2 DEF Go
          <5> QED BY <2>1, <5>2, <5>3
        <4> QED BY <3>1, <4>1, <4>2
      <3> QED BY <3>1, <3>6, <3>7 DEF at
    <2>3. CASE n \notin 3..(w + i + 1)
      <3>1. F[n].read = FALSE
        <4>1. w + i + 3 \in (w + 3)..(w + i + 3) /\ w + i + 2 \in (w + 3)..(w + i + 3)
          BY SMT, <1>3, <1>4
        <4> QED BY <1>8, <1>13, <2>3, <4>1 DEF Go
      <3>2. rd(n - 1) = rd(n)
        <4>1. /\ n > w + 2 \/ n = 1 \/ n = 2
              /\ n > w + 2 => n - 1 > w + 2 \/ (n - 1 >= 2 /\ w + 2 - (n - 1) = 0)
              /\ n = 1 => ~(n > w + 2) /\ ~(n >= 2) /\ ~(n - 1 > w + 2) /\ ~(n - 1 >= 2)
              /\ n = 2 => ~(n > w + 2) /\ n >= 2 /\ w + 2 - n = w /\ ~(n - 1 > w + 2) /\ ~(n - 1 >= 2)
          BY SMT, <1>3, <1>4, <1>13, <2>3
        <4> QED BY <4>1 DEF rd
      <3>3. HasRead(bits', rd(n - 1), out)
        BY <1>10, <2>1, <3>1, <3>2
      <3>4. ASSUME n - 1 \in 2..(w + i + 1) PROVE Shifts(path', l, ones, w + i + 1 - (n - 1), i - 1, out)
        <4>1. n = w + i + 2 /\ w + i + 1 - (n - 1) = 0
          BY SMT, <1>3, <1>4, <1>10, <2>3, <3>4
        <4>2. PICK o \in [ack : {JtagWait, JtagOk}, word : Words] :
                offer' = o /\ path' = FlattenSeq(CapturedAll(o))
          BY <1>1, <1>7, <1>11, <4>1
        <4>3. o.ack \in Nat /\ o.word \in Nat
          <5>1. o.ack \in {JtagWait, JtagOk} /\ o.word \in Words
            BY <4>2
          <5>2. JtagWait \in Nat /\ JtagOk \in Nat
            BY DEF JtagWait, JtagOk
          <5> QED BY <5>1, <5>2, WordsAre
        <4>4. Captured(i, o) = out
          BY <1>1, <1>2, <1>17, WhoCaptures DEF i, out, w
        <4>5. /\ Len(path') = c - 1 + Len(out)
              /\ \A m \in 1..Len(out) : path'[(i - 1) + m] = out[m]
          BY <1>1, <1>2, <1>5, <4>2, <4>3, <4>4, PathCaptured DEF i, c
        <4>6. Len(path') = l /\ i - 1 \in Nat
          <5>1. i - 1 \in Nat
            BY SMT, <1>4
          <5> QED BY <1>5, <4>5, <5>1 DEF l
        <4>7. Shifts(path', l, ones, 0, i - 1, out)
          BY <1>4, <4>5, <4>6, ShiftsBegin
        <4> QED BY <4>1, <4>7
      <3> QED BY <3>3, <3>4
    <2> QED BY <2>2, <2>3
  <1> DEFINE m == Len(todo')
  <1>18. m = n - 1
    BY <1>10
  <1> HIDE DEF m
  <1>19. /\ i \in Devices' /\ m <= w + i + 4 /\ Counts(todo', F, 0) /\ tap' = t[m]
         /\ chain'[i] >= DpLength =>
              /\ m \in 2..(w + i + 1) => Shifts(path', l, ones, w + i + 1 - m, i - 1, out)
              /\ HasRead(bits', rd(m), out)
    BY <1>1, <1>10, <1>12, <1>16, <1>17, <1>18
  <1> QED BY <1>12, <1>15, <1>19 DEF IdcodeInv, m, F, t, w, ones, out, rd

-----------------------------------------------------------------------------
(***************************************************************************)
(* One part of a command follows another.                                  *)
(***************************************************************************)

\* A command begins from Run-Test/Idle.
LEMMA BeginsIr ==
  ASSUME TypeInv, DescribedInv, described, tap = "idle", NEW i \in 1..MaxDevices, i <= count, NEW code \in Nat,
         command'.device = i, command'.code = code, todo' = SetIrWalk(i, code),
         bits' = <<>>, updates' = <<>>, UNCHANGED <<chain, tap>>
  PROVE  IrInv'
  <1> DEFINE l == Total(chain)   m == Len(todo')
  <1>1. i \in Devices /\ chain \in Chains
    <2>1. count = Len(chain) /\ i \in 1..MaxDevices
      BY DEF DescribedInv
    <2>2. Len(chain) \in Nat /\ chain \in Chains /\ Devices = 1..Len(chain)
      BY ChainIs DEF TypeInv, BoardInv
    <2>3. i \in 1..Len(chain)
      BY SMT, <2>1, <2>2
    <2> QED BY <2>2, <2>3
  <1>2. Counts(todo', IrCycles(chain, i, code), 0) /\ m = l + 6
    BY <1>1, SetIrCounts
  <1>3. IrTap(chain)[l + 6] = "idle"
    <2> HIDE DEF l
    <2> QED BY <1>1, IrTapMoves DEF l
  <1>4. l \in Nat
    BY <1>1, Layout
  <1> HIDE DEF l, m
  <1>5. m <= l + 6 /\ ~(m \in 2..(l + 2)) /\ m # 1 /\ m # 0
    BY SMT, <1>2, <1>4
  <1>6. /\ m <= l + 6 /\ Counts(todo', IrCycles(chain', command'.device, command'.code), 0)
        /\ tap' = IrTap(chain')[m] /\ ~(m \in 2..(l + 2)) /\ m # 1 /\ m # 0
    BY <1>2, <1>3, <1>5
  <1>7. Total(chain') = l
    BY DEF l
  <1> QED BY <1>6, <1>7 DEF IrInv, m

\* The acknowledgement is told from what has been read.
LEMMA AcknowledgedIs ==
  ASSUME TypeInv, offer.ack \in {JtagWait, JtagOk}, HasRead(bits, 3, Answered(offer))
  PROVE  Acknowledged <=> offer.ack = JtagOk
  <1>1. offer.ack \in Nat /\ offer.word \in Nat
    BY OfferIs DEF TypeInv, BoardInv
  <1>2. \A q \in 1..3 : bits[q] = BitsOf(offer.ack, 3)[q]
    BY <1>1, AnswerBits DEF HasRead, Answered
  <1>3. Pow2[0] = 1 /\ Pow2[1] = 2 /\ Pow2[2] = 4
    <2>1. 0 + 1 = 1 /\ 1 + 1 = 2 /\ 0 \in Nat /\ 1 \in Nat
      OBVIOUS
    <2>2. Pow2[0] = 1 /\ Pow2[1] = 2 * Pow2[0] /\ Pow2[2] = 2 * Pow2[1]
      BY <2>1, Pow2Grows
    <2>3. Pow2[1] = 2
      BY <2>2
    <2> QED BY <2>2, <2>3
  <1>4. ASSUME NEW a \in Nat
        PROVE  /\ BitsOf(a, 3)[1] = (a \div 1) % 2 /\ BitsOf(a, 3)[2] = (a \div 2) % 2
               /\ BitsOf(a, 3)[3] = (a \div 4) % 2
    <2>1. /\ 3 \in Nat /\ 1 \in 1..3 /\ 2 \in 1..3 /\ 3 \in 1..3 /\ 1 - 1 = 0 /\ 2 - 1 = 1 /\ 3 - 1 = 2
      BY SMT
    <2>2. \A q \in 1..3 : BitsOf(a, 3)[q] = (a \div Pow2[q - 1]) % 2
      BY <2>1, BitsAreBits
    <2> QED BY <1>3, <2>1, <2>2
  <1>5. /\ (1 \div 1) % 2 = 1 /\ (1 \div 2) % 2 = 0 /\ (1 \div 4) % 2 = 0
        /\ (2 \div 1) % 2 = 0 /\ (2 \div 2) % 2 = 1 /\ (2 \div 4) % 2 = 0
    BY SMT
  <1>6. 1 \in 1..3 /\ 2 \in 1..3 /\ 3 \in 1..3
    BY SMT
  <1>7. CASE offer.ack = 1
    <2>1. bits[1] = 1 /\ bits[2] = 0 /\ bits[3] = 0
      BY <1>1, <1>2, <1>4, <1>5, <1>6, <1>7
    <2>2. bits[2] + 2 * bits[1] + 4 * bits[3] = 2
      BY <2>1
    <2> QED BY <1>7, <2>2 DEF Acknowledged, JtagOk
  <1>8. CASE offer.ack = 2
    <2>1. bits[1] = 0 /\ bits[2] = 1 /\ bits[3] = 0
      BY <1>1, <1>2, <1>4, <1>5, <1>6, <1>8
    <2>2. bits[2] + 2 * bits[1] + 4 * bits[3] = 1
      BY <2>1
    <2> QED BY <1>8, <2>2 DEF Acknowledged, JtagOk
  <1> QED BY <1>7, <1>8 DEF JtagWait, JtagOk

LEMMA PlanAsks ==
  ASSUME TypeInv, DescribedInv, described, phase = "ir", IrInv, todo = <<>>,
         command.kind = "transfer", todo' = AskWalk(command.device, command.request),
         UNCHANGED <<board, command, bits>>
  PROVE  AskInv'
  <1> DEFINE i == command.device   r == command.request   m == Len(todo')
  <1>1. i \in Devices /\ r \in Requests /\ chain \in Chains /\ Total(chain) \in Nat
    <2>1. command.device \in Devices
      BY CommandIs
    <2>2. command \in Transfers
      BY DEF TypeInv, ProbeInv, Identifications
    <2> QED BY <2>1, <2>2, Layout DEF Transfers, TypeInv, BoardInv
  <1>2. i \in Nat \ {0}
    BY <1>1, ChainIs
  <1>3. Len(todo) = 0
    OBVIOUS
  <1>4. IrSet /\ bits = <<>> /\ updates = <<>> /\ tap = IrTap(chain)[0]
    BY <1>3 DEF IrInv
  <1>5. tap = "idle"
    <2>1. command.code \in Nat
      BY CommandIs
    <2> QED BY <1>1, <1>4, <2>1, IrTapMoves
  <1>6. m = i + 5 /\ Counts(todo', AskCycles(i, r), 0)
    BY <1>1, <1>2, AskCounts
  <1>7. AskTap(i)[i + 5] = "idle"
    <2> HIDE DEF i, r
    <2> QED BY <1>2, AskMoves
  <1>8. /\ chain' = chain /\ ir' = ir /\ updates' = updates /\ tap' = tap /\ bits' = bits /\ command' = command
        /\ Devices' = Devices
    BY DEF board, Devices
  <1>9. IrSet'
    BY <1>4, <1>8, IrSetStays
  <1> HIDE DEF m, i, r
  <1>10. m <= i + 5 /\ ~(m <= i + 2)
    BY SMT, <1>2, <1>6
  <1>11. /\ i \in Devices' /\ m <= i + 5 /\ Counts(todo', AskCycles(i, r), 0) /\ tap' = AskTap(i)[m] /\ IrSet'
         /\ bits' = <<>> /\ updates' = <<>> /\ ~(m <= i + 2) /\ command'.device = i /\ command'.request = r
    BY <1>1, <1>4, <1>5, <1>6, <1>7, <1>8, <1>9, <1>10 DEF i, r
  <1> QED BY <1>11 DEF AskInv, m

LEMMA PlanReads ==
  ASSUME TypeInv, DescribedInv, described, phase = "ir", IrInv, todo = <<>>,
         command.kind = "idcode", todo' = IdcodeWalk(command.device),
         UNCHANGED <<board, command, bits>>
  PROVE  IdcodeInv'
  <1> DEFINE i == command.device   m == Len(todo')   w == WordBits
  <1>1. i \in Devices /\ chain \in Chains /\ Total(chain) \in Nat
    <2>1. command.device \in Devices
      BY CommandIs
    <2> QED BY <2>1, Layout DEF TypeInv, BoardInv
  <1>2. i \in Nat \ {0} /\ w \in Nat \ {0}
    BY <1>1, ChainIs, SizesAreLegal
  <1>3. Len(todo) = 0
    OBVIOUS
  <1>4. IrSet /\ bits = <<>> /\ tap = IrTap(chain)[0]
    BY <1>3 DEF IrInv
  <1>5. tap = "idle"
    <2>1. command.code \in Nat
      BY CommandIs
    <2> QED BY <1>1, <1>4, <2>1, IrTapMoves
  <1>6. m = w + i + 4 /\ Counts(todo', IdcodeCycles(i), 0)
    <2> HIDE DEF i
    <2> QED BY <1>2, IdcodeCounts DEF i
  <1>7. IdcodeTap(i)[w + i + 4] = "idle"
    <2> HIDE DEF i
    <2> QED BY <1>2, IdcodeMoves
  <1>8. /\ chain' = chain /\ ir' = ir /\ tap' = tap /\ bits' = bits /\ command' = command /\ Devices' = Devices
    BY DEF board, Devices
  <1>9. IrSet'
    BY <1>4, <1>8, IrSetStays
  <1> HIDE DEF m, i, w
  <1>10. m <= w + i + 4 /\ ~(m \in 2..(w + i + 1)) /\ m > w + 2
    BY SMT, <1>2, <1>6
  <1>11. /\ i \in Devices' /\ m <= w + i + 4 /\ Counts(todo', IdcodeCycles(i), 0) /\ tap' = IdcodeTap(i)[m] /\ IrSet'
         /\ \A a : HasRead(bits', 0, a)
         /\ ~(m \in 2..(w + i + 1)) /\ m > w + 2 /\ command'.device = i
    BY <1>1, <1>4, <1>5, <1>6, <1>7, <1>8, <1>9, <1>10, ReadNone DEF i
  <1> QED BY <1>11 DEF IdcodeInv, m, w

\* A debug port has been asked.
LEMMA AskEnds ==
  ASSUME TypeInv, phase = "ask", AskInv, todo = <<>>
  PROVE  /\ command.device \in Devices /\ IrSet /\ tap = "shiftDr"
         /\ chain[command.device] = DpLength =>
              /\ Acknowledged <=> offer.ack = JtagOk
              /\ updates = <<>> /\ offer.ack \in {JtagWait, JtagOk}
              /\ Shifts(path, Len(chain) + 2 + WordBits,
                        TransferIn(chain, command.device, command.request, DataBits(command)),
                        command.device + 2, command.device - 1, Answered(offer))
              /\ HasRead(bits, 3, Answered(offer))
  <1> DEFINE i == command.device
  <1>1. Len(todo) = 0
    OBVIOUS
  <1>2. i \in Devices /\ IrSet /\ tap = AskTap(i)[0]
    BY <1>1 DEF AskInv
  <1>3. i \in Nat \ {0}
    BY <1>2, ChainIs DEF TypeInv, BoardInv
  <1>4. tap = "shiftDr"
    <2> HIDE DEF i
    <2>1. 0 \in 0..(i + 2)
      BY SMT, <1>3
    <2> QED BY <1>2, <1>3, <2>1, AskMoves
  <1>5. 0 <= i + 2 /\ 0 <= 3 /\ i + 2 - 0 = i + 2 /\ 3 - 0 = 3
    <2> HIDE DEF i
    <2> QED BY SMT, <1>3
  <1>6. ASSUME chain[i] = DpLength
        PROVE  /\ updates = <<>> /\ offer.ack \in {JtagWait, JtagOk}
               /\ Shifts(path, Len(chain) + 2 + WordBits, TransferIn(chain, i, command.request, DataBits(command)),
                         i + 2, i - 1, Answered(offer))
               /\ HasRead(bits, 3, Answered(offer))
    BY <1>1, <1>5, <1>6 DEF AskInv
  <1> QED BY <1>2, <1>4, <1>6, AcknowledgedIs

LEMMA PlanTransfers ==
  ASSUME TypeInv, DescribedInv, described, phase = "ask", AskInv, todo = <<>>, Acknowledged,
         todo' = DataWalk(command.device, Reading, command.word) \o EndWalk,
         UNCHANGED <<board, command, bits>>
  PROVE  DataInv'
  <1> DEFINE i == command.device   w == WordBits   j == IdleCycles   e == Len(chain) - i
             l == Len(chain) + 2 + w   d == DataBits(command)   m == Len(todo')
             in == TransferIn(chain, i, command.request, d)   out == Answered(offer)
             F == DataCycles(e, Reading, d)
  <1>1. /\ i \in Devices /\ IrSet /\ tap = "shiftDr"
        /\ chain[i] = DpLength =>
             /\ offer.ack = JtagOk /\ updates = <<>>
             /\ Shifts(path, l, in, i + 2, i - 1, out) /\ HasRead(bits, 3, out)
    BY AskEnds
  <1>2. /\ d \in Seq(Bit) /\ Len(d) = w /\ Reading \in BOOLEAN
        /\ Len(chain) \in Nat /\ i \in 1..Len(chain) /\ w \in Nat \ {0}
    BY <1>1, TransferIs
  <1>3. j \in Nat /\ count = Len(chain)
    BY SizesAreLegal DEF DescribedInv
  <1>4. e \in Nat /\ i \in Nat
    <2> HIDE DEF i
    <2> QED BY SMT, <1>2
  <1>5. todo' = Shift(d, e, Reading) \o EndWalk
    BY <1>3 DEF DataWalk, DataBits, Reading
  <1>6. Counts(todo', F, 0) /\ m = j + 2 + (w + e)
    <2> HIDE DEF d, e
    <2> QED BY <1>2, <1>4, <1>5, DataCounts
  <1>7. DataRead(j + 2 + (w + e), e, Reading) = 3
    <2> HIDE DEF e
    <2> QED BY <1>2, <1>4, DataReadIs
  <1>8. /\ chain' = chain /\ ir' = ir /\ path' = path /\ offer' = offer /\ updates' = updates
        /\ tap' = tap /\ bits' = bits /\ command' = command /\ Devices' = Devices
    BY DEF board, Devices
  <1>9. /\ Reading' = Reading /\ Answered(offer)' = out
    BY <1>8 DEF Reading, Answered
  <1>10. IrSet'
    BY <1>1, <1>8, IrSetStays
  <1>11. /\ Len(chain') + 2 + WordBits = l /\ command'.device = i /\ command'.request = command.request
         /\ TransferIn(chain', i, command.request, DataBits(command')) = in
         /\ DataBits(command)' = DataBits(command') /\ Len(chain') - i = e
         /\ DataCycles(e, Reading', DataBits(command')) = F
    BY <1>8, <1>9 DEF DataBits
  <1>12. DataBits(command') = d
    BY <1>8
  <1> HIDE DEF i, w, j, l, d, m, in, out, F
  <1>13. m <= j + 2 + (w + e) /\ m > j + 2 /\ m > j /\ ~(m <= j) /\ m # j + 1 /\ l - (m - j - 2) = i + 2 /\ m \in Nat
    BY SMT, <1>2, <1>3, <1>4, <1>6 DEF l, e
  <1>14. EndTap[m] = "shiftDr"
    BY <1>13, EndTapIs DEF j
  <1>15. ASSUME chain'[i] = DpLength
         PROVE  /\ offer'.ack = JtagOk
                /\ m > j => updates' = <<>> /\ Shifts(path', l, in, IF m = j + 1 THEN l ELSE l - (m - j - 2), i - 1, out)
                /\ ~(m <= j)
                /\ HasRead(bits', DataRead(m, e, Reading), out)
    <2>1. chain[i] = DpLength
      BY <1>8, <1>15
    <2>2. offer'.ack = JtagOk /\ updates' = <<>> /\ Shifts(path', l, in, i + 2, i - 1, out) /\ HasRead(bits', 3, out)
      BY <1>1, <1>8, <2>1
    <2>3. (IF m = j + 1 THEN l ELSE l - (m - j - 2)) = i + 2
      BY <1>13
    <2> HIDE DEF e
    <2> QED BY <1>6, <1>7, <1>13, <2>2, <2>3
  <1>16. /\ i \in Devices' /\ m <= j + 2 + (w + e) /\ Counts(todo', F, 0) /\ tap' = EndTap[m] /\ IrSet'
    BY <1>1, <1>6, <1>8, <1>10, <1>13, <1>14
  <1> HIDE DEF e
  <1>17. DataInv' <=>
           /\ i \in Devices' /\ m <= j + 2 + (w + e) /\ Counts(todo', F, 0) /\ tap' = EndTap[m] /\ IrSet'
           /\ chain'[i] = DpLength =>
                /\ offer'.ack = JtagOk
                /\ m > j => updates' = <<>> /\ Shifts(path', l, in, IF m = j + 1 THEN l ELSE l - (m - j - 2), i - 1, out)
                /\ m <= j =>
                     /\ Len(updates') = 1 /\ updates'[1].device = i
                     /\ updates'[1].bits \in Seq(Bit) /\ Len(updates'[1].bits) = 3 + w
                     /\ \A x \in 1..(3 + w) : updates'[1].bits[x] = in[(i - 1) + x]
                /\ HasRead(bits', DataRead(m, e, Reading), out)
    BY <1>9, <1>11, <1>12 DEF DataInv, m, j, w
  <1> QED BY <1>15, <1>16, <1>17

LEMMA PlanRefuses ==
  ASSUME TypeInv, phase = "ask", AskInv, todo = <<>>, ~Acknowledged,
         todo' = RefusedWalk \o EndWalk, UNCHANGED <<board, command>>
  PROVE  RefusedInv'
  <1> DEFINE i == command.device   j == IdleCycles   m == Len(todo')
  <1>1. /\ i \in Devices /\ IrSet /\ tap = "shiftDr"
        /\ chain[i] = DpLength => offer.ack = JtagWait /\ updates = <<>>
    BY AskEnds
  <1>2. j \in Nat
    BY SizesAreLegal
  <1>3. Counts(todo', RefusedCycles, 0) /\ m = j + 3
    BY RefusedCounts
  <1>4. /\ chain' = chain /\ ir' = ir /\ offer' = offer /\ updates' = updates /\ tap' = tap /\ command' = command
        /\ Devices' = Devices
    BY DEF board, Devices
  <1>5. IrSet'
    BY <1>1, <1>4, IrSetStays
  <1> HIDE DEF m, j
  <1>6. m <= j + 3 /\ m \in Nat /\ m > j + 2
    BY SMT, <1>2, <1>3
  <1>7. EndTap[m] = "shiftDr"
    BY <1>6, EndTapIs DEF j
  <1>8. /\ command'.device \in Devices' /\ m <= j + 3 /\ Counts(todo', RefusedCycles, 0) /\ tap' = EndTap[m]
        /\ chain'[command'.device] = DpLength => offer'.ack = JtagWait /\ updates' = <<>>
    BY <1>1, <1>3, <1>4, <1>6, <1>7
  <1> QED BY <1>5, <1>8 DEF RefusedInv, m, j

LEMMA InitChain == Init => ChainInv
  BY InitTypes DEF Init, ChainInv, DescribedInv, PhaseInv

LEMMA StepKeepsPhases == ChainInv /\ [Next]_vars => PhaseInv'
  <1> SUFFICES ASSUME ChainInv, [Next]_vars, described' PROVE PhaseInv'
    BY DEF PhaseInv
  <1>1. TypeInv /\ DescribedInv /\ PhaseInv
    BY DEF ChainInv
  <1>2. CASE \E c \in Configs : \E m \in 0..Len(c) : Configure(Len(c), SubSeq(c, 1, m))
    <2>1. phase' = "none"
      BY <1>2 DEF Configure, Idle
    <2> QED BY <2>1 DEF PhaseInv
  <1>3. CASE \E i \in 1..MaxDevices : \E code \in {IrAbort, IrDpacc, IrApacc} :
               \E r \in Requests, w \in Words : Transfer(i, code, r, w)
    <2>1. PICK i \in 1..MaxDevices, code \in {IrAbort, IrDpacc, IrApacc}, r \in Requests, w \in Words :
            Transfer(i, code, r, w)
      BY <1>3
    <2>2. code \in Nat
      BY SMT DEF IrAbort, IrDpacc, IrApacc
    <2>3. /\ described /\ tap = "idle" /\ i <= count
          /\ command' = [kind |-> "transfer", device |-> i, code |-> code, request |-> r, word |-> w]
          /\ phase' = "ir" /\ todo' = SetIrWalk(i, code) /\ bits' = <<>> /\ updates' = <<>>
          /\ UNCHANGED <<chain, tap>>
      BY <2>1 DEF Transfer, config
    <2>4. command'.device = i /\ command'.code = code
      BY <2>3
    <2>5. IrInv'
      BY <1>1, <2>2, <2>3, <2>4, BeginsIr
    <2> QED BY <2>3, <2>5 DEF PhaseInv
  <1>4. CASE \E i \in 1..MaxDevices : JtagIdcode(i)
    <2>1. PICK i \in 1..MaxDevices : JtagIdcode(i)
      BY <1>4
    <2>2. IrIdcode \in Nat
      BY SMT DEF IrIdcode
    <2>3. /\ described /\ tap = "idle" /\ i <= count
          /\ command' = [kind |-> "idcode", device |-> i, code |-> IrIdcode]
          /\ phase' = "ir" /\ todo' = SetIrWalk(i, IrIdcode) /\ bits' = <<>> /\ updates' = <<>>
          /\ UNCHANGED <<chain, tap>>
      BY <2>1 DEF JtagIdcode, config
    <2>4. command'.device = i /\ command'.code = IrIdcode
      BY <2>3
    <2>5. IrInv'
      BY <1>1, <2>2, <2>3, <2>4, BeginsIr
    <2> QED BY <2>3, <2>5 DEF PhaseInv
  <1>5. CASE \E s \in Sequences : JtagSequence(s)
    <2>1. phase' \in {"sequence", "short"}
      BY <1>5 DEF JtagSequence
    <2> QED BY <2>1 DEF PhaseInv
  <1>6. CASE Cycle
    <2>1. described /\ phase' = phase
      BY <1>6 DEF Cycle, config
    <2>2. phase = "ir" => IrInv'
      BY <1>1, <1>6, <2>1, CycleKeepsIr DEF PhaseInv
    <2>3. phase = "ask" => AskInv'
      BY <1>1, <1>6, <2>1, CycleKeepsAsk DEF PhaseInv
    <2>4. phase = "data" => DataInv'
      BY <1>1, <1>6, <2>1, CycleKeepsData DEF PhaseInv
    <2>5. phase = "refused" => RefusedInv'
      BY <1>1, <1>6, <2>1, CycleKeepsRefused DEF PhaseInv
    <2>6. phase = "idcode" => IdcodeInv'
      BY <1>1, <1>6, <2>1, CycleKeepsIdcode DEF PhaseInv
    <2> QED BY <2>1, <2>2, <2>3, <2>4, <2>5, <2>6 DEF PhaseInv
  <1>7. CASE Plan
    <2>1. described /\ todo = <<>> /\ UNCHANGED <<board, command, bits>>
      BY <1>7 DEF Plan, config
    <2>2. CASE phase = "ir" /\ command.kind = "transfer" /\ phase' = "ask" /\ todo' = AskWalk(command.device, command.request)
      <3>1. IrInv
        BY <1>1, <2>1, <2>2 DEF PhaseInv
      <3>2. AskInv'
        BY <1>1, <2>1, <2>2, <3>1, PlanAsks
      <3> QED BY <2>2, <3>2 DEF PhaseInv
    <2>3. CASE /\ phase = "ask"
               /\ phase' = IF Acknowledged THEN "data" ELSE "refused"
               /\ todo' = (IF Acknowledged
                             THEN DataWalk(command.device, Reading, command.word)
                             ELSE RefusedWalk) \o EndWalk
      <3>1. AskInv
        BY <1>1, <2>1, <2>3 DEF PhaseInv
      <3>2. CASE Acknowledged
        <4>1. phase' = "data" /\ todo' = DataWalk(command.device, Reading, command.word) \o EndWalk
          BY <2>3, <3>2
        <4>2. DataInv'
          BY <1>1, <2>1, <2>3, <3>1, <3>2, <4>1, PlanTransfers
        <4> QED BY <4>1, <4>2 DEF PhaseInv
      <3>3. CASE ~Acknowledged
        <4>1. phase' = "refused" /\ todo' = RefusedWalk \o EndWalk
          BY <2>3, <3>3
        <4>2. RefusedInv'
          BY <1>1, <2>1, <2>3, <3>1, <3>3, <4>1, PlanRefuses
        <4> QED BY <4>1, <4>2 DEF PhaseInv
      <3> QED BY <3>2, <3>3
    <2>4. CASE phase = "ir" /\ command.kind = "idcode" /\ phase' = "idcode" /\ todo' = IdcodeWalk(command.device)
      <3>1. IrInv
        BY <1>1, <2>1, <2>4 DEF PhaseInv
      <3>2. IdcodeInv'
        BY <1>1, <2>1, <2>4, <3>1, PlanReads
      <3> QED BY <2>4, <3>2 DEF PhaseInv
    <2> QED BY <1>7, <2>2, <2>3, <2>4 DEF Plan
  <1>8. CASE Answer
    <2>1. phase' = "none"
      BY <1>8 DEF Answer
    <2> QED BY <2>1 DEF PhaseInv
  <1>9. CASE UNCHANGED vars
    <2>1. /\ described /\ todo' = todo /\ phase' = phase /\ bits' = bits /\ chain' = chain /\ ir' = ir /\ path' = path
          /\ offer' = offer /\ updates' = updates /\ tap' = tap /\ command' = command
      BY <1>9 DEF vars, board, config
    <2>2. /\ Devices' = Devices /\ Reading' = Reading
      BY <2>1 DEF Devices, Reading
    <2>3. IrSet => IrSet'
      BY <2>1, IrSetStays
    <2>4. phase = "ir" => IrInv'
      BY <1>1, <2>1, <2>3 DEF PhaseInv, IrInv
    <2>5. phase = "ask" => AskInv'
      BY <1>1, <2>1, <2>2, <2>3 DEF PhaseInv, AskInv, Answered
    <2>6. phase = "data" => DataInv'
      BY <1>1, <2>1, <2>2, <2>3 DEF PhaseInv, DataInv, Answered
    <2>7. phase = "refused" => RefusedInv'
      BY <1>1, <2>1, <2>2, <2>3 DEF PhaseInv, RefusedInv
    <2>8. phase = "idcode" => IdcodeInv'
      BY <1>1, <2>1, <2>2, <2>3 DEF PhaseInv, IdcodeInv
    <2> QED BY <2>1, <2>4, <2>5, <2>6, <2>7, <2>8 DEF PhaseInv
  <1> QED BY <1>2, <1>3, <1>4, <1>5, <1>6, <1>7, <1>8, <1>9, Zenon DEF Next

LEMMA StepKeepsChain == ChainInv /\ [Next]_vars => ChainInv'
  BY StepKeepsTypes, StepKeepsDescribed, StepKeepsPhases DEF ChainInv

-----------------------------------------------------------------------------
(***************************************************************************)
(* What holds when a part has ended, and the theorems.                     *)
(***************************************************************************)

LEMMA PhaseEnds ==
  ChainInv => IrIsSet
  <1> SUFFICES ASSUME ChainInv, described, todo = <<>>, phase \in {"ir", "ask", "data", "refused", "idcode"}
               PROVE  IrSet
    BY DEF IrIsSet, IrSet
  <1>1. PhaseInv /\ Len(todo) = 0
    BY DEF ChainInv
  <1>2. CASE phase = "ir"
    BY <1>1, <1>2 DEF PhaseInv, IrInv
  <1>3. CASE phase = "ask"
    BY <1>1, <1>3 DEF PhaseInv, AskInv
  <1>4. CASE phase = "data"
    BY <1>1, <1>4 DEF PhaseInv, DataInv
  <1>5. CASE phase = "refused"
    BY <1>1, <1>5 DEF PhaseInv, RefusedInv
  <1>6. CASE phase = "idcode"
    BY <1>1, <1>6 DEF PhaseInv, IdcodeInv
  <1> QED BY <1>2, <1>3, <1>4, <1>5, <1>6

\* n bits of s, the first k left out.
LEMMA SliceIs ==
  ASSUME NEW s \in Seq(Bit), NEW t \in Seq(Bit), NEW k \in Nat, k + Len(t) <= Len(s),
         \A m \in 1..Len(t) : s[k + m] = t[m]
  PROVE  SubSeq(s, k + 1, k + Len(t)) = t
  <1> DEFINE n == Len(t)   u == SubSeq(s, k + 1, k + n)
  <1>1. n \in Nat /\ k + n <= Len(s) /\ \A m \in 1..n : s[k + m] = t[m]
    OBVIOUS
  <1> HIDE DEF n
  <1>2. u \in Seq(Bit) /\ Len(u) = n /\ \A m \in 1..n : u[m] = s[k + m]
    BY SMT, <1>1
  <1> HIDE DEF u
  <1>3. \A m \in 1..n : u[m] = t[m]
    BY <1>1, <1>2
  <1>4. u = t
    BY <1>2, <1>3, SeqEqual DEF n
  <1> QED BY <1>4 DEF u, n

LEMMA WordsHaveBits ==
  ASSUME NEW x \in Words \cup {0}
  PROVE  x \in Nat /\ ValueOf(BitsOf(x, WordBits)) = x
  <1>1. WordBits \in Nat /\ Pow2[WordBits] \in Nat \ {0}
    BY SizesAreLegal, Pow2Grows
  <1>2. x \in Nat /\ x < Pow2[WordBits]
    <2>1. CASE x \in Words
      BY <2>1, WordsAre
    <2>2. CASE x = 0
      BY SMT, <1>1, <2>2
    <2> QED BY <2>1, <2>2
  <1> QED BY <1>1, <1>2, ValueOfBits

\* When the data of a transfer have been shifted.
LEMMA DataEnds ==
  ASSUME TypeInv, phase = "data", DataInv, todo = <<>>, chain[command.device] = DpLength
  PROVE  /\ offer.ack = JtagOk /\ Len(updates) = 1 /\ updates[1].device = command.device
         /\ SubSeq(updates[1].bits, 1, 3) = command.request
         /\ ~Reading => SubSeq(updates[1].bits, 4, 3 + WordBits) = BitsOf(command.word, WordBits)
         /\ Reading => SubSeq(bits, 4, 3 + WordBits) = BitsOf(offer.word, WordBits)
  <1> DEFINE i == command.device   r == command.request   d == DataBits(command)   w == WordBits
             in == TransferIn(chain, i, r, d)   out == Answered(offer)   u == updates[1].bits
             e == Len(chain) - i
  <1>1. Len(todo) = 0 /\ i \in Devices
    BY DEF DataInv
  <1>2. IdleCycles \in Nat /\ 0 <= IdleCycles /\ w \in Nat
    BY SMT, SizesAreLegal
  <1>3. /\ offer.ack = JtagOk /\ Len(updates) = 1 /\ updates[1].device = i
        /\ u \in Seq(Bit) /\ Len(u) = 3 + w
        /\ \A m \in 1..(3 + w) : u[m] = in[(i - 1) + m]
        /\ HasRead(bits, DataRead(0, e, Reading), out)
    BY <1>1, <1>2 DEF DataInv
  <1>4. /\ r \in Requests /\ d \in Seq(Bit) /\ Len(d) = w /\ Reading \in BOOLEAN /\ bits \in Seq(Bit)
        /\ Len(chain) \in Nat /\ i \in 1..Len(chain)
    BY <1>1, TransferIs
  <1>5. /\ \A j \in 1..3 : in[(i - 1) + j] = r[j]
        /\ \A j \in 1..w : in[(i + 2) + j] = d[j]
    BY <1>1, TransferShifts
  <1>6. r \in Seq(Bit) /\ Len(r) = 3
    BY <1>4, RequestIs
  <1>7. d = IF Reading THEN Fill(1, w) ELSE BitsOf(command.word, w)
    BY DEF DataBits, Reading
  <1>8. offer.ack \in Nat /\ offer.word \in Nat
    BY OfferIs DEF TypeInv, BoardInv
  <1>9. /\ BitsOf(offer.word, w) \in Seq(Bit) /\ Len(BitsOf(offer.word, w)) = w
        /\ \A m \in 1..w : out[3 + m] = BitsOf(offer.word, w)[m]
    BY <1>2, <1>8, BitsAreBits, AnswerBits DEF Answered
  <1>10. SubSeq(u, 1, 3) = r
    <2> HIDE DEF i, r, in, u, w
    <2>1. /\ \A m \in 1..3 : m \in 1..(3 + w) /\ 0 + m = m
          /\ 0 + 3 <= 3 + w /\ 0 + 1 = 1 /\ 0 + 3 = 3 /\ 0 \in Nat
      BY SMT, <1>2
    <2>2. \A m \in 1..Len(r) : u[0 + m] = r[m]
      BY <1>3, <1>5, <1>6, <2>1
    <2>3. SubSeq(u, 0 + 1, 0 + Len(r)) = r
      BY <1>3, <1>6, <2>1, <2>2, SliceIs
    <2> QED BY <1>6, <2>1, <2>3
  <1>11. SubSeq(u, 4, 3 + w) = d
    <2> HIDE DEF i, d, in, u, w
    <2>1. /\ \A m \in 1..w : 3 + m \in 1..(3 + w) /\ (i - 1) + (3 + m) = (i + 2) + m
          /\ 3 + w <= 3 + w /\ 3 + 1 = 4 /\ 3 \in Nat
      BY SMT, <1>2, <1>4
    <2>2. \A m \in 1..w : u[3 + m] = in[(i - 1) + (3 + m)]
      BY <1>3, <2>1
    <2>4. \A m \in 1..Len(d) : u[3 + m] = d[m]
      BY <1>4, <1>5, <2>1, <2>2
    <2>3. SubSeq(u, 3 + 1, 3 + Len(d)) = d
      BY <1>3, <1>4, <2>1, <2>4, SliceIs
    <2> QED BY <1>4, <2>1, <2>3
  <1>12. ASSUME Reading PROVE SubSeq(bits, 4, 3 + w) = BitsOf(offer.word, w)
    <2> DEFINE b == BitsOf(offer.word, w)
    <2>1. e \in Nat
      <3> HIDE DEF i
      <3> QED BY SMT, <1>4
    <2>2. DataRead(0, e, Reading) = 3 + w
      <3> HIDE DEF e
      <3> QED BY <1>4, <1>12, <2>1, DataReadIs
    <2>3. Len(bits) = 3 + w /\ \A q \in 1..(3 + w) : bits[q] = out[q]
      BY <1>3, <2>2 DEF HasRead
    <2> HIDE DEF b, w, out
    <2>4. /\ \A m \in 1..w : 3 + m \in 1..(3 + w)
          /\ 3 + w <= 3 + w /\ 3 + 1 = 4 /\ 3 \in Nat
      BY SMT, <1>2
    <2>5. b \in Seq(Bit) /\ Len(b) = w /\ \A m \in 1..w : out[3 + m] = b[m]
      BY <1>9 DEF b
    <2>6. \A m \in 1..Len(b) : bits[3 + m] = b[m]
      BY <2>3, <2>4, <2>5
    <2>7. SubSeq(bits, 3 + 1, 3 + Len(b)) = b
      BY <1>4, <2>3, <2>4, <2>5, <2>6, SliceIs
    <2> QED BY <2>4, <2>5, <2>7 DEF b
  <1> QED BY <1>3, <1>7, <1>10, <1>11, <1>12

LEMMA TransferEnds == ChainInv => TransferIsExact
  <1> SUFFICES ASSUME ChainInv, described, todo = <<>>, phase \in {"data", "refused"},
                      chain[command.device] = DpLength
               PROVE  /\ phase = "data" <=> offer.ack = JtagOk
                      /\ phase = "refused" => updates = <<>>
                      /\ phase = "data" =>
                           /\ Len(updates) = 1
                           /\ updates[1].device = command.device
                           /\ SubSeq(updates[1].bits, 1, 3) = command.request
                           /\ IF Reading THEN ValueOf(SubSeq(bits, 4, 3 + WordBits)) = offer.word
                                         ELSE ValueOf(SubSeq(updates[1].bits, 4, 3 + WordBits)) = command.word
    BY DEF TransferIsExact
  <1>1. TypeInv /\ PhaseInv
    BY DEF ChainInv
  <1>2. CASE phase = "data"
    <2>1. DataInv
      BY <1>1, <1>2 DEF PhaseInv
    <2>2. /\ offer.ack = JtagOk /\ Len(updates) = 1 /\ updates[1].device = command.device
          /\ SubSeq(updates[1].bits, 1, 3) = command.request
          /\ ~Reading => SubSeq(updates[1].bits, 4, 3 + WordBits) = BitsOf(command.word, WordBits)
          /\ Reading => SubSeq(bits, 4, 3 + WordBits) = BitsOf(offer.word, WordBits)
      BY <1>1, <1>2, <2>1, DataEnds
    <2>3. command.device \in Devices
      BY <2>1 DEF DataInv
    <2>4. command.word \in Words
      BY <1>1, <1>2, <2>3, TransferIs
    <2>5. offer.word \in Words \cup {0}
      BY <1>1 DEF TypeInv, BoardInv
    <2>6. ValueOf(BitsOf(command.word, WordBits)) = command.word /\ ValueOf(BitsOf(offer.word, WordBits)) = offer.word
      BY <2>4, <2>5, WordsHaveBits
    <2> QED BY <1>2, <2>2, <2>6
  <1>3. CASE phase = "refused"
    <2>1. offer.ack = JtagWait /\ updates = <<>>
      BY <1>1, <1>3 DEF PhaseInv, RefusedInv
    <2>2. JtagWait # JtagOk
      BY SMT DEF JtagWait, JtagOk
    <2> QED BY <1>3, <2>1, <2>2
  <1> QED BY <1>2, <1>3

LEMMA IdcodeEnds == ChainInv => IdcodeIsRight
  <1> SUFFICES ASSUME ChainInv, described, todo = <<>>, phase = "idcode", chain[command.device] >= DpLength
               PROVE  ValueOf(bits) = Idcode(command.device)
    BY DEF IdcodeIsRight
  <1> DEFINE i == command.device   w == WordBits   x == Idcode(i)   b == BitsOf(x, w)
  <1>1. TypeInv /\ IdcodeInv /\ Len(todo) = 0
    BY DEF ChainInv, PhaseInv
  <1>2. w \in Nat /\ ~(0 > w + 2) /\ ~(0 >= 2) /\ Pow2[w] \in Nat \ {0}
    BY SMT, SizesAreLegal, Pow2Grows
  <1>3. i \in Devices /\ HasRead(bits, w, b)
    BY <1>1, <1>2 DEF IdcodeInv
  <1>4. i \in Nat
    BY <1>1, <1>3, ChainIs DEF TypeInv, BoardInv
  <1>5. x \in Nat /\ x < Pow2[w]
    <2> DEFINE p == Pow2[w]
    <2>1. p \in Nat \ {0}
      BY <1>2
    <2> HIDE DEF i, p
    <2>2. i % p \in Nat /\ i % p < p
      BY SMT, <1>4, <2>1
    <2> QED BY <2>2 DEF Idcode, p
  <1> HIDE DEF x
  <1>6. b \in Seq(Bit) /\ Len(b) = w /\ ValueOf(b) = x
    BY <1>2, <1>5, BitsAreBits, ValueOfBits
  <1> HIDE DEF b
  <1>7. bits \in Seq(Bit) /\ Len(bits) = w /\ \A q \in 1..w : bits[q] = b[q]
    BY <1>1, <1>3 DEF HasRead, TypeInv, ProbeInv
  <1>8. bits = b
    BY <1>6, <1>7, SeqEqual
  <1> QED BY <1>6, <1>8 DEF x

\* Wherever on the chain the device is, and whatever the lengths of the others, it
\* has the instruction asked for and all others are bypassed once the instruction is
\* set, and while a transfer or the reading of an identity goes on: for chains of
\* any number of devices and instruction registers of any length, if they are as
\* the host described them (jtag_set_ir).
THEOREM InstructionsAreSet == Spec => []IrIsSet
  <1>1. Spec => []ChainInv
    BY InitChain, StepKeepsChain, PTL DEF Spec
  <1> QED BY <1>1, PhaseEnds, PTL

\* A debug port that acknowledges is given exactly the request and the word, or is
\* read exactly the word it offers, and one that answers WAIT is given nothing, for
\* any chain, any position of the debug port on it, words of any length and any
\* number of idle cycles (jtag_transfer).
THEOREM TransfersAreExact == Spec => []TransferIsExact
  <1>1. Spec => []ChainInv
    BY InitChain, StepKeepsChain, PTL DEF Spec
  <1> QED BY <1>1, TransferEnds, PTL

\* The identity reported is that of the device asked for, for any chain as the host
\* described it and any device on it (dap_handle_cmd_jtag_idcode).
THEOREM IdentitiesAreRight == Spec => []IdcodeIsRight
  <1>1. Spec => []ChainInv
    BY InitChain, StepKeepsChain, PTL DEF Spec
  <1> QED BY <1>1, IdcodeEnds, PTL

-----------------------------------------------------------------------------
(***************************************************************************)
(* How bits are packed into bytes.                                         *)
(***************************************************************************)

\* A multiple of p and less than p more.
LEMMA Quotient ==
  ASSUME NEW p \in Nat \ {0}, NEW q \in Int, NEW r \in Int, 0 <= r, r < p
  PROVE  (p * q + r) \div p = q
  <1> DEFINE v == p * q + r
  <1>1. v \in Int /\ v = p * q + r
    BY SMT
  <1> HIDE DEF v
  <1>2. v \div p = q
    BY SMT, <1>1
  <1> QED BY <1>2 DEF v

\* A number that is divided.
LEMMA Divided ==
  ASSUME NEW v \in Nat, NEW p \in Nat \ {0}
  PROVE  v \div p \in Nat /\ v % p \in 0..(p - 1) /\ v = p * (v \div p) + (v % p)
  <1>1. v \div p \in Int /\ v % p \in Int /\ v = p * (v \div p) + (v % p) /\ 0 <= v % p /\ v % p < p
    BY SMT
  <1>2. v \div p >= 0
    BY SMT
  <1> QED BY SMT, <1>1, <1>2

LEMMA PowersMultiply ==
  ASSUME NEW m \in Nat, NEW n \in Nat
  PROVE  Pow2[m + n] = Pow2[m] * Pow2[n]
  <1> DEFINE T == {k \in Nat : Pow2[m + k] = Pow2[m] * Pow2[k]}
  <1>1. 0 \in T
    <2> DEFINE p == Pow2[m]
    <2>1. m + 0 = m /\ Pow2[0] = 1 /\ p \in Nat
      BY Pow2Grows
    <2> HIDE DEF p
    <2>2. p = p * 1
      BY SMT, <2>1
    <2>3. Pow2[m + 0] = Pow2[m] * Pow2[0]
      BY <2>1, <2>2 DEF p
    <2> QED BY <2>3
  <1>2. ASSUME NEW k \in T PROVE k + 1 \in T
    <2>1. k \in Nat /\ m + k \in Nat /\ m + (k + 1) = (m + k) + 1 /\ k + 1 \in Nat
      BY SMT
    <2>2. Pow2[m + (k + 1)] = 2 * Pow2[m + k] /\ Pow2[k + 1] = 2 * Pow2[k] /\ Pow2[m + k] = Pow2[m] * Pow2[k]
      BY <2>1, Pow2Grows
    <2> DEFINE a == Pow2[m]   b == Pow2[k]
    <2>3. a \in Nat /\ b \in Nat
      BY <2>1, Pow2Grows
    <2> HIDE DEF a, b
    <2>4. 2 * (a * b) = a * (2 * b)
      BY SMT, <2>3
    <2>5. Pow2[m + (k + 1)] = Pow2[m] * Pow2[k + 1]
      BY <2>2, <2>4 DEF a, b
    <2> QED BY <2>1, <2>5
  <1>3. T \in SUBSET Nat
    OBVIOUS
  <1> HIDE DEF T
  <1>4. n \in T
    BY <1>1, <1>2, <1>3, InductionOnSet
  <1> QED BY <1>4 DEF T

\* What the first bits of b stand for.
FirstBits(v, b, n) == v[0] = 0 /\ \A k \in 1..n : v[k] = v[k - 1] + b[k] * Pow2[k - 1]

LEMMA FirstBitsExist ==
  ASSUME NEW b \in Seq(Bit)
  PROVE  \E v \in [0..Len(b) -> Nat] : FirstBits(v, b, Len(b))
  <1> DEFINE n == Len(b)   s == [i \in 1..n |-> b[i] * Pow2[i - 1]]
  <1>1. n \in Nat /\ \A i \in 1..n : b[i] \in Bit /\ i - 1 \in Nat
    BY LenProperties, ElementOfSeq
  <1>2. ASSUME NEW i \in 1..n PROVE b[i] * Pow2[i - 1] \in Nat
    <2> DEFINE x == b[i]   p == Pow2[i - 1]
    <2>1. x \in {0, 1} /\ p \in Nat
      BY <1>1, Pow2Grows DEF Bit
    <2> HIDE DEF x, p
    <2>2. x * p \in Nat
      BY SMT, <2>1
    <2> QED BY <2>2 DEF x, p
  <1>3. s \in Seq(Nat) /\ Len(s) = n /\ \A i \in 1..n : s[i] = b[i] * Pow2[i - 1]
    BY <1>1, <1>2
  <1> HIDE DEF s, n
  <1>4. Nat \in SUBSET Int /\ 0 \in Nat /\ \A x, y \in Nat : x + y \in Nat
    BY SMT
  <1>5. \E v \in [0..Len(s) -> Nat] : RunningSum(v, s, Len(s))
    BY <1>3, <1>4, RunningExists
  <1>6. PICK v \in [0..n -> Nat] : RunningSum(v, s, n)
    BY <1>3, <1>5
  <1>7. FirstBits(v, b, n)
    BY <1>3, <1>6 DEF FirstBits, RunningSum
  <1> QED BY <1>6, <1>7 DEF n

\* They are less than the weight of the next bit.
LEMMA FirstBitsAreLess ==
  ASSUME NEW b \in Seq(Bit), NEW v \in [0..Len(b) -> Nat], FirstBits(v, b, Len(b))
  PROVE  \A k \in 0..Len(b) : v[k] < Pow2[k]
  <1> DEFINE n == Len(b)   T == {k \in Nat : k \in 0..n => v[k] < Pow2[k]}
  <1>0. n \in Nat
    BY LenProperties
  <1>1. 0 \in T
    <2>1. v[0] = 0 /\ Pow2[0] = 1
      BY Pow2Grows DEF FirstBits
    <2>2. 0 < 1
      OBVIOUS
    <2> QED BY <2>1, <2>2
  <1>2. ASSUME NEW k \in T PROVE k + 1 \in T
    <2> SUFFICES ASSUME k + 1 \in 0..n PROVE v[k + 1] < Pow2[k + 1]
      OBVIOUS
    <2> HIDE DEF n
    <2>1. k \in Nat /\ k \in 0..n /\ k + 1 \in 1..n /\ (k + 1) - 1 = k
      BY SMT, <1>0
    <2> USE DEF n
    <2>2. v[k + 1] = v[k] + b[k + 1] * Pow2[k] /\ Pow2[k + 1] = 2 * Pow2[k] /\ v[k] < Pow2[k]
      BY <2>1, Pow2Grows DEF FirstBits
    <2>3. v[k] \in Nat /\ Pow2[k] \in Nat /\ b[k + 1] \in {0, 1}
      BY <2>1, Pow2Grows, ElementOfSeq DEF Bit
    <2> DEFINE a == v[k]   p == Pow2[k]   x == b[k + 1]
    <2> HIDE DEF a, p, x
    <2>4. a \in Nat /\ p \in Nat /\ x \in {0, 1} /\ a < p
      BY <2>2, <2>3 DEF a, p, x
    <2>5. a + x * p < 2 * p
      BY SMT, <2>4
    <2> QED BY <2>2, <2>5 DEF a, p, x
  <1>3. T \in SUBSET Nat
    OBVIOUS
  <1> HIDE DEF T
  <1>4. T = Nat
    BY <1>1, <1>2, <1>3, InductionOnSet
  <1>5. \A k \in 0..n : k \in T
    BY <1>4
  <1> QED BY <1>5 DEF T, n

\* Each bit can be told from what they stand for.
LEMMA BitOfFirst ==
  ASSUME NEW b \in Seq(Bit), NEW v \in [0..Len(b) -> Nat], FirstBits(v, b, Len(b)), NEW j \in 1..Len(b)
  PROVE  (v[Len(b)] \div Pow2[j - 1]) % 2 = b[j]
  <1> DEFINE n == Len(b)   p == Pow2[j - 1]   a == v[j - 1]   x == b[j]
             T == {k \in Nat : j + k <= n => \E h \in Nat : v[j + k] = p * (2 * h + x) + a}
  <1>0. n \in Nat /\ j \in Nat /\ j - 1 \in Nat /\ j - 1 \in 0..n /\ (j - 1) + 1 = j /\ j <= n
    BY LenProperties
  <1>1. p \in Nat \ {0} /\ a \in Nat /\ x \in {0, 1} /\ a < p /\ v[j] = a + x * p /\ Pow2[j] = 2 * p
    <2>1. p \in Nat \ {0} /\ a \in Nat /\ a < p /\ x \in {0, 1}
      BY <1>0, Pow2Grows, FirstBitsAreLess, ElementOfSeq DEF Bit
    <2>2. v[j] = a + x * p
      BY DEF FirstBits
    <2>3. Pow2[(j - 1) + 1] = 2 * p
      BY <1>0, Pow2Grows
    <2> QED BY <1>0, <2>1, <2>2, <2>3
  <1>2. 0 \in T
    <2> HIDE DEF p, a, x
    <2>1. j + 0 = j /\ a + x * p = p * (2 * 0 + x) + a
      BY SMT, <1>1
    <2>2. v[j + 0] = p * (2 * 0 + x) + a
      BY <1>1, <2>1
    <2> QED BY <2>2
  <1>3. ASSUME NEW k \in T PROVE k + 1 \in T
    <2> SUFFICES ASSUME j + (k + 1) <= n PROVE \E h \in Nat : v[j + (k + 1)] = p * (2 * h + x) + a
      OBVIOUS
    <2> DEFINE i == j + (k + 1)
    <2>1. k \in Nat /\ j + k <= n /\ i \in 1..n /\ i - 1 = j + k /\ j + k \in Nat /\ k + 1 \in Nat
      BY SMT, <1>0
    <2>2. PICK h \in Nat : v[j + k] = p * (2 * h + x) + a
      BY <2>1
    <2>3. v[i] = v[j + k] + b[i] * Pow2[j + k]
      <3>1. v[i] = v[i - 1] + b[i] * Pow2[i - 1]
        BY <2>1 DEF FirstBits
      <3> QED BY <2>1, <3>1
    <2>4. Pow2[j + k] = (2 * p) * Pow2[k]
      BY <1>0, <1>1, <2>1, PowersMultiply
    <2>5. b[i] \in {0, 1} /\ Pow2[k] \in Nat
      BY <2>1, Pow2Grows, ElementOfSeq DEF Bit
    <2> DEFINE y == b[i]   c == Pow2[k]   g == h + y * c
    <2>6. y \in {0, 1} /\ c \in Nat /\ h \in Nat
      BY <2>5
    <2> HIDE DEF y, c, p, a, x, i
    <2>7. g \in Nat
      BY SMT, <2>6
    <2>8. (p * (2 * h + x) + a) + y * ((2 * p) * c) = p * (2 * (h + y * c) + x) + a
      <3>1. p \in Int /\ h \in Int /\ x \in Int /\ a \in Int /\ y \in Int /\ c \in Int
        BY SMT, <1>1, <2>6
      <3> QED BY SMT, <3>1
    <2>9. v[i] = p * (2 * g + x) + a
      BY <2>2, <2>3, <2>4, <2>8 DEF y, c
    <2> HIDE DEF g
    <2> QED BY <2>7, <2>9 DEF i
  <1>4. T \in SUBSET Nat
    OBVIOUS
  <1> HIDE DEF T
  <1>5. n - j \in T
    <2>1. n - j \in Nat
      BY SMT, <1>0
    <2> QED BY <1>2, <1>3, <1>4, <2>1, InductionOnSet
  <1>6. j + (n - j) = n /\ j + (n - j) <= n
    BY SMT, <1>0
  <1>7. PICK h \in Nat : v[n] = p * (2 * h + x) + a
    BY <1>5, <1>6 DEF T
  <1> HIDE DEF p, a, x
  <1>8. 2 * h + x \in Int /\ (2 * h + x) % 2 = x
    BY SMT, <1>1
  <1>9. (p * (2 * h + x) + a) \div p = 2 * h + x
    <2> DEFINE q == 2 * h + x
    <2>1. q \in Int /\ a \in Int /\ 0 <= a
      BY SMT, <1>1, <1>8
    <2> HIDE DEF q
    <2>2. (p * q + a) \div p = q
      BY <1>1, <2>1, Quotient
    <2> QED BY <2>2 DEF q
  <1>10. (v[n] \div p) % 2 = x
    BY <1>7, <1>8, <1>9
  <1> QED BY <1>10 DEF n, p, x

\* Bits come in at the top of a byte, and those before move on.
LEMMA ComesIn ==
  ASSUME NEW b \in Seq(Nat), NEW r \in [0..Len(b) -> Nat], r[0] = 0,
         \A k \in 1..Len(b) : r[k] = (r[k - 1] \div 2) + b[k] * Pow2[ByteBits - 1]
  PROVE  FoldLeft(LAMBDA t, x : (t \div 2) + x * Pow2[ByteBits - 1], 0, b) = r[Len(b)]
  <1> DEFINE n == Len(b)   p == Pow2[ByteBits - 1]
             F(f) == f = [t \in SUBSET DOMAIN b |->
                            IF t = {} THEN 0 ELSE (f[t \ {Max(t)}] \div 2) + b[Max(t)] * Pow2[ByteBits - 1]]
             f == CHOOSE f : F(f)
             g == [q \in Nat \X (1..n) |-> (q[1] \div 2) + b[q[2]] * p]
  <1>1. n \in Nat /\ DOMAIN b = 1..n /\ 0 \in Nat /\ p \in Nat
    <2>1. ByteBits - 1 \in Nat
      BY SMT, SizesAreLegal
    <2>2. p \in Nat
      BY <2>1, Pow2Grows
    <2>3. n \in Nat /\ DOMAIN b = 1..n
      OBVIOUS
    <2> QED BY <2>2, <2>3
  <1>2. \E x : F(x)
    <2>1. g \in [Nat \X (1..n) -> Nat]
      <3> HIDE DEF p
      <3>1. \A q \in Nat \X (1..n) : (q[1] \div 2) + b[q[2]] * p \in Nat
        <4> SUFFICES ASSUME NEW q \in Nat \X (1..n) PROVE (q[1] \div 2) + b[q[2]] * p \in Nat
          OBVIOUS
        <4>1. q[1] \in Nat /\ b[q[2]] \in Nat
          OBVIOUS
        <4> DEFINE x == q[1]   y == b[q[2]]
        <4>2. x \in Nat /\ y \in Nat
          BY <4>1
        <4> HIDE DEF x, y
        <4>3. (x \div 2) + y * p \in Nat
          <5>1. x \div 2 \in Nat /\ y * p \in Nat
            BY SMT, <1>1, <4>2
          <5> QED BY SMT, <5>1
        <4> QED BY <4>3 DEF x, y
      <3> QED BY <3>1
    <2>2. PICK x \in [SUBSET (1..n) -> Nat] : Folds(x, g, 0, n)
      <3> HIDE DEF g, n
      <3> QED BY <1>1, <2>1, FoldExists
    <2>3. ASSUME NEW t \in SUBSET (1..n), t # {}
          PROVE  g[<<x[t \ {Max(t)}], Max(t)>>] = (x[t \ {Max(t)}] \div 2) + b[Max(t)] * p
      <3>1. Max(t) \in 1..n
        BY <1>1, <2>3, MaxOfSome
      <3>2. x[t \ {Max(t)}] \in Nat
        BY <2>2
      <3> DEFINE u == x[t \ {Max(t)}]   m == Max(t)
      <3> HIDE DEF u, m, p
      <3>3. g[<<u, m>>] = (u \div 2) + b[m] * p
        BY <3>1, <3>2 DEF u, m
      <3> QED BY <3>3 DEF u, m
    <2>4. x = [t \in SUBSET (1..n) |-> IF t = {} THEN 0 ELSE (x[t \ {Max(t)}] \div 2) + b[Max(t)] * p]
      <3>1. x = [t \in SUBSET (1..n) |-> IF t = {} THEN 0 ELSE g[<<x[t \ {Max(t)}], Max(t)>>]]
        BY <2>2, Zenon DEF Folds
      <3>2. \A t \in SUBSET (1..n) : x[t] = IF t = {} THEN 0 ELSE g[<<x[t \ {Max(t)}], Max(t)>>]
        BY <3>1, Zenon
      <3> HIDE DEF g, p
      <3>3. \A t \in SUBSET (1..n) :
              x[t] = IF t = {} THEN 0 ELSE (x[t \ {Max(t)}] \div 2) + b[Max(t)] * p
        BY <2>3, <3>2, Zenon
      <3>4. x = [t \in SUBSET (1..n) |-> x[t]]
        BY <2>2
      <3> QED BY <3>3, <3>4, Zenon
    <2> QED BY <1>1, <2>4
  <1>3. F(f)
    BY <1>2, Zenon
  <1>4. FoldLeft(LAMBDA t, x : (t \div 2) + x * Pow2[ByteBits - 1], 0, b) = f[1..n]
    <2>1. FoldLeft(LAMBDA t, x : (t \div 2) + x * Pow2[ByteBits - 1], 0, b) = f[DOMAIN b]
      BY DEF FoldLeft, MapThenFoldSet
    <2> QED BY <1>1, <2>1
  <1> HIDE DEF f
  <1>5. \A t \in SUBSET (1..n) : f[t] = IF t = {} THEN 0 ELSE (f[t \ {Max(t)}] \div 2) + b[Max(t)] * p
    BY <1>1, <1>3, Zenon
  <1> HIDE DEF p
  <1>6. f[{}] = r[0]
    BY <1>5
  <1>7. ASSUME NEW k \in 1..n, f[1..(k - 1)] = r[k - 1] PROVE f[1..k] = r[k]
    <2> HIDE DEF n
    <2>1. k \in Nat \ {0}
      BY SMT, <1>1
    <2>2. 1..k \in SUBSET (1..n)
      BY SMT, <1>1
    <2>3. f[1..k] = (f[1..(k - 1)] \div 2) + b[k] * p
      BY <1>5, <2>1, <2>2, FirstWithoutMax, Zenon
    <2> QED BY <1>7, <2>3 DEF n, p
  <1>8. f[1..n] = r[n]
    <2> HIDE DEF n
    <2>1. n \in Nat /\ FoldFollows(f, r, n)
      BY Zenon, <1>1, <1>6, <1>7 DEF FoldFollows
    <2> QED BY <2>1, FoldIs
  <1> QED BY <1>4, <1>8

\* A byte with some bits moved to its bottom has them there, the first one lowest.
LEMMA PackedByteIs ==
  ASSUME NEW b \in Seq(Bit), Len(b) <= ByteBits, NEW j \in 1..Len(b)
  PROVE  (PackedByte(b) \div Pow2[j - 1]) % 2 = b[j]
  <1> DEFINE n == Len(b)   w == ByteBits
  <1>0. n \in Nat /\ w \in Nat \ {0} /\ n <= w /\ w - n \in Nat /\ w - 1 \in Nat
    <2>1. n \in Nat /\ w \in Nat \ {0} /\ n <= w
      BY SizesAreLegal, LenProperties
    <2> HIDE DEF n, w
    <2> QED BY SMT, <2>1
  <1>1. PICK v \in [0..n -> Nat] : FirstBits(v, b, n)
    BY FirstBitsExist
  <1> DEFINE r == [k \in 0..n |-> Pow2[w - k] * v[k]]
  <1>2. ASSUME NEW k \in 0..n PROVE r[k] = Pow2[w - k] * v[k] /\ r[k] \in Nat
    <2>1. w - k \in Nat
      <3> HIDE DEF n, w
      <3> QED BY SMT, <1>0
    <2> DEFINE x == Pow2[w - k]   y == v[k]
    <2>2. x \in Nat /\ y \in Nat
      BY <1>1, <2>1, Pow2Grows
    <2>3. r[k] = x * y
      OBVIOUS
    <2> HIDE DEF x, y, r
    <2>4. x * y \in Nat
      BY SMT, <2>2
    <2> QED BY <2>3, <2>4 DEF x, y
  <1>3. r \in [0..n -> Nat]
    <2>1. r = [k \in 0..n |-> r[k]]
      OBVIOUS
    <2> HIDE DEF r
    <2> QED BY <1>2, <2>1
  <1>4. r[0] = 0
    <2>1. 0 \in 0..n /\ v[0] = 0 /\ w - 0 \in Nat
      BY <1>0, <1>1 DEF FirstBits
    <2>2. r[0] = Pow2[w - 0] * 0 /\ Pow2[w - 0] \in Nat
      BY <1>2, <2>1, Pow2Grows
    <2> DEFINE x == Pow2[w - 0]
    <2> HIDE DEF x, r
    <2> QED BY SMT, <2>2 DEF x
  <1> HIDE DEF r
  <1>5. ASSUME NEW k \in 1..n PROVE r[k] = (r[k - 1] \div 2) + b[k] * Pow2[w - 1]
    <2>1. k \in 0..n /\ k - 1 \in 0..n /\ k - 1 \in Nat /\ w - k \in Nat /\ w - (k - 1) = (w - k) + 1
          /\ (w - k) + (k - 1) = w - 1
      <3> HIDE DEF n, w
      <3> QED BY SMT, <1>0
    <2> DEFINE p == Pow2[w - k]   q == Pow2[k - 1]   a == v[k - 1]   x == b[k]
    <2>2. p \in Nat /\ q \in Nat /\ a \in Nat /\ x \in {0, 1}
      BY <1>1, <2>1, Pow2Grows, ElementOfSeq DEF Bit
    <2>3. Pow2[w - (k - 1)] = 2 * p /\ Pow2[w - 1] = p * q
      <3>1. Pow2[(w - k) + 1] = 2 * p /\ Pow2[(w - k) + (k - 1)] = p * q
        BY <2>1, Pow2Grows, PowersMultiply
      <3> QED BY <2>1, <3>1
    <2>4. v[k] = a + x * q
      BY <1>1 DEF FirstBits
    <2>5. r[k] = p * (a + x * q) /\ r[k - 1] = (2 * p) * a
      <3>1. r[k] = Pow2[w - k] * v[k] /\ r[k - 1] = Pow2[w - (k - 1)] * v[k - 1]
        BY <1>2, <2>1
      <3> QED BY <2>3, <2>4, <3>1
    <2> HIDE DEF p, q, a, x
    <2>6. (2 * p) * a = 2 * (p * a) + 0 /\ p * a \in Nat /\ p * (a + x * q) = p * a + x * (p * q)
      BY SMT, <2>2
    <2>7. ((2 * p) * a) \div 2 = p * a
      <3> DEFINE c == p * a
      <3>1. c \in Nat
        BY <2>6
      <3> HIDE DEF c
      <3>2. (2 * c + 0) \div 2 = c
        BY SMT, <3>1
      <3> QED BY <2>6, <3>2 DEF c
    <2>8. r[k] = (r[k - 1] \div 2) + x * (p * q)
      BY <2>5, <2>6, <2>7
    <2> QED BY <2>3, <2>8 DEF x
  <1>6. PackedByte(b) = r[n] \div Pow2[w - n]
    <2>1. b \in Seq(Nat)
      <3>1. \A i \in 1..n : b[i] \in Nat
        BY ElementOfSeq DEF Bit
      <3> QED BY <3>1
    <2>2. FoldLeft(LAMBDA t, x : (t \div 2) + x * Pow2[ByteBits - 1], 0, b) = r[Len(b)]
      BY <1>3, <1>4, <1>5, <2>1, ComesIn
    <2> QED BY <2>2 DEF PackedByte
  <1>7. PackedByte(b) = v[n]
    <2>1. n \in 0..n /\ v[n] \in Nat /\ Pow2[w - n] \in Nat \ {0}
      <3>1. n \in 0..n
        BY <1>0
      <3>2. Pow2[w - n] \in Nat \ {0}
        BY <1>0, Pow2Grows
      <3> QED BY <1>1, <3>1, <3>2
    <2>2. r[n] = Pow2[w - n] * v[n]
      BY <1>2, <2>1
    <2> DEFINE p == Pow2[w - n]   a == v[n]
    <2> HIDE DEF p, a
    <2>3. p * a = p * a + 0 /\ a \in Int /\ p \in Nat \ {0} /\ 0 \in Int /\ 0 <= 0 /\ 0 < p
      <3>1. a \in Nat /\ p \in Nat \ {0}
        BY <2>1 DEF p, a
      <3> QED BY SMT, <3>1
    <2>4. (p * a + 0) \div p = a
      BY <2>3, Quotient
    <2> QED BY <1>6, <2>2, <2>3, <2>4 DEF p, a
  <1> QED BY <1>1, <1>7, BitOfFirst

-----------------------------------------------------------------------------
(***************************************************************************)
(* Scans by JTAG Sequence, on a chain the host has not described.          *)
(***************************************************************************)

\* The state after a cycle with TMS = 1.
Up(s) == Tap[s][2]

\* The cycles of a scan of n bits, and the states it goes through from state s, by
\* how many are left.
ScanCycles(n) ==
  [x \in 1..(n + 11) |->
     [tms  |-> IF x \in {2, 3, n + 5} \/ x > n + 6 THEN 1 ELSE 0,
      tdi  |-> 1,
      read |-> x \in 3..(n + 2)]]

ScanTap(n, s) ==
  [x \in 0..(n + 11) |->
     IF x = 0 \/ x = n + 5 THEN "idle"
     ELSE IF x = 1 THEN "updateDr" ELSE IF x = 2 THEN "exit1Dr"
     ELSE IF x <= n + 2 THEN "shiftDr"
     ELSE IF x = n + 3 THEN "captureDr" ELSE IF x = n + 4 THEN "selectDr"
     ELSE IF x = n + 6 THEN "reset"
     ELSE IF x = n + 7 THEN Up(Up(Up(Up(s)))) ELSE IF x = n + 8 THEN Up(Up(Up(s)))
     ELSE IF x = n + 9 THEN Up(Up(s)) ELSE IF x = n + 10 THEN Up(s) ELSE s]

\* All devices are to give their identities, and what they give.
AllIdentify == \A d \in Devices : ir[d] = BitsOf(IrIdcode, chain[d])

Identities(c) == FlattenSeq([d \in 1..Len(c) |-> BitsOf(Idcode(d), WordBits)])

\* Of the identities k bits have left the path.
Leaves(p, ids, k) ==
  /\ Len(p) = Len(ids)
  /\ \A m \in 1..Len(ids) : k + m <= Len(ids) => p[m] = ids[k + m]

\* The first k bits read are those of the identities, as far as these go.
HasScanned(b, k, ids) == Len(b) = k /\ \A q \in 1..k : q <= Len(ids) => b[q] = ids[q]

Scanned(n, r) == IF r > n + 2 THEN 0 ELSE IF r >= 2 THEN n + 2 - r ELSE n

\* While n bits are scanned.
ScanRuns(n) ==
  LET r == Len(todo)
  IN  /\ r <= n + 11 /\ Counts(todo, ScanCycles(n), 0)
      /\ \E s \in TapStates : tap = ScanTap(n, s)[r]
      /\ r \in (n + 3)..(n + 5) => AllIdentify
      /\ r \in 3..(n + 2) => Leaves(path, Identities(chain), n + 2 - r)
      /\ HasScanned(bits, Scanned(n, r), Identities(chain))

ScanInv ==
  phase = "sequence" =>
    \A n \in 2..(MaxDevices * WordBits) : command.items = Scan(n) => ScanRuns(n)

LEMMA UpIs ==
  /\ Up("reset") = "reset" /\ Up("idle") = "selectDr" /\ Up("selectDr") = "selectIr"
  /\ Up("selectIr") = "reset" /\ Up("captureDr") = "exit1Dr" /\ Up("captureIr") = "exit1Ir"
  /\ Up("shiftDr") = "exit1Dr" /\ Up("shiftIr") = "exit1Ir" /\ Up("exit1Dr") = "updateDr"
  /\ Up("exit1Ir") = "updateIr" /\ Up("pauseDr") = "exit2Dr" /\ Up("pauseIr") = "exit2Ir"
  /\ Up("exit2Dr") = "updateDr" /\ Up("exit2Ir") = "updateIr" /\ Up("updateDr") = "selectDr"
  /\ Up("updateIr") = "selectDr"
  BY DEF Up, Tap

\* Five cycles with TMS = 1 reset the state machine, wherever it is.
LEMMA FiveReset ==
  ASSUME NEW s \in TapStates
  PROVE  Up(Up(Up(Up(Up(s))))) = "reset"
  <1>1. s \in {"reset", "idle", "selectDr", "selectIr", "captureDr", "captureIr", "shiftDr",
               "shiftIr", "exit1Dr", "exit1Ir", "pauseDr", "pauseIr", "exit2Dr", "exit2Ir",
               "updateDr", "updateIr"}
    BY TapSteps
  <1>2. CASE s \in {"reset", "idle", "selectDr", "selectIr"}
    BY <1>2, UpIs
  <1>3. CASE s \in {"updateDr", "updateIr", "exit1Dr", "exit1Ir", "exit2Dr", "exit2Ir"}
    BY <1>3, UpIs
  <1>4. CASE s \in {"captureDr", "captureIr", "shiftDr", "shiftIr", "pauseDr", "pauseIr"}
    BY <1>4, UpIs
  <1> QED BY <1>1, <1>2, <1>3, <1>4

LEMMA ScanCyclesAre ==
  ASSUME NEW n \in Nat \ {0, 1}
  PROVE  LET F == ScanCycles(n)
         IN  \A x \in 1..(n + 11) :
               /\ F[x].tms = (IF x \in {2, 3, n + 5} \/ x > n + 6 THEN 1 ELSE 0)
               /\ F[x].tdi = 1 /\ F[x].read = (x \in 3..(n + 2))
  <1> SUFFICES ASSUME NEW x \in 1..(n + 11)
               PROVE  /\ ScanCycles(n)[x].tms = (IF x \in {2, 3, n + 5} \/ x > n + 6 THEN 1 ELSE 0)
                      /\ ScanCycles(n)[x].tdi = 1 /\ ScanCycles(n)[x].read = (x \in 3..(n + 2))
    OBVIOUS
  <1>1. ScanCycles(n)[x] = [tms  |-> IF x \in {2, 3, n + 5} \/ x > n + 6 THEN 1 ELSE 0,
                            tdi  |-> 1, read |-> x \in 3..(n + 2)]
    BY DEF ScanCycles
  <1> QED BY <1>1

LEMMA ScanTapIs ==
  ASSUME NEW n \in Nat \ {0, 1}, NEW s \in TapStates
  PROVE  LET t == ScanTap(n, s)
         IN  /\ t[0] = "idle" /\ t[1] = "updateDr" /\ t[2] = "exit1Dr" /\ t[n + 3] = "captureDr"
             /\ t[n + 4] = "selectDr" /\ t[n + 5] = "idle" /\ t[n + 6] = "reset"
             /\ t[n + 7] = Up(Up(Up(Up(s)))) /\ t[n + 8] = Up(Up(Up(s))) /\ t[n + 9] = Up(Up(s))
             /\ t[n + 10] = Up(s) /\ t[n + 11] = s
             /\ \A x \in 3..(n + 2) : t[x] = "shiftDr"
  <1> DEFINE t == ScanTap(n, s)
             u1 == Up(s)   u2 == Up(u1)   u3 == Up(u2)   u4 == Up(u3)
  <1> HIDE DEF u1, u2, u3, u4
  <1>1. t = [x \in 0..(n + 11) |->
     IF x = 0 \/ x = n + 5 THEN "idle"
     ELSE IF x = 1 THEN "updateDr" ELSE IF x = 2 THEN "exit1Dr"
     ELSE IF x <= n + 2 THEN "shiftDr"
     ELSE IF x = n + 3 THEN "captureDr" ELSE IF x = n + 4 THEN "selectDr"
     ELSE IF x = n + 6 THEN "reset"
     ELSE IF x = n + 7 THEN u4 ELSE IF x = n + 8 THEN u3
     ELSE IF x = n + 9 THEN u2 ELSE IF x = n + 10 THEN u1 ELSE s]
    BY DEF ScanTap, u1, u2, u3, u4
  <1> HIDE DEF t
  <1>2. /\ t[0] = "idle" /\ t[1] = "updateDr" /\ t[2] = "exit1Dr" /\ t[n + 3] = "captureDr"
        /\ t[n + 4] = "selectDr" /\ t[n + 5] = "idle" /\ t[n + 6] = "reset"
    BY SMT, <1>1
  <1>3. /\ t[n + 7] = u4 /\ t[n + 8] = u3 /\ t[n + 9] = u2 /\ t[n + 10] = u1 /\ t[n + 11] = s
    BY SMT, <1>1
  <1>4. \A x \in 3..(n + 2) : t[x] = "shiftDr"
    BY SMT, <1>1
  <1> QED BY <1>2, <1>3, <1>4 DEF t, u1, u2, u3, u4

\* From each state the cycle leads to the next one.
LEMMA ScanMoves ==
  ASSUME NEW n \in Nat \ {0, 1}, NEW s \in TapStates
  PROVE  \A x \in 1..(n + 11) : Tap[ScanTap(n, s)[x]][ScanCycles(n)[x].tms + 1] = ScanTap(n, s)[x - 1]
  <1> DEFINE t == ScanTap(n, s)   F == ScanCycles(n)
             u1 == Up(s)   u2 == Up(u1)   u3 == Up(u2)   u4 == Up(u3)
  <1>1. /\ t[0] = "idle" /\ t[1] = "updateDr" /\ t[2] = "exit1Dr" /\ t[n + 3] = "captureDr"
        /\ t[n + 4] = "selectDr" /\ t[n + 5] = "idle" /\ t[n + 6] = "reset"
        /\ t[n + 7] = u4 /\ t[n + 8] = u3 /\ t[n + 9] = u2 /\ t[n + 10] = u1 /\ t[n + 11] = s
        /\ \A x \in 3..(n + 2) : t[x] = "shiftDr"
    BY ScanTapIs
  <1>2. \A x \in 1..(n + 11) : F[x].tms = IF x \in {2, 3, n + 5} \/ x > n + 6 THEN 1 ELSE 0
    BY ScanCyclesAre
  <1>3. \A q : Tap[q][1 + 1] = Up(q)
    <2>1. 1 + 1 = 2
      OBVIOUS
    <2> QED BY <2>1 DEF Up
  <1>4. Tap["reset"][0 + 1] = "idle"
    BY DEF Tap
  <1>5. Up(u4) = "reset"
    BY FiveReset
  <1>6. Up(u3) = u4 /\ Up(u2) = u3 /\ Up(u1) = u2 /\ Up(s) = u1
    OBVIOUS
  <1> HIDE DEF t, F, u1, u2, u3, u4
  <1> SUFFICES ASSUME NEW x \in 1..(n + 11) PROVE Tap[t[x]][F[x].tms + 1] = t[x - 1]
    BY DEF t, F
  <1>7. \/ x = 1 \/ x = 2 \/ x = 3 \/ x \in 4..(n + 2) \/ x = n + 3 \/ x = n + 4 \/ x = n + 5
        \/ x = n + 6 \/ x \in (n + 7)..(n + 11)
    BY SMT
  <1>8. F[x].tms = IF x \in {2, 3, n + 5} \/ x > n + 6 THEN 1 ELSE 0
    BY <1>2
  <1> HIDE DEF t
  <1>9. CASE x \in {1, 2, 3}
    <2>1. 1 - 1 = 0 /\ 2 - 1 = 1 /\ 3 - 1 = 2 /\ ~(x > n + 6) /\ x # n + 5 /\ 3 \in 3..(n + 2) /\ 0 + 1 = 1
      BY SMT, <1>9
    <2>2. CASE x = 1
      <3>1. F[x].tms = 0
        BY <1>8, <2>1, <2>2
      <3> QED BY <1>1, <2>1, <2>2, <3>1, TapSteps
    <2>3. CASE x = 2
      <3>1. F[x].tms = 1
        BY <1>8, <2>1, <2>3
      <3> QED BY <1>1, <1>3, <2>1, <2>3, <3>1, UpIs
    <2>4. CASE x = 3
      <3>1. F[x].tms = 1
        BY <1>8, <2>1, <2>4
      <3>2. t[3] = "shiftDr"
        BY <1>1, <2>1
      <3> QED BY <1>1, <1>3, <2>1, <2>4, <3>1, <3>2, UpIs
    <2> QED BY <1>9, <2>2, <2>3, <2>4
  <1>10. CASE x \in 4..(n + 2)
    <2>1. x \in 3..(n + 2) /\ x - 1 \in 3..(n + 2) /\ ~(x > n + 6) /\ x # n + 5 /\ x # 2 /\ x # 3 /\ 0 + 1 = 1
      BY SMT, <1>10
    <2>2. F[x].tms = 0
      BY <1>8, <2>1
    <2> QED BY <1>1, <2>1, <2>2, TapSteps
  <1>11. CASE x = n + 3
    <2>1. x - 1 \in 3..(n + 2) /\ ~(x > n + 6) /\ x # n + 5 /\ x # 2 /\ x # 3 /\ 0 + 1 = 1
      BY SMT, <1>11
    <2>2. F[x].tms = 0
      BY <1>8, <2>1
    <2> QED BY <1>1, <1>11, <2>1, <2>2, TapSteps
  <1>12. CASE x = n + 4
    <2>1. x - 1 = n + 3 /\ ~(x > n + 6) /\ x # n + 5 /\ x # 2 /\ x # 3 /\ 0 + 1 = 1
      BY SMT, <1>12
    <2>2. F[x].tms = 0
      BY <1>8, <2>1
    <2> QED BY <1>1, <1>12, <2>1, <2>2, TapSteps
  <1>13. CASE x = n + 5
    <2>1. x - 1 = n + 4
      BY SMT, <1>13
    <2>2. F[x].tms = 1
      BY <1>8, <1>13
    <2> QED BY <1>1, <1>3, <1>13, <2>1, <2>2, UpIs
  <1>14. CASE x = n + 6
    <2>1. x - 1 = n + 5 /\ ~(x > n + 6) /\ x # n + 5 /\ x # 2 /\ x # 3
      BY SMT, <1>14
    <2>2. F[x].tms = 0
      BY <1>8, <2>1
    <2> QED BY <1>1, <1>4, <1>14, <2>1, <2>2
  <1>15. CASE x \in (n + 7)..(n + 11)
    <2>1. x > n + 6
      BY SMT, <1>15
    <2>2. F[x].tms = 1
      BY <1>8, <2>1
    <2>3. Tap[t[x]][F[x].tms + 1] = Up(t[x])
      BY <1>3, <2>2
    <2>4. \/ (x = n + 7 /\ x - 1 = n + 6)
          \/ (x = n + 8 /\ x - 1 = n + 7)
          \/ (x = n + 9 /\ x - 1 = n + 8)
          \/ (x = n + 10 /\ x - 1 = n + 9)
          \/ (x = n + 11 /\ x - 1 = n + 10)
      BY SMT, <1>15
    <2>5. Up(t[x]) = t[x - 1]
      BY <1>1, <1>5, <1>6, <2>4
    <2> QED BY <2>3, <2>5
  <1> QED BY <1>7, <1>9, <1>10, <1>11, <1>12, <1>13, <1>14, <1>15

\* The items of a scan, one by one.
ScanLengths(n) == <<5, 1, 1, 2, n - 1, 1, 1, 1>>
ScanTms == <<1, 0, 1, 0, 0, 1, 1, 0>>
ScanReads(i) == i \in {5, 6}

LEMMA ScanItems ==
  ASSUME NEW n
  PROVE  /\ ScanLengths(n)[1] = 5 /\ ScanLengths(n)[2] = 1 /\ ScanLengths(n)[3] = 1
         /\ ScanLengths(n)[4] = 2 /\ ScanLengths(n)[5] = n - 1 /\ ScanLengths(n)[6] = 1
         /\ ScanLengths(n)[7] = 1 /\ ScanLengths(n)[8] = 1
         /\ ScanTms[1] = 1 /\ ScanTms[2] = 0 /\ ScanTms[3] = 1 /\ ScanTms[4] = 0 /\ ScanTms[5] = 0
         /\ ScanTms[6] = 1 /\ ScanTms[7] = 1 /\ ScanTms[8] = 0
         /\ ScanReads(1) = FALSE /\ ScanReads(2) = FALSE /\ ScanReads(3) = FALSE
         /\ ScanReads(4) = FALSE /\ ScanReads(5) = TRUE /\ ScanReads(6) = TRUE
         /\ ScanReads(7) = FALSE /\ ScanReads(8) = FALSE
  <1>1. /\ ScanLengths(n)[1] = 5 /\ ScanLengths(n)[2] = 1 /\ ScanLengths(n)[3] = 1
        /\ ScanLengths(n)[4] = 2 /\ ScanLengths(n)[5] = n - 1 /\ ScanLengths(n)[6] = 1
        /\ ScanLengths(n)[7] = 1 /\ ScanLengths(n)[8] = 1
    BY DEF ScanLengths
  <1>2. /\ ScanTms[1] = 1 /\ ScanTms[2] = 0 /\ ScanTms[3] = 1 /\ ScanTms[4] = 0 /\ ScanTms[5] = 0
        /\ ScanTms[6] = 1 /\ ScanTms[7] = 1 /\ ScanTms[8] = 0
    BY DEF ScanTms
  <1>3. ~ScanReads(1) /\ ~ScanReads(2) /\ ~ScanReads(3) /\ ~ScanReads(4) /\ ScanReads(5) /\ ScanReads(6)
        /\ ~ScanReads(7) /\ ~ScanReads(8)
    BY DEF ScanReads
  <1> QED BY <1>1, <1>2, <1>3

LEMMA ScanIs ==
  ASSUME NEW n \in Nat \ {0, 1}
  PROVE  /\ Len(Scan(n)) = 8
         /\ \A i \in 1..8 : Scan(n)[i] = [tms |-> ScanTms[i], tdi |-> Ones(ScanLengths(n)[i]),
                                          capture |-> ScanReads(i)]
  <1> DEFINE Item(t, k, c) == [tms |-> t, tdi |-> Ones(k), capture |-> c]
  <1>1. Scan(n) = <<Item(1, 5, FALSE), Item(0, 1, FALSE), Item(1, 1, FALSE), Item(0, 2, FALSE),
                    Item(0, n - 1, TRUE), Item(1, 1, TRUE), Item(1, 1, FALSE), Item(0, 1, FALSE)>>
    BY DEF Scan
  <1> HIDE DEF Item
  <1>2. /\ Len(Scan(n)) = 8
        /\ \A i \in 1..8 : Scan(n)[i] = Item(ScanTms[i], ScanLengths(n)[i], ScanReads(i))
    <2>1. Len(Scan(n)) = 8
      BY <1>1
    <2>2. ASSUME NEW i \in 1..8 PROVE Scan(n)[i] = Item(ScanTms[i], ScanLengths(n)[i], ScanReads(i))
      <3>1. i = 1 \/ i = 2 \/ i = 3 \/ i = 4 \/ i = 5 \/ i = 6 \/ i = 7 \/ i = 8
        BY SMT
      <3>2. /\ Scan(n)[1] = Item(1, 5, FALSE) /\ Scan(n)[2] = Item(0, 1, FALSE)
            /\ Scan(n)[3] = Item(1, 1, FALSE) /\ Scan(n)[4] = Item(0, 2, FALSE)
            /\ Scan(n)[5] = Item(0, n - 1, TRUE) /\ Scan(n)[6] = Item(1, 1, TRUE)
            /\ Scan(n)[7] = Item(1, 1, FALSE) /\ Scan(n)[8] = Item(0, 1, FALSE)
        BY <1>1
      <3>3. CASE i = 1
        BY Zenon, <3>2, <3>3, ScanItems
      <3>4. CASE i = 2
        BY Zenon, <3>2, <3>4, ScanItems
      <3>5. CASE i = 3
        BY Zenon, <3>2, <3>5, ScanItems
      <3>6. CASE i = 4
        BY Zenon, <3>2, <3>6, ScanItems
      <3>7. CASE i = 5
        BY Zenon, <3>2, <3>7, ScanItems
      <3>8. CASE i = 6
        BY Zenon, <3>2, <3>8, ScanItems
      <3>9. CASE i = 7
        BY Zenon, <3>2, <3>9, ScanItems
      <3>10. CASE i = 8
        BY Zenon, <3>2, <3>10, ScanItems
      <3> QED BY Zenon, <3>1, <3>3, <3>4, <3>5, <3>6, <3>7, <3>8, <3>9, <3>10
    <2> QED BY <2>1, <2>2
  <1> QED BY <1>2 DEF Item

LEMMA ScanHas ==
  ASSUME NEW n \in Nat \ {0, 1}
  PROVE  \A i \in 1..8 : /\ ScanLengths(n)[i] \in Nat \ {0} /\ ScanTms[i] \in Bit
                         /\ ScanReads(i) \in BOOLEAN
  <1> SUFFICES ASSUME NEW i \in 1..8
               PROVE  /\ ScanLengths(n)[i] \in Nat \ {0} /\ ScanTms[i] \in Bit
                      /\ ScanReads(i) \in BOOLEAN
    OBVIOUS
  <1>1. i = 1 \/ i = 2 \/ i = 3 \/ i = 4 \/ i = 5 \/ i = 6 \/ i = 7 \/ i = 8
    BY SMT
  <1>2. n - 1 \in Nat \ {0}
    BY SMT
  <1>3. ScanLengths(n)[i] \in Nat \ {0}
    BY <1>1, <1>2 DEF ScanLengths
  <1>4. ScanTms[i] \in Bit
    BY <1>1 DEF ScanTms, Bit
  <1>5. ScanReads(i) \in BOOLEAN
    BY DEF ScanReads
  <1> QED BY <1>3, <1>4, <1>5

\* Where the items of sequences of the lengths l begin.
LEMMA ScanPlaces ==
  ASSUME NEW n \in Nat \ {0, 1}, NEW l \in Seq(Nat), Len(l) = 8,
         \A i \in 1..8 : l[i] = ScanLengths(n)[i]
  PROVE  /\ Before(1, l) = 0 /\ Before(2, l) = 5 /\ Before(3, l) = 6 /\ Before(4, l) = 7
         /\ Before(5, l) = 9 /\ Before(6, l) = n + 8 /\ Before(7, l) = n + 9
         /\ Before(8, l) = n + 10 /\ Before(9, l) = n + 11
  <1>1. Before(1, l) = 0 /\ \A d \in 1..8 : Before(d + 1, l) = Before(d, l) + l[d]
    BY BeforeIs
  <1>2. /\ l[1] = 5 /\ l[2] = 1 /\ l[3] = 1 /\ l[4] = 2 /\ l[5] = n - 1 /\ l[6] = 1 /\ l[7] = 1
        /\ l[8] = 1
    BY DEF ScanLengths
  <1>3. /\ 1 + 1 = 2 /\ 2 + 1 = 3 /\ 3 + 1 = 4 /\ 4 + 1 = 5 /\ 5 + 1 = 6 /\ 6 + 1 = 7 /\ 7 + 1 = 8
        /\ 8 + 1 = 9 /\ 1 \in 1..8 /\ 2 \in 1..8 /\ 3 \in 1..8 /\ 4 \in 1..8 /\ 5 \in 1..8 /\ 6 \in 1..8
        /\ 7 \in 1..8 /\ 8 \in 1..8
    OBVIOUS
  <1>4. /\ Before(2, l) = Before(1, l) + 5 /\ Before(3, l) = Before(2, l) + 1
        /\ Before(4, l) = Before(3, l) + 1 /\ Before(5, l) = Before(4, l) + 2
        /\ Before(6, l) = Before(5, l) + (n - 1) /\ Before(7, l) = Before(6, l) + 1
        /\ Before(8, l) = Before(7, l) + 1 /\ Before(9, l) = Before(8, l) + 1
    BY <1>1, <1>2, <1>3
  <1> QED BY SMT, <1>1, <1>4

\* The walk of a scan, counted from its last cycle.
LEMMA ScanCounts ==
  ASSUME NEW n \in Nat \ {0, 1}
  PROVE  Counts(SequenceWalk(Scan(n)), ScanCycles(n), 0) /\ Len(SequenceWalk(Scan(n))) = n + 11
  <1> DEFINE items == Scan(n)
             C(i) == [tms |-> ScanTms[i], tdi |-> 1, read |-> ScanReads(i)]
             R(i) == [c \in 1..ScanLengths(n)[i] |-> C(i)]
             s == [i \in 1..8 |-> R(i)]
             l == [i \in 1..8 |-> Len(s[i])]
             F == ScanCycles(n)   W == FlattenSeq(s)
             Y(t, r) == [tms |-> t, tdi |-> 1, read |-> r]
  <1>1. ASSUME NEW i \in 1..8
        PROVE  /\ [c \in 1..Len(items[i].tdi) |->
                     [tms |-> items[i].tms, tdi |-> items[i].tdi[c], read |-> items[i].capture]] = R(i)
               /\ R(i) \in Seq(Cycles) /\ Len(R(i)) = ScanLengths(n)[i]
               /\ \A c \in 1..ScanLengths(n)[i] : R(i)[c] = C(i)
    <2> DEFINE k == ScanLengths(n)[i]
    <2>1. k \in Nat /\ ScanTms[i] \in Bit /\ ScanReads(i) \in BOOLEAN
      BY ScanHas
    <2>2. items[i] = [tms |-> ScanTms[i], tdi |-> Ones(k), capture |-> ScanReads(i)]
      BY ScanIs
    <2> HIDE DEF k, items
    <2>3. items[i].tms = ScanTms[i] /\ items[i].tdi = Ones(k) /\ items[i].capture = ScanReads(i)
      BY <2>2
    <2>4. Len(Ones(k)) = k /\ \A c \in 1..k : Ones(k)[c] = 1
      BY <2>1, OnesAreBits DEF Ones
    <2>5. [c \in 1..Len(items[i].tdi) |->
             [tms |-> items[i].tms, tdi |-> items[i].tdi[c], read |-> items[i].capture]]
          = [c \in 1..k |-> C(i)]
      BY <2>3, <2>4
    <2>6. C(i) \in Cycles
      BY <2>1 DEF Cycles, Bit
    <2> DEFINE x == C(i)
    <2> HIDE DEF x
    <2>7. /\ [c \in 1..k |-> x] \in Seq(Cycles) /\ Len([c \in 1..k |-> x]) = k
          /\ \A c \in 1..k : [c0 \in 1..k |-> x][c] = x
      BY <2>1, <2>6 DEF x
    <2> QED BY <2>5, <2>7 DEF k, x
  <1>2. SequenceWalk(items) = W
    <2>1. Len(items) = 8
      BY ScanIs
    <2> HIDE DEF items, R
    <2>2. SequenceWalk(items) =
            FlattenSeq([i \in 1..8 |->
              [c \in 1..Len(items[i].tdi) |->
                 [tms |-> items[i].tms, tdi |-> items[i].tdi[c], read |-> items[i].capture]]])
      BY <2>1 DEF SequenceWalk
    <2>3. [i \in 1..8 |-> [c \in 1..Len(items[i].tdi) |->
             [tms |-> items[i].tms, tdi |-> items[i].tdi[c], read |-> items[i].capture]]] = s
      BY <1>1
    <2> QED BY <2>2, <2>3
  <1> HIDE DEF R, C, items
  <1>3. s \in Seq(Seq(Cycles)) /\ Len(s) = 8 /\ \A i \in 1..8 : s[i] = R(i) /\ l[i] = ScanLengths(n)[i]
    BY <1>1
  <1> HIDE DEF s
  <1>4. l = [i \in 1..Len(s) |-> Len(s[i])]
    BY <1>3
  <1> HIDE DEF l
  <1>5. /\ l \in Seq(Nat) /\ Len(l) = 8
        /\ W \in Seq(Cycles) /\ Len(W) = Before(9, l)
        /\ \A d \in 1..8 : \A m \in 1..Len(s[d]) : W[Before(d, l) + m] = s[d][m]
    <2>1. 8 + 1 = 9
      OBVIOUS
    <2>2. l \in Seq(Nat) /\ Len(l) = Len(s)
      BY <1>3, <1>4, FlattenLayout
    <2> HIDE DEF W
    <2>0. s \in Seq(Seq(Cycles)) /\ l = [i \in 1..Len(s) |-> Len(s[i])]
      BY <1>3, <1>4
    <2>3. FlattenSeq(s) \in Seq(Cycles) /\ Len(FlattenSeq(s)) = Before(Len(s) + 1, l)
      BY <2>0, FlattenLayout
    <2>4. ASSUME NEW d \in 1..Len(s), NEW m \in 1..Len(s[d]) PROVE FlattenSeq(s)[Before(d, l) + m] = s[d][m]
      <3>1. l = LengthsOf(s)
        BY <2>0 DEF LengthsOf
      <3>2. FlattenSeq(s)[Before(d, LengthsOf(s)) + m] = s[d][m]
        BY Zenon, <2>0, FlattenPlaces
      <3> QED BY Zenon, <3>1, <3>2
    <2>5. \A d \in 1..8 : \A m \in 1..Len(s[d]) : FlattenSeq(s)[Before(d, l) + m] = s[d][m]
      BY Zenon, <1>3, <2>4
    <2>6. W = FlattenSeq(s)
      BY DEF W
    <2>7. Len(l) = 8 /\ Len(FlattenSeq(s)) = Before(9, l)
      BY <1>3, <2>1, <2>2, <2>3
    <2> QED BY Zenon, <2>2, <2>3, <2>5, <2>6, <2>7
  <1> HIDE DEF W
  <1>6. /\ Before(1, l) = 0 /\ Before(2, l) = 5 /\ Before(3, l) = 6 /\ Before(4, l) = 7
        /\ Before(5, l) = 9 /\ Before(6, l) = n + 8 /\ Before(7, l) = n + 9
        /\ Before(8, l) = n + 10 /\ Before(9, l) = n + 11
    BY <1>3, <1>5, ScanPlaces
  <1>7. \A d \in 1..8 : \A m \in 1..ScanLengths(n)[d] : W[Before(d, l) + m] = Y(ScanTms[d], ScanReads(d))
    <2> SUFFICES ASSUME NEW d \in 1..8, NEW m \in 1..ScanLengths(n)[d]
                 PROVE  W[Before(d, l) + m] = Y(ScanTms[d], ScanReads(d))
      BY Zenon
    <2>1. s[d] = R(d) /\ Len(R(d)) = ScanLengths(n)[d] /\ R(d)[m] = C(d)
      BY <1>1, <1>3
    <2>2. m \in 1..Len(s[d])
      BY <2>1
    <2>3. W[Before(d, l) + m] = C(d)
      BY Zenon, <1>5, <2>1, <2>2
    <2>4. C(d) = Y(ScanTms[d], ScanReads(d))
      BY DEF C
    <2> QED BY <2>3, <2>4
  <1>8. ASSUME NEW x \in 1..(n + 11)
        PROVE  F[x] = Y(IF x \in {2, 3, n + 5} \/ x > n + 6 THEN 1 ELSE 0, x \in 3..(n + 2))
    BY <1>8 DEF ScanCycles
  <1> HIDE DEF F, Y
  <1>9. /\ \A m \in 1..5 : W[0 + m] = Y(1, FALSE)
        /\ W[5 + 1] = Y(0, FALSE) /\ W[6 + 1] = Y(1, FALSE)
        /\ W[7 + 1] = Y(0, FALSE) /\ W[7 + 2] = Y(0, FALSE)
        /\ \A m \in 1..(n - 1) : W[9 + m] = Y(0, TRUE)
        /\ W[(n + 8) + 1] = Y(1, TRUE) /\ W[(n + 9) + 1] = Y(1, FALSE)
        /\ W[(n + 10) + 1] = Y(0, FALSE)
    <2>1. /\ 1 \in 1..8 /\ 2 \in 1..8 /\ 3 \in 1..8 /\ 4 \in 1..8 /\ 5 \in 1..8 /\ 6 \in 1..8
          /\ 7 \in 1..8 /\ 8 \in 1..8 /\ 1 \in 1..1 /\ 1 \in 1..2 /\ 2 \in 1..2
      OBVIOUS
    <2>2. \A m \in 1..5 : W[0 + m] = Y(1, FALSE)
      <3>1. \A m \in 1..ScanLengths(n)[1] : W[Before(1, l) + m] = Y(ScanTms[1], ScanReads(1))
        BY Zenon, <1>7, <2>1
      <3>2. /\ ScanLengths(n)[1] = 5 /\ Before(1, l) = 0
            /\ ScanTms[1] = 1 /\ ScanReads(1) = FALSE
        BY Zenon, <1>6, ScanItems
      <3> QED BY Zenon, <2>1, <3>1, <3>2
    <2>3. W[5 + 1] = Y(0, FALSE)
      <3>1. \A m \in 1..ScanLengths(n)[2] : W[Before(2, l) + m] = Y(ScanTms[2], ScanReads(2))
        BY Zenon, <1>7, <2>1
      <3>2. /\ ScanLengths(n)[2] = 1 /\ Before(2, l) = 5
            /\ ScanTms[2] = 0 /\ ScanReads(2) = FALSE
        BY Zenon, <1>6, ScanItems
      <3> QED BY Zenon, <2>1, <3>1, <3>2
    <2>4. W[6 + 1] = Y(1, FALSE)
      <3>1. \A m \in 1..ScanLengths(n)[3] : W[Before(3, l) + m] = Y(ScanTms[3], ScanReads(3))
        BY Zenon, <1>7, <2>1
      <3>2. /\ ScanLengths(n)[3] = 1 /\ Before(3, l) = 6
            /\ ScanTms[3] = 1 /\ ScanReads(3) = FALSE
        BY Zenon, <1>6, ScanItems
      <3> QED BY Zenon, <2>1, <3>1, <3>2
    <2>5. W[7 + 1] = Y(0, FALSE)
      <3>1. \A m \in 1..ScanLengths(n)[4] : W[Before(4, l) + m] = Y(ScanTms[4], ScanReads(4))
        BY Zenon, <1>7, <2>1
      <3>2. /\ ScanLengths(n)[4] = 2 /\ Before(4, l) = 7
            /\ ScanTms[4] = 0 /\ ScanReads(4) = FALSE
        BY Zenon, <1>6, ScanItems
      <3> QED BY Zenon, <2>1, <3>1, <3>2
    <2>6. W[7 + 2] = Y(0, FALSE)
      <3>1. \A m \in 1..ScanLengths(n)[4] : W[Before(4, l) + m] = Y(ScanTms[4], ScanReads(4))
        BY Zenon, <1>7, <2>1
      <3>2. /\ ScanLengths(n)[4] = 2 /\ Before(4, l) = 7
            /\ ScanTms[4] = 0 /\ ScanReads(4) = FALSE
        BY Zenon, <1>6, ScanItems
      <3> QED BY Zenon, <2>1, <3>1, <3>2
    <2>7. \A m \in 1..(n - 1) : W[9 + m] = Y(0, TRUE)
      <3>1. \A m \in 1..ScanLengths(n)[5] : W[Before(5, l) + m] = Y(ScanTms[5], ScanReads(5))
        BY Zenon, <1>7, <2>1
      <3>2. /\ ScanLengths(n)[5] = n - 1 /\ Before(5, l) = 9
            /\ ScanTms[5] = 0 /\ ScanReads(5) = TRUE
        BY Zenon, <1>6, ScanItems
      <3> QED BY Zenon, <2>1, <3>1, <3>2
    <2>8. W[(n + 8) + 1] = Y(1, TRUE)
      <3>1. \A m \in 1..ScanLengths(n)[6] : W[Before(6, l) + m] = Y(ScanTms[6], ScanReads(6))
        BY Zenon, <1>7, <2>1
      <3>2. /\ ScanLengths(n)[6] = 1 /\ Before(6, l) = n + 8
            /\ ScanTms[6] = 1 /\ ScanReads(6) = TRUE
        BY Zenon, <1>6, ScanItems
      <3> QED BY Zenon, <2>1, <3>1, <3>2
    <2>9. W[(n + 9) + 1] = Y(1, FALSE)
      <3>1. \A m \in 1..ScanLengths(n)[7] : W[Before(7, l) + m] = Y(ScanTms[7], ScanReads(7))
        BY Zenon, <1>7, <2>1
      <3>2. /\ ScanLengths(n)[7] = 1 /\ Before(7, l) = n + 9
            /\ ScanTms[7] = 1 /\ ScanReads(7) = FALSE
        BY Zenon, <1>6, ScanItems
      <3> QED BY Zenon, <2>1, <3>1, <3>2
    <2>10. W[(n + 10) + 1] = Y(0, FALSE)
      <3>1. \A m \in 1..ScanLengths(n)[8] : W[Before(8, l) + m] = Y(ScanTms[8], ScanReads(8))
        BY Zenon, <1>7, <2>1
      <3>2. /\ ScanLengths(n)[8] = 1 /\ Before(8, l) = n + 10
            /\ ScanTms[8] = 0 /\ ScanReads(8) = FALSE
        BY Zenon, <1>6, ScanItems
      <3> QED BY Zenon, <2>1, <3>1, <3>2
    <2> QED BY <2>2, <2>3, <2>4, <2>5, <2>6, <2>7, <2>8, <2>9, <2>10
  <1>10. ASSUME NEW x \in 1..(n + 11) PROVE W[n + 12 - x] = F[x]
    <2>1. \/ x > n + 6 /\ n + 12 - x \in 1..5
          \/ x = n + 6 \/ x = n + 5 \/ x = n + 4 \/ x = n + 3
          \/ x \in 4..(n + 2) /\ n + 12 - x - 9 \in 1..(n - 1)
          \/ x = 3 \/ x = 2 \/ x = 1
      BY SMT
    <2>2. F[x] = Y(IF x \in {2, 3, n + 5} \/ x > n + 6 THEN 1 ELSE 0, x \in 3..(n + 2))
      BY <1>8
    <2>3. CASE x > n + 6 /\ n + 12 - x \in 1..5
      <3>1. (x > n + 6) = TRUE /\ (x \in 3..(n + 2)) = FALSE /\ 0 + (n + 12 - x) = n + 12 - x
        BY SMT, <2>3
      <3>2. F[x] = Y(1, FALSE)
        BY Zenon, <2>2, <3>1
      <3> QED BY Zenon, <1>9, <2>3, <3>1, <3>2
    <2>4. CASE x = n + 6
      <3>1. (x \in {2, 3, n + 5} \/ x > n + 6) = FALSE /\ (x \in 3..(n + 2)) = FALSE /\ n + 12 - x = 5 + 1
        BY SMT, <2>4
      <3>2. F[x] = Y(0, FALSE)
        BY Zenon, <2>2, <3>1
      <3> QED BY Zenon, <1>9, <3>1, <3>2
    <2>5. CASE x = n + 5
      <3>1. (x \in {2, 3, n + 5}) = TRUE /\ (x \in 3..(n + 2)) = FALSE /\ n + 12 - x = 6 + 1
        BY SMT, <2>5
      <3>2. F[x] = Y(1, FALSE)
        BY Zenon, <2>2, <3>1
      <3> QED BY Zenon, <1>9, <3>1, <3>2
    <2>6. CASE x = n + 4
      <3>1. (x \in {2, 3, n + 5} \/ x > n + 6) = FALSE /\ (x \in 3..(n + 2)) = FALSE /\ n + 12 - x = 7 + 1
        BY SMT, <2>6
      <3>2. F[x] = Y(0, FALSE)
        BY Zenon, <2>2, <3>1
      <3> QED BY Zenon, <1>9, <3>1, <3>2
    <2>7. CASE x = n + 3
      <3>1. (x \in {2, 3, n + 5} \/ x > n + 6) = FALSE /\ (x \in 3..(n + 2)) = FALSE /\ n + 12 - x = 7 + 2
        BY SMT, <2>7
      <3>2. F[x] = Y(0, FALSE)
        BY Zenon, <2>2, <3>1
      <3> QED BY Zenon, <1>9, <3>1, <3>2
    <2>8. CASE x \in 4..(n + 2) /\ n + 12 - x - 9 \in 1..(n - 1)
      <3>1. /\ (x \in {2, 3, n + 5} \/ x > n + 6) = FALSE /\ (x \in 3..(n + 2)) = TRUE
            /\ n + 12 - x = 9 + (n + 12 - x - 9)
        BY SMT, <2>8
      <3>2. F[x] = Y(0, TRUE)
        BY Zenon, <2>2, <3>1
      <3> QED BY Zenon, <1>9, <2>8, <3>1, <3>2
    <2>9. CASE x = 3
      <3>1. (x \in {2, 3, n + 5}) = TRUE /\ (x \in 3..(n + 2)) = TRUE /\ n + 12 - x = (n + 8) + 1
        BY SMT, <2>9
      <3>2. F[x] = Y(1, TRUE)
        BY Zenon, <2>2, <3>1
      <3> QED BY Zenon, <1>9, <3>1, <3>2
    <2>10. CASE x = 2
      <3>1. (x \in {2, 3, n + 5}) = TRUE /\ (x \in 3..(n + 2)) = FALSE /\ n + 12 - x = (n + 9) + 1
        BY SMT, <2>10
      <3>2. F[x] = Y(1, FALSE)
        BY Zenon, <2>2, <3>1
      <3> QED BY Zenon, <1>9, <3>1, <3>2
    <2>11. CASE x = 1
      <3>1. (x \in {2, 3, n + 5} \/ x > n + 6) = FALSE /\ (x \in 3..(n + 2)) = FALSE /\ n + 12 - x = (n + 10) + 1
        BY SMT, <2>11
      <3>2. F[x] = Y(0, FALSE)
        BY Zenon, <2>2, <3>1
      <3> QED BY Zenon, <1>9, <3>1, <3>2
    <2> QED BY <2>1, <2>3, <2>4, <2>5, <2>6, <2>7, <2>8, <2>9, <2>10, <2>11
  <1>11. Len(W) = n + 11
    BY <1>5, <1>6
  <1>12. Counts(W, F, 0)
    <2>1. ASSUME NEW x \in 1..Len(W) PROVE W[Len(W) + 1 - x] = F[0 + x]
      <3>1. x \in 1..(n + 11) /\ Len(W) + 1 - x = n + 12 - x /\ 0 + x = x
        BY SMT, <1>11
      <3> QED BY <1>10, <3>1
    <2> QED BY <2>1 DEF Counts
  <1> QED BY <1>2, <1>11, <1>12 DEF items, F

\* When all devices are to give their identities, each captures its own, whatever
\* the length of its instruction register.
LEMMA CapturesIdentity ==
  ASSUME chain \in Chains, AllIdentify, NEW d \in Devices, NEW o
  PROVE  Captured(d, o) = BitsOf(Idcode(d), WordBits)
  <1> DEFINE n == chain[d]
  <1>1. n \in Nat \ {0} /\ ir[d] = BitsOf(IrIdcode, n)
    BY ChainIs DEF AllIdentify
  <1>2. DpLength \in Nat /\ DpLength >= 3 /\ IrIdcode \in Nat
    BY SMT, SizesAreLegal DEF IrIdcode
  <1> HIDE DEF n
  <1>3. Len(ir[d]) = n /\ ir[d][1] = 0
    <2>1. n \in Nat /\ 1 \in 1..n /\ 1 - 1 = 0
      BY SMT, <1>1
    <2>2. Len(BitsOf(IrIdcode, n)) = n /\ BitsOf(IrIdcode, n)[1] = (IrIdcode \div Pow2[1 - 1]) % 2
      BY <1>2, <2>1, BitsAreBits
    <2>3. Pow2[0] = 1
      BY Pow2Grows
    <2>4. (IrIdcode \div 1) % 2 = 0
      BY SMT DEF IrIdcode
    <2> QED BY <1>1, <2>1, <2>2, <2>3, <2>4
  <1>4. ~Accessing(d)
    <2>1. CASE n = DpLength
      <3>1. ir[d][3] = 1
        BY <1>1, <1>2, <2>1, CodesDiffer
      <3>2. \A c \in {IrAbort, IrDpacc, IrApacc} : BitsOf(c, DpLength)[3] = 0
        BY <1>2, CodesDiffer
      <3>3. 0 # 1
        OBVIOUS
      <3> QED BY <3>1, <3>2, <3>3 DEF Accessing
    <2>2. CASE n # DpLength
      BY <2>2 DEF Accessing, n
    <2> QED BY <2>1, <2>2
  <1>5. ~Bypassed(d)
    <2>1. 1 \in 1..Len(ir[d]) /\ 0 # 1
      BY SMT, <1>1, <1>3
    <2> QED BY <1>3, <2>1 DEF Bypassed
  <1>6. Identifying(d)
    BY <1>1 DEF Identifying, n
  <1> QED BY <1>4, <1>5, <1>6 DEF Captured

\* Where words begin that follow each other.
LEMMA BeforeWords ==
  ASSUME NEW w \in Nat, NEW l \in Seq(Nat), \A d \in 1..Len(l) : l[d] = w
  PROVE  \A d \in 1..(Len(l) + 1) : Before(d, l) = (d - 1) * w
  <1> DEFINE c == Len(l)   T == {k \in Nat : k <= c => Before(k + 1, l) = k * w}
  <1>1. c \in Nat
    BY LenProperties
  <1>2. Before(1, l) = 0 /\ \A d \in 1..c : Before(d + 1, l) = Before(d, l) + l[d]
    BY BeforeIs
  <1>3. 0 \in T
    <2>1. 0 + 1 = 1 /\ 0 * w = 0
      BY SMT
    <2> QED BY <1>2, <2>1
  <1>4. ASSUME NEW k \in T PROVE k + 1 \in T
    <2>1. k \in Nat /\ k + 1 \in Nat
      BY SMT
    <2> SUFFICES ASSUME k + 1 <= c PROVE Before((k + 1) + 1, l) = (k + 1) * w
      BY <2>1
    <2> HIDE DEF c
    <2>2. k <= c /\ k + 1 \in 1..c
      BY SMT, <1>1, <2>1
    <2>3. Before(k + 1, l) = k * w
      BY <2>1, <2>2
    <2>4. Before((k + 1) + 1, l) = Before(k + 1, l) + l[k + 1] /\ l[k + 1] = w
      BY <1>2, <2>2 DEF c
    <2>5. k * w + w = (k + 1) * w
      BY SMT, <2>1
    <2> QED BY <2>3, <2>4, <2>5
  <1>5. T \in SUBSET Nat
    OBVIOUS
  <1> HIDE DEF T
  <1>6. T = Nat
    BY <1>3, <1>4, <1>5, InductionOnSet
  <1> SUFFICES ASSUME NEW d \in 1..(c + 1) PROVE Before(d, l) = (d - 1) * w
    OBVIOUS
  <1> HIDE DEF c
  <1>7. d - 1 \in Nat /\ d - 1 <= c /\ (d - 1) + 1 = d
    BY SMT, <1>1
  <1>8. d - 1 \in T
    BY <1>6, <1>7
  <1> QED BY <1>7, <1>8 DEF T

\* The identities of the devices of a chain, one word each.
LEMMA IdentitiesAre ==
  ASSUME chain \in Chains
  PROVE  LET ids == Identities(chain)
         IN  /\ ids \in Seq(Bit) /\ Len(ids) = Len(chain) * WordBits
             /\ \A d \in Devices : \A m \in 1..WordBits :
                  ids[(d - 1) * WordBits + m] = BitsOf(Idcode(d), WordBits)[m]
  <1> DEFINE w == WordBits   c == Len(chain)
             s == [d \in 1..c |-> BitsOf(Idcode(d), w)]   l == LengthsOf(s)
  <1>1. w \in Nat /\ c \in Nat /\ Devices = 1..c
    BY ChainIs, SizesAreLegal
  <1>2. \A d \in 1..c : BitsOf(Idcode(d), w) \in Seq(Bit) /\ Len(BitsOf(Idcode(d), w)) = w
    <2> SUFFICES ASSUME NEW d \in 1..c
                 PROVE  BitsOf(Idcode(d), w) \in Seq(Bit) /\ Len(BitsOf(Idcode(d), w)) = w
      OBVIOUS
    <2>1. Pow2[w] \in Nat \ {0} /\ d \in Nat
      BY <1>1, Pow2Grows
    <2> HIDE DEF w
    <2>2. Idcode(d) \in Nat
      BY SMT, <2>1 DEF Idcode, w
    <2> QED BY <1>1, <2>2, BitsAreBits
  <1> HIDE DEF w, c
  <1>3. s \in Seq(Seq(Bit)) /\ Len(s) = c /\ \A d \in 1..c : s[d] = BitsOf(Idcode(d), w)
    BY <1>1, <1>2
  <1>4. Identities(chain) = FlattenSeq(s)
    BY DEF Identities, w, c
  <1> HIDE DEF s
  <1>5. l \in Seq(Nat) /\ Len(l) = c /\ \A d \in 1..c : l[d] = w
    <2>1. l = [d \in 1..c |-> Len(s[d])]
      BY <1>3 DEF LengthsOf
    <2>2. \A d \in 1..c : Len(s[d]) = w
      BY <1>2, <1>3
    <2> HIDE DEF l
    <2>3. l \in [1..c -> Nat]
      BY <1>1, <2>1, <2>2
    <2> QED BY <1>1, <2>1, <2>2, <2>3
  <1>6. l = [d \in 1..Len(s) |-> Len(s[d])]
    BY DEF LengthsOf
  <1>7. FlattenSeq(s) \in Seq(Bit) /\ Len(FlattenSeq(s)) = Before(c + 1, l)
    <2> HIDE DEF l
    <2> QED BY <1>3, <1>6, FlattenLayout
  <1>8. \A d \in 1..c : \A m \in 1..w : FlattenSeq(s)[Before(d, l) + m] = s[d][m]
    <2>1. \A d \in 1..Len(s) : \A m \in 1..Len(s[d]) : FlattenSeq(s)[Before(d, l) + m] = s[d][m]
      BY <1>3, FlattenPlaces
    <2> HIDE DEF l
    <2> QED BY <1>2, <1>3, <2>1
  <1> HIDE DEF l
  <1>9. \A d \in 1..(c + 1) : Before(d, l) = (d - 1) * w
    <2>1. \A d \in 1..Len(l) : l[d] = w
      BY <1>5
    <2>2. \A d \in 1..(Len(l) + 1) : Before(d, l) = (d - 1) * w
      BY Zenon, <1>1, <1>5, <2>1, BeforeWords
    <2> QED BY <1>5, <2>2
  <1>10. Len(FlattenSeq(s)) = c * w
    <2>1. c + 1 \in 1..(c + 1) /\ (c + 1) - 1 = c
      BY SMT, <1>1
    <2> QED BY <1>7, <1>9, <2>1
  <1>11. ASSUME NEW d \in 1..c, NEW m \in 1..w PROVE FlattenSeq(s)[(d - 1) * w + m] = BitsOf(Idcode(d), w)[m]
    <2>1. d \in 1..(c + 1)
      BY SMT, <1>1
    <2>2. Before(d, l) = (d - 1) * w
      BY <1>9, <2>1
    <2> QED BY <1>3, <1>8, <2>2
  <1> QED BY <1>1, <1>4, <1>7, <1>10, <1>11 DEF w, c

\* When data are captured, the identities are on the path.
LEMMA PathIdentifies ==
  ASSUME chain \in Chains, AllIdentify, NEW o
  PROVE  FlattenSeq(CapturedAll(o)) = Identities(chain)
  <1>1. \A d \in Devices : Captured(d, o) = BitsOf(Idcode(d), WordBits)
    BY CapturesIdentity
  <1>2. CapturedAll(o) = [d \in 1..Len(chain) |-> BitsOf(Idcode(d), WordBits)]
    BY <1>1 DEF CapturedAll, Devices
  <1> QED BY <1>2 DEF Identities

\* One bit of the identities leaves the path, and is read.
LEMMA LeavesOn ==
  ASSUME NEW p \in Seq(Bit), NEW ids \in Seq(Bit), NEW k \in Nat, Leaves(p, ids, k), ids # <<>>,
         NEW b \in Bit, NEW r \in Seq(Bit), HasScanned(r, k, ids)
  PROVE  /\ Leaves(Append(Tail(p), b), ids, k + 1)
         /\ HasScanned(Append(r, p[1]), k + 1, ids)
  <1> DEFINE c == Len(ids)   q == Append(Tail(p), b)   a == Append(r, p[1])
  <1>1. c \in Nat \ {0} /\ Len(p) = c /\ \A m \in 1..c : k + m <= c => p[m] = ids[k + m]
    BY SMT DEF Leaves
  <1>2. p # <<>>
    BY <1>1
  <1>3. q \in Seq(Bit) /\ Len(q) = c /\ p[1] \in Bit /\ \A i \in 1..(c - 1) : q[i] = p[i + 1]
    BY <1>1, <1>2, Shifted
  <1>4. Len(r) = k /\ \A j \in 1..k : j <= c => r[j] = ids[j]
    BY DEF HasScanned
  <1>5. Len(a) = k + 1 /\ a[k + 1] = p[1] /\ \A j \in 1..k : a[j] = r[j]
    BY <1>3, <1>4, AppendProperties
  <1> HIDE DEF c, q, a
  <1>6. ASSUME NEW m \in 1..c, (k + 1) + m <= c PROVE q[m] = ids[(k + 1) + m]
    <2>1. m \in 1..(c - 1) /\ m + 1 \in 1..c /\ k + (m + 1) <= c /\ k + (m + 1) = (k + 1) + m
      BY SMT, <1>1, <1>6
    <2> QED BY <1>1, <1>3, <2>1
  <1>7. ASSUME NEW j \in 1..(k + 1), j <= c PROVE a[j] = ids[j]
    <2>1. CASE j \in 1..k
      BY <1>4, <1>5, <1>7, <2>1
    <2>2. CASE j \notin 1..k
      <3>1. j = k + 1 /\ 1 \in 1..c /\ k + 1 <= c
        BY SMT, <1>1, <1>7, <2>2
      <3> QED BY <1>1, <1>5, <3>1
    <2> QED BY <2>1, <2>2
  <1>8. Leaves(q, ids, k + 1)
    <2>1. Len(q) = Len(ids)
      BY <1>3 DEF c
    <2>2. \A m \in 1..Len(ids) : (k + 1) + m <= Len(ids) => q[m] = ids[(k + 1) + m]
      BY <1>6 DEF c
    <2> QED BY <2>1, <2>2 DEF Leaves
  <1>9. HasScanned(a, k + 1, ids)
    BY <1>5, <1>7 DEF HasScanned, c
  <1> QED BY <1>8, <1>9 DEF q, a

\* How many bits have been read, from one cycle to the next.
LEMMA ScannedOn ==
  ASSUME NEW n \in Nat \ {0, 1}, NEW r \in 1..(n + 11)
  PROVE  /\ r \in 3..(n + 2) => Scanned(n, r) = n + 2 - r /\ Scanned(n, r - 1) = (n + 2 - r) + 1
         /\ r \notin 3..(n + 2) => Scanned(n, r - 1) = Scanned(n, r)
  <1>1. CASE r \in 3..(n + 2)
    <2>1. /\ ~(r > n + 2) /\ r >= 2 /\ ~(r - 1 > n + 2) /\ r - 1 >= 2
          /\ n + 2 - (r - 1) = (n + 2 - r) + 1
      BY SMT, <1>1
    <2> QED BY <1>1, <2>1 DEF Scanned
  <1>2. CASE r > n + 3
    <2>1. r > n + 2 /\ r - 1 > n + 2 /\ r \notin 3..(n + 2)
      BY SMT, <1>2
    <2> QED BY <2>1 DEF Scanned
  <1>3. CASE r = n + 3
    <2>1. r > n + 2 /\ ~(r - 1 > n + 2) /\ r - 1 >= 2 /\ n + 2 - (r - 1) = 0 /\ r \notin 3..(n + 2)
      BY SMT, <1>3
    <2> QED BY <2>1 DEF Scanned
  <1>4. CASE r = 2
    <2>1. ~(r > n + 2) /\ r >= 2 /\ n + 2 - r = n /\ ~(r - 1 > n + 2) /\ ~(r - 1 >= 2) /\ r \notin 3..(n + 2)
      BY SMT, <1>4
    <2> QED BY <2>1 DEF Scanned
  <1>5. CASE r = 1
    <2>1. ~(r > n + 2) /\ ~(r >= 2) /\ ~(r - 1 > n + 2) /\ ~(r - 1 >= 2) /\ r \notin 3..(n + 2)
      BY SMT, <1>5
    <2> QED BY <2>1 DEF Scanned
  <1>6. r \in 3..(n + 2) \/ r > n + 3 \/ r = n + 3 \/ r = 2 \/ r = 1
    BY SMT
  <1> QED BY <1>1, <1>2, <1>3, <1>4, <1>5, <1>6

LEMMA CycleKeepsScan ==
  ASSUME TypeInv, NEW n \in Nat \ {0, 1}, ScanRuns(n), Cycle
  PROVE  ScanRuns(n)'
  <1> DEFINE r == Len(todo)   F == ScanCycles(n)   ids == Identities(chain)
  <1>1. PICK s \in TapStates : tap = ScanTap(n, s)[r]
    BY DEF ScanRuns
  <1> DEFINE t == ScanTap(n, s)
  <1>2. /\ r <= n + 11 /\ Counts(todo, F, 0) /\ tap = t[r]
        /\ r \in (n + 3)..(n + 5) => AllIdentify
        /\ r \in 3..(n + 2) => Leaves(path, ids, n + 2 - r)
        /\ HasScanned(bits, Scanned(n, r), ids)
    BY <1>1 DEF ScanRuns
  <1>3. chain \in Chains /\ path \in Seq(Bit) /\ bits \in Seq(Bit)
    BY DEF TypeInv, BoardInv, ProbeInv
  <1>4. \A x \in 1..r : Tap[t[x]][F[x].tms + 1] = t[x - 1]
    <2>1. \A x \in 1..r : x \in 1..(n + 11)
      <3>1. r \in Nat
        BY LenProperties DEF TypeInv, ProbeInv
      <3> HIDE DEF r
      <3> QED BY SMT, <1>2, <3>1
    <2>2. \A x \in 1..(n + 11) : Tap[t[x]][F[x].tms + 1] = t[x - 1]
      BY ScanMoves
    <2> HIDE DEF F, t, r
    <2> QED BY <2>1, <2>2
  <1>5. /\ r \in Nat \ {0} /\ Len(todo') = r - 1 /\ Counts(todo', F, 0) /\ tap' = t[r - 1]
        /\ Clock(F[r].tms, F[r].tdi)
        /\ bits' = IF F[r].read THEN Append(bits, IF Shifting THEN path[1] ELSE 1) ELSE bits
        /\ chain' = chain /\ command' = command
    BY <1>2, <1>4, CycleIs
  <1>6. /\ tap \notin {"reset", "updateIr"} => ir' = ir
        /\ tap \in {"shiftIr", "shiftDr"} => path' = Append(Tail(path), F[r].tdi)
        /\ tap = "captureDr" =>
             \E o \in [ack : {JtagWait, JtagOk}, word : Words] :
               offer' = o /\ path' = FlattenSeq(CapturedAll(o))
    BY <1>5, ClockDoes
  <1>7. tap = "reset" => ir' = [d \in Devices |-> BitsOf(IrIdcode, chain[d])]
    BY Zenon, <1>5 DEF Clock, Shifting
  <1>8. /\ t[n + 3] = "captureDr" /\ t[n + 4] = "selectDr" /\ t[n + 5] = "idle" /\ t[n + 6] = "reset"
        /\ \A x \in 3..(n + 2) : t[x] = "shiftDr"
    BY ScanTapIs
  <1>9. Devices' = Devices /\ ids' = ids
    BY <1>5 DEF Devices
  <1> HIDE DEF r, F, t
  <1>10. r \in 1..(n + 11) /\ r - 1 <= n + 11
    BY SMT, <1>2, <1>5
  <1>11. F[r].tdi = 1 /\ F[r].read = (r \in 3..(n + 2))
    BY <1>10, ScanCyclesAre DEF F
  <1>12. ids \in Seq(Bit) /\ ids # <<>>
    <2>1. ids \in Seq(Bit) /\ Len(ids) = Len(chain) * WordBits
      BY <1>3, IdentitiesAre
    <2>2. Len(chain) \in Nat \ {0} /\ WordBits \in Nat \ {0}
      BY <1>3, ChainIs, SizesAreLegal
    <2>3. \A a, b \in Nat \ {0} : a * b # 0
      BY SMT
    <2>4. Len(<<>>) = 0
      OBVIOUS
    <2> HIDE DEF ids
    <2> QED BY <2>1, <2>2, <2>3, <2>4
  <1> HIDE DEF ids
  <1>13. ASSUME r - 1 \in (n + 3)..(n + 5) PROVE AllIdentify'
    <2>1. r = n + 6 \/ r = n + 5 \/ r = n + 4
      BY SMT, <1>5, <1>13
    <2>2. CASE r = n + 6
      <3>1. ir' = [d \in Devices |-> BitsOf(IrIdcode, chain[d])]
        BY <1>2, <1>7, <1>8, <2>2
      <3> QED BY <1>5, <1>9, <3>1 DEF AllIdentify
    <2>3. CASE r = n + 5 \/ r = n + 4
      <3>1. r \in (n + 3)..(n + 5)
        BY SMT, <2>3
      <3>2. ir' = ir
        BY <1>2, <1>6, <1>8, <2>3
      <3> QED BY <1>2, <1>5, <1>9, <3>1, <3>2 DEF AllIdentify
    <2> QED BY <2>1, <2>2, <2>3
  <1>14. /\ r - 1 \in 3..(n + 2) => Leaves(path', ids, n + 2 - (r - 1))
         /\ HasScanned(bits', Scanned(n, r - 1), ids)
    <2>1. CASE r \in 3..(n + 2)
      <3> DEFINE k == n + 2 - r
      <3>1. k \in Nat /\ n + 2 - (r - 1) = k + 1
        BY SMT, <2>1
      <3>2. tap = "shiftDr" /\ Leaves(path, ids, k) /\ Scanned(n, r) = k /\ Scanned(n, r - 1) = k + 1
        BY <1>2, <1>8, <1>10, <2>1, ScannedOn
      <3>3. path' = Append(Tail(path), 1) /\ bits' = Append(bits, path[1]) /\ 1 \in Bit
        BY <1>5, <1>6, <1>11, <2>1, <3>2 DEF Shifting, Bit
      <3> HIDE DEF k
      <3>4. Leaves(Append(Tail(path), 1), ids, k + 1) /\ HasScanned(Append(bits, path[1]), k + 1, ids)
        BY <1>2, <1>3, <1>12, <3>1, <3>2, <3>3, LeavesOn
      <3> QED BY <3>1, <3>2, <3>3, <3>4
    <2>2. CASE r \notin 3..(n + 2)
      <3>1. Scanned(n, r - 1) = Scanned(n, r) /\ bits' = bits
        BY <1>5, <1>10, <1>11, <2>2, ScannedOn
      <3>2. ASSUME r - 1 \in 3..(n + 2) PROVE Leaves(path', ids, n + 2 - (r - 1))
        <4>1. r = n + 3 /\ n + 2 - (r - 1) = 0 /\ r \in (n + 3)..(n + 5)
          BY SMT, <1>5, <2>2, <3>2
        <4>2. PICK o \in [ack : {JtagWait, JtagOk}, word : Words] :
                offer' = o /\ path' = FlattenSeq(CapturedAll(o))
          BY <1>2, <1>6, <1>8, <4>1
        <4>3. path' = ids
          BY <1>2, <1>3, <4>1, <4>2, PathIdentifies DEF ids
        <4>4. \A m \in 1..Len(ids) : 0 + m = m
          BY SMT
        <4> QED BY <4>1, <4>3, <4>4 DEF Leaves
      <3> QED BY <1>2, <3>1, <3>2
    <2> QED BY <2>1, <2>2
  <1> DEFINE q == Len(todo')
  <1>15. q = r - 1
    BY <1>5
  <1> HIDE DEF q
  <1>16. /\ q <= n + 11 /\ Counts(todo', F, 0) /\ tap' = t[q]
         /\ q \in (n + 3)..(n + 5) => AllIdentify'
         /\ q \in 3..(n + 2) => Leaves(path', ids, n + 2 - q)
         /\ HasScanned(bits', Scanned(n, q), ids)
    BY <1>5, <1>10, <1>13, <1>14, <1>15
  <1>17. Identities(chain') = ids
    BY <1>9 DEF ids
  <1> QED BY <1>1, <1>16, <1>17 DEF ScanRuns, q, t, F

LEMMA ScanLimits == \A n \in 2..(MaxDevices * WordBits) : n \in Nat \ {0, 1}
  <1>1. MaxDevices \in Nat /\ WordBits \in Nat
    BY SizesAreLegal
  <1>2. \A a, b \in Nat : a * b \in Nat
    BY SMT
  <1> DEFINE c == MaxDevices * WordBits
  <1>3. c \in Nat
    BY <1>1, <1>2
  <1> HIDE DEF c
  <1>4. \A n \in 2..c : n \in Nat \ {0, 1}
    BY SMT, <1>3
  <1> QED BY <1>4 DEF c

\* A scan begins, from any state of the state machine.
LEMMA ScanBegins ==
  ASSUME TypeInv, NEW n \in Nat \ {0, 1}, todo' = SequenceWalk(Scan(n)), bits' = <<>>, tap' = tap
  PROVE  ScanRuns(n)'
  <1> DEFINE r == Len(todo')
  <1>1. Counts(todo', ScanCycles(n), 0) /\ r = n + 11
    BY ScanCounts
  <1>2. tap \in TapStates /\ tap' = ScanTap(n, tap)[n + 11]
    <2>1. tap \in TapStates
      BY DEF TypeInv, BoardInv, TapStates
    <2> QED BY <2>1, ScanTapIs
  <1>3. r <= n + 11 /\ r \notin (n + 3)..(n + 5) /\ r \notin 3..(n + 2) /\ r > n + 2
    <2> HIDE DEF r
    <2> QED BY SMT, <1>1
  <1>4. HasScanned(bits', Scanned(n, r), Identities(chain'))
    <2>1. Scanned(n, r) = 0
      BY <1>3 DEF Scanned
    <2>2. \A q \in 1..0 : FALSE
      OBVIOUS
    <2>3. Len(bits') = 0
      OBVIOUS
    <2> HIDE DEF r
    <2> QED BY <2>1, <2>2, <2>3 DEF HasScanned
  <1>5. \E s \in TapStates : tap' = ScanTap(n, s)[r]
    BY <1>1, <1>2
  <1> HIDE DEF r
  <1>6. /\ r <= n + 11 /\ Counts(todo', ScanCycles(n), 0)
        /\ \E s \in TapStates : tap' = ScanTap(n, s)[r]
        /\ r \in (n + 3)..(n + 5) => AllIdentify'
        /\ r \in 3..(n + 2) => Leaves(path', Identities(chain'), n + 2 - r)
        /\ HasScanned(bits', Scanned(n, r), Identities(chain'))
    BY <1>1, <1>3, <1>4, <1>5
  <1> QED BY <1>6 DEF ScanRuns, r

LEMMA StepKeepsScan == TypeInv /\ ScanInv /\ [Next]_vars => ScanInv'
  <1> SUFFICES ASSUME TypeInv, ScanInv, [Next]_vars, phase' = "sequence",
                      NEW n \in 2..(MaxDevices * WordBits), command'.items = Scan(n)
               PROVE  ScanRuns(n)'
    BY DEF ScanInv
  <1>1. n \in Nat \ {0, 1}
    BY ScanLimits
  <1>2. phase = "sequence" /\ command.items = Scan(n) => ScanRuns(n)
    BY DEF ScanInv
  <1>3. CASE \E c \in Configs : \E m \in 0..Len(c) : Configure(Len(c), SubSeq(c, 1, m))
    <2>1. phase' = "none"
      BY <1>3 DEF Configure, Idle
    <2> QED BY <2>1
  <1>4. CASE \E i \in 1..MaxDevices : \E code \in {IrAbort, IrDpacc, IrApacc} :
               \E r \in Requests, w \in Words : Transfer(i, code, r, w)
    <2>1. phase' = "ir"
      BY <1>4 DEF Transfer
    <2> QED BY <2>1
  <1>5. CASE \E i \in 1..MaxDevices : JtagIdcode(i)
    <2>1. phase' = "ir"
      BY <1>5 DEF JtagIdcode
    <2> QED BY <2>1
  <1>6. CASE \E s \in Sequences : JtagSequence(s)
    <2>1. PICK s \in Sequences : JtagSequence(s)
      BY <1>6
    <2>2. /\ command' = [kind |-> "sequence", items |-> s] /\ bits' = <<>> /\ tap' = tap
          /\ phase' = "short" \/ todo' = SequenceWalk(s)
      BY <2>1 DEF JtagSequence
    <2>3. s = Scan(n)
      BY <2>2
    <2>4. todo' = SequenceWalk(Scan(n))
      BY <2>2, <2>3
    <2> QED BY <1>1, <2>2, <2>4, ScanBegins
  <1>7. CASE Cycle
    <2>1. phase' = phase /\ command' = command
      BY <1>7 DEF Cycle
    <2>2. ScanRuns(n)
      BY <1>2, <2>1
    <2> QED BY <1>1, <1>7, <2>2, CycleKeepsScan
  <1>8. CASE Plan
    <2>1. phase' \in {"ask", "data", "refused", "idcode"}
      BY <1>8 DEF Plan
    <2> QED BY <2>1
  <1>9. CASE Answer
    <2>1. phase' = "none"
      BY <1>9 DEF Answer
    <2> QED BY <2>1
  <1>10. CASE UNCHANGED vars
    <2>1. /\ todo' = todo /\ phase' = phase /\ bits' = bits /\ chain' = chain /\ ir' = ir /\ path' = path
          /\ tap' = tap /\ command' = command
      BY <1>10 DEF vars, board
    <2>2. ScanRuns(n) /\ Devices' = Devices
      BY <1>2, <2>1 DEF Devices
    <2>3. AllIdentify' = AllIdentify
      BY <2>1, <2>2 DEF AllIdentify
    <2> QED BY <2>1, <2>2, <2>3 DEF ScanRuns
  <1> QED BY <1>3, <1>4, <1>5, <1>6, <1>7, <1>8, <1>9, <1>10, Zenon DEF Next

-----------------------------------------------------------------------------
(***************************************************************************)
(* The response to a scan, and what the host takes from it.                *)
(***************************************************************************)

LEMMA LesserOfTwo ==
  ASSUME NEW a \in Nat, NEW b \in Nat
  PROVE  Min({a, b}) \in {a, b} /\ Min({a, b}) <= a /\ Min({a, b}) <= b
  <1>1. \E x \in {a, b} : \A y \in {a, b} : x =< y
    BY SMT
  <1>2. Min({a, b}) \in {a, b} /\ \A y \in {a, b} : Min({a, b}) =< y
    BY <1>1 DEF Min
  <1> QED BY <1>2

LEMMA TimesGrows == ASSUME NEW a \in Nat, NEW b \in Nat, NEW c \in Nat, b <= c PROVE a * b <= a * c
  <1> DEFINE x == c - b   y == a * x
  <1>1. x \in Nat /\ c = b + x
    BY SMT
  <1>2. y \in Nat
    BY SMT, <1>1
  <1> HIDE DEF x
  <1>3. a * (b + x) = a * b + y
    BY SMT, <1>1
  <1> HIDE DEF y
  <1>4. a * b \in Nat
    BY SMT
  <1> QED BY SMT, <1>1, <1>2, <1>3, <1>4

\* Bytes of no cycle, of one and of more.
LEMMA BytesAre == BytesOf(0) = 0 /\ BytesOf(1) = 1 /\ \A k \in Nat : BytesOf(k) \in Nat
  <1> DEFINE p == ByteBits
  <1>1. p \in Nat \ {0}
    BY SizesAreLegal
  <1> HIDE DEF p
  <1>2. BytesOf(0) = 0
    <2>1. p - 1 \in Int /\ 0 <= p - 1 /\ p - 1 < p /\ p * 0 + (p - 1) = 0 + p - 1
      BY SMT, <1>1
    <2>2. (p * 0 + (p - 1)) \div p = 0
      BY <1>1, <2>1, Quotient
    <2> QED BY <2>1, <2>2 DEF BytesOf, p
  <1>3. BytesOf(1) = 1
    <2>1. p * 1 + 0 = 1 + p - 1 /\ 0 < p
      BY SMT, <1>1
    <2>2. (p * 1 + 0) \div p = 1
      BY <1>1, <2>1, Quotient
    <2> QED BY <2>1, <2>2 DEF BytesOf, p
  <1>4. ASSUME NEW k \in Nat PROVE BytesOf(k) \in Nat
    <2>1. k + p - 1 \in Nat
      BY SMT, <1>1
    <2> QED BY <1>1, <2>1, Divided DEF BytesOf, p
  <1> QED BY <1>2, <1>3, <1>4

\* The byte of bit c, and its place there.
LEMMA ByteOf ==
  ASSUME NEW k \in Nat, NEW c \in 1..k
  PROVE  LET q == (c - 1) \div ByteBits
             r == (c - 1) % ByteBits
         IN  q \in Nat /\ r \in 0..(ByteBits - 1) /\ c = q * ByteBits + (r + 1) /\ q + 1 \in 1..BytesOf(k)
  <1> DEFINE p == ByteBits   q == (c - 1) \div p   r == (c - 1) % p
             v == k + p - 1   h == v \div p   e == v % p
  <1>1. p \in Nat \ {0} /\ c - 1 \in Nat /\ c \in Nat /\ c <= k
    BY SizesAreLegal
  <1>2. v \in Nat
    BY SMT, <1>1
  <1>3. q \in Nat /\ r \in 0..(p - 1) /\ c - 1 = p * q + r
    BY <1>1, Divided
  <1>4. h \in Nat /\ e \in 0..(p - 1) /\ v = p * h + e /\ BytesOf(k) = h
    <2> HIDE DEF v
    <2>1. h \in Nat /\ e \in 0..(p - 1) /\ v = p * h + e
      BY <1>1, <1>2, Divided
    <2> QED BY <2>1 DEF BytesOf, v
  <1>5. v = k + p - 1
    OBVIOUS
  <1> HIDE DEF p, q, r, v, h, e
  <1>6. p * q = q * p /\ p * q \in Nat /\ p * h \in Nat
    BY SMT, <1>1, <1>3, <1>4
  <1>7. c = q * p + (r + 1)
    <2> DEFINE x == p * q
    <2> HIDE DEF x
    <2>1. c - 1 = x + r /\ x \in Nat /\ x = q * p
      BY <1>3, <1>6 DEF x
    <2>2. c = x + (r + 1)
      BY SMT, <1>1, <1>3, <2>1
    <2> QED BY <2>1, <2>2
  <1>8. q + 1 <= h
    <2> SUFFICES ASSUME h <= q PROVE FALSE
      BY SMT, <1>3, <1>4
    <2> DEFINE x == p * q   y == p * h
    <2>1. y <= x /\ x \in Nat /\ y \in Nat /\ c - 1 = x + r /\ v = y + e
      BY <1>1, <1>3, <1>4, <1>6, TimesGrows
    <2> HIDE DEF x, y
    <2> QED BY SMT, <1>1, <1>3, <1>4, <1>5, <2>1
  <1>9. q + 1 \in 1..h
    BY SMT, <1>3, <1>4, <1>8
  <1> QED BY <1>3, <1>4, <1>7, <1>9 DEF p, q, r

\* A bit of a byte that holds some of the bits b.
LEMMA SliceBit ==
  ASSUME NEW b \in Seq(Bit), NEW a \in Nat, NEW c \in Nat, a <= c, c <= Len(b), c - a <= ByteBits,
         NEW j \in 1..(c - a)
  PROVE  (PackedByte(SubSeq(b, a + 1, c)) \div Pow2[j - 1]) % 2 = b[a + j]
  <1> DEFINE s == SubSeq(b, a + 1, c)
  <1>1. s \in Seq(Bit) /\ Len(s) = c - a /\ \A m \in 1..(c - a) : s[m] = b[a + m]
    BY SMT
  <1> HIDE DEF s
  <1>2. Len(s) <= ByteBits /\ j \in 1..Len(s)
    BY <1>1
  <1>3. (PackedByte(s) \div Pow2[j - 1]) % 2 = s[j]
    BY <1>1, <1>2, PackedByteIs
  <1> QED BY <1>1, <1>3 DEF s

\* The response to a scan: whole bytes and one for its last bit.
LEMMA ScanPacked ==
  ASSUME NEW n \in Nat \ {0, 1}, NEW b
  PROVE  LET bytes == Packed(Scan(n), b)
         IN  /\ Len(bytes) = BytesOf(n - 1) + 1 /\ Last(bytes) = PackedByte(SubSeq(b, n, n))
             /\ \A k \in 1..BytesOf(n - 1) :
                  bytes[k] = PackedByte(SubSeq(b, (k - 1) * ByteBits + 1, Min({k * ByteBits, n - 1})))
  <1> DEFINE items == Scan(n)
             N == [i \in 1..Len(items) |-> IF items[i].capture THEN Len(items[i].tdi) ELSE 0]
             Byte(i, k) == PackedByte(SubSeq(b, Before(i, N) + (k - 1) * ByteBits + 1,
                                                Before(i, N) + Min({k * ByteBits, N[i]})))
             s == [i \in 1..Len(items) |-> [k \in 1..BytesOf(N[i]) |-> Byte(i, k)]]
             S == {Byte(i, k) : i \in 1..8, k \in Nat}
             l == LengthsOf(s)   h == BytesOf(n - 1)   W == FlattenSeq(s)
  <1>1. /\ Len(items) = 8
        /\ \A i \in 1..8 : items[i].capture = ScanReads(i) /\ items[i].tdi = Ones(ScanLengths(n)[i])
    <2>1. Len(items) = 8
      BY ScanIs
    <2> SUFFICES ASSUME NEW i \in 1..8
                 PROVE  items[i].capture = ScanReads(i) /\ items[i].tdi = Ones(ScanLengths(n)[i])
      BY <2>1
    <2>2. items[i] = [tms |-> ScanTms[i], tdi |-> Ones(ScanLengths(n)[i]), capture |-> ScanReads(i)]
      BY ScanIs
    <2> HIDE DEF items
    <2> QED BY <2>2
  <1>2. \A i \in 1..8 : N[i] = IF ScanReads(i) THEN ScanLengths(n)[i] ELSE 0
    <2> SUFFICES ASSUME NEW i \in 1..8 PROVE N[i] = IF ScanReads(i) THEN ScanLengths(n)[i] ELSE 0
      OBVIOUS
    <2>1. ScanLengths(n)[i] \in Nat
      BY ScanHas
    <2>2. Len(items[i].tdi) = ScanLengths(n)[i] /\ items[i].capture = ScanReads(i)
      BY <1>1, <2>1, OnesAreBits DEF Ones
    <2> HIDE DEF items
    <2> QED BY <1>1, <2>2
  <1>3. Packed(items, b) = W
    BY DEF Packed
  <1> HIDE DEF items
  <1>4. N = [i \in 1..8 |-> N[i]]
    BY <1>1
  <1>5. s = [i \in 1..8 |-> [k \in 1..BytesOf(N[i]) |-> Byte(i, k)]]
    BY <1>1
  <1> HIDE DEF N
  <1>6. /\ 1 \in 1..8 /\ 2 \in 1..8 /\ 3 \in 1..8 /\ 4 \in 1..8 /\ 5 \in 1..8 /\ 6 \in 1..8
        /\ 7 \in 1..8 /\ 8 \in 1..8
    OBVIOUS
  <1>7. /\ N[1] = 0 /\ N[2] = 0 /\ N[3] = 0 /\ N[4] = 0 /\ N[5] = n - 1 /\ N[6] = 1
        /\ N[7] = 0 /\ N[8] = 0
    BY <1>2, <1>6, ScanItems
  <1>8. n - 1 \in Nat /\ h \in Nat /\ BytesOf(0) = 0 /\ BytesOf(1) = 1
    <2>1. n - 1 \in Nat
      BY SMT
    <2> QED BY <2>1, BytesAre
  <1>9. N \in Seq(Nat) /\ Len(N) = 8 /\ \A i \in 1..8 : N[i] \in Nat
    <2>1. \A i \in 1..8 : N[i] \in Nat
      <3> SUFFICES ASSUME NEW i \in 1..8 PROVE N[i] \in Nat
        OBVIOUS
      <3>1. i = 1 \/ i = 2 \/ i = 3 \/ i = 4 \/ i = 5 \/ i = 6 \/ i = 7 \/ i = 8
        BY SMT
      <3>2. 0 \in Nat /\ 1 \in Nat
        OBVIOUS
      <3> QED BY Zenon, <1>7, <1>8, <3>1, <3>2
    <2> QED BY <1>4, <2>1
  <1>10. Before(5, N) = 0 /\ Before(6, N) = n - 1
    <2>1. Before(1, N) = 0 /\ \A d \in 1..8 : Before(d + 1, N) = Before(d, N) + N[d]
      BY <1>9, BeforeIs
    <2>2. 1 + 1 = 2 /\ 2 + 1 = 3 /\ 3 + 1 = 4 /\ 4 + 1 = 5 /\ 5 + 1 = 6
      OBVIOUS
    <2>3. /\ Before(2, N) = Before(1, N) + 0 /\ Before(3, N) = Before(2, N) + 0
          /\ Before(4, N) = Before(3, N) + 0 /\ Before(5, N) = Before(4, N) + 0
          /\ Before(6, N) = Before(5, N) + (n - 1)
      BY <1>6, <1>7, <2>1, <2>2
    <2> QED BY SMT, <1>8, <2>1, <2>3
  <1> HIDE DEF Byte, h
  <1>11. \A i \in 1..8 : BytesOf(N[i]) \in Nat
    BY <1>9, BytesAre
  <1>12. /\ s \in Seq(Seq(S)) /\ Len(s) = 8
         /\ \A i \in 1..8 : s[i] = [k \in 1..BytesOf(N[i]) |-> Byte(i, k)] /\ Len(s[i]) = BytesOf(N[i])
    <2>1. ASSUME NEW i \in 1..8
          PROVE  /\ [k \in 1..BytesOf(N[i]) |-> Byte(i, k)] \in Seq(S)
                 /\ Len([k \in 1..BytesOf(N[i]) |-> Byte(i, k)]) = BytesOf(N[i])
      <3> DEFINE m == BytesOf(N[i])
      <3>1. m \in Nat
        BY <1>11
      <3> HIDE DEF m
      <3>2. \A k \in 1..m : k \in Nat
        BY SMT, <3>1
      <3>3. \A k \in 1..m : Byte(i, k) \in S
        BY <3>2
      <3> HIDE DEF S
      <3>4. [k \in 1..m |-> Byte(i, k)] \in Seq(S) /\ Len([k \in 1..m |-> Byte(i, k)]) = m
        BY <3>1, <3>3
      <3> QED BY <3>4 DEF m
    <2> DEFINE R(i) == [k \in 1..BytesOf(N[i]) |-> Byte(i, k)]
    <2> HIDE DEF s, S
    <2>2. \A i \in 1..8 : R(i) \in Seq(S) /\ Len(R(i)) = BytesOf(N[i])
      BY <2>1
    <2>0. s = [i \in 1..8 |-> R(i)]
      BY <1>5
    <2> HIDE DEF R
    <2>3. s \in Seq(Seq(S)) /\ Len(s) = 8 /\ \A i \in 1..8 : s[i] = R(i)
      BY <2>0, <2>2
    <2>4. \A i \in 1..8 : Len(s[i]) = BytesOf(N[i])
      BY <2>2, <2>3
    <2> QED BY <2>3, <2>4 DEF R
  <1> HIDE DEF s, S
  <1>13. /\ l \in Seq(Nat) /\ Len(l) = 8 /\ Len(W) = Before(9, l)
         /\ \A i \in 1..8 : l[i] = BytesOf(N[i])
    <2>1. l = [d \in 1..Len(s) |-> Len(s[d])]
      BY DEF LengthsOf
    <2>2. \A i \in 1..8 : l[i] = BytesOf(N[i])
      BY <1>12, <2>1
    <2>3. 8 + 1 = 9
      OBVIOUS
    <2> HIDE DEF l, W
    <2>4. l \in Seq(Nat) /\ Len(l) = Len(s) /\ Len(FlattenSeq(s)) = Before(Len(s) + 1, l)
      <3>1. s \in Seq(Seq(S))
        BY <1>12
      <3> QED BY <2>1, <3>1, FlattenLayout
    <2> QED BY <1>12, <2>2, <2>3, <2>4 DEF W
  <1>14. \A i \in 1..8 : \A k \in 1..BytesOf(N[i]) : W[Before(i, l) + k] = Byte(i, k)
    <2>1. \A d \in 1..Len(s) : \A m \in 1..Len(s[d]) : W[Before(d, l) + m] = s[d][m]
      <3>1. s \in Seq(Seq(S))
        BY <1>12
      <3> QED BY Zenon, <3>1, FlattenPlaces
    <2> HIDE DEF l, W
    <2> SUFFICES ASSUME NEW i \in 1..8, NEW k \in 1..BytesOf(N[i]) PROVE W[Before(i, l) + k] = Byte(i, k)
      BY Zenon
    <2>2. s[i] = [k0 \in 1..BytesOf(N[i]) |-> Byte(i, k0)] /\ i \in 1..Len(s) /\ k \in 1..Len(s[i])
      BY <1>12
    <2>3. W[Before(i, l) + k] = s[i][k]
      BY <2>1, <2>2
    <2> QED BY <2>2, <2>3
  <1> HIDE DEF l, W
  <1>15. Before(5, l) = 0 /\ Before(6, l) = h /\ Before(9, l) = h + 1
    <2>1. Before(1, l) = 0 /\ \A d \in 1..8 : Before(d + 1, l) = Before(d, l) + l[d]
      BY <1>13, BeforeIs
    <2>2. /\ 1 + 1 = 2 /\ 2 + 1 = 3 /\ 3 + 1 = 4 /\ 4 + 1 = 5 /\ 5 + 1 = 6 /\ 6 + 1 = 7
          /\ 7 + 1 = 8 /\ 8 + 1 = 9
      OBVIOUS
    <2>3. /\ l[1] = 0 /\ l[2] = 0 /\ l[3] = 0 /\ l[4] = 0 /\ l[5] = h /\ l[6] = 1
          /\ l[7] = 0 /\ l[8] = 0
      BY <1>6, <1>7, <1>8, <1>13 DEF h
    <2>4. /\ Before(2, l) = Before(1, l) + 0 /\ Before(3, l) = Before(2, l) + 0
          /\ Before(4, l) = Before(3, l) + 0 /\ Before(5, l) = Before(4, l) + 0
          /\ Before(6, l) = Before(5, l) + h /\ Before(7, l) = Before(6, l) + 1
          /\ Before(8, l) = Before(7, l) + 0 /\ Before(9, l) = Before(8, l) + 0
      BY <1>6, <2>1, <2>2, <2>3
    <2> QED BY SMT, <1>8, <2>1, <2>4
  <1>16. \A k \in 1..h : W[k] = Byte(5, k)
    <2> SUFFICES ASSUME NEW k \in 1..h PROVE W[k] = Byte(5, k)
      OBVIOUS
    <2>1. k \in 1..BytesOf(N[5]) /\ 0 + k = k
      BY <1>7, <1>8 DEF h
    <2> QED BY <1>6, <1>14, <1>15, <2>1
  <1>17. W[h + 1] = Byte(6, 1)
    <2>1. 1 \in 1..BytesOf(N[6])
      BY <1>7, <1>8
    <2> QED BY <1>6, <1>14, <1>15, <2>1
  <1>18. Len(W) = h + 1 /\ Last(W) = Byte(6, 1)
    BY <1>13, <1>15, <1>17 DEF Last
  <1>19. ASSUME NEW k \in 1..h
         PROVE  Byte(5, k) = PackedByte(SubSeq(b, (k - 1) * ByteBits + 1, Min({k * ByteBits, n - 1})))
    <2> DEFINE p == (k - 1) * ByteBits   m == Min({k * ByteBits, n - 1})
    <2>1. Byte(5, k) = PackedByte(SubSeq(b, 0 + p + 1, 0 + m))
      BY <1>7, <1>10 DEF Byte
    <2>2. p \in Nat /\ m \in Nat
      <3>1. ByteBits \in Nat /\ k \in Nat /\ k - 1 \in Nat
        BY SMT, <1>8, SizesAreLegal
      <3>2. \A x, y \in Nat : x * y \in Nat
        BY SMT
      <3>3. Min({k * ByteBits, n - 1}) \in {k * ByteBits, n - 1}
        BY <1>8, <3>1, <3>2, LesserOfTwo
      <3> QED BY <1>8, <3>1, <3>2, <3>3
    <2> HIDE DEF p, m
    <2>3. 0 + p + 1 = p + 1 /\ 0 + m = m
      BY SMT, <2>2
    <2> QED BY <2>1, <2>3 DEF p, m
  <1>20. Byte(6, 1) = PackedByte(SubSeq(b, n, n))
    <2>1. ByteBits \in Nat \ {0}
      BY SizesAreLegal
    <2>2. Min({1 * ByteBits, 1}) = 1
      <3>1. 1 * ByteBits = ByteBits /\ 1 \in Nat
        BY SMT, <2>1
      <3>2. Min({ByteBits, 1}) \in {ByteBits, 1} /\ Min({ByteBits, 1}) <= 1
        BY <2>1, <3>1, LesserOfTwo
      <3> QED BY SMT, <2>1, <3>1, <3>2
    <2>3. (n - 1) + (1 - 1) * ByteBits + 1 = n /\ (n - 1) + 1 = n
      <3>1. (1 - 1) * ByteBits = 0
        BY SMT, <2>1
      <3>2. (n - 1) + 0 + 1 = n /\ (n - 1) + 1 = n
        BY SMT
      <3> QED BY <3>1, <3>2
    <2>4. Byte(6, 1) = PackedByte(SubSeq(b, (n - 1) + (1 - 1) * ByteBits + 1, (n - 1) + Min({1 * ByteBits, 1})))
      BY <1>7, <1>10 DEF Byte
    <2> QED BY <2>2, <2>3, <2>4
  <1> QED BY <1>3, <1>16, <1>18, <1>19, <1>20 DEF items, h

\* The host takes the bits that were read from the bytes of the response.
LEMMA ScanUnpacks ==
  ASSUME NEW n \in Nat \ {0, 1}, NEW b \in Seq(Bit), Len(b) = n
  PROVE  LET bytes == Packed(Scan(n), b)
         IN  Unpacked(bytes, n - 1) \o Unpacked(<<Last(bytes)>>, 1) = b
  <1> DEFINE bytes == Packed(Scan(n), b)   w == ByteBits   h == BytesOf(n - 1)
             u == Unpacked(bytes, n - 1)   x == Last(bytes)   v == Unpacked(<<x>>, 1)
  <1>1. /\ x = PackedByte(SubSeq(b, n, n))
        /\ \A k \in 1..h : bytes[k] = PackedByte(SubSeq(b, (k - 1) * w + 1, Min({k * w, n - 1})))
    BY ScanPacked
  <1>2. w \in Nat \ {0} /\ n - 1 \in Nat /\ n \in Nat
    <2>1. n - 1 \in Nat
      BY SMT
    <2> QED BY <2>1, SizesAreLegal
  <1> HIDE DEF bytes, x
  <1>3. ASSUME NEW c \in 1..(n - 1) PROVE u[c] = b[c]
    <2> DEFINE q == (c - 1) \div w   r == (c - 1) % w   a == q * w   m == Min({(q + 1) * w, n - 1})
    <2>1. q \in Nat /\ r \in 0..(w - 1) /\ c = a + (r + 1) /\ q + 1 \in 1..h
      BY <1>2, ByteOf
    <2>2. u[c] = (bytes[q + 1] \div Pow2[r]) % 2
      BY DEF Unpacked
    <2> HIDE DEF q, r, u, h
    <2>3. a \in Nat /\ (q + 1) * w = a + w /\ (q + 1) - 1 = q
      BY SMT, <1>2, <2>1
    <2>4. bytes[q + 1] = PackedByte(SubSeq(b, a + 1, m))
      BY <1>1, <2>1, <2>3
    <2>5. m \in {a + w, n - 1} /\ m <= a + w /\ m <= n - 1
      <3> HIDE DEF a
      <3>1. a + w \in Nat
        BY SMT, <1>2, <2>3
      <3> QED BY <1>2, <2>3, <3>1, LesserOfTwo
    <2> HIDE DEF a, m
    <2>6. m \in Nat /\ a <= m /\ m <= n /\ m - a <= w /\ r + 1 \in 1..(m - a) /\ (r + 1) - 1 = r
      <3>1. m \in Nat /\ m <= n /\ m - a <= w /\ (r + 1) - 1 = r
        BY SMT, <1>2, <2>1, <2>3, <2>5
      <3>2. r + 1 <= m - a
        BY SMT, <1>2, <2>1, <2>3, <2>5
      <3> QED BY SMT, <2>1, <2>3, <3>1, <3>2
    <2>7. (PackedByte(SubSeq(b, a + 1, m)) \div Pow2[(r + 1) - 1]) % 2 = b[a + (r + 1)]
      BY <2>3, <2>6, SliceBit
    <2> QED BY <2>1, <2>2, <2>4, <2>6, <2>7
  <1>4. v[1] = b[n]
    <2>1. (1 - 1) \div w = 0 /\ (1 - 1) % w = 0 /\ 0 + 1 = 1
      BY SMT, <1>2
    <2>2. v[1] = (<<x>>[((1 - 1) \div w) + 1] \div Pow2[(1 - 1) % w]) % 2
      BY DEF Unpacked
    <2>3. v[1] = (x \div Pow2[1 - 1]) % 2
      BY <2>1, <2>2
    <2>4. /\ n - 1 <= n /\ n <= n /\ n - (n - 1) = 1 /\ 1 <= w /\ 1 \in 1..(n - (n - 1)) /\ (n - 1) + 1 = n
      BY SMT, <1>2
    <2>5. (PackedByte(SubSeq(b, (n - 1) + 1, n)) \div Pow2[1 - 1]) % 2 = b[(n - 1) + 1]
      <3> DEFINE a == n - 1   j == 1
      <3>1. a \in Nat /\ a <= n /\ n <= Len(b) /\ n - a <= w /\ j \in 1..(n - a)
        BY <1>2, <2>4
      <3> HIDE DEF a, j
      <3>2. (PackedByte(SubSeq(b, a + 1, n)) \div Pow2[j - 1]) % 2 = b[a + j]
        BY <1>2, <3>1, SliceBit
      <3> QED BY <3>2 DEF a, j
    <2> QED BY <1>1, <2>3, <2>4, <2>5
  <1>5. \A c \in 1..n : b[c] \in Bit
    BY ElementOfSeq
  <1>6. u \in Seq(Bit) /\ Len(u) = n - 1
    <2>1. \A c \in 1..(n - 1) : u[c] \in Bit
      <3>1. \A c \in 1..(n - 1) : c \in 1..n
        BY SMT
      <3> HIDE DEF u
      <3> QED BY <1>3, <1>5, <3>1
    <2>2. u = [c \in 1..(n - 1) |-> u[c]]
      BY DEF Unpacked
    <2> HIDE DEF u
    <2> QED BY <1>2, <2>1, <2>2
  <1>7. v \in Seq(Bit) /\ Len(v) = 1
    <2>1. n \in 1..n /\ \A c \in 1..1 : c = 1
      BY SMT, <1>2
    <2>2. \A c \in 1..1 : v[c] \in Bit
      BY <1>4, <1>5, <2>1
    <2>3. v = [c \in 1..1 |-> v[c]]
      BY DEF Unpacked
    <2> HIDE DEF v
    <2> QED BY <2>2, <2>3
  <1> HIDE DEF u, v
  <1>8. /\ u \o v \in Seq(Bit) /\ Len(u \o v) = n
        /\ \A c \in 1..n : (u \o v)[c] = b[c]
    <2>1. /\ u \o v \in Seq(Bit) /\ Len(u \o v) = Len(u) + Len(v)
          /\ \A m \in 1..Len(u) : (u \o v)[m] = u[m]
          /\ \A m \in 1..Len(v) : (u \o v)[Len(u) + m] = v[m]
      <3>1. u \in Seq(Bit) /\ v \in Seq(Bit)
        BY <1>6, <1>7
      <3> QED BY <3>1, Concatenated
    <2>2. (n - 1) + 1 = n /\ 1 \in 1..1 /\ \A c \in 1..n : c = n \/ c \in 1..(n - 1)
      BY SMT, <1>2
    <2> DEFINE z == u \o v
    <2> HIDE DEF z
    <2>3. /\ z \in Seq(Bit) /\ Len(z) = n /\ z[n] = v[1] /\ \A m \in 1..(n - 1) : z[m] = u[m]
      BY <1>6, <1>7, <2>1, <2>2 DEF z
    <2>4. \A c \in 1..n : z[c] = b[c]
      BY <1>3, <1>4, <2>2, <2>3
    <2> QED BY <2>3, <2>4 DEF z
  <1> DEFINE z == u \o v
  <1> HIDE DEF z
  <1>9. z = b
    <2>1. z \in Seq(Bit) /\ Len(z) = Len(b) /\ \A c \in 1..Len(b) : z[c] = b[c]
      BY <1>8 DEF z
    <2> QED BY <2>1, SeqEqual
  <1> QED BY <1>9 DEF z, u, v, x, bytes

LEMMA ScanEnds == TypeInv /\ ScanInv => ScanReadsIdentities
  <1> SUFFICES ASSUME TypeInv, ScanInv, todo = <<>>, phase = "sequence",
                      NEW n \in 2..(MaxDevices * WordBits), command.items = Scan(n)
               PROVE  LET bytes == Packed(command.items, bits)
                          read == Unpacked(bytes, n - 1) \o Unpacked(<<Last(bytes)>>, 1)
                      IN  /\ Len(bytes) = BytesOf(n - 1) + 1
                          /\ \A d \in Devices : d * WordBits <= n =>
                               ValueOf(SubSeq(read, (d - 1) * WordBits + 1, d * WordBits)) = Idcode(d)
    BY DEF ScanReadsIdentities
  <1> DEFINE bytes == Packed(Scan(n), bits)   ids == Identities(chain)   w == WordBits
             read == Unpacked(bytes, n - 1) \o Unpacked(<<Last(bytes)>>, 1)
  <1>1. n \in Nat \ {0, 1} /\ ScanRuns(n) /\ Len(todo) = 0
    BY ScanLimits DEF ScanInv
  <1>2. HasScanned(bits, n, ids)
    <2>1. ~(0 > n + 2) /\ ~(0 >= 2)
      BY SMT, <1>1
    <2>2. Scanned(n, 0) = n
      BY <2>1 DEF Scanned
    <2> QED BY <1>1, <2>2 DEF ScanRuns
  <1>3. bits \in Seq(Bit) /\ chain \in Chains
    BY DEF TypeInv, BoardInv, ProbeInv
  <1>4. Len(bits) = n /\ \A q \in 1..n : q <= Len(ids) => bits[q] = ids[q]
    BY <1>2 DEF HasScanned
  <1>5. Len(bytes) = BytesOf(n - 1) + 1
    BY <1>1, ScanPacked
  <1>6. read = bits
    BY <1>1, <1>3, <1>4, ScanUnpacks
  <1>7. /\ Len(ids) = Len(chain) * w /\ Devices = 1..Len(chain) /\ Len(chain) \in Nat /\ w \in Nat \ {0}
        /\ \A d \in Devices : \A m \in 1..w : ids[(d - 1) * w + m] = BitsOf(Idcode(d), w)[m]
    BY <1>3, IdentitiesAre, ChainIs, SizesAreLegal
  <1> HIDE DEF bytes, read, ids, w
  <1>8. ASSUME NEW d \in Devices, d * w <= n
        PROVE  ValueOf(SubSeq(bits, (d - 1) * w + 1, d * w)) = Idcode(d)
    <2> DEFINE x == Idcode(d)   b == BitsOf(x, w)   k == (d - 1) * w   c == Len(chain)
    <2>1. d \in Nat \ {0} /\ d <= c /\ d - 1 \in Nat /\ c \in Nat
      <3>1. d \in 1..c /\ c \in Nat
        BY <1>7
      <3> HIDE DEF c
      <3> QED BY SMT, <3>1
    <2>2. k \in Nat /\ k + w = d * w
      BY SMT, <1>7, <2>1
    <2>3. d * w <= c * w /\ c * w \in Nat
      <3>1. w * d <= w * c
        BY <1>7, <2>1, TimesGrows
      <3> HIDE DEF c
      <3>2. w * d = d * w /\ w * c = c * w /\ c * w \in Nat
        BY SMT, <1>7, <2>1
      <3> QED BY <3>1, <3>2
    <2>4. Pow2[w] \in Nat \ {0}
      BY <1>7, Pow2Grows
    <2>5. x \in Nat /\ x < Pow2[w]
      <3> DEFINE p == Pow2[w]
      <3>1. p \in Nat \ {0}
        BY <2>4
      <3> HIDE DEF p
      <3>2. d % p \in Nat /\ d % p < p
        BY SMT, <2>1, <3>1
      <3> QED BY <3>2 DEF Idcode, p, w
    <2> HIDE DEF x
    <2>6. b \in Seq(Bit) /\ Len(b) = w /\ ValueOf(b) = x
      BY <1>7, <2>5, BitsAreBits, ValueOfBits
    <2>7. \A m \in 1..w : ids[k + m] = b[m]
      BY <1>7 DEF x
    <2> HIDE DEF b, k
    <2>8. ASSUME NEW m \in 1..w PROVE bits[k + m] = b[m]
      <3> DEFINE e == d * w   f == c * w
      <3>1. e \in Nat /\ f \in Nat /\ k + w = e /\ e <= n /\ e <= f
        BY <1>8, <2>2, <2>3, <1>7
      <3> HIDE DEF e, f
      <3>2. k + m \in 1..n /\ k + m <= f
        BY SMT, <1>1, <1>7, <2>2, <3>1
      <3>3. Len(ids) = f
        BY <1>7 DEF f
      <3> QED BY <1>4, <2>7, <3>2, <3>3
    <2>9. SubSeq(bits, k + 1, k + Len(b)) = b
      <3>1. k + Len(b) <= Len(bits) /\ \A m \in 1..Len(b) : bits[k + m] = b[m]
        BY <1>4, <1>8, <2>2, <2>6, <2>8
      <3> QED BY <1>3, <2>2, <2>6, <3>1, SliceIs
    <2> QED BY <2>2, <2>6, <2>9 DEF k, x
  <1> QED BY <1>5, <1>6, <1>8 DEF bytes, read, w

LEMMA InitScan == Init => ScanInv
  BY DEF Init, ScanInv

\* Wherever the state machine was left, a scan by JTAG Sequence that begins with
\* five cycles with TMS = 1 gives the host the identities of all devices as far as
\* its bits go, for any chain, words and bytes of any length and a scan of any length
\* (dap_handle_cmd_jtag_sequence).
THEOREM ScansReadIdentities == Spec => []ScanReadsIdentities
  <1>1. Spec => [](TypeInv /\ ScanInv)
    BY InitTypes, StepKeepsTypes, InitScan, StepKeepsScan, PTL DEF Spec
  <1> QED BY <1>1, ScanEnds, PTL
=============================================================================
