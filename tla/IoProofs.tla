------------------------------- MODULE IoProofs -------------------------------
(***************************************************************************)
(* Proofs that requests and replies stay within their buffers, that a pin  *)
(* drives its line only when it has been asked to, and that a request is   *)
(* carried out as it stands, for any number of pins, any packets and any   *)
(* sizes of the buffers; and, at the end, about the numbers in those       *)
(* buffers: they are got out as they were put in.                          *)
(*                                                                         *)
(* What a command still has to do says what it has done: the invariant for *)
(* the pins relates the steps left to what is known of them, and that for  *)
(* a request relates the units left to the replies and commands so far.    *)
(***************************************************************************)
EXTENDS Io, Utf8, SequenceLemmas

All == 2 * Gpios

\* k steps of the default are done: the first k pins are inputs.
AtDefault(k) ==
  /\ k \in 0..All
  /\ steps = SubSeq(DefaultSteps, k + 1, All)
  /\ \A p \in Pins : p < k => ~gpio[p].out

PinProgress ==
  \/ steps = PinSteps(command)
  \/ /\ steps = <<MuxStep(command.pin, "gpio")>>
     /\ command.pin \in Pins => ~gpio[command.pin].out
  \/ /\ steps = <<>>
     /\ command.pin \in Pins => ~Driven(command.pin)

GpioProgress ==
  /\ command.out => command.pin \in outputs
  /\ \/ steps = <<GpioStep(command.pin, command.out, command.pulls)>>
     \/ /\ steps = <<>>
        /\ command.pin \in Pins /\ ~command.out => ~gpio[command.pin].out

Progress ==
  /\ pc = "reset" => \E k \in Nat : AtDefault(k)
  /\ pc = "run" /\ command.cmd = "default" => \E k \in Nat : AtDefault(k)
  /\ pc = "run" /\ command.cmd = "pins_cfg" => PinProgress
  /\ pc = "run" /\ command.cmd = "gpio_cfg" => GpioProgress
  /\ pc = "run" /\ command.cmd \notin {"default", "pins_cfg", "gpio_cfg"} => steps = <<>>

DrivenInv ==
  /\ DrivenOnRequest
  /\ DOMAIN gpio = Pins /\ DOMAIN mux = Pins
  /\ Progress

-----------------------------------------------------------------------------
StepsOfDefault == {GpioStep(p, FALSE, {}) : p \in Pins} \cup {MuxStep(p, "gpio") : p \in Pins}

LEMMA DefaultStepsAre ==
  /\ Gpios \in Nat /\ All \in Nat
  /\ Len(DefaultSteps) = All
  /\ DefaultSteps \in Seq(StepsOfDefault)
  /\ \A k \in 0..(Gpios - 1) : DefaultSteps[k + 1] = GpioStep(k, FALSE, {})
  /\ \A k \in Gpios..(All - 1) : DefaultSteps[k + 1] = MuxStep(k - Gpios, "gpio")
  <1>1. Gpios \in Nat /\ All \in Nat
    BY SMT, SizesAreLegal DEF All
  <1>2. DefaultSteps = [i \in 1..All |-> IF i <= Gpios THEN GpioStep(i - 1, FALSE, {})
                                                      ELSE MuxStep(i - 1 - Gpios, "gpio")]
    BY DEF DefaultSteps, All
  <1>3. \A i \in 1..All : i <= Gpios => i - 1 \in Pins
    BY SMT, <1>1 DEF All, Pins
  <1>4. \A i \in 1..All : ~(i <= Gpios) => i - 1 - Gpios \in Pins
    BY SMT, <1>1 DEF All, Pins
  <1>5. \A i \in 1..All : DefaultSteps[i] \in StepsOfDefault
    BY Zenon, <1>2, <1>3, <1>4 DEF StepsOfDefault
  <1>6. DefaultSteps \in Seq(StepsOfDefault) /\ Len(DefaultSteps) = All
    <2>1. DefaultSteps \in [1..All -> StepsOfDefault]
      <3> HIDE DEF StepsOfDefault
      <3> QED BY Zenon, <1>2, <1>5
    <2> QED BY <1>1, <2>1
  <1>7. ASSUME NEW k \in 0..(Gpios - 1)
        PROVE  DefaultSteps[k + 1] = GpioStep(k, FALSE, {})
    <2>1. k + 1 \in 1..All /\ k + 1 <= Gpios /\ (k + 1) - 1 = k
      BY SMT, <1>1 DEF All
    <2>2. \A i \in 1..All : i <= Gpios => DefaultSteps[i] = GpioStep(i - 1, FALSE, {})
      BY Zenon, <1>2
    <2>3. DefaultSteps[k + 1] = GpioStep((k + 1) - 1, FALSE, {})
      BY Zenon, <2>1, <2>2
    <2> QED BY Zenon, <2>1, <2>3
  <1>8. ASSUME NEW k \in Gpios..(All - 1)
        PROVE  DefaultSteps[k + 1] = MuxStep(k - Gpios, "gpio")
    <2>1. k + 1 \in 1..All /\ ~(k + 1 <= Gpios) /\ (k + 1) - 1 - Gpios = k - Gpios
      BY SMT, <1>1 DEF All
    <2>2. \A i \in 1..All : ~(i <= Gpios) => DefaultSteps[i] = MuxStep(i - 1 - Gpios, "gpio")
      BY Zenon, <1>2
    <2>3. DefaultSteps[k + 1] = MuxStep((k + 1) - 1 - Gpios, "gpio")
      BY Zenon, <2>1, <2>2
    <2> QED BY Zenon, <2>1, <2>3
  <1> QED BY <1>1, <1>6, <1>7, <1>8

\* The rest of a sequence: its head and its tail.
LEMMA RestOf ==
  ASSUME NEW S, NEW s \in Seq(S), NEW k \in 0..Len(s)
  PROVE  LET r == SubSeq(s, k + 1, Len(s))
         IN  /\ k = Len(s) => r = <<>>
             /\ k < Len(s) => r # <<>> /\ Head(r) = s[k + 1] /\ Tail(r) = SubSeq(s, k + 2, Len(s))
  <1>1. Len(s) \in Nat
    OBVIOUS
  <1>2. CASE k = Len(s)
    BY SMT, <1>1, <1>2
  <1>3. CASE k < Len(s)
    <2> DEFINE r == SubSeq(s, k + 1, Len(s))
               t == SubSeq(s, k + 2, Len(s))
    <2>1. r \in Seq(S) /\ Len(r) = Len(s) - k /\ \A i \in 1..Len(r) : r[i] = s[k + i]
      BY SMT, <1>1, <1>3
    <2>2. t \in Seq(S) /\ Len(t) = Len(s) - k - 1 /\ \A i \in 1..Len(t) : t[i] = s[k + 1 + i]
      BY SMT, <1>1, <1>3
    <2> HIDE DEF r, t
    <2>3. r # <<>> /\ Head(r) = s[k + 1]
      BY SMT, <2>1, <1>1, <1>3
    <2>4. Tail(r) \in Seq(S) /\ Len(Tail(r)) = Len(t) /\ \A i \in 1..Len(t) : Tail(r)[i] = t[i]
      BY SMT, <2>1, <2>2, <2>3, <1>1, <1>3
    <2>5. Tail(r) = t
      <3> DEFINE u == Tail(r)
      <3>1. u \in Seq(S) /\ Len(u) = Len(t) /\ \A i \in 1..Len(u) : u[i] = t[i]
        BY Zenon, <2>4
      <3> HIDE DEF u
      <3>2. u = t
        BY Zenon, <2>2, <3>1, SeqEqual
      <3> QED BY Zenon, <3>2 DEF u
    <2> QED BY <2>3, <2>5, <1>3 DEF r, t
  <1> QED BY SMT, <1>1, <1>2, <1>3

LEMMA StepsOfAre ==
  ASSUME NEW c
  PROVE  /\ c.cmd = "default" => StepsOf(c) = DefaultSteps
         /\ c.cmd = "pins_cfg" => StepsOf(c) = PinSteps(c)
         /\ c.cmd = "gpio_cfg" => StepsOf(c) = <<GpioStep(c.pin, c.out, c.pulls)>>
         /\ c.cmd \notin {"default", "pins_cfg", "gpio_cfg"} => StepsOf(c) = <<>>
  BY Zenon DEF StepsOf

LEMMA Pair ==
  ASSUME NEW x, NEW y
  PROVE  <<x>> \o <<y>> = <<x, y>> /\ <<>> \o <<y>> = <<y>>
  <1> DEFINE S == {x, y}
             xs == <<x>>
             ys == <<y>>
  <1>1. xs \in Seq(S) /\ Len(xs) = 1 /\ xs[1] = x
    OBVIOUS
  <1>2. ys \in Seq(S) /\ Len(ys) = 1 /\ ys[1] = y
    OBVIOUS
  <1>3. <<x, y>> \in Seq(S) /\ Len(<<x, y>>) = 2 /\ <<x, y>>[1] = x /\ <<x, y>>[2] = y
    OBVIOUS
  <1> HIDE DEF xs, ys, S
  <1>4. <<>> \o ys = ys
    BY SMT, <1>2
  <1>5. xs \o ys \in Seq(S) /\ Len(xs \o ys) = 2 /\ (xs \o ys)[1] = x /\ (xs \o ys)[2] = y
    BY SMT, <1>1, <1>2, ConcatProperties
  <1>6. xs \o ys = <<x, y>>
    <2> DEFINE a == xs \o ys
               b == <<x, y>>
    <2>1. \A i \in 1..Len(a) : i = 1 \/ i = 2
      BY SMT, <1>5
    <2>2. a \in Seq(S) /\ b \in Seq(S) /\ Len(a) = Len(b) /\ \A i \in 1..Len(a) : a[i] = b[i]
      <3> HIDE DEF a, b
      <3> QED BY <1>3, <1>5, <2>1 DEF a, b
    <2> HIDE DEF a, b
    <2>3. a = b
      BY <2>2, SeqEqual
    <2> QED BY <2>3 DEF a, b
  <1> QED BY <1>4, <1>6 DEF xs, ys

LEMMA PinStepsAre ==
  ASSUME NEW c
  PROVE  /\ c.func = "gpio" => PinSteps(c) = <<GpioStep(c.pin, FALSE, c.pulls), MuxStep(c.pin, "gpio")>>
         /\ c.func # "gpio" => PinSteps(c) = <<MuxStep(c.pin, c.func)>>
  <1> DEFINE g == GpioStep(c.pin, FALSE, c.pulls)
             m == MuxStep(c.pin, c.func)
  <1>1. <<g>> \o <<m>> = <<g, m>> /\ <<>> \o <<m>> = <<m>>
    BY Pair
  <1>2. PinSteps(c) = (IF c.func = "gpio" THEN <<g>> ELSE <<>>) \o <<m>>
    BY DEF PinSteps
  <1>3. c.func = "gpio" => PinSteps(c) = <<g, m>> /\ m = MuxStep(c.pin, "gpio")
    <2>1. c.func = "gpio" => m = MuxStep(c.pin, "gpio")
      OBVIOUS
    <2> HIDE DEF g, m
    <2> QED BY Zenon, <1>1, <1>2, <2>1
  <1>4. c.func # "gpio" => PinSteps(c) = <<m>>
    <2> HIDE DEF g, m
    <2> QED BY Zenon, <1>1, <1>2
  <1> QED BY Zenon, <1>3, <1>4

LEMMA OutputsAfterAre ==
  ASSUME NEW c
  PROVE  /\ c.cmd = "default" => OutputsAfter(c) = {}
         /\ c.cmd = "pins_cfg" => OutputsAfter(c) = outputs \ {c.pin}
         /\ c.cmd = "gpio_cfg" /\ ~c.out => OutputsAfter(c) = outputs \ {c.pin}
         /\ c.cmd = "gpio_cfg" /\ c.out => OutputsAfter(c) = outputs
         /\ c.cmd \notin {"default", "pins_cfg", "gpio_cfg"} => OutputsAfter(c) = outputs
  BY Zenon DEF OutputsAfter

\* What Step does to a GPIO and to a pin.
LEMMA StepDoes ==
  ASSUME Step, DOMAIN gpio = Pins, DOMAIN mux = Pins
  PROVE  /\ steps # <<>> /\ steps' = Tail(steps) /\ pc \in {"run", "reset"}
         /\ UNCHANGED <<pc, command, outputs, broken>>
         /\ DOMAIN gpio' = Pins /\ DOMAIN mux' = Pins
         /\ \A p, o, q : Head(steps) = GpioStep(p, o, q) =>
              /\ mux' = mux
              /\ \A x \in Pins : gpio'[x].out = IF x = p THEN o ELSE gpio[x].out
         /\ \A p, f : Head(steps) = MuxStep(p, f) =>
              /\ gpio' = gpio
              /\ \A x \in Pins : mux'[x].func = IF x = p THEN f ELSE mux[x].func
  <1> DEFINE h == Head(steps)
  <1>1. /\ steps # <<>> /\ steps' = Tail(steps) /\ pc \in {"run", "reset"}
        /\ UNCHANGED <<pc, command, outputs, broken>>
    BY Zenon DEF Step, history
  <1>2. \/ /\ h.dev = "gpio" /\ mux' = mux
           /\ gpio' = [gpio EXCEPT ![h.pin] = [out |-> h.out, pulls |-> h.pulls]]
        \/ /\ h.dev # "gpio" /\ gpio' = gpio
           /\ mux' = [mux EXCEPT ![h.pin] = [func |-> h.func, pulls |-> flags[<<h.pin, h.func>>]]]
    BY Zenon DEF Step
  <1>3. DOMAIN gpio' = Pins /\ DOMAIN mux' = Pins
    BY <1>2
  <1> HIDE DEF h
  <1>4. ASSUME NEW p, NEW o, NEW q, h = GpioStep(p, o, q)
        PROVE  /\ mux' = mux
               /\ \A x \in Pins : gpio'[x].out = IF x = p THEN o ELSE gpio[x].out
    <2>1. h.dev = "gpio" /\ h.pin = p /\ h.out = o
      BY <1>4 DEF GpioStep
    <2> QED BY <2>1, <1>2
  <1>5. ASSUME NEW p, NEW f, h = MuxStep(p, f)
        PROVE  /\ gpio' = gpio
               /\ \A x \in Pins : mux'[x].func = IF x = p THEN f ELSE mux[x].func
    <2>1. h.dev # "gpio" /\ h.pin = p /\ h.func = f
      BY <1>5 DEF MuxStep
    <2> QED BY <2>1, <1>2
  <1> QED BY <1>1, <1>3, <1>4, <1>5 DEF h

\* The same of a step that is known.
LEMMA GpioStepDoes ==
  ASSUME Step, DOMAIN gpio = Pins, DOMAIN mux = Pins,
         NEW p, NEW o, NEW q, Head(steps) = GpioStep(p, o, q)
  PROVE  mux' = mux /\ \A x \in Pins : gpio'[x].out = IF x = p THEN o ELSE gpio[x].out
  <1>1. \A a, b, c : Head(steps) = GpioStep(a, b, c) =>
          mux' = mux /\ \A x \in Pins : gpio'[x].out = IF x = a THEN b ELSE gpio[x].out
    <2> HIDE DEF GpioStep, Pins
    <2> QED BY SMT, StepDoes
  <1> QED BY SMT, <1>1

LEMMA Whole ==
  ASSUME NEW S, NEW s \in Seq(S)
  PROVE  SubSeq(s, 0 + 1, Len(s)) = s
  OBVIOUS

-----------------------------------------------------------------------------
LEMMA NoNewDriver ==
  ASSUME DrivenOnRequest, ~broken' => ~broken,
         \A p \in Pins : Driven(p)' => \/ p \in outputs'
                                       \/ Driven(p) /\ (p \in outputs => p \in outputs')
  PROVE  DrivenOnRequest'
  BY Zenon DEF DrivenOnRequest

LEMMA Quiet ==
  ASSUME DrivenInv, UNCHANGED <<mux, gpio, outputs>>, ~broken' => ~broken,
         pc' \notin {"run", "reset"}
  PROVE  DrivenInv'
  <1>1. DrivenOnRequest'
    BY Zenon, NoNewDriver DEF DrivenInv, Driven
  <1>2. Progress'
    BY Zenon DEF Progress
  <1> QED BY Zenon, <1>1, <1>2 DEF DrivenInv

LEMMA ReplyLeaves ==
  ASSUME NEW status, Reply(status)
  PROVE  mux' = mux /\ pc' \notin {"run", "reset"}
  BY Zenon DEF Reply

\* All that is left when k steps of the default are done.
LEMMA DefaultLeft ==
  ASSUME NEW k \in Nat, AtDefault(k)
  PROVE  /\ steps = <<>> => \A p \in Pins : ~gpio[p].out
         /\ steps # <<>> => /\ k < All
                            /\ Head(steps) = DefaultSteps[k + 1]
                            /\ Tail(steps) = SubSeq(DefaultSteps, (k + 1) + 1, All)
  <1>1. /\ Gpios \in Nat /\ All \in Nat /\ Len(DefaultSteps) = All
        /\ DefaultSteps \in Seq(StepsOfDefault)
    BY Zenon, DefaultStepsAre
  <1>2. k \in 0..All /\ steps = SubSeq(DefaultSteps, k + 1, All) /\ \A p \in Pins : p < k => ~gpio[p].out
    BY Zenon DEF AtDefault
  <1> DEFINE s == DefaultSteps
  <1> HIDE DEF s
  <1>3. /\ k = All => steps = <<>>
        /\ k < All => steps # <<>> /\ Head(steps) = s[k + 1] /\ Tail(steps) = SubSeq(s, k + 2, All)
    <2>1. s \in Seq(StepsOfDefault) /\ k \in 0..Len(s) /\ Len(s) = All
      BY Zenon, <1>1, <1>2 DEF s
    <2>2. steps = SubSeq(s, k + 1, Len(s))
      BY Zenon, <1>1, <1>2 DEF s
    <2> QED BY Zenon, <2>1, <2>2, RestOf
  <1>4. k = All \/ k < All
    BY SMT, <1>1, <1>2
  <1>5. ASSUME steps = <<>>, NEW p \in Pins PROVE ~gpio[p].out
    <2>1. k = All
      BY Zenon, <1>3, <1>4, <1>5
    <2>2. p < All
      BY SMT, <1>1 DEF Pins, All
    <2> QED BY Zenon, <2>1, <2>2, <1>2
  <1>6. k + 2 = (k + 1) + 1
    BY SMT
  <1>7. steps # <<>> => k < All /\ Head(steps) = s[k + 1] /\ Tail(steps) = SubSeq(s, (k + 1) + 1, All)
    BY Zenon, <1>3, <1>4, <1>6
  <1> QED BY Zenon, <1>5, <1>7 DEF s

\* A step of the default: inputs first, functions then.
LEMMA DefaultStep ==
  ASSUME DrivenInv, Step, NEW k \in Nat, AtDefault(k)
  PROVE  AtDefault(k + 1)' /\ DrivenOnRequest'
  <1>1. /\ steps # <<>> /\ steps' = Tail(steps)
        /\ outputs' = outputs /\ broken' = broken
        /\ \A p, o, q : Head(steps) = GpioStep(p, o, q) =>
              /\ mux' = mux
              /\ \A x \in Pins : gpio'[x].out = IF x = p THEN o ELSE gpio[x].out
        /\ \A p, f : Head(steps) = MuxStep(p, f) => gpio' = gpio
    BY Zenon, StepDoes DEF DrivenInv
  <1>2. k < All /\ Head(steps) = DefaultSteps[k + 1] /\ Tail(steps) = SubSeq(DefaultSteps, (k + 1) + 1, All)
    BY Zenon, <1>1, DefaultLeft
  <1>3. \A p \in Pins : p < k => ~gpio[p].out
    BY Zenon DEF AtDefault
  <1>4. Gpios \in Nat /\ All \in Nat
    BY Zenon, DefaultStepsAre
  <1>5. k + 1 \in 0..All /\ steps' = SubSeq(DefaultSteps, (k + 1) + 1, All)
    <2>1. k + 1 \in 0..All
      BY SMT, <1>2, <1>4
    <2> QED BY Zenon, <2>1, <1>1, <1>2
  <1>6. \A p \in Pins : p < k + 1 => p < k \/ p = k
    BY SMT, <1>4 DEF Pins
  <1>7. CASE k < Gpios
    <2>1. Head(steps) = GpioStep(k, FALSE, {})
      <3>1. k \in 0..(Gpios - 1)
        BY SMT, <1>4, <1>7
      <3> QED BY Zenon, <3>1, <1>2, DefaultStepsAre
    <2>2. mux' = mux /\ \A x \in Pins : gpio'[x].out = IF x = k THEN FALSE ELSE gpio[x].out
      BY Zenon, <2>1, GpioStepDoes DEF DrivenInv
    <2>3. \A p \in Pins : p < k + 1 => ~gpio'[p].out
      BY Zenon, <2>2, <1>3, <1>6
    <2>4. \A p \in Pins : Driven(p)' => Driven(p)
      BY Zenon, <2>2 DEF Driven
    <2>5. DrivenOnRequest'
      BY Zenon, <2>4, <1>1, NoNewDriver DEF DrivenInv
    <2> QED BY Zenon, <2>3, <2>5, <1>5 DEF AtDefault
  <1>8. CASE ~(k < Gpios)
    <2>1. Head(steps) = MuxStep(k - Gpios, "gpio")
      <3>1. k \in Gpios..(All - 1)
        BY SMT, <1>2, <1>4, <1>8
      <3> QED BY Zenon, <3>1, <1>2, DefaultStepsAre
    <2>2. gpio' = gpio
      BY Zenon, <1>1, <2>1
    <2>3. \A p \in Pins : ~gpio'[p].out
      <3>1. \A p \in Pins : p < k
        BY SMT, <1>4, <1>8 DEF Pins
      <3> QED BY Zenon, <3>1, <1>3, <2>2
    <2>4. DrivenOnRequest'
      BY Zenon, <2>3 DEF DrivenOnRequest, Driven
    <2> QED BY Zenon, <2>3, <2>4, <1>5 DEF AtDefault
  <1> QED BY Zenon, <1>7, <1>8

LEMMA OfOne ==
  ASSUME NEW x
  PROVE  <<x>> # <<>> /\ Head(<<x>>) = x /\ Tail(<<x>>) = <<>>
  OBVIOUS

LEMMA OfTwo ==
  ASSUME NEW x, NEW y
  PROVE  <<x, y>> # <<>> /\ Head(<<x, y>>) = x /\ Tail(<<x, y>>) = <<y>>
  OBVIOUS

LEMMA PinStep ==
  ASSUME DrivenInv, Step, PinProgress
  PROVE  PinProgress' /\ DrivenOnRequest'
  <1>1. /\ steps # <<>> /\ steps' = Tail(steps)
        /\ outputs' = outputs /\ broken' = broken /\ command' = command
        /\ \A p, o, q : Head(steps) = GpioStep(p, o, q) =>
              /\ mux' = mux
              /\ \A x \in Pins : gpio'[x].out = IF x = p THEN o ELSE gpio[x].out
        /\ \A p, f : Head(steps) = MuxStep(p, f) =>
              /\ gpio' = gpio
              /\ \A x \in Pins : mux'[x].func = IF x = p THEN f ELSE mux[x].func
    BY Zenon, StepDoes DEF DrivenInv
  <1>2. ASSUME steps = <<GpioStep(command.pin, FALSE, command.pulls), MuxStep(command.pin, "gpio")>>
        PROVE  PinProgress' /\ DrivenOnRequest'
    <2>1. /\ Head(steps) = GpioStep(command.pin, FALSE, command.pulls)
          /\ Tail(steps) = <<MuxStep(command.pin, "gpio")>>
      BY Zenon, <1>2, OfTwo
    <2>2. mux' = mux /\ \A x \in Pins : gpio'[x].out = IF x = command.pin THEN FALSE ELSE gpio[x].out
      <3>1. DOMAIN gpio = Pins /\ DOMAIN mux = Pins
        BY Zenon DEF DrivenInv
      <3> DEFINE c == command.pin
                 o == FALSE
                 q == command.pulls
      <3>2. Head(steps) = GpioStep(c, o, q)
        BY Zenon, <2>1
      <3> HIDE DEF c, o, q
      <3>3. mux' = mux /\ \A x \in Pins : gpio'[x].out = IF x = c THEN o ELSE gpio[x].out
        BY SMT, <3>1, <3>2, GpioStepDoes
      <3> QED BY Zenon, <3>3 DEF c, o
    <2>3. steps' = <<MuxStep(command'.pin, "gpio")>> /\ (command'.pin \in Pins => ~gpio'[command'.pin].out)
      BY Zenon, <1>1, <2>1, <2>2
    <2>4. \A p \in Pins : Driven(p)' => Driven(p)
      BY Zenon, <2>2 DEF Driven
    <2>5. DrivenOnRequest'
      BY Zenon, <2>4, <1>1, NoNewDriver DEF DrivenInv
    <2> QED BY Zenon, <2>3, <2>5 DEF PinProgress
  <1>3. ASSUME command.func # "gpio", steps = <<MuxStep(command.pin, command.func)>>
        PROVE  PinProgress' /\ DrivenOnRequest'
    <2>1. Head(steps) = MuxStep(command.pin, command.func) /\ Tail(steps) = <<>>
      BY Zenon, <1>3, OfOne
    <2>2. gpio' = gpio /\ \A x \in Pins : mux'[x].func = IF x = command.pin THEN command.func ELSE mux[x].func
      BY Zenon, <1>1, <2>1
    <2>3. steps' = <<>> /\ (command'.pin \in Pins => ~Driven(command.pin)')
      BY Zenon, <1>1, <1>3, <2>1, <2>2 DEF Driven
    <2>4. \A p \in Pins : Driven(p)' => Driven(p)
      BY Zenon, <2>2, <1>3 DEF Driven
    <2>5. DrivenOnRequest'
      BY Zenon, <2>4, <1>1, NoNewDriver DEF DrivenInv
    <2> QED BY Zenon, <2>3, <2>5, <1>1 DEF PinProgress, Driven
  <1>4. ASSUME steps = <<MuxStep(command.pin, "gpio")>>, command.pin \in Pins => ~gpio[command.pin].out
        PROVE  PinProgress' /\ DrivenOnRequest'
    <2>1. Head(steps) = MuxStep(command.pin, "gpio") /\ Tail(steps) = <<>>
      BY Zenon, <1>4, OfOne
    <2>2. gpio' = gpio /\ \A x \in Pins : mux'[x].func = IF x = command.pin THEN "gpio" ELSE mux[x].func
      BY Zenon, <1>1, <2>1
    <2>3. steps' = <<>> /\ (command'.pin \in Pins => ~Driven(command.pin)')
      BY Zenon, <1>1, <1>4, <2>1, <2>2 DEF Driven
    <2>4. \A p \in Pins : Driven(p)' => Driven(p)
      BY Zenon, <2>2, <1>4 DEF Driven
    <2>5. DrivenOnRequest'
      BY Zenon, <2>4, <1>1, NoNewDriver DEF DrivenInv
    <2> QED BY Zenon, <2>3, <2>5, <1>1 DEF PinProgress, Driven
  <1>5. /\ command.func = "gpio" =>
             PinSteps(command) = <<GpioStep(command.pin, FALSE, command.pulls), MuxStep(command.pin, "gpio")>>
        /\ command.func # "gpio" => PinSteps(command) = <<MuxStep(command.pin, command.func)>>
    BY Zenon, PinStepsAre
  <1> QED BY Zenon, <1>1, <1>2, <1>3, <1>4, <1>5 DEF PinProgress

LEMMA GpioOfStep ==
  ASSUME DrivenInv, Step, GpioProgress
  PROVE  GpioProgress' /\ DrivenOnRequest'
  <1>1. /\ steps # <<>> /\ steps' = Tail(steps)
        /\ outputs' = outputs /\ broken' = broken /\ command' = command
        /\ \A p, o, q : Head(steps) = GpioStep(p, o, q) =>
              /\ mux' = mux
              /\ \A x \in Pins : gpio'[x].out = IF x = p THEN o ELSE gpio[x].out
    BY Zenon, StepDoes DEF DrivenInv
  <1>2. command.out => command.pin \in outputs
    BY Zenon DEF GpioProgress
  <1>3. steps = <<GpioStep(command.pin, command.out, command.pulls)>>
    BY Zenon, <1>1 DEF GpioProgress
  <1>4. Head(steps) = GpioStep(command.pin, command.out, command.pulls) /\ Tail(steps) = <<>>
    BY Zenon, <1>3, OfOne
  <1>5. mux' = mux /\ \A x \in Pins : gpio'[x].out = IF x = command.pin THEN command.out ELSE gpio[x].out
    <2>1. DOMAIN gpio = Pins /\ DOMAIN mux = Pins
      BY Zenon DEF DrivenInv
    <2> DEFINE c == command.pin
               o == command.out
               q == command.pulls
    <2>2. Head(steps) = GpioStep(c, o, q)
      BY Zenon, <1>4
    <2> HIDE DEF c, o, q
    <2>3. mux' = mux /\ \A x \in Pins : gpio'[x].out = IF x = c THEN o ELSE gpio[x].out
      BY SMT, <2>1, <2>2, GpioStepDoes
    <2> QED BY Zenon, <2>3 DEF c, o
  <1>6. \A p \in Pins : Driven(p)' => p \in outputs' \/ Driven(p)
    BY Zenon, <1>1, <1>2, <1>5 DEF Driven
  <1>7. DrivenOnRequest'
    BY Zenon, <1>1, <1>6, NoNewDriver DEF DrivenInv
  <1>8. GpioProgress'
    BY Zenon, <1>1, <1>2, <1>4, <1>5 DEF GpioProgress
  <1> QED BY <1>7, <1>8

LEMMA StepKeeps ==
  ASSUME DrivenInv, Step
  PROVE  DrivenInv'
  <1>1. /\ steps # <<>> /\ pc \in {"run", "reset"} /\ pc' = pc /\ command' = command
        /\ DOMAIN gpio' = Pins /\ DOMAIN mux' = Pins
    BY Zenon, StepDoes DEF DrivenInv
  <1>2. ASSUME \E k \in Nat : AtDefault(k)
        PROVE  (\E k \in Nat : AtDefault(k))' /\ DrivenOnRequest'
    <2>1. PICK k \in Nat : AtDefault(k)
      BY Zenon, <1>2
    <2>2. AtDefault(k + 1)' /\ DrivenOnRequest'
      BY Zenon, <2>1, DefaultStep
    <2>3. k + 1 \in Nat
      BY SMT
    <2> QED BY Zenon, <2>2, <2>3
  <1>3. CASE pc = "reset"
    BY Zenon, <1>1, <1>2, <1>3 DEF DrivenInv, Progress
  <1>4. CASE pc = "run" /\ command.cmd = "default"
    BY Zenon, <1>1, <1>2, <1>4 DEF DrivenInv, Progress
  <1>5. CASE pc = "run" /\ command.cmd = "pins_cfg"
    <2>1. PinProgress' /\ DrivenOnRequest'
      BY Zenon, <1>5, PinStep DEF DrivenInv, Progress
    <2> QED BY Zenon, <1>1, <1>5, <2>1 DEF DrivenInv, Progress
  <1>6. CASE pc = "run" /\ command.cmd = "gpio_cfg"
    <2>1. GpioProgress' /\ DrivenOnRequest'
      BY Zenon, <1>6, GpioOfStep DEF DrivenInv, Progress
    <2> QED BY Zenon, <1>1, <1>6, <2>1 DEF DrivenInv, Progress
  <1>7. CASE pc = "run" /\ command.cmd \notin {"default", "pins_cfg", "gpio_cfg"}
    BY Zenon, <1>1, <1>7 DEF DrivenInv, Progress
  <1> QED BY Zenon, <1>1, <1>3, <1>4, <1>5, <1>6, <1>7

LEMMA StepsDoneKeeps ==
  ASSUME DrivenInv, StepsDone
  PROVE  DrivenInv'
  <1>1. /\ pc = "run" /\ steps = <<>> /\ outputs' = OutputsAfter(command)
        /\ broken' = (broken /\ command.cmd # "default")
        /\ gpio' = gpio
    BY Zenon DEF StepsDone
  <1>2. mux' = mux /\ pc' \notin {"run", "reset"}
    BY Zenon, ReplyLeaves DEF StepsDone
  <1>3. Progress'
    BY Zenon, <1>2 DEF Progress
  <1>4. \A p \in Pins : Driven(p)' <=> Driven(p)
    BY Zenon, <1>1, <1>2 DEF Driven
  <1>5. CASE command.cmd = "default"
    <2>1. PICK k \in Nat : AtDefault(k)
      BY Zenon, <1>1, <1>5 DEF DrivenInv, Progress
    <2>2. \A p \in Pins : ~gpio[p].out
      BY Zenon, <1>1, <2>1, DefaultLeft
    <2> QED BY Zenon, <1>1, <1>2, <1>3, <2>2 DEF DrivenInv, DrivenOnRequest, Driven
  <1>6. ASSUME command.pin \in Pins => ~Driven(command.pin), command.cmd # "default",
               outputs' = outputs \ {command.pin}
        PROVE  DrivenInv'
    <2>1. \A p \in Pins : Driven(p)' => Driven(p) /\ (p \in outputs => p \in outputs')
      BY Zenon, <1>4, <1>6
    <2>2. ~broken' => ~broken
      BY Zenon, <1>1, <1>6
    <2>3. DrivenOnRequest'
      BY Zenon, <2>1, <2>2, NoNewDriver DEF DrivenInv
    <2> QED BY Zenon, <1>1, <1>2, <1>3, <2>3 DEF DrivenInv
  <1>7. CASE command.cmd = "pins_cfg"
    <2>1. PinSteps(command) # <<>>
      <3>1. \A x, y : <<x, y>> # <<>> /\ <<x>> # <<>>
        OBVIOUS
      <3>2. \E x, y : PinSteps(command) \in {<<x>>, <<x, y>>}
        BY Zenon, PinStepsAre
      <3> QED BY Zenon, <3>1, <3>2
    <2>2. command.pin \in Pins => ~Driven(command.pin)
      BY Zenon, <1>1, <1>7, <2>1, OfOne DEF DrivenInv, Progress, PinProgress
    <2>3. outputs' = outputs \ {command.pin}
      BY Zenon, <1>1, <1>7, OutputsAfterAre
    <2> QED BY Zenon, <1>6, <1>7, <2>2, <2>3
  <1>8. CASE command.cmd = "gpio_cfg" /\ ~command.out
    <2>1. command.pin \in Pins => ~Driven(command.pin)
      BY Zenon, <1>1, <1>8, OfOne DEF DrivenInv, Progress, GpioProgress, Driven
    <2>2. outputs' = outputs \ {command.pin}
      BY Zenon, <1>1, <1>8, OutputsAfterAre
    <2> QED BY Zenon, <1>6, <1>8, <2>1, <2>2
  <1>9. CASE \/ command.cmd = "gpio_cfg" /\ command.out
             \/ command.cmd \notin {"default", "pins_cfg", "gpio_cfg"}
    <2>1. outputs' = outputs /\ (~broken' => ~broken)
      BY Zenon, <1>1, <1>9, OutputsAfterAre
    <2> QED BY Zenon, <1>1, <1>2, <2>1, Quiet
  <1> QED BY Zenon, <1>5, <1>7, <1>8, <1>9

LEMMA ResetDoneKeeps ==
  ASSUME DrivenInv, ResetDone
  PROVE  DrivenInv'
  <1>1. /\ pc = "reset" /\ steps = <<>> /\ pc' = "find"
        /\ gpio' = gpio /\ mux' = mux
    BY Zenon DEF ResetDone, hw
  <1>2. PICK k \in Nat : AtDefault(k)
    BY Zenon, <1>1 DEF DrivenInv, Progress
  <1>3. \A p \in Pins : ~gpio[p].out
    BY Zenon, <1>1, <1>2, DefaultLeft
  <1> QED BY Zenon, <1>1, <1>3 DEF DrivenInv, DrivenOnRequest, Driven, Progress

LEMMA StartOfDefault ==
  ASSUME steps' = DefaultSteps
  PROVE  (\E k \in Nat : AtDefault(k))'
  <1>1. Gpios \in Nat /\ All \in Nat
    BY Zenon, DefaultStepsAre
  <1>2. steps' = SubSeq(DefaultSteps, 0 + 1, All)
    BY Zenon, DefaultStepsAre, Whole
  <1>3. \A p \in Pins : ~(p < 0)
    BY SMT, <1>1 DEF Pins
  <1>4. 0 \in 0..All /\ 0 \in Nat
    BY SMT, <1>1
  <1>5. AtDefault(0)'
    BY Zenon, <1>2, <1>3, <1>4 DEF AtDefault
  <1> QED BY Zenon, <1>4, <1>5

LEMMA ShutdownKeeps ==
  ASSUME DrivenInv, Shutdown
  PROVE  DrivenInv'
  <1>1. /\ pc' = "reset" /\ steps' = DefaultSteps
        /\ gpio' = gpio /\ mux' = mux /\ outputs' = outputs /\ broken' = broken
    BY Zenon DEF Shutdown, hw, history
  <1>2. (\E k \in Nat : AtDefault(k))'
    BY Zenon, <1>1, StartOfDefault
  <1>3. DrivenOnRequest'
    BY Zenon, <1>1, NoNewDriver DEF DrivenInv, Driven
  <1> QED BY Zenon, <1>1, <1>2, <1>3 DEF DrivenInv, Progress

LEMMA BeginKeeps ==
  ASSUME DrivenInv, NEW c, NEW rest, NEW n, NEW q, Begin(c, rest, n, q),
         UNCHANGED <<mux, gpio, broken>>
  PROVE  DrivenInv'
  <1>1. /\ command' = c
        /\ steps' = IF Refused(c) THEN <<>> ELSE StepsOf(c)
        /\ outputs' = IF c.cmd = "gpio_cfg" /\ ~Refused(c) /\ c.out THEN outputs \cup {c.pin}
                                                                    ELSE outputs
        /\ pc' = IF Refused(c) THEN "refused" ELSE "run"
    BY Zenon DEF Begin
  <1>2. DrivenOnRequest'
    BY Zenon, <1>1, NoNewDriver DEF DrivenInv, Driven
  <1>3. CASE Refused(c)
    BY Zenon, <1>1, <1>2, <1>3 DEF DrivenInv, Progress
  <1>4. CASE ~Refused(c)
    <2>1. pc' = "run" /\ steps' = StepsOf(c)
      BY Zenon, <1>1, <1>4
    <2>2. c.cmd = "default" => (\E k \in Nat : AtDefault(k))'
      BY Zenon, <2>1, StepsOfAre, StartOfDefault
    <2>3. c.cmd = "pins_cfg" => PinProgress'
      BY Zenon, <1>1, <2>1, StepsOfAre DEF PinProgress, PinSteps
    <2>4. c.cmd = "gpio_cfg" => GpioProgress'
      BY Zenon, <1>1, <1>4, <2>1, StepsOfAre DEF GpioProgress
    <2>5. Progress'
      BY Zenon, <1>1, <2>1, <2>2, <2>3, <2>4, StepsOfAre DEF Progress
    <2> QED BY Zenon, <1>2, <2>5 DEF DrivenInv
  <1> QED BY Zenon, <1>3, <1>4

LEMMA HandleKeeps ==
  ASSUME DrivenInv, Handle
  PROVE  DrivenInv'
  <1>1. UNCHANGED <<mux, gpio, broken>>
    BY Zenon DEF Handle
  <1>2. CASE HandleGroup
    BY Zenon, <1>1, <1>2, BeginKeeps DEF HandleGroup
  <1>3. CASE HandlePlain
    BY Zenon, <1>1, <1>3, BeginKeeps DEF HandlePlain
  <1>4. CASE HandleBroken
    <2>1. pc' = "send" /\ outputs' = outputs
      BY Zenon, <1>4 DEF HandleBroken, Fail
    <2> QED BY Zenon, <1>1, <2>1, Quiet
  <1> QED BY Zenon, <1>2, <1>3, <1>4 DEF Handle

LEMMA QuietActions ==
  ASSUME DrivenInv,
         \/ Find \/ Answered \/ (\E u \in Packets : Receive(u))
         \/ ResetFails \/ RefusedReply \/ StepFails \/ Control \/ Poll
  PROVE  DrivenInv'
  <1>1. CASE Find
    BY Zenon, <1>1, Quiet DEF Find, hw, history
  <1>2. CASE Answered
    BY Zenon, <1>2, Quiet DEF Answered, hw
  <1>3. CASE \E u \in Packets : Receive(u)
    <2>1. /\ UNCHANGED <<mux, gpio, outputs, broken>>
          /\ pc' = "recv" \/ pc' = "handle"
      BY Zenon, <1>3 DEF Receive, hw
    <2> QED BY Zenon, <2>1, Quiet
  <1>4. CASE ResetFails
    BY Zenon, <1>4, Quiet DEF ResetFails, hw
  <1>5. CASE RefusedReply
    BY Zenon, <1>5, Quiet, ReplyLeaves DEF RefusedReply
  <1>6. CASE StepFails
    BY Zenon, <1>6, Quiet, ReplyLeaves DEF StepFails
  <1>7. CASE Control
    <2>1. /\ UNCHANGED <<gpio, outputs, broken>>
          /\ (pc' = "wait" /\ mux' = mux) \/ Reply("ok")
      BY Zenon, <1>7 DEF Control
    <2> QED BY Zenon, <2>1, Quiet, ReplyLeaves
  <1>8. CASE Poll
    <2>1. /\ UNCHANGED <<gpio, outputs, broken>> /\ pc = "wait"
          /\ \/ Reply("etimedout") \/ Reply("ok")
             \/ \E ms : Waits(ms)
      BY Zenon, <1>8 DEF Poll, Match
    <2>2. CASE \E ms : Waits(ms)
      BY Zenon, <2>1, <2>2, Quiet DEF Waits
    <2> QED BY Zenon, <2>1, <2>2, Quiet, ReplyLeaves
  <1> QED BY Zenon, <1>1, <1>2, <1>3, <1>4, <1>5, <1>6, <1>7, <1>8

LEMMA Stutter ==
  ASSUME DrivenInv, UNCHANGED <<pc, command, steps, mux, gpio, outputs, broken>>
  PROVE  DrivenInv'
  BY Zenon DEF DrivenInv, DrivenOnRequest, Driven, Progress, AtDefault, PinProgress, GpioProgress

LEMMA InitDriven == Init => DrivenInv
  <1> SUFFICES ASSUME Init PROVE DrivenInv
    OBVIOUS
  <1>1. /\ pc = "find"
        /\ mux = [p \in Pins |-> [func |-> "gpio", pulls |-> {}]]
        /\ gpio = [p \in Pins |-> Input]
    BY Zenon DEF Init
  <1>2. \A p \in Pins : ~gpio[p].out
    BY <1>1 DEF Input
  <1>3. DOMAIN gpio = Pins /\ DOMAIN mux = Pins
    BY Zenon, <1>1
  <1> QED BY Zenon, <1>1, <1>2, <1>3 DEF DrivenInv, DrivenOnRequest, Driven, Progress

\* A pin drives its line only when the last command for it made it an output
\* (DrivenOnRequest), for every number of pins and functions and whatever the
\* host sends: io_reset, default_pins, pins_cfg and gpio_cfg.
THEOREM PinsAreDrivenOnRequest == Spec => []DrivenOnRequest
  <1>1. Init => DrivenInv
    BY InitDriven
  <1>2. ASSUME DrivenInv, [Next]_vars PROVE DrivenInv'
    <2>1. CASE Running
      BY Zenon, <1>2, <2>1, ResetDoneKeeps, HandleKeeps, StepKeeps, StepsDoneKeeps, QuietActions
         DEF Running
    <2>2. CASE Shutdown
      BY Zenon, <1>2, <2>2, ShutdownKeeps
    <2>3. CASE Find \/ Answered \/ \E u \in Packets : Receive(u)
      BY Zenon, <1>2, <2>3, QuietActions
    <2>4. CASE UsbStatus
      <3>1. UNCHANGED <<pc, command, steps, mux, gpio, outputs, broken>>
        BY Zenon, <2>4 DEF UsbStatus, running, hw, history
      <3> QED BY Zenon, <1>2, <3>1, Stutter
    <2>5. CASE UNCHANGED vars
      <3>1. UNCHANGED <<pc, command, steps, mux, gpio, outputs, broken>>
        BY Zenon, <2>5 DEF vars, running, hw, history
      <3> QED BY Zenon, <1>2, <3>1, Stutter
    <2> QED BY Zenon, <1>2, <2>1, <2>2, <2>3, <2>4, <2>5 DEF Next
  <1>3. DrivenInv => DrivenOnRequest
    BY Zenon DEF DrivenInv
  <1> QED BY <1>1, <1>2, <1>3, PTL DEF Spec

-----------------------------------------------------------------------------
(***************************************************************************)
(* Types, and the bounds of the buffers.                                   *)
(***************************************************************************)
AnyFunction == Functions \cup {"gpio"}
Commands == Units \cup {Info}
Statuses == {"ok", "enotsup", "eio", "etimedout"}

Replies == {Bad} \cup {Group("multi", n) : n \in 0..(Wrap - 1)} \cup
           [cmd : {c.cmd : c \in Commands}, status : Statuses]

GpioSteps == [dev : {"gpio"}, pin : Pins, out : BOOLEAN, pulls : SUBSET Pulls]
MuxSteps == [dev : {"mux"}, pin : Pins, func : AnyFunction]

BuffersOK ==
  /\ request \in Seq(Units) /\ Len(request) <= RequestSpace
  /\ response \in Seq(Replies) /\ Len(response) <= ResponseSpace

ThreadOK ==
  /\ configured \in BOOLEAN
  /\ num \in 0..(Wrap - 1) /\ queued \in BOOLEAN
  /\ pc \in Labels /\ left \in 0..MaxWait
  /\ command \in Commands /\ steps \in Seq(GpioSteps \cup MuxSteps)

PinsOK ==
  /\ flags \in [Pins \X AnyFunction -> SUBSET Pulls]
  /\ mux \in [Pins -> [func : AnyFunction, pulls : SUBSET Pulls]]
  /\ gpio \in [Pins -> [out : BOOLEAN, pulls : SUBSET Pulls]]
  /\ level \in [Pins -> {0, 1}]
  /\ outputs \subseteq Pins /\ broken \in BOOLEAN

TypeInv == BuffersOK /\ ThreadOK /\ PinsOK

LEMMA Sizes ==
  /\ Gpios \in Nat /\ Wrap \in Nat /\ Wrap > 1 /\ MaxWait \in Nat
  /\ RequestSpace \in Nat /\ RequestSpace > 0 /\ ResponseSpace \in Nat /\ ResponseSpace > 0
  BY SMT, SizesAreLegal

LEMMA CommandsAreLegal ==
  ASSUME NEW c \in Commands
  PROVE  /\ c.cmd \in {"pins_cfg", "gpio_cfg"} => c.pin \in Pins /\ c.pulls \subseteq Pulls
         /\ c.cmd = "gpio_cfg" => c.out \in BOOLEAN
         /\ c.cmd = "gpio_ctrl" => c.pin \in Pins /\ c.ms \in 0..MaxWait
         /\ c # Info /\ IsGroup(c) => c.n \in 0..(Wrap - 1)
  <1>1. CASE c \in Units
    BY Zenon, <1>1, PacketsAreLegal
  <1>2. CASE c = Info
    <2>1. c.cmd = "info"
      BY <1>2 DEF Info
    <2> QED BY <2>1, <1>2
  <1> QED BY Zenon, <1>1, <1>2 DEF Commands

LEMMA Singles ==
  ASSUME NEW S, NEW x \in S
  PROVE  <<x>> \in Seq(S) /\ Len(<<x>>) = 1
  OBVIOUS

LEMMA OneIsTyped ==
  /\ \A p \in Pins, o \in BOOLEAN, q \in SUBSET Pulls : GpioStep(p, o, q) \in GpioSteps
  /\ \A p \in Pins, f \in AnyFunction : MuxStep(p, f) \in MuxSteps
  BY DEF GpioStep, MuxStep, GpioSteps, MuxSteps

LEMMA DefaultIsTyped == StepsOfDefault \subseteq GpioSteps \cup MuxSteps
  <1>1. {} \in SUBSET Pulls /\ FALSE \in BOOLEAN /\ "gpio" \in AnyFunction
    BY DEF AnyFunction
  <1> QED BY Zenon, <1>1, OneIsTyped DEF StepsOfDefault

LEMMA StepsAreTyped ==
  ASSUME NEW c \in Commands, ~Refused(c)
  PROVE  StepsOf(c) \in Seq(GpioSteps \cup MuxSteps)
  <1> DEFINE S == GpioSteps \cup MuxSteps
  <1>1. CASE c.cmd = "default"
    <2>1. DefaultSteps \in Seq(StepsOfDefault)
      BY DefaultStepsAre
    <2>2. StepsOfDefault \subseteq S
      BY DefaultIsTyped
    <2>3. DefaultSteps \in Seq(S)
      <3> HIDE DEF S
      <3> QED BY <2>1, <2>2
    <2> QED BY Zenon, <1>1, <2>3, StepsOfAre
  <1>2. CASE c.cmd = "pins_cfg"
    <2>1. c.pin \in Pins /\ c.pulls \in SUBSET Pulls /\ c.func \in AnyFunction
      BY Zenon, <1>2, CommandsAreLegal DEF Refused, AnyFunction
    <2>2. GpioStep(c.pin, FALSE, c.pulls) \in S
      BY Zenon, <2>1, OneIsTyped
    <2>3. MuxStep(c.pin, c.func) \in S
      BY Zenon, <2>1, OneIsTyped
    <2>4. \A x, y \in S : <<x>> \in Seq(S) /\ <<x, y>> \in Seq(S)
      <3> HIDE DEF S
      <3> QED OBVIOUS
    <2>5. PinSteps(c) \in Seq(S)
      <3> HIDE DEF S
      <3> QED BY Zenon, <2>2, <2>3, <2>4, PinStepsAre
    <2> QED BY Zenon, <1>2, <2>5, StepsOfAre
  <1>3. CASE c.cmd = "gpio_cfg"
    <2>1. c.pin \in Pins /\ c.pulls \in SUBSET Pulls /\ c.out \in BOOLEAN
      BY Zenon, <1>3, CommandsAreLegal
    <2>2. GpioStep(c.pin, c.out, c.pulls) \in S
      BY Zenon, <2>1, OneIsTyped
    <2>3. <<GpioStep(c.pin, c.out, c.pulls)>> \in Seq(S)
      <3> HIDE DEF S
      <3> QED BY Zenon, <2>2, Singles
    <2> QED BY Zenon, <1>3, <2>3, StepsOfAre
  <1>4. CASE c.cmd \notin {"default", "pins_cfg", "gpio_cfg"}
    <2>1. <<>> \in Seq(S)
      OBVIOUS
    <2> QED BY Zenon, <1>4, <2>1, StepsOfAre
  <1> QED BY Zenon, <1>1, <1>2, <1>3, <1>4

\* A reply is put where there is room for one, an error where the buffer begins.
LEMMA ReplyTypes ==
  ASSUME TypeInv, NEW status \in Statuses, Reply(status),
         steps' \in Seq(GpioSteps \cup MuxSteps)
  PROVE  BuffersOK' /\ ThreadOK' /\ UNCHANGED <<flags, mux>>
  <1>1. /\ command' = Info /\ left' = 0
        /\ UNCHANGED <<configured, request, queued, flags, mux>>
    BY Zenon DEF Reply
  <1>2. \/ /\ Len(response) < ResponseSpace
           /\ response' = Append(response, [cmd |-> command.cmd, status |-> status])
           /\ num' = (num + Wrap - 1) % Wrap
           /\ pc' \in {"handle", "send"}
        \/ response' = <<Bad>> /\ num' = num /\ pc' = "send"
    BY Zenon DEF Reply
  <1>3. [cmd |-> command.cmd, status |-> status] \in Replies /\ Bad \in Replies
    BY DEF Replies, TypeInv, ThreadOK
  <1>4. response' \in Seq(Replies) /\ Len(response') <= ResponseSpace
    <2> HIDE DEF Replies
    <2>1. CASE response' = <<Bad>>
      BY SMT, <1>3, <2>1, Singles, Sizes
    <2>2. ASSUME NEW r \in Replies, Len(response) < ResponseSpace, response' = Append(response, r)
          PROVE  response' \in Seq(Replies) /\ Len(response') <= ResponseSpace
      <3>1. response \in Seq(Replies)
        BY DEF TypeInv, BuffersOK
      <3> QED BY SMT, <2>2, <3>1, Sizes
    <2> QED BY Zenon, <1>2, <1>3, <2>1, <2>2
  <1>5. num' \in 0..(Wrap - 1)
    <2>1. num \in 0..(Wrap - 1)
      BY DEF TypeInv, ThreadOK
    <2>2. num + Wrap - 1 \in Nat
      BY SMT, <2>1, Sizes
    <2>3. \A n \in Nat : n % Wrap \in 0..(Wrap - 1)
      BY SMT, Sizes
    <2> QED BY Zenon, <1>2, <2>1, <2>2, <2>3
  <1>6. pc' \in Labels /\ 0 \in 0..MaxWait
    BY <1>2, Sizes DEF Labels
  <1>7. BuffersOK'
    BY Zenon, <1>1, <1>4 DEF TypeInv, BuffersOK
  <1>8. ThreadOK'
    BY Zenon, <1>1, <1>5, <1>6 DEF TypeInv, ThreadOK, Commands
  <1> QED BY Zenon, <1>1, <1>7, <1>8

LEMMA ReplyKeepsTypes ==
  ASSUME TypeInv, NEW status \in Statuses, Reply(status), UNCHANGED <<level, gpio>>,
         steps' \in Seq(GpioSteps \cup MuxSteps), outputs' \subseteq Pins, broken' \in BOOLEAN
  PROVE  TypeInv'
  BY Zenon, ReplyTypes DEF TypeInv, PinsOK

\* Of a packet no more is taken than there is room for.
LEMMA ReceiveKeepsTypes ==
  ASSUME TypeInv, NEW u \in Packets, Receive(u)
  PROVE  TypeInv'
  <1>1. /\ request' = request \o SubSeq(u, 1, Min({Len(u), Room}))
        /\ \/ pc' = "recv" /\ UNCHANGED <<response, num, queued>>
           \/ pc' = "handle" /\ response' = <<>> /\ num' = 1 /\ queued' = FALSE
        /\ UNCHANGED <<configured, command, steps, left, flags, mux, gpio, level, outputs, broken>>
    BY Zenon DEF Receive, parse, running, hw
  <1>2. u \in Seq(Units) /\ request \in Seq(Units) /\ Len(request) <= RequestSpace
    BY PacketsAreLegal DEF TypeInv, BuffersOK
  <1>3. Len(u) \in Nat /\ Room \in Nat /\ Len(request) + Room = RequestSpace
    BY SMT, <1>2, Sizes DEF Room
  <1> DEFINE m == Min({Len(u), Room})
  <1>4. m \in Nat /\ m <= Len(u) /\ m <= Room
    <2>1. ASSUME NEW a \in Nat, NEW b \in Nat
          PROVE  Min({a, b}) \in Nat /\ Min({a, b}) <= a /\ Min({a, b}) <= b
      <3>1. \E x \in {a, b} : \A y \in {a, b} : x <= y
        <4>1. a <= b \/ b <= a
          BY SMT
        <4> QED BY SMT, <4>1
      <3>2. Min({a, b}) \in {a, b} /\ \A y \in {a, b} : Min({a, b}) <= y
        BY Zenon, <3>1 DEF Min
      <3> QED BY SMT, <3>2
    <2> QED BY Zenon, <1>3, <2>1
  <1> HIDE DEF m
  <1>5. SubSeq(u, 1, m) \in Seq(Units) /\ Len(SubSeq(u, 1, m)) = m
    BY SMT, <1>2, <1>4
  <1>6. request' \in Seq(Units) /\ Len(request') <= RequestSpace
    <2>1. request' = request \o SubSeq(u, 1, m)
      BY Zenon, <1>1 DEF m
    <2> HIDE DEF Room
    <2>2. request' \in Seq(Units) /\ Len(request') = Len(request) + m
      BY <1>2, <1>5, <2>1, ConcatProperties
    <2> QED BY SMT, <2>2, <1>2, <1>3, <1>4, Sizes
  <1>7. <<>> \in Seq(Replies) /\ Len(<<>>) <= ResponseSpace /\ 1 \in 0..(Wrap - 1)
    BY SMT, Sizes
  <1>8. BuffersOK'
    BY Zenon, <1>1, <1>6, <1>7 DEF TypeInv, BuffersOK
  <1>9. ThreadOK'
    <2>1. pc' \in Labels
      BY <1>1 DEF Labels
    <2> QED BY Zenon, <1>1, <1>7, <2>1 DEF TypeInv, ThreadOK
  <1> QED BY Zenon, <1>1, <1>8, <1>9 DEF TypeInv, PinsOK

LEMMA TailsAreTyped ==
  ASSUME NEW S, NEW s \in Seq(S), s # <<>>
  PROVE  Tail(s) \in Seq(S) /\ Head(s) \in S /\ Len(Tail(s)) <= Len(s) /\ s[1] \in S
  BY SMT

LEMMA BeginKeepsTypes ==
  ASSUME TypeInv, NEW c \in Units, NEW rest \in Seq(Units), Len(rest) <= RequestSpace,
         NEW n \in 0..(Wrap - 1), NEW q \in BOOLEAN, Begin(c, rest, n, q),
         response' \in Seq(Replies), Len(response') <= ResponseSpace,
         UNCHANGED <<configured, left, mux, gpio, level, broken>>
  PROVE  TypeInv'
  <1>1. c \in Commands
    BY Zenon DEF Commands
  <1>2. BuffersOK'
    BY Zenon DEF Begin, BuffersOK
  <1>3. steps' \in Seq(GpioSteps \cup MuxSteps)
    <2>1. <<>> \in Seq(GpioSteps \cup MuxSteps)
      OBVIOUS
    <2> QED BY Zenon, <1>1, <2>1, StepsAreTyped DEF Begin
  <1>4. pc' \in Labels
    BY DEF Begin, Labels
  <1>5. ThreadOK'
    BY Zenon, <1>1, <1>3, <1>4 DEF Begin, TypeInv, ThreadOK
  <1>6. flags' \in [Pins \X AnyFunction -> SUBSET Pulls]
    <2>1. flags' = AddFlags(c) /\ flags \in [Pins \X AnyFunction -> SUBSET Pulls]
      BY Zenon DEF Begin, TypeInv, PinsOK
    <2>2. CASE c.cmd = "pins_cfg" /\ ~Refused(c)
      <3> DEFINE x == <<c.pin, c.func>>
      <3>1. c.pulls \in SUBSET Pulls
        BY Zenon, <1>1, <2>2, CommandsAreLegal
      <3>2. flags' = [flags EXCEPT ![x] = @ \cup c.pulls]
        BY Zenon, <2>1, <2>2 DEF AddFlags
      <3> HIDE DEF x
      <3>3. \A y \in Pins \X AnyFunction : flags[y] \cup c.pulls \in SUBSET Pulls
        BY <2>1, <3>1
      <3> QED BY <2>1, <3>2, <3>3
    <2>3. CASE ~(c.cmd = "pins_cfg" /\ ~Refused(c))
      BY Zenon, <2>1, <2>3 DEF AddFlags
    <2> QED BY Zenon, <2>2, <2>3
  <1>7. outputs' \subseteq Pins
    <2>1. c.cmd = "gpio_cfg" => c.pin \in Pins
      BY Zenon, <1>1, CommandsAreLegal
    <2> QED BY <2>1 DEF Begin, TypeInv, PinsOK
  <1>8. PinsOK'
    BY Zenon, <1>6, <1>7 DEF TypeInv, PinsOK
  <1> QED BY Zenon, <1>2, <1>5, <1>8 DEF TypeInv

LEMMA HandleKeepsTypes ==
  ASSUME TypeInv, Handle
  PROVE  TypeInv'
  <1>1. UNCHANGED <<configured, left, mux, gpio, level, broken>>
    BY Zenon DEF Handle
  <1>2. /\ request \in Seq(Units) /\ Len(request) <= RequestSpace
        /\ response \in Seq(Replies) /\ Len(response) <= ResponseSpace
        /\ num \in 0..(Wrap - 1) /\ queued \in BOOLEAN
    BY Zenon DEF TypeInv, BuffersOK, ThreadOK
  <1>3. CASE HandleGroup
    <2>1. Len(request) >= 2
      BY <1>3 DEF HandleGroup
    <2>2. /\ request[1] \in Units /\ request[2] \in Units
          /\ SubSeq(request, 3, Len(request)) \in Seq(Units)
          /\ Len(SubSeq(request, 3, Len(request))) <= RequestSpace
      BY SMT, <1>2, <2>1, Sizes
    <2>3. request[1].n \in 0..(Wrap - 1)
      BY Zenon, <1>3, <2>2, PacketsAreLegal DEF HandleGroup
    <2>4. response' \in Seq(Replies) /\ Len(response') <= ResponseSpace
      <3>1. Group("multi", request[1].n) \in Replies
        BY <2>3 DEF Replies
      <3>2. /\ Len(response) < ResponseSpace
            /\ response' = Append(response, Group("multi", request[1].n))
        BY Zenon, <1>3 DEF HandleGroup
      <3>3. ASSUME NEW r \in Replies, response' = Append(response, r)
            PROVE  response' \in Seq(Replies) /\ Len(response') <= ResponseSpace
        <4> HIDE DEF Replies
        <4> QED BY SMT, <1>2, <3>2, <3>3, Sizes
      <3> QED BY Zenon, <3>1, <3>2, <3>3
    <2>5. ((queued /\ ~GroupEnded) \/ request[1].cmd = "queue") \in BOOLEAN
      OBVIOUS
    <2>6. Begin(request[2], SubSeq(request, 3, Len(request)), request[1].n,
                (queued /\ ~GroupEnded) \/ request[1].cmd = "queue")
      BY Zenon, <1>3 DEF HandleGroup
    <2> QED BY Zenon, <1>1, <2>2, <2>3, <2>4, <2>5, <2>6, BeginKeepsTypes
  <1>4. CASE HandlePlain
    <2>1. request # <<>> /\ response' = response
      BY Zenon, <1>4 DEF HandlePlain
    <2>2. request[1] \in Units /\ Tail(request) \in Seq(Units) /\ Len(Tail(request)) <= RequestSpace
      BY SMT, <1>2, <2>1, Sizes
    <2>3. (IF GroupEnded THEN 1 ELSE num) \in 0..(Wrap - 1)
      BY SMT, <1>2, Sizes
    <2>4. (queued /\ ~GroupEnded) \in BOOLEAN
      OBVIOUS
    <2>5. Begin(request[1], Tail(request), IF GroupEnded THEN 1 ELSE num, queued /\ ~GroupEnded)
      BY Zenon, <1>4 DEF HandlePlain
    <2> QED BY Zenon, <1>1, <1>2, <2>1, <2>2, <2>3, <2>4, <2>5, BeginKeepsTypes
  <1>5. CASE HandleBroken
    <2>1. /\ response' = <<Bad>> /\ pc' = "send"
          /\ UNCHANGED <<request, num, queued, command, steps, flags, outputs>>
      BY Zenon, <1>5 DEF HandleBroken, Fail, parse
    <2>2. Bad \in Replies
      BY DEF Replies
    <2>3. response' \in Seq(Replies) /\ Len(response') <= ResponseSpace
      <3> HIDE DEF Replies
      <3> QED BY SMT, <2>1, <2>2, Singles, Sizes
    <2>4. "send" \in Labels
      BY DEF Labels
    <2>5. BuffersOK'
      BY Zenon, <1>2, <2>1, <2>3 DEF BuffersOK
    <2>6. ThreadOK'
      BY Zenon, <1>1, <2>1, <2>4 DEF TypeInv, ThreadOK
    <2> QED BY Zenon, <1>1, <2>1, <2>5, <2>6 DEF TypeInv, PinsOK
  <1> QED BY Zenon, <1>3, <1>4, <1>5 DEF Handle

LEMMA StepKeepsTypes ==
  ASSUME TypeInv, Step
  PROVE  TypeInv'
  <1> DEFINE h == Head(steps)
  <1>1. /\ steps # <<>> /\ steps' = Tail(steps)
        /\ UNCHANGED <<configured, request, response, num, queued, pc, command, left, flags, level,
                       outputs, broken>>
    BY Zenon DEF Step, parse, history
  <1>2. \/ /\ h.dev = "gpio" /\ mux' = mux
           /\ gpio' = [gpio EXCEPT ![h.pin] = [out |-> h.out, pulls |-> h.pulls]]
        \/ /\ h.dev # "gpio" /\ gpio' = gpio
           /\ mux' = [mux EXCEPT ![h.pin] = [func |-> h.func, pulls |-> flags[<<h.pin, h.func>>]]]
    BY Zenon DEF Step
  <1>3. h \in GpioSteps \cup MuxSteps /\ steps' \in Seq(GpioSteps \cup MuxSteps)
    <2> HIDE DEF h
    <2>1. steps \in Seq(GpioSteps \cup MuxSteps)
      BY DEF TypeInv, ThreadOK
    <2>2. ASSUME NEW S, steps \in Seq(S) PROVE h \in S /\ steps' \in Seq(S)
      BY Zenon, <1>1, <2>2, TailsAreTyped DEF h
    <2> QED BY Zenon, <2>1, <2>2
  <1> HIDE DEF h
  <1>4. PinsOK'
    <2>1. PinsOK
      BY DEF TypeInv
    <2>2. CASE h \in GpioSteps
      <3>1. h.dev = "gpio" /\ h.pin \in Pins /\ h.out \in BOOLEAN /\ h.pulls \in SUBSET Pulls
        BY <2>2 DEF GpioSteps
      <3>3. mux' = mux /\ gpio' = [gpio EXCEPT ![h.pin] = [out |-> h.out, pulls |-> h.pulls]]
        BY Zenon, <1>2, <3>1
      <3>4. gpio' \in [Pins -> [out : BOOLEAN, pulls : SUBSET Pulls]]
        BY <2>1, <3>1, <3>3 DEF PinsOK
      <3> QED BY Zenon, <1>1, <2>1, <3>3, <3>4 DEF PinsOK
    <2>3. CASE h \in MuxSteps
      <3>1. h.dev # "gpio" /\ h.pin \in Pins /\ h.func \in AnyFunction
        BY <2>3 DEF MuxSteps
      <3>3. /\ gpio' = gpio
            /\ mux' = [mux EXCEPT ![h.pin] = [func |-> h.func, pulls |-> flags[<<h.pin, h.func>>]]]
        BY Zenon, <1>2, <3>1
      <3>4. flags[<<h.pin, h.func>>] \in SUBSET Pulls
        BY <2>1, <3>1 DEF PinsOK
      <3>5. mux' \in [Pins -> [func : AnyFunction, pulls : SUBSET Pulls]]
        BY <2>1, <3>1, <3>3, <3>4 DEF PinsOK
      <3> QED BY Zenon, <1>1, <2>1, <3>3, <3>5 DEF PinsOK
    <2> QED BY Zenon, <1>3, <2>2, <2>3
  <1>5. ThreadOK'
    BY Zenon, <1>1, <1>3 DEF TypeInv, ThreadOK
  <1> QED BY Zenon, <1>1, <1>4, <1>5 DEF TypeInv, BuffersOK

\* A wait has no more time left than the host gave it.
LEMMA WaitsKeepTypes ==
  ASSUME TypeInv, Control \/ Poll
  PROVE  TypeInv'
  <1>1. /\ steps' = steps /\ gpio' = gpio /\ outputs' = outputs /\ broken' = broken
        /\ steps \in Seq(GpioSteps \cup MuxSteps) /\ outputs \subseteq Pins /\ broken \in BOOLEAN
    BY Zenon DEF Control, Poll, TypeInv, ThreadOK, PinsOK
  <1>2. CASE Poll
    <2>1. level' = level
      BY Zenon, <1>2 DEF Poll
    <2>2. CASE Reply("etimedout") \/ Reply("ok")
      <3>1. {"etimedout", "ok"} \subseteq Statuses
        BY DEF Statuses
      <3> QED BY Zenon, <1>1, <2>1, <2>2, <3>1, ReplyKeepsTypes
    <2>3. CASE left > 1 /\ Waits(left - 1)
      <3>1. left - 1 \in 0..MaxWait
        BY SMT, <2>3, Sizes DEF TypeInv, ThreadOK
      <3>2. /\ left' = left - 1
            /\ UNCHANGED <<configured, request, response, num, queued, pc, command, flags, mux>>
        BY Zenon, <2>3 DEF Waits, parse
      <3>3. ThreadOK'
        BY Zenon, <1>1, <3>1, <3>2 DEF TypeInv, ThreadOK
      <3> QED BY Zenon, <1>1, <2>1, <3>2, <3>3 DEF TypeInv, BuffersOK, PinsOK
    <2> QED BY Zenon, <1>2, <2>2, <2>3 DEF Poll, Match
  <1>3. CASE Control
    <2>1. command \in Commands /\ command.cmd = "gpio_ctrl"
      BY Zenon, <1>3 DEF Control, TypeInv, ThreadOK
    <2>2. command.pin \in Pins /\ command.ms \in 0..MaxWait
      BY Zenon, <2>1, CommandsAreLegal
    <2>3. level' \in [Pins -> {0, 1}]
      <3>1. PICK v : level' = [level EXCEPT ![command.pin] = v] /\ v \in {0, 1}
        <4> DEFINE w == IF command.write \in {0, 1} THEN command.write ELSE level[command.pin]
        <4>1. level' = [level EXCEPT ![command.pin] = IF command.toggle THEN 1 - w ELSE w]
          BY Zenon, <1>3 DEF Control
        <4>2. level \in [Pins -> {0, 1}]
          BY DEF TypeInv, PinsOK
        <4>3. w \in {0, 1}
          BY Zenon, <2>2, <4>2
        <4> HIDE DEF w
        <4>4. (IF command.toggle THEN 1 - w ELSE w) \in {0, 1}
          BY SMT, <4>3
        <4> QED BY Zenon, <4>1, <4>4
      <3> QED BY <3>1 DEF TypeInv, PinsOK
    <2>4. \/ /\ pc' = "wait" /\ left' = command.ms
             /\ UNCHANGED <<command, response, num, configured, request, queued, flags, mux>>
          \/ Reply("ok")
      BY Zenon, <1>3 DEF Control
    <2>5. pc' \in Labels
      BY <2>4, Zenon DEF Labels, Reply
    <2>6. BuffersOK' /\ ThreadOK' /\ flags' = flags /\ mux' = mux
      <3>1. CASE Reply("ok")
        <4>1. "ok" \in Statuses
          BY DEF Statuses
        <4> QED BY Zenon, <3>1, <4>1, <1>1, ReplyTypes
      <3>2. CASE ~Reply("ok")
        BY Zenon, <1>1, <2>2, <2>4, <2>5, <3>2 DEF TypeInv, BuffersOK, ThreadOK
      <3> QED BY Zenon, <3>1, <3>2
    <2> QED BY Zenon, <1>1, <2>3, <2>6 DEF TypeInv, PinsOK
  <1> QED BY Zenon, <1>2, <1>3

LEMMA ThreadKeepsTypes ==
  ASSUME TypeInv,
         \/ Find \/ Answered \/ Shutdown \/ ResetDone \/ ResetFails \/ UsbStatus
         \/ RefusedReply \/ StepFails \/ StepsDone \/ UNCHANGED vars
  PROVE  TypeInv'
  <1> USE DEF TypeInv, BuffersOK, ThreadOK, PinsOK, parse, running, hw, history
  <1>0. /\ Labels = {"find", "recv", "handle", "refused", "run", "wait", "send", "reset"}
        /\ Statuses = {"ok", "enotsup", "eio", "etimedout"}
        /\ 0 \in 0..(Wrap - 1)
        /\ <<>> \in Seq(Units) /\ <<>> \in Seq(Replies) /\ <<>> \in Seq(GpioSteps \cup MuxSteps)
        /\ Len(<<>>) <= RequestSpace /\ Len(<<>>) <= ResponseSpace
    BY SMT, Sizes DEF Labels, Statuses
  <1>1. CASE Find
    BY Zenon, <1>0, <1>1 DEF Find
  <1>2. CASE Answered
    BY Zenon, <1>0, <1>2 DEF Answered
  <1>3. CASE Shutdown
    <2>1. DefaultSteps \in Seq(GpioSteps \cup MuxSteps)
      <3>1. DefaultSteps \in Seq(StepsOfDefault)
        BY Zenon, DefaultStepsAre
      <3>2. \A S : StepsOfDefault \subseteq S => DefaultSteps \in Seq(S)
        <4> HIDE DEF StepsOfDefault
        <4> QED BY <3>1
      <3> QED BY Zenon, <3>2, DefaultIsTyped
    <2> QED BY Zenon, <1>0, <1>3, <2>1 DEF Shutdown
  <1>4. CASE ResetDone
    <2>1. {} \subseteq Pins
      OBVIOUS
    <2> QED BY Zenon, <1>0, <1>4, <2>1 DEF ResetDone
  <1>5. CASE ResetFails
    BY Zenon, <1>0, <1>5 DEF ResetFails
  <1>6. CASE UsbStatus
    BY Zenon, <1>6 DEF UsbStatus
  <1>7. CASE RefusedReply
    BY Zenon, <1>0, <1>7, ReplyKeepsTypes DEF RefusedReply
  <1>8. CASE StepFails
    BY Zenon, <1>0, <1>8, ReplyKeepsTypes DEF StepFails
  <1>9. CASE StepsDone
    <2>1. OutputsAfter(command) \subseteq Pins
      <3>1. OutputsAfter(command) \in {{}, outputs, outputs \ {command.pin}}
        BY Zenon, OutputsAfterAre
      <3> QED BY <3>1
    <2> QED BY Zenon, <1>0, <1>9, <2>1, ReplyKeepsTypes DEF StepsDone
  <1>10. CASE UNCHANGED vars
    BY Zenon, <1>10 DEF vars
  <1> QED BY Zenon, <1>1, <1>2, <1>3, <1>4, <1>5, <1>6, <1>7, <1>8, <1>9, <1>10

LEMMA InitTypes == Init => TypeInv
  <1> SUFFICES ASSUME Init PROVE TypeInv
    OBVIOUS
  <1>1. BuffersOK
    BY SMT, Sizes DEF Init, BuffersOK
  <1>2. ThreadOK
    <2>1. /\ configured = FALSE /\ num = 0 /\ queued = FALSE /\ pc = "find" /\ left = 0
          /\ command = Info /\ steps = <<>>
      BY Zenon DEF Init
    <2>2. /\ 0 \in 0..(Wrap - 1) /\ 0 \in 0..MaxWait /\ <<>> \in Seq(GpioSteps \cup MuxSteps)
          /\ "find" \in Labels /\ Info \in Commands
      BY SMT, Sizes DEF Labels, Commands
    <2> QED BY Zenon, <2>1, <2>2 DEF ThreadOK
  <1>3. PinsOK
    <2>1. /\ flags = [x \in Pins \X AnyFunction |-> {}]
          /\ mux = [p \in Pins |-> [func |-> "gpio", pulls |-> {}]]
          /\ gpio = [p \in Pins |-> [out |-> FALSE, pulls |-> {}]]
          /\ level = [p \in Pins |-> 0] /\ outputs = {} /\ broken = FALSE
      BY Zenon DEF Init, AnyFunction, Input
    <2> QED BY <2>1 DEF PinsOK, AnyFunction
  <1> QED BY <1>1, <1>2, <1>3 DEF TypeInv

LEMMA TypesFollow == TypeInv /\ [Next]_vars => TypeInv'
  <1> SUFFICES ASSUME TypeInv, [Next]_vars PROVE TypeInv'
    OBVIOUS
  <1>1. CASE Running
    BY Zenon, <1>1, HandleKeepsTypes, StepKeepsTypes, WaitsKeepTypes, ThreadKeepsTypes DEF Running
  <1>2. CASE \E u \in Packets : Receive(u)
    BY Zenon, <1>2, ReceiveKeepsTypes
  <1>3. CASE Find \/ Answered \/ Shutdown \/ UsbStatus \/ UNCHANGED vars
    BY Zenon, <1>3, ThreadKeepsTypes
  <1> QED BY Zenon, <1>1, <1>2, <1>3 DEF Next

\* Whatever packets come, however they are queued and wherever the replies run out
\* of room, requests and replies stay within their buffers, counts within their
\* width and waits within their time (io_handle_request, io_usb_transport_recv).
THEOREM BuffersAreBounded == Spec => []TypeOK
  <1>1. TypeInv => TypeOK
    BY Zenon DEF TypeInv, BuffersOK, ThreadOK, PinsOK, TypeOK, AnyFunction
  <1> QED BY <1>1, InitTypes, TypesFollow, PTL DEF Spec

-----------------------------------------------------------------------------
(***************************************************************************)
(* Requests are carried out as they stand.                                 *)
(***************************************************************************)
\* The units of a request, and the commands of each of its packets.
Stream == FlattenSeq(batch)
Parts == [i \in 1..Len(batch) |-> CommandsOf(batch[i])]

\* How many units of packet u come before its commands.
HeadOf(u) == IF IsGroup(u[1]) THEN 1 ELSE 0

\* Packets after which others have to follow.
Open(b) ==
  /\ \A i \in 1..Len(b) : b[i] # <<>> /\ b[i][1].cmd = "queue"
  /\ Len(FlattenSeq(b)) <= RequestSpace

\* What is left of w when p of it have been taken.
Remaining(w, p) == SubSeq(w, p + 1, Len(w))

\* Of the request p units have been taken, q have been answered, and e commands
\* have been run.
Taken(p, q, e) ==
  /\ request = Remaining(Stream, p)
  /\ Len(response) = q /\ \A i \in 1..q : response[i].cmd = ReplyTo(Stream)[i]
  /\ Len(executed) = e /\ \A i \in 1..e : executed[i] = Asked[i]

\* The first k packets are done.
Between(k) ==
  /\ Taken(Reach(batch, k), Reach(batch, k), Reach(Parts, k))
  /\ IF k = 0 THEN num = 1 /\ ~queued ELSE num = 0 /\ queued

\* Of packet k + 1 r units have been taken, and j commands have been run.
Inside(k, r, j) ==
  LET u == batch[k + 1]
  IN  /\ Taken(Reach(batch, k) + r, Reach(batch, k) + (HeadOf(u) + j), Reach(Parts, k) + j)
      /\ num = Len(CommandsOf(u)) - j /\ queued = (u[1].cmd = "queue")

\* Between two commands.
HandleInv ==
  \E k \in 0..(Len(batch) - 1) :
    LET u == batch[k + 1]
    IN  \/ Between(k)
        \/ \E j \in 1..(Len(CommandsOf(u)) - 1) : Inside(k, HeadOf(u) + j, j)

\* While a command runs.
RunInv ==
  \E k \in 0..(Len(batch) - 1) :
    LET u == batch[k + 1]
    IN  \E j \in 0..(Len(CommandsOf(u)) - 1) :
          Inside(k, HeadOf(u) + j + 1, j) /\ command = CommandsOf(u)[j + 1]

\* When the request is over.
DoneInv ==
  IF response = <<Bad>>
    THEN /\ IsPrefix(executed, Asked)
         /\ \/ \E i \in 1..Len(Asked) : Asked[i] = Bad
            \/ Len(Stream) > ResponseSpace
    ELSE /\ executed = Asked
         /\ [i \in 1..Len(response) |-> response[i].cmd] = ReplyTo(Stream)

Waiting == pc \in {"find", "recv", "reset"}

RequestInv ==
  /\ batch \in Seq(Packets) /\ executed \in Seq(Commands)
  /\ IF Waiting THEN Open(batch) => request = Stream /\ executed = <<>>
                ELSE ~Open(batch)
  /\ WellFormed(batch) =>
       /\ pc = "handle" => HandleInv
       /\ pc \in {"refused", "run", "wait"} => RunInv
       /\ pc = "send" => DoneInv

\* A sequence that agrees with another as far as it goes is how that one begins.
LEMMA BeginsSo ==
  ASSUME NEW S, NEW s \in Seq(S), NEW t \in Seq(S), Len(s) <= Len(t),
         \A i \in 1..Len(s) : s[i] = t[i]
  PROVE  IsPrefix(s, t) /\ (Len(s) = Len(t) => s = t)
  <1> DEFINE n == Len(s)   a == SubSeq(s, 1, n)   b == SubSeq(t, 1, n)
  <1>1. n \in Nat /\ n <= Len(t)
    OBVIOUS
  <1>2. a = s
    OBVIOUS
  <1>3. b \in Seq(S) /\ Len(b) = n /\ \A i \in 1..n : b[i] = t[i]
    <2> HIDE DEF n
    <2> QED BY SMT, <1>1
  <1> HIDE DEF a, b
  <1>4. b = s
    BY <1>3, SeqEqual
  <1>5. Len(s) = Len(t) => s = t
    BY SeqEqual
  <1> QED BY Zenon, <1>1, <1>2, <1>4, <1>5 DEF IsPrefix, a, b, n

\* The packets of a batch, and the commands of each, are sequences of units.
LEMMA PartsAre ==
  ASSUME NEW b \in Seq(Packets)
  PROVE  LET p == [i \in 1..Len(b) |-> CommandsOf(b[i])]
         IN  /\ b \in Seq(Seq(Units)) /\ p \in Seq(Seq(Units)) /\ Len(p) = Len(b)
             /\ Len(b) \in Nat /\ \A k \in 1..Len(b) : b[k] \in Seq(Units)
  <1> DEFINE p == [i \in 1..Len(b) |-> CommandsOf(b[i])]
  <1>1. b \in Seq(Seq(Units))
    <2>1. Packets \subseteq Seq(Units)
      BY PacketsAreLegal
    <2> DEFINE S == Seq(Units)
    <2> HIDE DEF S
    <2>2. Packets \subseteq S
      BY <2>1 DEF S
    <2>3. b \in Seq(S)
      BY <2>2
    <2> QED BY <2>3 DEF S
  <1>2. \A k \in 1..Len(b) : b[k] \in Seq(Units)
    BY <1>1, ElementOfSeq
  <1>3. \A s \in Seq(Units) : CommandsOf(s) \in Seq(Units)
    <2>1. \A s \in Seq(Units) : s # <<>> => Tail(s) \in Seq(Units)
      OBVIOUS
    <2> QED BY Zenon, <2>1 DEF CommandsOf
  <1>4. Len(b) \in Nat
    BY LenProperties
  <1>5. p \in Seq(Seq(Units)) /\ Len(p) = Len(b)
    <2> DEFINE n == Len(b)   S == Seq(Units)
    <2>1. \A k \in 1..n : CommandsOf(b[k]) \in S
      BY <1>2, <1>3
    <2>2. p = [k \in 1..n |-> CommandsOf(b[k])]
      OBVIOUS
    <2> HIDE DEF n, S, p
    <2>3. p \in [1..n -> S]
      BY Zenon, <2>1, <2>2
    <2>4. p \in Seq(S) /\ Len(p) = n
      <3>1. n \in Nat
        BY <1>4 DEF n
      <3> QED BY SMT, <2>3, <3>1
    <2> QED BY <2>4 DEF S, n
  <1> QED BY <1>1, <1>2, <1>4, <1>5

LEMMA BatchIs ==
  ASSUME batch \in Seq(Packets)
  PROVE  /\ batch \in Seq(Seq(Units)) /\ Parts \in Seq(Seq(Units)) /\ Len(Parts) = Len(batch)
         /\ \A k \in 1..Len(batch) : batch[k] \in Seq(Units) /\ Parts[k] = CommandsOf(batch[k])
         /\ Asked = FlattenSeq(Parts) /\ Asked \in Seq(Units) /\ Stream \in Seq(Units)
         /\ Len(batch) \in Nat
  <1>1. /\ batch \in Seq(Seq(Units)) /\ Parts \in Seq(Seq(Units)) /\ Len(Parts) = Len(batch)
        /\ Len(batch) \in Nat /\ \A k \in 1..Len(batch) : batch[k] \in Seq(Units)
    BY PartsAre DEF Parts
  <1>2. \A k \in 1..Len(batch) : Parts[k] = CommandsOf(batch[k])
    BY DEF Parts
  <1>3. Asked = FlattenSeq(Parts)
    BY DEF Asked, Parts
  <1> QED BY <1>1, <1>2, <1>3, FlattenIsSequence DEF Stream

\* Packet k + 1 of a well-formed request: its head and its commands.
LEMMA PacketIs ==
  ASSUME batch \in Seq(Packets), WellFormed(batch), NEW k \in 0..(Len(batch) - 1)
  PROVE  LET u == batch[k + 1]
         IN  /\ u \in Seq(Units) /\ CommandsOf(u) \in Seq(Units)
             /\ HeadOf(u) \in {0, 1} /\ Len(CommandsOf(u)) \in Nat \ {0}
             /\ Len(u) = HeadOf(u) + Len(CommandsOf(u))
             /\ \A j \in 1..Len(CommandsOf(u)) : /\ CommandsOf(u)[j] = u[HeadOf(u) + j]
                                                 /\ ~IsGroup(CommandsOf(u)[j])
             /\ HeadOf(u) = 1 => IsGroup(u[1]) /\ u[1].n = Len(CommandsOf(u))
             /\ HeadOf(u) = 0 => ~IsGroup(u[1]) /\ Len(CommandsOf(u)) = 1 /\ u[1].cmd # "queue"
             /\ u[1].cmd = "queue" <=> k + 1 < Len(batch)
             /\ u[1] \in Units
  <1> DEFINE u == batch[k + 1]   c == CommandsOf(u)
  <1>1. Len(batch) \in Nat /\ k + 1 \in 1..Len(batch)
    <2>1. Len(batch) \in Nat
      BY LenProperties
    <2> QED BY SMT, <2>1
  <1>2. /\ u # <<>> /\ (u[1].cmd = "queue" <=> k + 1 < Len(batch))
        /\ IsGroup(u[1]) => u[1].n = Len(u) - 1 /\ u[1].n > 0
        /\ \A j \in 1..Len(c) : ~IsGroup(c[j])
        /\ ~IsGroup(u[1]) => Len(u) = 1
    BY Zenon, <1>1 DEF WellFormed
  <1>3. u \in Seq(Units)
    BY <1>1, BatchIs
  <1>4. ~IsGroup(u[1]) => u[1].cmd # "queue"
    BY Zenon DEF IsGroup
  <1>5. c = IF IsGroup(u[1]) THEN Tail(u) ELSE u
    BY Zenon, <1>2 DEF CommandsOf
  <1>6. HeadOf(u) = IF IsGroup(u[1]) THEN 1 ELSE 0
    BY DEF HeadOf
  <1> HIDE DEF u, c
  <1>7. Len(u) \in Nat /\ Len(u) # 0 /\ u[1] \in Units
    BY SMT, <1>2, <1>3
  <1>8. CASE IsGroup(u[1])
    <2>1. /\ c \in Seq(Units) /\ Len(c) = Len(u) - 1 /\ \A j \in 1..Len(c) : c[j] = u[1 + j]
      BY SMT, <1>2, <1>3, <1>5, <1>8
    <2>2. HeadOf(u) = 1 /\ Len(u) - 1 > 0
      BY Zenon, <1>2, <1>6, <1>8
    <2>3. Len(c) \in Nat \ {0} /\ Len(u) = 1 + Len(c)
      BY SMT, <2>1, <2>2, <1>7
    <2> QED BY <2>1, <2>2, <2>3, <1>2, <1>3, <1>7, <1>8 DEF u, c
  <1>9. CASE ~IsGroup(u[1])
    <2>1. c = u /\ HeadOf(u) = 0 /\ Len(u) = 1
      BY Zenon, <1>2, <1>5, <1>6, <1>9
    <2>2. \A j \in 1..Len(c) : j \in Nat /\ 0 + j = j
      BY SMT, <2>1
    <2>3. Len(c) \in Nat \ {0} /\ Len(u) = 0 + Len(c)
      BY SMT, <2>1
    <2> QED BY <2>1, <2>2, <2>3, <1>2, <1>3, <1>4, <1>7, <1>9 DEF u, c
  <1> QED BY <1>8, <1>9

\* Where its units are in the request, and its commands in what is asked.
LEMMA PlaceIs ==
  ASSUME batch \in Seq(Packets), WellFormed(batch), NEW k \in 0..(Len(batch) - 1)
  PROVE  LET u == batch[k + 1]   a == Reach(batch, k)   b == Reach(Parts, k)   h == HeadOf(u)
             n == Len(CommandsOf(u))
         IN  /\ a \in Nat /\ b \in Nat /\ Len(Stream) \in Nat /\ Len(Asked) \in Nat
             /\ Reach(batch, k + 1) = a + (h + n) /\ Reach(Parts, k + 1) = b + n
             /\ a + (h + n) <= Len(Stream) /\ b + n <= Len(Asked)
             /\ k + 1 = Len(batch) => a + (h + n) = Len(Stream) /\ b + n = Len(Asked)
             /\ Stream[a + 1] = u[1]
             /\ \A j \in 1..n : /\ Stream[a + (h + j)] = CommandsOf(u)[j]
                                /\ Asked[b + j] = CommandsOf(u)[j]
  <1> DEFINE u == batch[k + 1]   a == Reach(batch, k)   b == Reach(Parts, k)   h == HeadOf(u)
             c == CommandsOf(u)   n == Len(c)
  <1>1. /\ batch \in Seq(Seq(Units)) /\ Parts \in Seq(Seq(Units)) /\ Len(Parts) = Len(batch)
        /\ Len(batch) \in Nat /\ Asked = FlattenSeq(Parts) /\ Asked \in Seq(Units)
        /\ Stream \in Seq(Units) /\ Stream = FlattenSeq(batch)
    BY BatchIs DEF Stream
  <1>2. Parts[k + 1] = c
    <2>1. k + 1 \in 1..Len(batch)
      BY SMT, <1>1
    <2> QED BY <2>1, BatchIs
  <1>3. /\ h \in {0, 1} /\ n \in Nat \ {0} /\ Len(u) = h + n
        /\ \A j \in 1..n : c[j] = u[h + j]
    BY PacketIs
  <1>4. /\ Reach(batch, Len(batch)) = Len(Stream) /\ a \in Nat
        /\ Reach(batch, k + 1) = a + Len(u) /\ Reach(batch, k + 1) <= Len(Stream)
        /\ \A i \in 1..Len(u) : Stream[a + i] = u[i]
    BY <1>1, PlaceInWhole
  <1>5. /\ Reach(Parts, Len(batch)) = Len(Asked) /\ b \in Nat
        /\ Reach(Parts, k + 1) = b + n /\ Reach(Parts, k + 1) <= Len(Asked)
        /\ \A i \in 1..n : Asked[b + i] = c[i]
    <2>1. k \in 0..(Len(Parts) - 1)
      BY <1>1
    <2>2. /\ Reach(Parts, Len(Parts)) = Len(FlattenSeq(Parts)) /\ b \in Nat
          /\ Reach(Parts, k + 1) = b + Len(Parts[k + 1]) /\ Reach(Parts, k + 1) <= Len(FlattenSeq(Parts))
          /\ \A i \in 1..Len(Parts[k + 1]) : FlattenSeq(Parts)[b + i] = Parts[k + 1][i]
      BY <1>1, <2>1, PlaceInWhole
    <2> QED BY Zenon, <1>1, <1>2, <2>2
  <1>6. Len(Stream) \in Nat /\ Len(Asked) \in Nat
    BY <1>1, LenProperties
  <1> HIDE DEF u, a, b, h, c, n
  <1>7. 1 \in 1..Len(u) /\ \A j \in 1..n : h + j \in 1..Len(u)
    BY SMT, <1>3
  <1>8. Stream[a + 1] = u[1]
    BY Zenon, <1>4, <1>7
  <1>9. \A j \in 1..n : Stream[a + (h + j)] = c[j] /\ Asked[b + j] = c[j]
    BY Zenon, <1>3, <1>4, <1>5, <1>7
  <1>10. /\ Reach(batch, k + 1) = a + (h + n) /\ Reach(Parts, k + 1) = b + n
         /\ a + (h + n) <= Len(Stream) /\ b + n <= Len(Asked)
         /\ k + 1 = Len(batch) => a + (h + n) = Len(Stream) /\ b + n = Len(Asked)
    BY Zenon, <1>3, <1>4, <1>5
  <1> QED BY <1>4, <1>5, <1>6, <1>8, <1>9, <1>10 DEF u, a, b, h, c, n

LEMMA EndIs ==
  ASSUME NEW S, NEW s \in Seq(S), NEW m \in 0..Len(s)
  PROVE  /\ SubSeq(s, m + 1, Len(s)) \in Seq(S) /\ Len(SubSeq(s, m + 1, Len(s))) = Len(s) - m
         /\ \A i \in 1..(Len(s) - m) : SubSeq(s, m + 1, Len(s))[i] = s[m + i]
  <1>1. Len(s) \in Nat
    OBVIOUS
  <1> QED BY SMT, <1>1

\* What is left of a request of which p units have been taken.
LEMMA RestIs ==
  ASSUME NEW S, NEW w \in Seq(S), NEW p \in Nat, p < Len(w)
  PROVE  LET r == Remaining(w, p)
         IN  /\ r # <<>> /\ r[1] = w[p + 1] /\ Len(r) = Len(w) - p
             /\ Tail(r) = Remaining(w, p + 1)
             /\ Len(r) >= 2 => r[2] = w[p + 2] /\ SubSeq(r, 3, Len(r)) = Remaining(w, p + 2)
  <1> DEFINE r == Remaining(w, p)
  <1> DEFINE l == Len(w)
  <1>0. l \in Nat
    OBVIOUS
  <1>1. r \in Seq(S) /\ Len(r) = l - p /\ \A i \in 1..(l - p) : r[i] = w[p + i]
    BY SMT DEF Remaining
  <1>2. \A m \in 1..Len(r) : SubSeq(r, m + 1, Len(r)) = Remaining(w, p + m)
    <2> SUFFICES ASSUME NEW m \in 1..Len(r)
                 PROVE  SubSeq(r, m + 1, Len(r)) = Remaining(w, p + m)
      OBVIOUS
    <2> DEFINE x == SubSeq(r, m + 1, Len(r))   y == Remaining(w, p + m)
    <2>0. m \in 0..Len(r) /\ p + m \in 0..Len(w)
      BY SMT, <1>0, <1>1
    <2>1. x \in Seq(S) /\ Len(x) = Len(r) - m /\ \A i \in 1..(Len(r) - m) : x[i] = r[m + i]
      BY <1>1, <2>0, EndIs
    <2>2. y \in Seq(S) /\ Len(y) = l - (p + m) /\ \A i \in 1..(l - (p + m)) : y[i] = w[(p + m) + i]
      BY <2>0, EndIs DEF Remaining
    <2>3. Len(x) = Len(y) /\ \A i \in 1..Len(x) : x[i] = y[i]
      <3> HIDE DEF x, y, l, r
      <3>1. /\ Len(r) - m = l - (p + m)
            /\ \A i \in 1..(Len(r) - m) : m + i \in 1..(l - p) /\ p + (m + i) = (p + m) + i
        BY SMT, <1>0, <1>1
      <3>2. Len(x) = Len(y)
        BY Zenon, <2>1, <2>2, <3>1
      <3>3. ASSUME NEW i \in 1..Len(x) PROVE x[i] = y[i]
        <4>1. i \in 1..(Len(r) - m) /\ i \in 1..(l - (p + m))
          BY Zenon, <2>1, <3>1
        <4>2. x[i] = r[m + i] /\ r[m + i] = w[p + (m + i)] /\ p + (m + i) = (p + m) + i
          BY Zenon, <4>1, <1>1, <2>1, <3>1
        <4>3. y[i] = w[(p + m) + i]
          BY Zenon, <4>1, <2>2
        <4> QED BY Zenon, <4>2, <4>3
      <3> QED BY Zenon, <3>2, <3>3
    <2> HIDE DEF x, y, r
    <2>4. x = y
      BY <2>1, <2>2, <2>3, SeqEqual
    <2> QED BY <2>4 DEF x, y
  <1> HIDE DEF l, r
  <1>3. l - p \in Nat /\ l - p >= 1
    BY SMT, <1>0 DEF l
  <1>4. r # <<>> /\ r[1] = w[p + 1]
    BY SMT, <1>1, <1>3
  <1>5. Tail(r) = SubSeq(r, 1 + 1, Len(r))
    BY SMT, <1>1, <1>4
  <1>6. 1 \in 1..Len(r)
    BY SMT, <1>1, <1>3
  <1>7. Len(r) >= 2 => 2 \in 1..Len(r) /\ 2 \in 1..(l - p) /\ 2 + 1 = 3
    BY SMT, <1>1, <1>3
  <1>8. Len(r) >= 2 => r[2] = w[p + 2] /\ SubSeq(r, 3, Len(r)) = Remaining(w, p + 2)
    BY Zenon, <1>1, <1>2, <1>7
  <1> QED BY Zenon, <1>1, <1>2, <1>4, <1>5, <1>6, <1>8 DEF l, r

\* A reply more, a command more.
LEMMA OneMore ==
  ASSUME NEW S, NEW s \in Seq(S), NEW x, NEW n \in Nat, Len(s) = n
  PROVE  /\ Len(Append(s, x)) = n + 1 /\ Append(s, x)[n + 1] = x
         /\ \A i \in 1..n : Append(s, x)[i] = s[i]
         /\ \A i \in 1..(n + 1) : i \in 1..n \/ i = n + 1
  BY SMT

LEMMA BatchStays ==
  ASSUME batch' = batch
  PROVE  /\ Stream' = Stream /\ Parts' = Parts /\ Asked' = Asked
         /\ \A k : /\ Reach(batch, k)' = Reach(batch, k) /\ Reach(Parts, k)' = Reach(Parts, k)
                  /\ batch'[k] = batch[k]
  <1>1. Stream' = Stream /\ Parts' = Parts /\ Asked' = Asked
    BY Zenon DEF Stream, Parts, Asked
  <1> QED BY Zenon, <1>1 DEF Reach

\* How far a step takes a packet: a command of it is to be run, is to follow, or the
\* next packet is.
LEMMA RunFollows ==
  ASSUME batch' = batch, NEW k \in 0..(Len(batch) - 1),
         NEW j \in 0..(Len(CommandsOf(batch[k + 1])) - 1), NEW p, NEW q, NEW e,
         p = Reach(batch, k) + (HeadOf(batch[k + 1]) + j + 1),
         q = Reach(batch, k) + (HeadOf(batch[k + 1]) + j),
         e = Reach(Parts, k) + j,
         request' = Remaining(Stream, p),
         Len(response') = q, \A i \in 1..q : response'[i].cmd = ReplyTo(Stream)[i],
         Len(executed') = e, \A i \in 1..e : executed'[i] = Asked[i],
         num' = Len(CommandsOf(batch[k + 1])) - j,
         queued' = (batch[k + 1][1].cmd = "queue"),
         command' = CommandsOf(batch[k + 1])[j + 1]
  PROVE  RunInv'
  <1>1. Inside(k, HeadOf(batch[k + 1]) + j + 1, j)'
    BY Zenon, BatchStays DEF Inside, Taken
  <1>2. (Inside(k, HeadOf(batch[k + 1]) + j + 1, j) /\ command = CommandsOf(batch[k + 1])[j + 1])'
    BY Zenon, <1>1
  <1> QED BY Zenon, <1>2 DEF RunInv

LEMMA HandleFollows ==
  ASSUME batch' = batch, NEW k \in 0..(Len(batch) - 1),
         NEW j \in 1..(Len(CommandsOf(batch[k + 1])) - 1), NEW q, NEW e,
         q = Reach(batch, k) + (HeadOf(batch[k + 1]) + j),
         e = Reach(Parts, k) + j,
         request' = Remaining(Stream, q),
         Len(response') = q, \A i \in 1..q : response'[i].cmd = ReplyTo(Stream)[i],
         Len(executed') = e, \A i \in 1..e : executed'[i] = Asked[i],
         num' = Len(CommandsOf(batch[k + 1])) - j,
         queued' = (batch[k + 1][1].cmd = "queue")
  PROVE  HandleInv'
  <1>1. Inside(k, HeadOf(batch[k + 1]) + j, j)'
    BY Zenon, BatchStays DEF Inside, Taken
  <1> QED BY Zenon, <1>1 DEF HandleInv

LEMMA NextFollows ==
  ASSUME batch' = batch, NEW k \in 0..(Len(batch) - 1), NEW p, NEW e,
         p = Reach(batch, k), e = Reach(Parts, k),
         request' = Remaining(Stream, p),
         Len(response') = p, \A i \in 1..p : response'[i].cmd = ReplyTo(Stream)[i],
         Len(executed') = e, \A i \in 1..e : executed'[i] = Asked[i],
         IF k = 0 THEN num' = 1 /\ ~queued' ELSE num' = 0 /\ queued'
  PROVE  HandleInv'
  <1>1. Between(k)'
    BY Zenon, BatchStays DEF Between, Taken
  <1> QED BY Zenon, <1>1 DEF HandleInv

\* What is known between two packets: the next one is to come.
LEMMA BetweenIs ==
  ASSUME TypeInv, batch \in Seq(Packets), WellFormed(batch), NEW k \in 0..(Len(batch) - 1), Between(k)
  PROVE  LET u == batch[k + 1]   a == Reach(batch, k)   b == Reach(Parts, k)   w == Stream
         IN  /\ request # <<>> /\ request[1] = u[1] /\ Len(request) = Len(w) - a
             /\ Tail(request) = Remaining(w, a + 1)
             /\ Len(request) >= 2 =>
                  request[2] = w[a + 2] /\ SubSeq(request, 3, Len(request)) = Remaining(w, a + 2)
             /\ Len(response) = a /\ \A i \in 1..a : response[i].cmd = ReplyTo(w)[i]
             /\ Len(executed) = b /\ \A i \in 1..b : executed[i] = Asked[i]
             /\ ~GroupEnded => num = 1 /\ ~queued
             /\ queued => GroupEnded
  <1> DEFINE u == batch[k + 1]   a == Reach(batch, k)   b == Reach(Parts, k)   w == Stream
             h == HeadOf(u)   n == Len(CommandsOf(u))
  <1>1. /\ a \in Nat /\ Len(w) \in Nat /\ a + (h + n) <= Len(w) /\ w[a + 1] = u[1]
    BY PlaceIs
  <1>2. h \in {0, 1} /\ n \in Nat \ {0}
    BY PacketIs
  <1>3. /\ request = Remaining(w, a)
        /\ Len(response) = a /\ \A i \in 1..a : response[i].cmd = ReplyTo(w)[i]
        /\ Len(executed) = b /\ \A i \in 1..b : executed[i] = Asked[i]
    BY Zenon DEF Between, Taken
  <1>4. IF k = 0 THEN num = 1 /\ ~queued ELSE num = 0 /\ queued
    BY Zenon DEF Between
  <1>5. w \in Seq(Units)
    BY BatchIs
  <1> HIDE DEF u, a, b, w, h, n
  <1>6. a < Len(w)
    BY SMT, <1>1, <1>2
  <1>7. /\ request # <<>> /\ request[1] = w[a + 1] /\ Len(request) = Len(w) - a
        /\ Tail(request) = Remaining(w, a + 1)
        /\ Len(request) >= 2 =>
             request[2] = w[a + 2] /\ SubSeq(request, 3, Len(request)) = Remaining(w, a + 2)
    BY <1>1, <1>3, <1>5, <1>6, RestIs
  <1>8. (~GroupEnded => num = 1 /\ ~queued) /\ (queued => GroupEnded)
    BY <1>4 DEF GroupEnded
  <1> QED BY <1>1, <1>3, <1>7, <1>8 DEF u, a, b, w

\* A group begins.
LEMMA GroupBegins ==
  ASSUME TypeInv, batch \in Seq(Packets), WellFormed(batch), batch' = batch, executed' = executed,
         NEW k \in 0..(Len(batch) - 1), Between(k), HandleGroup
  PROVE  RunInv'
  <1> DEFINE u == batch[k + 1]   a == Reach(batch, k)   b == Reach(Parts, k)   w == Stream
             h == HeadOf(u)   c == CommandsOf(u)   n == Len(c)   g == Group("multi", request[1].n)
  <1>1. /\ a \in Nat /\ b \in Nat /\ Len(w) \in Nat /\ w[a + 1] = u[1]
        /\ \A j \in 1..n : w[a + (h + j)] = c[j]
    BY PlaceIs
  <1>2. /\ h \in {0, 1} /\ n \in Nat \ {0}
        /\ h = 0 => ~IsGroup(u[1])
        /\ h = 1 => u[1].n = n
    BY PacketIs
  <1>3. /\ request[1] = u[1]
        /\ Len(request) >= 2 =>
             request[2] = w[a + 2] /\ SubSeq(request, 3, Len(request)) = Remaining(w, a + 2)
        /\ Len(response) = a /\ \A i \in 1..a : response[i].cmd = ReplyTo(w)[i]
        /\ Len(executed) = b /\ \A i \in 1..b : executed[i] = Asked[i]
        /\ queued => GroupEnded
    BY BetweenIs
  <1>4. /\ Len(request) >= 2 /\ IsGroup(request[1]) /\ response' = Append(response, g)
        /\ command' = request[2] /\ request' = SubSeq(request, 3, Len(request))
        /\ num' = request[1].n /\ queued' = ((queued /\ ~GroupEnded) \/ request[1].cmd = "queue")
    BY Zenon DEF HandleGroup, Begin
  <1>5. response \in Seq(Replies)
    BY DEF TypeInv, BuffersOK
  <1>6. Len(w) >= a + 1 /\ ReplyTo(w)[a + 1] = "multi"
    <2>1. a + (h + n) <= Len(w)
      BY PlaceIs
    <2> HIDE DEF a, h, n, w
    <2>2. a + 1 \in 1..Len(w) /\ Len(w) >= a + 1
      BY SMT, <1>1, <1>2, <2>1
    <2>3. IsGroup(w[a + 1])
      BY <1>1, <1>3, <1>4
    <2> QED BY <2>2, <2>3 DEF ReplyTo
  <1>7. g.cmd = "multi"
    BY DEF Group
  <1>8. h = 1
    BY Zenon, <1>2, <1>3, <1>4
  <1>9. queued' = (u[1].cmd = "queue")
    BY Zenon, <1>3, <1>4
  <1> HIDE DEF u, a, b, w, h, c, n, g
  <1>10. Len(response') = a + 1 /\ \A i \in 1..(a + 1) : response'[i].cmd = ReplyTo(w)[i]
    <2>1. /\ Len(Append(response, g)) = a + 1 /\ Append(response, g)[a + 1] = g
          /\ \A i \in 1..a : Append(response, g)[i] = response[i]
          /\ \A i \in 1..(a + 1) : i \in 1..a \/ i = a + 1
      <3> HIDE DEF Replies
      <3> QED BY <1>1, <1>3, <1>5, OneMore
    <2> QED BY Zenon, <2>1, <1>3, <1>4, <1>6, <1>7
  <1>11. command' = c[1] /\ request' = Remaining(w, a + 2) /\ num' = n
    <2>1. 1 \in 1..n /\ 1 + 1 = 2
      BY SMT, <1>2
    <2>2. w[a + 2] = c[1]
      BY Zenon, <1>1, <1>8, <2>1
    <2> QED BY Zenon, <1>2, <1>3, <1>4, <1>8, <2>2
  <1>12. /\ 0 \in 0..(n - 1) /\ 0 + 1 = 1 /\ a + (h + 0 + 1) = a + 2 /\ a + (h + 0) = a + 1
         /\ b + 0 = b /\ n - 0 = n
    BY SMT, <1>1, <1>2, <1>8
  <1> DEFINE p == a + (h + 0 + 1)   q == a + (h + 0)   e == b + 0
  <1>13. /\ request' = Remaining(w, p)
         /\ Len(response') = q /\ \A i \in 1..q : response'[i].cmd = ReplyTo(w)[i]
         /\ num' = n - 0 /\ command' = c[0 + 1]
    BY Zenon, <1>10, <1>11, <1>12
  <1>14. Len(executed') = e /\ \A i \in 1..e : executed'[i] = Asked[i]
    BY Zenon, <1>3, <1>12
  <1>15. 0 \in 0..(n - 1)
    BY Zenon, <1>12
  <1> QED BY Zenon, <1>9, <1>13, <1>14, <1>15, RunFollows DEF u, a, b, w, h, c, n

\* What is known while a packet's commands are run: r of its units have been taken,
\* j of its commands have been run.
LEMMA InsideIs ==
  ASSUME TypeInv, batch \in Seq(Packets), NEW k \in 0..(Len(batch) - 1), NEW r, NEW j, Inside(k, r, j)
  PROVE  LET u == batch[k + 1]   a == Reach(batch, k)   b == Reach(Parts, k)   h == HeadOf(u)
         IN  /\ request = Remaining(Stream, a + r)
             /\ Len(response) = a + (h + j)
             /\ \A i \in 1..(a + (h + j)) : response[i].cmd = ReplyTo(Stream)[i]
             /\ Len(executed) = b + j /\ \A i \in 1..(b + j) : executed[i] = Asked[i]
             /\ num = Len(CommandsOf(u)) - j /\ queued = (u[1].cmd = "queue")
  BY Zenon DEF Inside, Taken

\* A place within a packet is one within the whole.
LEMMA Within ==
  ASSUME NEW a \in Nat, NEW b \in Nat, NEW l \in Nat, NEW m \in Nat, NEW n \in Nat, NEW h \in {0, 1},
         NEW j \in 0..(n - 1), a + (h + n) <= l, b + n <= m
  PROVE  /\ j \in Nat /\ j + 1 \in 1..n /\ a + (h + j) \in Nat /\ a + (h + j) < l
         /\ (a + (h + j)) + 1 = a + (h + (j + 1)) /\ (a + (h + j)) + 1 = a + (h + j + 1)
         /\ b + (j + 1) \in 1..m /\ n - j # 0
  BY SMT

LEMMA InsideBegins ==
  ASSUME TypeInv, batch \in Seq(Packets), WellFormed(batch), NEW k \in 0..(Len(batch) - 1),
         NEW j \in 1..(Len(CommandsOf(batch[k + 1])) - 1), Inside(k, HeadOf(batch[k + 1]) + j, j)
  PROVE  LET u == batch[k + 1]   a == Reach(batch, k)   b == Reach(Parts, k)   h == HeadOf(u)
             c == CommandsOf(u)
         IN  /\ request # <<>> /\ request[1] = c[j + 1]
             /\ Tail(request) = Remaining(Stream, a + (h + j + 1))
             /\ ~IsGroup(c[j + 1]) /\ Asked[b + (j + 1)] = c[j + 1] /\ b + (j + 1) \in 1..Len(Asked)
             /\ a + (h + j) < Len(Stream) /\ ~GroupEnded
  <1> DEFINE u == batch[k + 1]   a == Reach(batch, k)   b == Reach(Parts, k)   w == Stream
             h == HeadOf(u)   c == CommandsOf(u)   n == Len(c)
  <1>1. /\ a \in Nat /\ b \in Nat /\ Len(w) \in Nat /\ Len(Asked) \in Nat
        /\ a + (h + n) <= Len(w) /\ b + n <= Len(Asked)
        /\ \A i \in 1..n : w[a + (h + i)] = c[i] /\ Asked[b + i] = c[i]
    BY PlaceIs
  <1>2. /\ h \in {0, 1} /\ n \in Nat \ {0} /\ \A i \in 1..n : ~IsGroup(c[i])
    BY PacketIs
  <1>3. request = Remaining(w, a + (h + j)) /\ num = n - j
    <2>1. \A r : Inside(k, r, j) =>
            /\ request = Remaining(w, a + r) /\ num = n - j
      BY Zenon DEF Inside, Taken
    <2> QED BY Zenon, <2>1
  <1>4. w \in Seq(Units)
    BY BatchIs
  <1>5. j \in 1..(n - 1)
    OBVIOUS
  <1> HIDE DEF u, a, b, w, h, c, n
  <1>6. /\ j \in Nat /\ j + 1 \in 1..n /\ a + (h + j) \in Nat /\ a + (h + j) < Len(w)
        /\ (a + (h + j)) + 1 = a + (h + (j + 1)) /\ (a + (h + j)) + 1 = a + (h + j + 1)
        /\ b + (j + 1) \in 1..Len(Asked) /\ n - j # 0
    <2> DEFINE l == Len(w)   m == Len(Asked)
    <2>1. /\ a \in Nat /\ b \in Nat /\ l \in Nat /\ m \in Nat /\ n \in Nat /\ h \in {0, 1}
          /\ a + (h + n) <= l /\ b + n <= m
      BY Zenon, <1>1, <1>2
    <2>2. j \in 0..(n - 1)
      BY SMT, <1>5
    <2> HIDE DEF l, m
    <2>3. /\ j \in Nat /\ j + 1 \in 1..n /\ a + (h + j) \in Nat /\ a + (h + j) < l
          /\ (a + (h + j)) + 1 = a + (h + (j + 1)) /\ (a + (h + j)) + 1 = a + (h + j + 1)
          /\ b + (j + 1) \in 1..m /\ n - j # 0
      BY <2>1, <2>2, Within
    <2> QED BY Zenon, <2>3 DEF l, m
  <1> DEFINE p == a + (h + j)
  <1>7. request = Remaining(w, p) /\ p \in Nat /\ p < Len(w)
    BY <1>3, <1>6
  <1> HIDE DEF p
  <1>8. request # <<>> /\ request[1] = w[p + 1] /\ Tail(request) = Remaining(w, p + 1)
    BY <1>4, <1>7, RestIs
  <1>9. request[1] = c[j + 1] /\ Tail(request) = Remaining(w, a + (h + j + 1))
    BY Zenon, <1>1, <1>6, <1>8 DEF p
  <1>10. ~GroupEnded
    BY Zenon, <1>3, <1>6 DEF GroupEnded
  <1> QED BY Zenon, <1>1, <1>2, <1>6, <1>8, <1>9, <1>10 DEF u, a, b, w, h, c, n

\* A packet of one command begins.
LEMMA PlainBegins ==
  ASSUME TypeInv, batch \in Seq(Packets), WellFormed(batch), batch' = batch, executed' = executed,
         NEW k \in 0..(Len(batch) - 1), Between(k), HandlePlain
  PROVE  RunInv'
  <1> DEFINE u == batch[k + 1]   a == Reach(batch, k)   b == Reach(Parts, k)   w == Stream
             h == HeadOf(u)   c == CommandsOf(u)   n == Len(c)
  <1>1. /\ a \in Nat /\ b \in Nat
    BY PlaceIs
  <1>2. /\ h \in {0, 1} /\ n \in Nat \ {0}
        /\ h = 0 => n = 1 /\ u[1].cmd # "queue"
        /\ h = 1 => IsGroup(u[1])
        /\ \A j \in 1..n : c[j] = u[h + j]
    BY PacketIs
  <1>3. /\ request[1] = u[1] /\ Tail(request) = Remaining(w, a + 1)
        /\ Len(response) = a /\ \A i \in 1..a : response[i].cmd = ReplyTo(w)[i]
        /\ Len(executed) = b /\ \A i \in 1..b : executed[i] = Asked[i]
        /\ ~GroupEnded => num = 1 /\ ~queued
        /\ queued => GroupEnded
    BY BetweenIs
  <1>4. /\ ~IsGroup(request[1]) /\ response' = response
        /\ command' = request[1] /\ request' = Tail(request)
        /\ num' = (IF GroupEnded THEN 1 ELSE num) /\ queued' = (queued /\ ~GroupEnded)
    BY Zenon DEF HandlePlain, Begin
  <1>5. h = 0 /\ n = 1 /\ u[1].cmd # "queue"
    BY Zenon, <1>2, <1>3, <1>4
  <1>6. num' = 1 /\ queued' = (u[1].cmd = "queue")
    BY Zenon, <1>3, <1>4, <1>5
  <1> HIDE DEF u, a, b, w, h, c, n
  <1>7. /\ 0 \in 0..(n - 1) /\ 0 + 1 = 1 /\ a + (h + 0 + 1) = a + 1 /\ a + (h + 0) = a
        /\ b + 0 = b /\ n - 0 = 1 /\ 1 \in 1..n /\ h + 1 = 1
    BY SMT, <1>1, <1>5
  <1>8. command' = c[0 + 1]
    BY Zenon, <1>2, <1>3, <1>4, <1>7
  <1>9. /\ request' = Remaining(w, a + (h + 0 + 1)) /\ Len(response') = a + (h + 0)
        /\ \A i \in 1..(a + (h + 0)) : response'[i].cmd = ReplyTo(w)[i]
        /\ Len(executed') = b + 0 /\ \A i \in 1..(b + 0) : executed'[i] = Asked[i]
        /\ num' = n - 0
    BY Zenon, <1>3, <1>4, <1>6, <1>7
  <1> QED BY Zenon, <1>6, <1>7, <1>8, <1>9, RunFollows DEF u, a, b, w, h, c, n

\* The next command of a group begins.
LEMMA PlainGoesOn ==
  ASSUME TypeInv, batch \in Seq(Packets), WellFormed(batch), batch' = batch, executed' = executed,
         NEW k \in 0..(Len(batch) - 1), NEW j \in 1..(Len(CommandsOf(batch[k + 1])) - 1),
         Inside(k, HeadOf(batch[k + 1]) + j, j), HandlePlain
  PROVE  RunInv'
  <1> DEFINE u == batch[k + 1]   a == Reach(batch, k)   b == Reach(Parts, k)   w == Stream
             h == HeadOf(u)   c == CommandsOf(u)   n == Len(c)
  <1>1. /\ request[1] = c[j + 1] /\ Tail(request) = Remaining(w, a + (h + j + 1)) /\ ~GroupEnded
    BY InsideBegins
  <1>2. /\ response' = response
        /\ command' = request[1] /\ request' = Tail(request)
        /\ num' = (IF GroupEnded THEN 1 ELSE num) /\ queued' = (queued /\ ~GroupEnded)
    BY Zenon DEF HandlePlain, Begin
  <1>3. /\ Len(response) = a + (h + j) /\ \A i \in 1..(a + (h + j)) : response[i].cmd = ReplyTo(w)[i]
        /\ Len(executed) = b + j /\ \A i \in 1..(b + j) : executed[i] = Asked[i]
        /\ num = n - j /\ queued = (u[1].cmd = "queue")
    BY InsideIs
  <1>4. j \in 0..(n - 1)
    BY SMT
  <1>5. num' = n - j /\ queued' = (u[1].cmd = "queue")
    BY Zenon, <1>1, <1>2, <1>3
  <1> HIDE DEF u, a, b, w, h, c, n
  <1> QED BY Zenon, <1>1, <1>2, <1>3, <1>4, <1>5, RunFollows DEF u, a, b, w, h, c, n

\* How a request ends: with an error, or with a reply to each of its units.
LEMMA ErrorFollows ==
  ASSUME batch' = batch, batch \in Seq(Packets), executed' \in Seq(Commands), response' = <<Bad>>,
         Len(executed') <= Len(Asked), \A i \in 1..Len(executed') : executed'[i] = Asked[i],
         (\E i \in 1..Len(Asked) : Asked[i] = Bad) \/ Len(Stream) > ResponseSpace
  PROVE  DoneInv'
  <1>1. Asked \in Seq(Commands)
    <2>1. Asked \in Seq(Units) /\ Units \subseteq Commands
      BY BatchIs DEF Commands
    <2> QED BY <2>1
  <1>2. IsPrefix(executed', Asked)
    BY <1>1, BeginsSo
  <1>3. IsPrefix(executed, Asked)'
    BY Zenon, <1>2, BatchStays
  <1>4. ((\E i \in 1..Len(Asked) : Asked[i] = Bad) \/ Len(Stream) > ResponseSpace)'
    BY Zenon, BatchStays
  <1> QED BY Zenon, <1>3, <1>4 DEF DoneInv

LEMMA RepliesFollow ==
  ASSUME batch' = batch, batch \in Seq(Packets), executed' \in Seq(Commands), response' # <<Bad>>,
         Len(executed') = Len(Asked), \A i \in 1..Len(executed') : executed'[i] = Asked[i],
         Len(response') = Len(Stream),
         \A i \in 1..Len(response') : response'[i].cmd = ReplyTo(Stream)[i]
  PROVE  DoneInv'
  <1>1. Asked \in Seq(Commands)
    <2>1. Asked \in Seq(Units) /\ Units \subseteq Commands
      BY BatchIs DEF Commands
    <2> QED BY <2>1
  <1>2. executed' = Asked
    <2>1. Len(executed') <= Len(Asked)
      <3>1. Len(Asked) \in Nat
        BY <1>1
      <3> QED BY SMT, <3>1
    <2> QED BY <1>1, <2>1, BeginsSo
  <1>3. [i \in 1..Len(response') |-> response'[i].cmd] = ReplyTo(Stream)
    BY Zenon DEF ReplyTo
  <1>4. (executed = Asked)' /\ ([i \in 1..Len(response) |-> response[i].cmd] = ReplyTo(Stream))'
    BY Zenon, <1>2, <1>3, BatchStays DEF ReplyTo
  <1> QED BY Zenon, <1>4 DEF DoneInv

LEMMA BadIsNoGroup == ~IsGroup(Bad)
  BY DEF IsGroup, Bad

\* Why a request is given up before a packet, or within it.
LEMMA BetweenBreaks ==
  ASSUME TypeInv, batch \in Seq(Packets), executed \in Seq(Commands), WellFormed(batch),
         batch' = batch, executed' = executed,
         NEW k \in 0..(Len(batch) - 1), Between(k), HandleBroken
  PROVE  DoneInv'
  <1> DEFINE u == batch[k + 1]   a == Reach(batch, k)   b == Reach(Parts, k)   w == Stream
             h == HeadOf(u)   c == CommandsOf(u)   n == Len(c)
  <1>1. /\ a \in Nat /\ b \in Nat /\ Len(w) \in Nat /\ Len(Asked) \in Nat
        /\ a + (h + n) <= Len(w) /\ b + n <= Len(Asked)
        /\ \A i \in 1..n : w[a + (h + i)] = c[i] /\ Asked[b + i] = c[i]
    BY PlaceIs
  <1>2. /\ h \in {0, 1} /\ n \in Nat \ {0}
        /\ h = 0 => ~IsGroup(u[1])
        /\ h = 1 => IsGroup(u[1])
        /\ \A i \in 1..n : c[i] = u[h + i] /\ ~IsGroup(c[i])
    BY PacketIs
  <1>3. /\ request # <<>> /\ request[1] = u[1] /\ Len(request) = Len(w) - a
        /\ Len(request) >= 2 => request[2] = w[a + 2]
        /\ Len(response) = a
        /\ Len(executed) = b /\ \A i \in 1..b : executed[i] = Asked[i]
    BY BetweenIs
  <1>4. response' = <<Bad>>
    BY Zenon DEF HandleBroken, Fail
  <1>5. \/ request[1] = Bad
        \/ IsGroup(request[1]) /\ Len(request) = 1
        \/ Len(request) > 1 /\ IsGroup(request[1]) /\ (IsGroup(request[2]) \/ request[2] = Bad)
        \/ Len(request) > 1 /\ IsGroup(request[1]) /\ Len(response) + 1 = ResponseSpace
        \/ Len(response) = ResponseSpace
    BY Zenon, <1>3 DEF HandleBroken
  <1> HIDE DEF u, a, b, w, h, c, n
  <1>6. /\ b <= Len(Asked) /\ a < Len(w) /\ 1 \in 1..n /\ b + 1 \in 1..Len(Asked) /\ h + 1 \in {1, 2}
    BY SMT, <1>1, <1>2
  <1>7. Asked[b + 1] = c[1] /\ c[1] = u[h + 1] /\ ~IsGroup(c[1]) /\ w[a + (h + 1)] = c[1]
    BY Zenon, <1>1, <1>2, <1>6
  <1>8. CASE h = 0
    <2>1. h + 1 = 1
      BY <1>8
    <2>2. u[1] = c[1] /\ ~IsGroup(u[1])
      BY Zenon, <1>7, <1>8, <2>1, <1>2
    <2>3. request[1] = Bad \/ Len(response) = ResponseSpace
      BY Zenon, <1>3, <1>5, <2>2
    <2>4. CASE request[1] = Bad
      BY <1>1, <1>3, <1>4, <1>6, <1>7, <2>2, <2>4, ErrorFollows
    <2>5. CASE Len(response) = ResponseSpace
      <3>1. Len(w) > ResponseSpace
        BY SMT, <1>1, <1>3, <1>6, <2>5
      <3> QED BY Zenon, <1>3, <1>4, <1>6, <3>1, ErrorFollows DEF w
    <2> QED BY <2>3, <2>4, <2>5
  <1>9. CASE h = 1
    <2>1. /\ a + (h + 1) = a + 2 /\ Len(w) >= a + 2 /\ Len(w) - a >= 2
      BY SMT, <1>1, <1>2, <1>9
    <2>2. IsGroup(request[1]) /\ request[2] = c[1] /\ ~IsGroup(request[2]) /\ Len(request) # 1
      <3>1. IsGroup(request[1]) /\ request[2] = c[1]
        BY Zenon, <1>2, <1>3, <1>7, <1>9, <2>1
      <3>2. Len(request) # 1
        BY SMT, <1>1, <1>3, <2>1
      <3> QED BY Zenon, <3>1, <3>2, <1>7
    <2>3. \/ request[2] = Bad
          \/ Len(response) + 1 = ResponseSpace
          \/ Len(response) = ResponseSpace
      BY Zenon, <1>5, <2>2, BadIsNoGroup
    <2>4. CASE request[2] = Bad
      BY Zenon, <1>3, <1>4, <1>6, <1>7, <2>2, <2>4, ErrorFollows
    <2>5. CASE Len(response) + 1 = ResponseSpace \/ Len(response) = ResponseSpace
      <3>1. Len(w) > ResponseSpace
        BY SMT, <1>1, <1>3, <2>1, <2>5
      <3> QED BY Zenon, <1>3, <1>4, <1>6, <3>1, ErrorFollows DEF w
    <2> QED BY <2>3, <2>4, <2>5
  <1> QED BY <1>2, <1>8, <1>9

LEMMA InsideBreaks ==
  ASSUME TypeInv, batch \in Seq(Packets), executed \in Seq(Commands), WellFormed(batch),
         batch' = batch, executed' = executed,
         NEW k \in 0..(Len(batch) - 1), NEW j \in 1..(Len(CommandsOf(batch[k + 1])) - 1),
         Inside(k, HeadOf(batch[k + 1]) + j, j), HandleBroken
  PROVE  DoneInv'
  <1> DEFINE u == batch[k + 1]   a == Reach(batch, k)   b == Reach(Parts, k)   w == Stream
             h == HeadOf(u)   c == CommandsOf(u)
  <1>1. /\ request # <<>> /\ request[1] = c[j + 1] /\ ~IsGroup(c[j + 1])
        /\ Asked[b + (j + 1)] = c[j + 1] /\ b + (j + 1) \in 1..Len(Asked)
        /\ a + (h + j) < Len(w)
    BY InsideBegins
  <1>2. /\ Len(response) = a + (h + j)
        /\ Len(executed) = b + j /\ \A i \in 1..(b + j) : executed[i] = Asked[i]
    BY InsideIs
  <1>3. response' = <<Bad>>
    BY Zenon DEF HandleBroken, Fail
  <1>4. request[1] = Bad \/ Len(response) = ResponseSpace
    BY Zenon, <1>1 DEF HandleBroken
  <1>5. b \in Nat /\ Len(Asked) \in Nat /\ a \in Nat /\ Len(w) \in Nat
    BY PlaceIs
  <1> HIDE DEF u, a, b, w, h, c
  <1>6. Len(executed) <= Len(Asked)
    BY SMT, <1>1, <1>2, <1>5
  <1>7. Len(response) = ResponseSpace => Len(w) > ResponseSpace
    BY SMT, <1>1, <1>2, <1>5, Sizes
  <1>8. (\E i \in 1..Len(Asked) : Asked[i] = Bad) \/ Len(w) > ResponseSpace
    BY Zenon, <1>1, <1>4, <1>7
  <1>9. \A i \in 1..Len(executed) : executed[i] = Asked[i]
    BY Zenon, <1>2
  <1> QED BY Zenon, <1>3, <1>6, <1>8, <1>9, ErrorFollows DEF w

\* Between two commands the invariant leads to what holds while one runs, or to the
\* error.
LEMMA HandleKeepsRequest ==
  ASSUME TypeInv, batch \in Seq(Packets), executed \in Seq(Commands), WellFormed(batch), HandleInv, Handle
  PROVE  /\ HandleGroup \/ HandlePlain => RunInv'
         /\ HandleBroken => DoneInv'
  <1>1. batch' = batch /\ executed' = executed
    BY Zenon DEF Handle
  <1>2. PICK k \in 0..(Len(batch) - 1) :
          \/ Between(k)
          \/ \E j \in 1..(Len(CommandsOf(batch[k + 1])) - 1) : Inside(k, HeadOf(batch[k + 1]) + j, j)
    BY Zenon DEF HandleInv
  <1>3. CASE Between(k)
    BY Zenon, <1>1, <1>3, GroupBegins, PlainBegins, BetweenBreaks
  <1>4. ASSUME NEW j \in 1..(Len(CommandsOf(batch[k + 1])) - 1), Inside(k, HeadOf(batch[k + 1]) + j, j)
        PROVE  /\ HandleGroup \/ HandlePlain => RunInv'
               /\ HandleBroken => DoneInv'
    <2>1. ~HandleGroup
      BY Zenon, <1>4, InsideBegins DEF HandleGroup
    <2>2. HandlePlain => RunInv'
      BY Zenon, <1>1, <1>4, PlainGoesOn
    <2>3. HandleBroken => DoneInv'
      BY Zenon, <1>1, <1>4, InsideBreaks
    <2> QED BY Zenon, <2>1, <2>2, <2>3
  <1> QED BY Zenon, <1>2, <1>3, <1>4

LEMMA ReplyIsNoError ==
  ASSUME NEW c, NEW status
  PROVE  [cmd |-> c, status |-> status] # Bad
  <1>1. DOMAIN [cmd |-> c, status |-> status] = {"cmd", "status"} /\ DOMAIN Bad = {"cmd"}
    BY DEF Bad
  <1>2. "status" \in {"cmd", "status"} /\ "status" \notin {"cmd"}
    OBVIOUS
  <1> QED BY Zenon, <1>1, <1>2

LEMMA LastIsNoError ==
  ASSUME NEW s, NEW n \in Nat, Len(s) = n + 1, s[n + 1] # Bad
  PROVE  s # <<Bad>>
  <1> SUFFICES ASSUME s = <<Bad>> PROVE FALSE
    OBVIOUS
  <1>1. Len(s) = 1 /\ s[1] = Bad
    OBVIOUS
  <1>2. n + 1 = 1
    BY Zenon, <1>1
  <1> QED BY Zenon, <1>1, <1>2

\* The count of a group goes down by one.
LEMMA CountsDown ==
  ASSUME NEW m \in 1..(Wrap - 1)
  PROVE  (m + Wrap - 1) % Wrap = m - 1
  <1>1. Wrap \in Nat /\ Wrap > 1
    BY Sizes
  <1>2. m + Wrap - 1 = (m - 1) + Wrap /\ m - 1 \in Nat /\ m - 1 < Wrap
    BY SMT, <1>1
  <1>3. \A x \in Nat : x < Wrap => (x + Wrap) % Wrap = x
    BY SMT, <1>1
  <1> QED BY Zenon, <1>2, <1>3

\* A command is done: the next one follows, of its packet or of the next, or all
\* have been run.
LEMMA ReplyKeepsRequest ==
  ASSUME TypeInv, batch \in Seq(Packets), executed \in Seq(Commands), WellFormed(batch), RunInv,
         NEW status, Reply(status)
  PROVE  /\ executed' \in Seq(Commands) /\ batch' = batch
         /\ \/ pc' = "handle" /\ HandleInv'
            \/ pc' = "send" /\ DoneInv'
  <1>1. PICK k \in 0..(Len(batch) - 1) : \E j \in 0..(Len(CommandsOf(batch[k + 1])) - 1) :
          Inside(k, HeadOf(batch[k + 1]) + j + 1, j) /\ command = CommandsOf(batch[k + 1])[j + 1]
    BY Zenon DEF RunInv
  <1> DEFINE u == batch[k + 1]   a == Reach(batch, k)   b == Reach(Parts, k)   w == Stream
             h == HeadOf(u)   c == CommandsOf(u)   n == Len(c)
  <1>2. PICK j \in 0..(n - 1) : Inside(k, h + j + 1, j) /\ command = c[j + 1]
    BY Zenon, <1>1
  <1>3. /\ a \in Nat /\ b \in Nat /\ Len(w) \in Nat /\ Len(Asked) \in Nat
        /\ a + (h + n) <= Len(w) /\ b + n <= Len(Asked)
        /\ k + 1 = Len(batch) => a + (h + n) = Len(w) /\ b + n = Len(Asked)
        /\ Reach(batch, k + 1) = a + (h + n) /\ Reach(Parts, k + 1) = b + n
        /\ \A i \in 1..n : w[a + (h + i)] = c[i] /\ Asked[b + i] = c[i]
    BY PlaceIs
  <1>4. /\ h \in {0, 1} /\ n \in Nat \ {0}
        /\ \A i \in 1..n : ~IsGroup(c[i])
        /\ u[1].cmd = "queue" <=> k + 1 < Len(batch)
    BY PacketIs
  <1>5. /\ request = Remaining(w, a + (h + j + 1))
        /\ Len(response) = a + (h + j) /\ \A i \in 1..(a + (h + j)) : response[i].cmd = ReplyTo(w)[i]
        /\ Len(executed) = b + j /\ \A i \in 1..(b + j) : executed[i] = Asked[i]
        /\ num = n - j /\ queued = (u[1].cmd = "queue")
    BY <1>2, InsideIs
  <1>6. /\ executed' = Append(executed, command)
        /\ UNCHANGED <<request, queued, batch>>
    BY Zenon DEF Reply
  <1> DEFINE x == [cmd |-> command.cmd, status |-> status]
  <1>7. \/ /\ Len(response) < ResponseSpace /\ response' = Append(response, x)
           /\ num' = (num + Wrap - 1) % Wrap
           /\ pc' = IF num' > 0 \/ queued THEN "handle" ELSE "send"
        \/ /\ ~(Len(response) < ResponseSpace) /\ response' = <<Bad>> /\ pc' = "send"
    BY Zenon DEF Reply
  <1>8. /\ response \in Seq(Replies) /\ Len(response) <= ResponseSpace /\ command \in Commands
        /\ num \in 0..(Wrap - 1)
    BY DEF TypeInv, BuffersOK, ThreadOK
  <1>9. Len(batch) \in Nat
    BY BatchIs
  <1>10. x.cmd = command.cmd /\ x # Bad
    BY ReplyIsNoError
  <1>11. ReplyTo(w) = [i \in 1..Len(w) |-> IF IsGroup(w[i]) THEN "multi" ELSE w[i].cmd]
    BY DEF ReplyTo
  <1> HIDE DEF u, a, b, w, h, c, n, x
  <1> DEFINE q == a + (h + j)   e == b + j
  <1>12. /\ q \in Nat /\ e \in Nat /\ j + 1 \in 1..n /\ q + 1 = a + (h + (j + 1)) /\ e + 1 = b + (j + 1)
         /\ q + 1 \in 1..Len(w) /\ q < Len(w) /\ e + 1 <= Len(Asked) /\ q + 1 = a + (h + j + 1)
    BY SMT, <1>3, <1>4
  <1>13. Len(response) = q /\ Len(executed) = e
    BY Zenon, <1>5
  <1>14. w[q + 1] = command /\ Asked[e + 1] = command /\ ReplyTo(w)[q + 1] = command.cmd
    <2>1. w[q + 1] = command /\ Asked[e + 1] = command /\ ~IsGroup(command)
      <3>1. /\ w[a + (h + (j + 1))] = c[j + 1] /\ Asked[b + (j + 1)] = c[j + 1]
            /\ ~IsGroup(c[j + 1])
        BY Zenon, <1>3, <1>4, <1>12
      <3>2. q + 1 = a + (h + (j + 1)) /\ e + 1 = b + (j + 1) /\ command = c[j + 1]
        BY Zenon, <1>2, <1>12
      <3> HIDE DEF q, e
      <3> QED BY Zenon, <3>1, <3>2
    <2> QED BY Zenon, <2>1, <1>11, <1>12
  <1>15. /\ executed' \in Seq(Commands) /\ Len(executed') = e + 1
         /\ \A i \in 1..(e + 1) : executed'[i] = Asked[i]
    <2>1. /\ Len(Append(executed, command)) = e + 1 /\ Append(executed, command)[e + 1] = command
          /\ \A i \in 1..e : Append(executed, command)[i] = executed[i]
          /\ \A i \in 1..(e + 1) : i \in 1..e \/ i = e + 1
      <3> HIDE DEF e
      <3> QED BY <1>12, <1>13, OneMore
    <2>2. executed' \in Seq(Commands)
      BY <1>6, <1>8
    <2> QED BY Zenon, <2>1, <2>2, <1>5, <1>6, <1>14
  <1>16. CASE ~(Len(response) < ResponseSpace)
    <2>1. response' = <<Bad>> /\ pc' = "send"
      BY Zenon, <1>7, <1>16
    <2>2. Len(w) > ResponseSpace
      BY SMT, <1>3, <1>8, <1>12, <1>13, <1>16, Sizes
    <2>3. DoneInv'
      BY Zenon, <1>6, <1>12, <1>15, <2>1, <2>2, ErrorFollows DEF w
    <2> QED BY Zenon, <1>6, <1>15, <2>1, <2>3
  <1>17. CASE Len(response) < ResponseSpace
    <2>1. /\ response' = Append(response, x) /\ num' = (num + Wrap - 1) % Wrap
          /\ pc' = IF num' > 0 \/ queued THEN "handle" ELSE "send"
      BY Zenon, <1>7, <1>17
    <2>2. num' = n - (j + 1)
      <3>1. num \in 1..(Wrap - 1)
        BY SMT, <1>4, <1>5, <1>8
      <3>2. (num + Wrap - 1) % Wrap = num - 1
        BY <3>1, CountsDown
      <3>3. num - 1 = n - (j + 1)
        BY SMT, <1>4, <1>5
      <3> QED BY Zenon, <2>1, <3>2, <3>3
    <2>3. /\ Len(response') = q + 1 /\ response'[q + 1] = x
          /\ \A i \in 1..(q + 1) : response'[i].cmd = ReplyTo(w)[i]
      <3>1. /\ Len(Append(response, x)) = q + 1 /\ Append(response, x)[q + 1] = x
            /\ \A i \in 1..q : Append(response, x)[i] = response[i]
            /\ \A i \in 1..(q + 1) : i \in 1..q \/ i = q + 1
        <4> HIDE DEF q, Replies
        <4> QED BY <1>8, <1>12, <1>13, OneMore
      <3> QED BY Zenon, <3>1, <2>1, <1>5, <1>10, <1>14
    <2>4. response' # <<Bad>>
      <3> HIDE DEF q
      <3> QED BY <1>10, <1>12, <2>3, LastIsNoError
    <2>5. request' = Remaining(w, q + 1) /\ queued' = (u[1].cmd = "queue")
      BY Zenon, <1>5, <1>6, <1>12
    <2>6. CASE j + 1 \in 1..(n - 1)
      <3>1. num' > 0
        BY SMT, <2>2, <2>6, <1>4
      <3>2. pc' = "handle"
        BY Zenon, <2>1, <3>1
      <3>3. HandleInv'
        BY Zenon, <1>6, <1>12, <1>15, <2>2, <2>3, <2>5, <2>6, HandleFollows DEF u, a, b, w, h, c, n
      <3> QED BY Zenon, <1>6, <1>15, <3>2, <3>3
    <2>7. CASE j + 1 = n
      <3>1. num' = 0 /\ ~(num' > 0) /\ q + 1 = a + (h + n) /\ e + 1 = b + n
        <4>1. q + 1 = a + (h + n) /\ e + 1 = b + n
          BY Zenon, <2>7, <1>12
        <4>2. n \in Nat /\ num' = n - n
          BY Zenon, <2>2, <2>7, <1>4
        <4>3. num' = 0 /\ ~(num' > 0)
          BY SMT, <4>2
        <4> QED BY Zenon, <4>1, <4>3
      <3>2. CASE queued
        <4>1. k + 1 < Len(batch)
          BY Zenon, <1>4, <1>5, <3>2
        <4>2. k + 1 \in 0..(Len(batch) - 1) /\ k + 1 # 0
          BY SMT, <4>1, <1>9
        <4>3. pc' = "handle" /\ queued'
          BY Zenon, <1>6, <2>1, <3>2
        <4>4. HandleInv'
          <5>1. q + 1 = Reach(batch, k + 1) /\ e + 1 = Reach(Parts, k + 1)
            BY Zenon, <1>3, <3>1
          <5> QED BY Zenon, <1>6, <1>15, <2>3, <2>5, <3>1, <4>2, <4>3, <5>1, NextFollows DEF w
        <4> QED BY Zenon, <1>6, <1>15, <4>3, <4>4
      <3>3. CASE ~queued
        <4>1. k + 1 = Len(batch)
          <5>1. ~(k + 1 < Len(batch))
            BY Zenon, <1>4, <1>5, <3>3
          <5> QED BY SMT, <5>1, <1>9
        <4>2. q + 1 = Len(w) /\ e + 1 = Len(Asked)
          BY Zenon, <1>3, <3>1, <4>1
        <4>3. pc' = "send"
          BY Zenon, <2>1, <3>1, <3>3
        <4>4. DoneInv'
          BY Zenon, <1>6, <1>15, <2>3, <2>4, <4>2, RepliesFollow DEF w
        <4> QED BY Zenon, <1>6, <1>15, <4>3, <4>4
      <3> QED BY <3>2, <3>3
    <2>8. j + 1 \in 1..(n - 1) \/ j + 1 = n
      BY SMT, <1>4
    <2> QED BY <2>6, <2>7, <2>8
  <1> QED BY <1>16, <1>17

\* A command goes on.
LEMMA RunStays ==
  ASSUME TypeInv, batch \in Seq(Packets), RunInv,
         UNCHANGED <<batch, request, response, executed, num, queued, command>>
  PROVE  RunInv'
  <1>1. PICK k \in 0..(Len(batch) - 1) : \E j \in 0..(Len(CommandsOf(batch[k + 1])) - 1) :
          Inside(k, HeadOf(batch[k + 1]) + j + 1, j) /\ command = CommandsOf(batch[k + 1])[j + 1]
    BY Zenon DEF RunInv
  <1>2. PICK j \in 0..(Len(CommandsOf(batch[k + 1])) - 1) :
          Inside(k, HeadOf(batch[k + 1]) + j + 1, j) /\ command = CommandsOf(batch[k + 1])[j + 1]
    BY Zenon, <1>1
  <1> DEFINE p == Reach(batch, k) + (HeadOf(batch[k + 1]) + j + 1)
             q == Reach(batch, k) + (HeadOf(batch[k + 1]) + j)
             e == Reach(Parts, k) + j
  <1>3. /\ request = Remaining(Stream, p)
        /\ Len(response) = q /\ \A i \in 1..q : response[i].cmd = ReplyTo(Stream)[i]
        /\ Len(executed) = e /\ \A i \in 1..e : executed[i] = Asked[i]
        /\ num = Len(CommandsOf(batch[k + 1])) - j /\ queued = (batch[k + 1][1].cmd = "queue")
    BY <1>2, InsideIs
  <1> QED BY Zenon, <1>2, <1>3, RunFollows

LEMMA RequestIsSame ==
  ASSUME batch' = batch
  PROVE  /\ Open(batch)' <=> Open(batch)
         /\ WellFormed(batch)' <=> WellFormed(batch)
         /\ Stream' = Stream
  BY Zenon DEF Open, WellFormed, Stream

\* What Open and WellFormed have in common.
LEMMA OpenBegins ==
  ASSUME batch \in Seq(Packets), NEW units \in Packets, batch' = Append(batch, units)
  PROVE  /\ batch' \in Seq(Packets) /\ Stream' = Stream \o units
         /\ Stream \in Seq(Units) /\ units \in Seq(Units)
         /\ Len(Stream) \in Nat /\ Len(units) \in Nat /\ Len(Stream') = Len(Stream) + Len(units)
         /\ Open(batch') => Open(batch) /\ units # <<>> /\ units[1].cmd = "queue"
         /\ WellFormed(batch') => Open(batch)
         /\ Open(batch') \/ WellFormed(batch') => Len(Stream') <= RequestSpace
  <1> DEFINE n == Len(batch)   b == Append(batch, units)
  <1>1. /\ batch \in Seq(Seq(Units)) /\ Stream \in Seq(Units) /\ n \in Nat
    BY BatchIs
  <1>2. units \in Seq(Units)
    BY PacketsAreLegal
  <1>3. b \in Seq(Packets)
    OBVIOUS
  <1>4. FlattenSeq(b) = FlattenSeq(batch) \o units
    BY <1>1, <1>2, FlattenAppends
  <1>5. Stream' = FlattenSeq(b) /\ Stream = FlattenSeq(batch)
    BY Zenon DEF Stream
  <1>6. Len(Stream) \in Nat /\ Len(units) \in Nat /\ Len(Stream \o units) = Len(Stream) + Len(units)
    BY <1>1, <1>2, ConcatProperties, LenProperties
  <1>7. Len(b) = n + 1 /\ b[n + 1] = units /\ \A i \in 1..n : b[i] = batch[i]
    BY <1>1
  <1>8. /\ n + 1 \in 1..Len(b) /\ \A i \in 1..n : i \in 1..Len(b) /\ i < Len(b)
    BY SMT, <1>1, <1>7
  <1> HIDE DEF b, n
  <1>9. Open(b) => Len(FlattenSeq(b)) <= RequestSpace /\ units # <<>> /\ units[1].cmd = "queue"
                   /\ \A i \in 1..n : batch[i] # <<>> /\ batch[i][1].cmd = "queue"
    BY Zenon, <1>7, <1>8 DEF Open
  <1>10. WellFormed(b) => Len(FlattenSeq(b)) <= RequestSpace
                   /\ \A i \in 1..n : batch[i] # <<>> /\ batch[i][1].cmd = "queue"
    BY Zenon, <1>7, <1>8 DEF WellFormed
  <1>11. Len(FlattenSeq(b)) <= RequestSpace => Len(Stream) <= RequestSpace
    <2>1. Len(FlattenSeq(b)) = Len(Stream) + Len(units)
      BY <1>4, <1>5, <1>6
    <2> DEFINE x == Len(FlattenSeq(b))   y == Len(Stream)   z == Len(units)
    <2> HIDE DEF x, y, z
    <2>2. x <= RequestSpace => y <= RequestSpace
      BY SMT, <2>1, <1>6, Sizes DEF x, y, z
    <2> QED BY <2>2 DEF x, y
  <1>12. Open(b) \/ WellFormed(b) => Open(batch)
    BY Zenon, <1>5, <1>9, <1>10, <1>11 DEF Open, n
  <1>13. batch' = b
    BY DEF b
  <1> QED BY Zenon, <1>1, <1>2, <1>3, <1>4, <1>5, <1>6, <1>9, <1>10, <1>12, <1>13

\* All that has been received is there before the first packet is looked at.
LEMMA FirstFollows ==
  ASSUME batch' \in Seq(Packets), Len(batch') > 0, request' = Stream', response' = <<>>,
         executed' = <<>>, num' = 1, ~queued'
  PROVE  HandleInv'
  <1>1. /\ batch' \in Seq(Seq(Units)) /\ Parts' \in Seq(Seq(Units)) /\ Len(batch') \in Nat
        /\ Len(Parts') \in Nat
    BY PartsAre DEF Parts
  <1>2. Stream' \in Seq(Units)
    BY <1>1, FlattenIsSequence DEF Stream
  <1>3. Reach(batch', 0) = 0 /\ Reach(Parts', 0) = 0
    <2>1. \A s \in Seq(Seq(Units)) : 0 \in 0..Len(s)
      BY LenProperties
    <2> QED BY <1>1, <2>1, ReachGrows
  <1>4. Remaining(Stream', 0) = Stream'
    BY <1>2 DEF Remaining
  <1>5. Len(<<>>) = 0 /\ 0 \in 0..(Len(batch') - 1) /\ \A i \in 1..0 : FALSE
    BY <1>1
  <1>6. Between(0)'
    BY Zenon, <1>3, <1>4, <1>5 DEF Between, Taken, Reach
  <1> QED BY Zenon, <1>5, <1>6 DEF HandleInv

LEMMA LeastOfTwo ==
  ASSUME NEW a \in Int, NEW b \in Int, a <= b
  PROVE  Min({a, b}) = a
  <1>1. \E x \in {a, b} : \A y \in {a, b} : x <= y
    BY SMT
  <1>2. Min({a, b}) \in {a, b} /\ \A y \in {a, b} : Min({a, b}) <= y
    BY Zenon, <1>1 DEF Min
  <1> QED BY SMT, <1>2

LEMMA ReceiveKeepsRequest ==
  ASSUME TypeInv, RequestInv, NEW units \in Packets, Receive(units)
  PROVE  RequestInv'
  <1>1. /\ pc = "recv" /\ batch' = Append(batch, units) /\ executed' = executed
        /\ request' = request \o SubSeq(units, 1, Min({Len(units), Room}))
        /\ \E wait \in MayWait(units) :
             \/ wait /\ pc' = "recv"
             \/ ~wait /\ pc' = "handle" /\ response' = <<>> /\ num' = 1 /\ queued' = FALSE
    BY Zenon DEF Receive
  <1>2. /\ batch \in Seq(Packets) /\ executed \in Seq(Commands)
        /\ Open(batch) => request = Stream /\ executed = <<>>
    BY Zenon, <1>1 DEF RequestInv, Waiting
  <1>3. /\ batch' \in Seq(Packets) /\ Stream' = Stream \o units
        /\ Stream \in Seq(Units) /\ units \in Seq(Units)
        /\ Len(Stream) \in Nat /\ Len(units) \in Nat /\ Len(Stream') = Len(Stream) + Len(units)
        /\ Open(batch') => Open(batch) /\ units # <<>> /\ units[1].cmd = "queue"
        /\ WellFormed(batch') => Open(batch)
        /\ Open(batch') \/ WellFormed(batch') => Len(Stream') <= RequestSpace
    BY Zenon, <1>1, <1>2, OpenBegins
  <1>4. ASSUME Open(batch), Len(Stream') <= RequestSpace
        PROVE  /\ request' = Stream' /\ executed' = <<>> /\ Room >= Len(units)
    <2> DEFINE x == Len(Stream)   y == Len(units)
    <2>1. request = Stream
      BY Zenon, <1>2, <1>4
    <2>2. Room = RequestSpace - x
      BY <2>1 DEF Room
    <2>3. x \in Nat /\ y \in Nat /\ x + y <= RequestSpace
      BY <1>3, <1>4
    <2>4. SubSeq(units, 1, y) = units
      BY <1>3
    <2> HIDE DEF x, y
    <2>5. Room >= y /\ Room \in Int /\ y \in Int /\ y <= Room
      BY SMT, <2>2, <2>3, Sizes
    <2>6. Min({y, Room}) = y
      BY <2>5, LeastOfTwo
    <2>7. request' = Stream \o units
      BY Zenon, <1>1, <2>1, <2>4, <2>6 DEF y
    <2> QED BY Zenon, <1>1, <1>2, <1>3, <1>4, <2>5, <2>7 DEF y
  <1>5. Open(batch') => pc' = "recv"
    <2> SUFFICES ASSUME Open(batch') PROVE pc' = "recv"
      OBVIOUS
    <2>1. Room >= Len(units) /\ units # <<>> /\ units[1].cmd = "queue"
      BY Zenon, <1>3, <1>4
    <2>2. Len(units) > 0
      BY <1>3, <2>1
    <2>3. Room # 0
      BY SMT, <1>3, <2>1, <2>2
    <2>4. MayWait(units) = {TRUE}
      BY Zenon, <2>1, <2>3 DEF MayWait
    <2> QED BY Zenon, <1>1, <2>4
  <1>6. WellFormed(batch') /\ pc' = "handle" => HandleInv'
    <2> SUFFICES ASSUME WellFormed(batch'), pc' = "handle" PROVE HandleInv'
      OBVIOUS
    <2>1. request' = Stream' /\ executed' = <<>>
      BY Zenon, <1>3, <1>4
    <2>2. response' = <<>> /\ num' = 1 /\ ~queued'
      BY Zenon, <1>1
    <2>3. Len(batch') > 0
      BY <1>1, <1>2
    <2> QED BY <1>3, <2>1, <2>2, <2>3, FirstFollows
  <1>7. pc' \in {"recv", "handle"}
    BY Zenon, <1>1
  <1>8. Open(batch') => request' = Stream' /\ executed' = <<>>
    BY Zenon, <1>3, <1>4
  <1>9. /\ Open(batch)' <=> Open(batch')
        /\ WellFormed(batch)' <=> WellFormed(batch')
    BY Zenon DEF Open, WellFormed
  <1>10. Waiting' <=> pc' \in {"find", "recv", "reset"}
    BY Zenon DEF Waiting
  <1> QED BY Zenon, <1>1, <1>2, <1>3, <1>5, <1>6, <1>7, <1>8, <1>9, <1>10 DEF RequestInv


\* The thread waits for a moment between two commands, or before its answer.
LEMMA HandleStays ==
  ASSUME TypeInv, batch \in Seq(Packets), HandleInv,
         UNCHANGED <<batch, request, response, executed, num, queued>>
  PROVE  HandleInv'
  <1>1. PICK k \in 0..(Len(batch) - 1) :
          \/ Between(k)
          \/ \E j \in 1..(Len(CommandsOf(batch[k + 1])) - 1) : Inside(k, HeadOf(batch[k + 1]) + j, j)
    BY Zenon DEF HandleInv
  <1>2. CASE Between(k)
    <2> DEFINE p == Reach(batch, k)   e == Reach(Parts, k)
    <2>1. /\ request = Remaining(Stream, p)
          /\ Len(response) = p /\ \A i \in 1..p : response[i].cmd = ReplyTo(Stream)[i]
          /\ Len(executed) = e /\ \A i \in 1..e : executed[i] = Asked[i]
          /\ IF k = 0 THEN num = 1 /\ ~queued ELSE num = 0 /\ queued
      BY Zenon, <1>2 DEF Between, Taken
    <2> QED BY Zenon, <2>1, NextFollows
  <1>3. ASSUME NEW j \in 1..(Len(CommandsOf(batch[k + 1])) - 1), Inside(k, HeadOf(batch[k + 1]) + j, j)
        PROVE  HandleInv'
    <2> DEFINE q == Reach(batch, k) + (HeadOf(batch[k + 1]) + j)
               e == Reach(Parts, k) + j
    <2>1. /\ request = Remaining(Stream, q)
          /\ Len(response) = q /\ \A i \in 1..q : response[i].cmd = ReplyTo(Stream)[i]
          /\ Len(executed) = e /\ \A i \in 1..e : executed[i] = Asked[i]
          /\ num = Len(CommandsOf(batch[k + 1])) - j /\ queued = (batch[k + 1][1].cmd = "queue")
      BY <1>3, InsideIs
    <2> QED BY Zenon, <2>1, HandleFollows
  <1> QED BY Zenon, <1>1, <1>2, <1>3

\* A request that nobody waits for any more, or none.
LEMMA NoRequestKeeps ==
  ASSUME batch' = <<>>, executed' = <<>>, request' = <<>>, pc' \in {"find", "recv"}
  PROVE  RequestInv'
  <1>1. /\ batch' \in Seq(Packets) /\ executed' \in Seq(Commands) /\ Len(batch') = 0
    OBVIOUS
  <1>2. Stream' = <<>>
    BY FlattenOfNone DEF Stream
  <1>3. ~WellFormed(batch)'
    BY Zenon DEF WellFormed
  <1>4. Waiting'
    BY Zenon DEF Waiting
  <1> QED BY Zenon, <1>1, <1>2, <1>3, <1>4 DEF RequestInv

\* The thread waits, or the session ends: the buffers stay as they are.
LEMMA WaitingKeepsRequest ==
  ASSUME RequestInv, UNCHANGED <<batch, executed, request>>,
         pc' \in {"find", "recv", "reset"}, Waiting \/ ~Open(batch)
  PROVE  RequestInv'
  <1>1. Waiting' /\ pc' \notin {"handle", "refused", "run", "wait", "send"}
    BY Zenon DEF Waiting
  <1> QED BY Zenon, <1>1, RequestIsSame DEF RequestInv

\* A command goes on, or its reply is given.
LEMMA RunKeepsRequest ==
  ASSUME TypeInv, RequestInv, pc \in {"refused", "run", "wait"},
         \/ \E status : Reply(status)
         \/ /\ UNCHANGED <<batch, request, response, executed, num, queued, command>>
            /\ pc' \in {"run", "wait"}
  PROVE  RequestInv'
  <1>1. /\ ~Open(batch) /\ batch \in Seq(Packets) /\ executed \in Seq(Commands)
        /\ WellFormed(batch) => RunInv
    BY Zenon DEF RequestInv, Waiting
  <1>2. CASE \E status : Reply(status)
    <2>1. /\ batch' = batch /\ pc' \in {"handle", "send"} /\ executed' = Append(executed, command)
      BY Zenon, <1>2 DEF Reply
    <2>2. executed' \in Seq(Commands)
      <3>1. command \in Commands
        BY DEF TypeInv, ThreadOK
      <3> QED BY <1>1, <2>1, <3>1
    <2>3. ~Waiting'
      BY Zenon, <2>1 DEF Waiting
    <2>4. WellFormed(batch) => \/ pc' = "handle" /\ HandleInv'
                               \/ pc' = "send" /\ DoneInv'
      BY Zenon, <1>1, <1>2, ReplyKeepsRequest
    <2> QED BY Zenon, <1>1, <2>1, <2>2, <2>3, <2>4, RequestIsSame DEF RequestInv
  <1>3. CASE /\ UNCHANGED <<batch, request, response, executed, num, queued, command>>
             /\ pc' \in {"run", "wait"}
    <2>1. ~Waiting'
      BY Zenon, <1>3 DEF Waiting
    <2>2. WellFormed(batch) => RunInv'
      BY Zenon, <1>1, <1>3, RunStays
    <2> QED BY Zenon, <1>1, <1>3, <2>1, <2>2, RequestIsSame DEF RequestInv
  <1> QED BY Zenon, <1>2, <1>3

LEMMA HandlingKeepsRequest ==
  ASSUME TypeInv, RequestInv, Handle
  PROVE  RequestInv'
  <1>1. /\ pc = "handle" /\ UNCHANGED <<batch, executed>>
        /\ HandleGroup \/ HandlePlain \/ HandleBroken
    BY Zenon DEF Handle
  <1>2. /\ ~Open(batch) /\ batch \in Seq(Packets) /\ executed \in Seq(Commands)
        /\ WellFormed(batch) => HandleInv
    BY Zenon, <1>1 DEF RequestInv, Waiting
  <1>3. HandleGroup \/ HandlePlain => pc' \in {"refused", "run"}
    BY Zenon DEF HandleGroup, HandlePlain, Begin
  <1>4. HandleBroken => pc' = "send"
    BY Zenon DEF HandleBroken, Fail
  <1>5. ~Waiting'
    BY Zenon, <1>1, <1>3, <1>4 DEF Waiting
  <1>6. WellFormed(batch) => /\ HandleGroup \/ HandlePlain => RunInv'
                             /\ HandleBroken => DoneInv'
    BY Zenon, <1>2, HandleKeepsRequest
  <1> QED BY Zenon, <1>1, <1>2, <1>3, <1>4, <1>5, <1>6, RequestIsSame DEF RequestInv

LEMMA NextKeepsRequest ==
  ASSUME TypeInv, RequestInv, [Next]_vars
  PROVE  RequestInv'
  <1>1. CASE Handle
    BY Zenon, <1>1, HandlingKeepsRequest
  <1>2. CASE RefusedReply \/ StepFails \/ StepsDone
    <2>1. pc \in {"refused", "run", "wait"} /\ \E status : Reply(status)
      BY Zenon, <1>2 DEF RefusedReply, StepFails, StepsDone
    <2> QED BY Zenon, <2>1, RunKeepsRequest
  <1>3. CASE Control
    <2>1. /\ pc \in {"refused", "run", "wait"}
          /\ \/ \E status : Reply(status)
             \/ /\ UNCHANGED <<batch, request, response, executed, num, queued, command>>
                /\ pc' \in {"run", "wait"}
      BY Zenon, <1>3 DEF Control
    <2> QED BY Zenon, <2>1, RunKeepsRequest
  <1>4. CASE Poll
    <2>1. pc = "wait"
      BY Zenon, <1>4 DEF Poll
    <2>2. (\E status : Reply(status)) \/ \E ms : Waits(ms)
      BY Zenon, <1>4 DEF Poll, Match
    <2>3. \/ \E status : Reply(status)
          \/ /\ UNCHANGED <<batch, request, response, executed, num, queued, command>>
             /\ pc' \in {"run", "wait"}
      BY Zenon, <2>1, <2>2 DEF Waits, parse
    <2> QED BY Zenon, <2>1, <2>3, RunKeepsRequest
  <1>5. CASE Step
    <2>1. /\ UNCHANGED <<batch, request, response, executed, num, queued, command, pc>>
          /\ pc \in {"run", "reset"}
      BY Zenon, <1>5 DEF Step, parse, history
    <2>2. CASE pc = "run"
      BY Zenon, <2>1, <2>2, RunKeepsRequest
    <2>3. CASE pc = "reset"
      BY Zenon, <2>1, <2>3, WaitingKeepsRequest DEF Waiting
    <2> QED BY Zenon, <2>1, <2>2, <2>3
  <1>6. CASE ResetDone \/ Answered
    BY Zenon, <1>6, NoRequestKeeps DEF ResetDone, Answered
  <1>7. CASE ResetFails \/ Find
    BY Zenon, <1>7, WaitingKeepsRequest DEF ResetFails, Find, Waiting, history
  <1>8. CASE Shutdown
    <2>1. /\ pc \in {"recv", "send"} /\ pc' = "reset"
          /\ UNCHANGED <<batch, executed, request>>
      BY Zenon, <1>8 DEF Shutdown, history
    <2>2. Waiting \/ ~Open(batch)
      BY Zenon DEF RequestInv
    <2> QED BY Zenon, <2>1, <2>2, WaitingKeepsRequest
  <1>9. CASE \E u \in Packets : Receive(u)
    BY Zenon, <1>9, ReceiveKeepsRequest
  <1>10. CASE UsbStatus \/ UNCHANGED vars
    <2>1. UNCHANGED <<batch, request, response, executed, num, queued, command, pc>>
      BY Zenon, <1>10 DEF UsbStatus, vars, parse, running, history
    <2>2. CASE Waiting
      BY Zenon, <2>1, <2>2, WaitingKeepsRequest DEF Waiting
    <2>3. CASE ~Waiting
      <3>1. /\ ~Open(batch) /\ ~Waiting'
        BY Zenon, <2>1, <2>3 DEF RequestInv, Waiting
      <3>2. CASE pc \in {"refused", "run", "wait"}
        <4>1. WellFormed(batch) => RunInv'
          BY Zenon, <2>1, <3>2, RunStays DEF RequestInv
        <4> QED BY Zenon, <2>1, <3>1, <3>2, <4>1, RequestIsSame DEF RequestInv
      <3>3. CASE pc \notin {"refused", "run", "wait"}
        <4>1. WellFormed(batch) /\ HandleInv => HandleInv'
          BY Zenon, <2>1, HandleStays DEF RequestInv
        <4>2. DoneInv => DoneInv'
          BY Zenon, <2>1, BatchStays DEF DoneInv
        <4> QED BY Zenon, <2>1, <3>1, <3>3, <4>1, <4>2, RequestIsSame DEF RequestInv
      <3> QED BY <3>2, <3>3
    <2> QED BY <2>2, <2>3
  <1> QED BY Zenon, <1>1, <1>2, <1>3, <1>4, <1>5, <1>6, <1>7, <1>8, <1>9, <1>10 DEF Next, Running

\* A well-formed request is carried out as it stands, over however many packets it
\* is queued: every command once and in order, each with its reply; if one is
\* unknown or the replies do not fit, the answer is the error alone, and those
\* before it have been carried out (io.c:48-94, transport_usb.c).
THEOREM RequestsAreDone == Spec => []RequestIsDone
  <1>1. Init => TypeInv /\ RequestInv
    <2> SUFFICES ASSUME Init PROVE TypeInv /\ RequestInv
      OBVIOUS
    <2>1. /\ batch = <<>> /\ executed = <<>> /\ request = <<>> /\ pc = "find"
      BY Zenon DEF Init
    <2>2. batch \in Seq(Packets) /\ executed \in Seq(Commands) /\ Stream = <<>>
      BY <2>1, FlattenOfNone DEF Stream
    <2>3. ~WellFormed(batch) /\ Waiting
      BY Zenon, <2>1 DEF WellFormed, Waiting
    <2> QED BY Zenon, <2>1, <2>2, <2>3, InitTypes DEF RequestInv
  <1>2. TypeInv /\ RequestInv /\ [Next]_vars => TypeInv' /\ RequestInv'
    BY Zenon, TypesFollow, NextKeepsRequest
  <1>3. RequestInv => RequestIsDone
    BY Zenon DEF RequestInv, DoneInv, Stream, RequestIsDone
  <1> QED BY <1>1, <1>2, <1>3, PTL DEF Spec

-----------------------------------------------------------------------------
(***************************************************************************)
(* Numbers in a buffer: what is put in is what is got out, whatever        *)
(* follows.                                                                *)
(***************************************************************************)
\* Four digits in base 64 make up a number.
LEMMA Digits ==
  ASSUME NEW v \in Nat
  PROVE  /\ v = (v \div 64) * 64 + (v % 64)
         /\ v \div 64 = (v \div 4096) * 64 + ((v \div 64) % 64)
         /\ v \div 4096 = (v \div 262144) * 64 + ((v \div 4096) % 64)
         /\ v % 64 \in 0..63 /\ (v \div 64) % 64 \in 0..63 /\ (v \div 4096) % 64 \in 0..63
         /\ v \div 64 \in Nat /\ v \div 4096 \in Nat /\ v \div 262144 \in Nat
  BY SMT

\* The first byte announces the number of bytes, the others are recognisable, and
\* every one fits into a byte.
LEMMA EncodeIsBytes ==
  ASSUME NEW v \in CodePoint
  PROVE  /\ Encode(v) \in Seq(Byte)
         /\ Len(Encode(v)) = Size(v)
         /\ Announced(Encode(v)[1]) = Size(v)
         /\ \A i \in 2..Size(v) : IsMore(Encode(v)[i])
  <1>v. v \in Nat /\ v < 1114112
    BY SMT DEF CodePoint
  <1>a. \A w \in {v, v \div 64, v \div 4096} : More(w) \in 128..191
    BY SMT, <1>v, Digits DEF More
  <1>m. \A x \in 128..191 : x \in Byte /\ IsMore(x)
    BY SMT DEF Byte, IsMore
  <1>1. CASE v < 128
    <2>1. Size(v) = 1 /\ Encode(v) = <<v>>
      BY SMT, <1>1, <1>v DEF Encode, Size
    <2>2. v \in Byte /\ Announced(v) = 1
      BY SMT, <1>1, <1>v DEF Byte, Announced
    <2> QED BY SMT, <2>1, <2>2
  <1>2. CASE v >= 128 /\ v < 2048
    <2>1. Size(v) = 2 /\ Encode(v) = <<192 + (v \div 64), More(v)>>
      BY SMT, <1>2, <1>v DEF Encode, Size
    <2>2. 192 + (v \div 64) \in Byte /\ Announced(192 + (v \div 64)) = 2
      BY SMT, <1>2, <1>v DEF Byte, Announced
    <2>3. More(v) \in Byte /\ IsMore(More(v))
      BY <1>a, <1>m
    <2> HIDE DEF Byte, IsMore, More, Announced
    <2> QED BY SMT, <2>1, <2>2, <2>3
  <1>3. CASE v >= 2048 /\ v < 65536
    <2>1. Size(v) = 3 /\ Encode(v) = <<224 + (v \div 4096), More(v \div 64), More(v)>>
      BY SMT, <1>3, <1>v DEF Encode, Size
    <2>2. 224 + (v \div 4096) \in Byte /\ Announced(224 + (v \div 4096)) = 3
      BY SMT, <1>3, <1>v DEF Byte, Announced
    <2>3. /\ More(v) \in Byte /\ IsMore(More(v))
          /\ More(v \div 64) \in Byte /\ IsMore(More(v \div 64))
      BY <1>a, <1>m
    <2> QED BY SMT, <2>1, <2>2, <2>3
  <1>4. CASE v >= 65536
    <2>1. Size(v) = 4 /\ Encode(v) = <<240 + (v \div 262144), More(v \div 4096), More(v \div 64),
                                       More(v)>>
      BY SMT, <1>4, <1>v DEF Encode, Size
    <2>2. 240 + (v \div 262144) \in Byte /\ Announced(240 + (v \div 262144)) = 4
      BY SMT, <1>4, <1>v DEF Byte, Announced
    <2>3. /\ More(v) \in Byte /\ IsMore(More(v))
          /\ More(v \div 64) \in Byte /\ IsMore(More(v \div 64))
          /\ More(v \div 4096) \in Byte /\ IsMore(More(v \div 4096))
      BY <1>a, <1>m
    <2> QED BY SMT, <2>1, <2>2, <2>3
  <1>5. v < 128 \/ (v >= 128 /\ v < 2048) \/ (v >= 2048 /\ v < 65536) \/ v >= 65536
    BY SMT, <1>v
  <1> QED BY <1>1, <1>2, <1>3, <1>4, <1>5

\* The bytes of a number, with anything behind them, have its value.
LEMMA ValueOfEncode ==
  ASSUME NEW v \in CodePoint, NEW buf,
         \A i \in 1..Size(v) : buf[i] = Encode(v)[i]
  PROVE  Value(buf) = v
  <1>v. v \in Nat /\ v < 1114112
    BY SMT DEF CodePoint
  <1>1. CASE v < 128
    <2>1. Size(v) = 1 /\ Encode(v) = <<v>>
      BY SMT, <1>1, <1>v DEF Encode, Size
    <2>2. buf[1] = v
      BY SMT, <2>1
    <2>3. Announced(v) = 1
      BY SMT, <1>1, <1>v DEF Announced
    <2> QED BY SMT, <2>2, <2>3 DEF Value
  <1>2. CASE v >= 128 /\ v < 2048
    <2>1. Size(v) = 2 /\ Encode(v) = <<192 + (v \div 64), More(v)>>
      BY SMT, <1>2, <1>v DEF Encode, Size
    <2>2. buf[1] = 192 + (v \div 64) /\ buf[2] = More(v)
      BY SMT, <2>1
    <2>3. Announced(192 + (v \div 64)) = 2
      BY SMT, <1>2, <1>v DEF Announced
    <2>4. Value(buf) = ((192 + (v \div 64)) - 192) * 64 + (More(v) - 128)
      BY SMT, <2>2, <2>3 DEF Value
    <2> QED BY SMT, <2>4, <1>v, Digits DEF More
  <1>3. CASE v >= 2048 /\ v < 65536
    <2>1. Size(v) = 3 /\ Encode(v) = <<224 + (v \div 4096), More(v \div 64), More(v)>>
      BY SMT, <1>3, <1>v DEF Encode, Size
    <2>2. buf[1] = 224 + (v \div 4096) /\ buf[2] = More(v \div 64) /\ buf[3] = More(v)
      BY SMT, <2>1
    <2>3. Announced(224 + (v \div 4096)) = 3
      BY SMT, <1>3, <1>v DEF Announced
    <2>4. Value(buf) = ((224 + (v \div 4096)) - 224) * 4096 + (More(v \div 64) - 128) * 64
                         + (More(v) - 128)
      BY SMT, <2>2, <2>3 DEF Value
    <2> QED BY SMT, <2>4, <1>v, Digits DEF More
  <1>4. CASE v >= 65536
    <2>1. Size(v) = 4 /\ Encode(v) = <<240 + (v \div 262144), More(v \div 4096), More(v \div 64),
                                       More(v)>>
      BY SMT, <1>4, <1>v DEF Encode, Size
    <2>2. /\ buf[1] = 240 + (v \div 262144) /\ buf[2] = More(v \div 4096)
          /\ buf[3] = More(v \div 64) /\ buf[4] = More(v)
      BY SMT, <2>1
    <2>3. Announced(240 + (v \div 262144)) = 4
      BY SMT, <1>4, <1>v DEF Announced
    <2>4. Value(buf) = ((240 + (v \div 262144)) - 240) * 262144 + (More(v \div 4096) - 128) * 4096
                         + (More(v \div 64) - 128) * 64 + (More(v) - 128)
      BY SMT, <2>2, <2>3 DEF Value
    <2> QED BY SMT, <2>4, <1>v, Digits DEF More
  <1>5. v < 128 \/ (v >= 128 /\ v < 2048) \/ (v >= 2048 /\ v < 65536) \/ v >= 65536
    BY SMT, <1>v
  <1> QED BY <1>1, <1>2, <1>3, <1>4, <1>5

\* A number put into a buffer is got out of it again, and all that was put behind
\* it is left: requests and responses need nothing between their parts.
THEOREM PutIsGot ==
  ASSUME NEW v \in CodePoint, NEW space \in Nat, Size(v) <= space, NEW rest \in Seq(Byte)
  PROVE  /\ Put(<<>>, space, v).ok
         /\ Get(Put(<<>>, space, v).buf \o rest) = [ok |-> TRUE, val |-> v, buf |-> rest]
  <1> DEFINE code == Encode(v)
             all  == code \o rest
  <1>c. code \in Seq(Byte) /\ Len(code) = Size(v) /\ Size(v) \in 1..4
    BY SMT, EncodeIsBytes DEF Size
  <1>n. Size(v) \in Nat /\ Size(v) >= 1
    BY SMT DEF Size
  <1>1. Put(<<>>, space, v) = [ok |-> TRUE, buf |-> code]
    <2>1. Len(<<>>) + Size(v) <= space
      BY SMT, <1>c
    <2>2. <<>> \o code = code
      BY SMT, <1>c
    <2> QED BY <2>1, <2>2 DEF Put
  <1>2. all \in Seq(Byte) /\ Len(all) = Size(v) + Len(rest)
    <2> HIDE DEF code
    <2> QED BY SMT, <1>c, <1>n
  <1>8. SubSeq(all, Size(v) + 1, Len(all)) = rest
    <2> HIDE DEF code
    <2> QED BY SMT, <1>c, <1>n
  <1>3. \A i \in 1..Size(v) : all[i] = code[i]
    <2> HIDE DEF code
    <2> QED BY SMT, <1>c, <1>n
  <1>f. all[1] = code[1] /\ \A i \in 2..Size(v) : all[i] = code[i]
    <2>1. 1 \in 1..Size(v) /\ \A i \in 2..Size(v) : i \in 1..Size(v)
      BY SMT, <1>n
    <2> QED BY <2>1, <1>3
  <1>4. Announced(all[1]) = Size(v)
    BY <1>f, EncodeIsBytes
  <1>5. Begins(all)
    <2>1. Len(all) >= 1 /\ Size(v) # 0 /\ Size(v) <= Len(all)
      <3>1. Len(rest) \in Nat
        OBVIOUS
      <3> HIDE DEF all
      <3> QED BY SMT, <3>1, <1>2, <1>n
    <2>2. \A i \in 2..Size(v) : IsMore(all[i])
      BY <1>f, EncodeIsBytes
    <2> QED BY <2>1, <2>2, <1>4 DEF Begins
  <1>6. Value(all) = v
    BY <1>3, ValueOfEncode
  <1>7. Get(all) = [ok |-> TRUE, val |-> v, buf |-> rest]
    <2> HIDE DEF all
    <2> QED BY Zenon, <1>8, <1>4, <1>5, <1>6 DEF Get
  <1>9. Put(<<>>, space, v).ok /\ Put(<<>>, space, v).buf = code
    BY SMT, <1>1
  <1> QED BY Zenon, <1>7, <1>9

\* No number's bytes begin another's: where one ends is never in doubt.
THEOREM NoAmbiguity ==
  ASSUME NEW v \in CodePoint, NEW w \in CodePoint,
         NEW s \in Seq(Byte), NEW t \in Seq(Byte), Encode(v) \o s = Encode(w) \o t
  PROVE  v = w /\ s = t
  <1>4. 4 \in Nat /\ Size(v) <= 4 /\ Size(w) <= 4
    BY SMT DEF Size
  <1>1. Get(Put(<<>>, 4, v).buf \o s) = [ok |-> TRUE, val |-> v, buf |-> s]
    BY <1>4, PutIsGot
  <1>2. Get(Put(<<>>, 4, w).buf \o t) = [ok |-> TRUE, val |-> w, buf |-> t]
    BY <1>4, PutIsGot
  <1>3. Put(<<>>, 4, v).buf = Encode(v) /\ Put(<<>>, 4, w).buf = Encode(w)
    <2>1. \A u \in CodePoint : Size(u) <= 4 => Put(<<>>, 4, u).buf = Encode(u)
      <3> SUFFICES ASSUME NEW u \in CodePoint, Size(u) <= 4
                   PROVE  Put(<<>>, 4, u).buf = Encode(u)
        OBVIOUS
      <3>1. Encode(u) \in Seq(Byte) /\ Len(<<>>) + Size(u) <= 4
        BY SMT, EncodeIsBytes DEF Size
      <3>2. <<>> \o Encode(u) = Encode(u)
        BY SMT, <3>1
      <3> QED BY <3>1, <3>2 DEF Put
    <2> QED BY <2>1, <1>4
  <1>5. [ok |-> TRUE, val |-> v, buf |-> s] = [ok |-> TRUE, val |-> w, buf |-> t]
    BY Zenon, <1>1, <1>2, <1>3
  <1> QED BY SMT, <1>5
=============================================================================
