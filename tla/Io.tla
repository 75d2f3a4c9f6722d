---------------------------------- MODULE Io ----------------------------------
(***************************************************************************)
(* The I/O driver of firmware/src/io: its thread (io.c), which receives    *)
(* requests over USB (transport_usb.c), runs the commands they hold, alone *)
(* or as groups, and answers them, and the commands that configure and     *)
(* control pins (commands_pinctrl.c, commands_gpio.c).                     *)
(*                                                                         *)
(* A command works through a list of steps, each of which configures one   *)
(* GPIO or multiplexes one pin, so that what the pins do in between is     *)
(* seen.  A unit of the request buffer is a command or the head of a       *)
(* group; the GPIO of a pin has the pin's number.  Info stands for the     *)
(* commands that only report or wait (commands_general.c and the caps),    *)
(* Bad for one that is unknown, malformed or cut short.                    *)
(***************************************************************************)
EXTENDS Naturals, SequencesExt

CONSTANTS
  Gpios, Functions,    (* number of pins, and what else than "gpio" they can be     *)
  Wrap,                (* number of values of num_commands                          *)
  RequestSpace, ResponseSpace, (* units that the two buffers take up               *)
  Packets,             (* what the host may send                                    *)
  MaxPackets,          (* bound: packets of a request                               *)
  MaxWait,             (* bound: milliseconds of a wait                             *)
  Failing              (* whether a step may fail                                   *)

ASSUME SizesAreLegal ==
  /\ Gpios \in Nat /\ Wrap \in Nat \ {0, 1}
  /\ RequestSpace \in Nat \ {0} /\ ResponseSpace \in Nat \ {0}
  /\ MaxPackets \in Nat /\ MaxWait \in Nat /\ Failing \in BOOLEAN /\ "gpio" \notin Functions

Pins == 0..(Gpios - 1)
Pulls == {"up", "down"}
Info == [cmd |-> "info"]
Bad  == [cmd |-> "bad"]
Default == [cmd |-> "default"]
PinsCfg(p, f, q) == [cmd |-> "pins_cfg", pin |-> p, func |-> f, pulls |-> q]
GpioCfg(p, o, q) == [cmd |-> "gpio_cfg", pin |-> p, out |-> o, pulls |-> q]

\* Of a gpio_ctrl: the level to write, or none; whether to toggle; the level to
\* wait for, or none, and how long.
GpioCtrl(p, w, t, want, ms) ==
  [cmd |-> "gpio_ctrl", pin |-> p, write |-> w, toggle |-> t, want |-> want, ms |-> ms]

Group(kind, n) == [cmd |-> kind, n |-> n]
IsGroup(u) == u.cmd \in {"multi", "queue"}

Units == UNION {{p[i] : i \in DOMAIN p} : p \in Packets}

\* A function may be any, counts and times are as wide as their fields.
ASSUME PacketsAreLegal ==
  /\ Packets \subseteq Seq(Units)
  /\ \A u \in Units :
       /\ u.cmd \in {"pins_cfg", "gpio_cfg"} => u.pin \in Pins /\ u.pulls \subseteq Pulls
       /\ u.cmd = "gpio_cfg" => u.out \in BOOLEAN
       /\ u.cmd = "gpio_ctrl" => u.pin \in Pins /\ u.ms \in 0..MaxWait
       /\ IsGroup(u) => u.n \in 0..(Wrap - 1)

VARIABLES
  configured,          (* io_usb_configured                                         *)
  request,             (* io->buf.request: units not read yet                       *)
  response,            (* io->buf.response: replies                                 *)
  num, queued,         (* num_commands, queued_commands                             *)
  pc,                  (* where it is; io->transport = NULL at "find" and "reset"    *)
  command,             (* the command being run                                     *)
  steps,               (* its steps still to come                                   *)
  left,                (* milliseconds until its wait is over                       *)
  flags,               (* io->pinctrls: pulls of each pin in each function          *)
  mux, gpio,           (* what pins and GPIOs are configured as                     *)
  level,               (* levels given to GPIOs                                     *)
  batch, executed,     (* history: packets and commands since the last answer       *)
  outputs,             (* history: pins that commands make outputs                  *)
  broken               (* history: a step failed since all pins were set            *)

parse   == <<num, queued>>
running == <<command, steps, left>>
hw      == <<flags, mux, gpio, level>>
history == <<batch, executed, outputs, broken>>
vars == <<configured, request, response, parse, pc, running, hw, history>>

Input == [out |-> FALSE, pulls |-> {}]

Init ==
  /\ configured = FALSE
  /\ request = <<>> /\ response = <<>> /\ num = 0 /\ queued = FALSE
  /\ pc = "find" /\ command = Info /\ steps = <<>> /\ left = 0
  /\ flags = [x \in Pins \X (Functions \cup {"gpio"}) |-> {}]
  /\ mux = [p \in Pins |-> [func |-> "gpio", pulls |-> {}]]
  /\ gpio = [p \in Pins |-> Input]
  /\ level = [p \in Pins |-> 0]
  /\ batch = <<>> /\ executed = <<>> /\ outputs = {} /\ broken = FALSE

(***************************************************************************)
(* The outside: the USB host comes and goes.                               *)
(***************************************************************************)
UsbStatus ==
  /\ configured' = ~configured
  /\ UNCHANGED <<request, response, parse, pc, running, hw, history>>

(***************************************************************************)
(* io_thread_fn.                                                           *)
(***************************************************************************)
Find ==
  /\ pc = "find" /\ configured
  /\ pc' = "recv"
  /\ UNCHANGED <<configured, request, response, parse, running, hw, history>>

\* As Room, whatever the buffer holds.
FullRoom == RequestSpace

Room == RequestSpace - Len(request)

\* The first unit of the packet tells whether others follow it.  An empty packet
\* leaves what was at its place before: that decides.
MayWait(units) ==
  CASE Room = 0 -> {FALSE}
    [] units = <<>> -> BOOLEAN
    [] OTHER -> {units[1].cmd = "queue"}

\* The USB transfer of a packet completes; what does not fit is lost.
Receive(units) ==
  /\ pc = "recv" /\ configured /\ Len(batch) < MaxPackets
  /\ request' = request \o SubSeq(units, 1, Min({Len(units), Room}))
  /\ batch' = Append(batch, units)
  /\ \E wait \in MayWait(units) :
       IF wait THEN pc' = "recv" /\ UNCHANGED <<response, parse>>
       ELSE pc' = "handle" /\ response' = <<>> /\ num' = 1 /\ queued' = FALSE
  /\ UNCHANGED <<configured, running, hw, executed, outputs, broken>>

Answered ==
  /\ pc = "send" /\ configured /\ pc' = "recv"
  /\ request' = <<>> /\ response' = <<>>
  /\ num' = 0 /\ queued' = FALSE /\ batch' = <<>> /\ executed' = <<>>
  /\ UNCHANGED <<configured, running, hw, outputs, broken>>

GpioStep(p, o, q) == [dev |-> "gpio", pin |-> p, out |-> o, pulls |-> q]
MuxStep(p, f) == [dev |-> "mux", pin |-> p, func |-> f]

\* All pins are inputs before they are GPIOs.
DefaultSteps ==
  [i \in 1..(2 * Gpios) |-> IF i <= Gpios THEN GpioStep(i - 1, FALSE, {})
                                         ELSE MuxStep(i - 1 - Gpios, "gpio")]

\* The session ends while the thread waits for a transfer: io_reset begins.
Shutdown ==
  /\ pc \in {"recv", "send"} /\ ~configured
  /\ pc' = "reset"
  /\ steps' = DefaultSteps /\ num' = 0 /\ queued' = FALSE
  /\ UNCHANGED <<configured, request, response, command, left, hw, history>>

\* io_reset is over; after a failure the buffers keep what they hold.
ResetDone ==
  /\ pc = "reset" /\ steps = <<>> /\ pc' = "find"
  /\ request' = <<>> /\ response' = <<>>
  /\ batch' = <<>> /\ executed' = <<>> /\ outputs' = {} /\ broken' = FALSE
  /\ UNCHANGED <<configured, parse, running, hw>>

ResetFails ==
  /\ Failing /\ pc = "reset" /\ steps # <<>>
  /\ pc' = "find" /\ steps' = <<>>
  /\ broken' = TRUE
  /\ UNCHANGED <<configured, request, response, parse, command, left, hw, batch, executed,
                 outputs>>

(***************************************************************************)
(* io_handle_request: one action per pass of its loop.                     *)
(***************************************************************************)
Fail ==
  /\ response' = <<Bad>> /\ pc' = "send"
  /\ UNCHANGED <<request, parse, command, steps>>

\* As GroupEnded, with the check for it missing.
NeverEnded == FALSE

GroupEnded == queued /\ num = 0

\* As PinSteps, with the pin first.
HastySteps(c) ==
  <<MuxStep(c.pin, c.func)>> \o
  (IF c.func = "gpio" THEN <<GpioStep(c.pin, FALSE, c.pulls)>> ELSE <<>>)

\* A pin is an input before it is a GPIO.
PinSteps(c) ==
  (IF c.func = "gpio" THEN <<GpioStep(c.pin, FALSE, c.pulls)>> ELSE <<>>) \o
  <<MuxStep(c.pin, c.func)>>

StepsOf(c) ==
  CASE c.cmd = "default" -> DefaultSteps
    [] c.cmd = "pins_cfg" -> PinSteps(c)
    [] c.cmd = "gpio_cfg" -> <<GpioStep(c.pin, c.out, c.pulls)>>
    [] OTHER -> <<>>

\* A function the pin does not have, both pulls of a GPIO.
Refused(c) ==
  \/ c.cmd = "pins_cfg" /\ c.func \notin Functions \cup {"gpio"}
  \/ c.cmd = "gpio_cfg" /\ c.pulls = Pulls

\* pins_cfg ORs its flags into those it finds.
AddFlags(c) ==
  IF c.cmd = "pins_cfg" /\ ~Refused(c)
    THEN [flags EXCEPT ![<<c.pin, c.func>>] = @ \cup c.pulls] ELSE flags

\* Command c is started, with n commands of its group to go.
Begin(c, rest, n, q) ==
  /\ command' = c /\ request' = rest
  /\ num' = n /\ queued' = q
  /\ steps' = IF Refused(c) THEN <<>> ELSE StepsOf(c)
  /\ flags' = AddFlags(c)
  /\ outputs' = IF c.cmd = "gpio_cfg" /\ ~Refused(c) /\ c.out THEN outputs \cup {c.pin} ELSE outputs
  /\ pc' = IF Refused(c) THEN "refused" ELSE "run"

HandleGroup ==
  /\ Len(request) >= 2 /\ IsGroup(request[1])
  /\ ~IsGroup(request[2]) /\ request[2] # Bad
  /\ Len(response) < ResponseSpace
  /\ response' = Append(response, Group("multi", request[1].n))
  /\ Begin(request[2], SubSeq(request, 3, Len(request)), request[1].n,
           (queued /\ ~GroupEnded) \/ request[1].cmd = "queue")

HandlePlain ==
  /\ request # <<>> /\ ~IsGroup(request[1]) /\ request[1] # Bad
  /\ Begin(request[1], Tail(request), IF GroupEnded THEN 1 ELSE num, queued /\ ~GroupEnded)
  /\ UNCHANGED response

\* The packets end within a group, a command is unknown, or there is no room even
\* for the start of a reply (a command whose reply has a start is run first).
HandleBroken ==
  /\ \/ request = <<>>
     \/ request # <<>> /\ request[1] = Bad
     \/ request # <<>> /\ IsGroup(request[1]) /\ Len(request) = 1
     \/ Len(request) > 1 /\ IsGroup(request[1]) /\ (IsGroup(request[2]) \/ request[2] = Bad)
     \/ Len(request) > 1 /\ IsGroup(request[1]) /\ Len(response) + 1 = ResponseSpace
     \/ Len(response) = ResponseSpace
  /\ Fail /\ UNCHANGED <<flags, outputs>>

Handle ==
  /\ pc = "handle"
  /\ HandleGroup \/ HandlePlain \/ HandleBroken
  /\ UNCHANGED <<configured, left, mux, gpio, level, batch, executed, broken>>

\* A command ends with a reply, if there is room for it; the loop goes on.
Reply(status) ==
  /\ executed' = Append(executed, command) /\ command' = Info /\ left' = 0
  /\ IF Len(response) < ResponseSpace
       THEN /\ response' = Append(response, [cmd |-> command.cmd, status |-> status])
            /\ num' = (num + Wrap - 1) % Wrap
            /\ pc' = IF num' > 0 \/ queued THEN "handle" ELSE "send"
       ELSE response' = <<Bad>> /\ pc' = "send" /\ UNCHANGED num
  /\ UNCHANGED <<configured, request, queued, flags, mux, batch>>

RefusedReply ==
  /\ pc = "refused" /\ Reply("enotsup")
  /\ UNCHANGED <<steps, gpio, level, outputs, broken>>

(***************************************************************************)
(* The commands.                                                           *)
(***************************************************************************)
\* A GPIO is configured, or a pin gets a function with the flags kept for it.
Step ==
  /\ pc \in {"run", "reset"} /\ steps # <<>>
  /\ LET s == Head(steps)
     IN  IF s.dev = "gpio"
           THEN /\ gpio' = [gpio EXCEPT ![s.pin] = [out |-> s.out, pulls |-> s.pulls]]
                /\ UNCHANGED mux
           ELSE /\ mux' = [mux EXCEPT ![s.pin] = [func |-> s.func,
                                                  pulls |-> flags[<<s.pin, s.func>>]]]
                /\ UNCHANGED gpio
  /\ steps' = Tail(steps)
  /\ UNCHANGED <<configured, request, response, parse, pc, command, left, flags, level, history>>

StepFails ==
  /\ Failing /\ pc = "run" /\ steps # <<>>
  /\ steps' = <<>> /\ broken' = TRUE
  /\ Reply("eio")
  /\ UNCHANGED <<gpio, level, outputs>>

\* The pins that may be outputs when c has been done.
OutputsAfter(c) ==
  CASE c.cmd = "default" -> {}
    [] c.cmd = "pins_cfg" -> outputs \ {c.pin}
    [] c.cmd = "gpio_cfg" /\ ~c.out -> outputs \ {c.pin}
    [] OTHER -> outputs

StepsDone ==
  /\ pc = "run" /\ steps = <<>> /\ command.cmd # "gpio_ctrl"
  /\ outputs' = OutputsAfter(command)
  /\ broken' = (broken /\ command.cmd # "default")
  /\ Reply("ok")
  /\ UNCHANGED <<steps, gpio, level>>

\* gpio_ctrl writes, then toggles; it reads, and then waits.
Control ==
  /\ pc = "run" /\ command.cmd = "gpio_ctrl"
  /\ LET written == IF command.write \in {0, 1} THEN command.write ELSE level[command.pin]
     IN  level' = [level EXCEPT ![command.pin] = IF command.toggle THEN 1 - written ELSE written]
  /\ IF command.want \in {0, 1}
       THEN /\ pc' = "wait" /\ left' = command.ms
            /\ UNCHANGED <<command, response, num, executed, configured, request, queued, flags, mux, batch>>
       ELSE Reply("ok")
  /\ UNCHANGED <<steps, gpio, outputs, broken>>

\* A wait goes on, with so many milliseconds left.
Waits(ms) ==
  /\ left' = ms
  /\ UNCHANGED <<configured, request, response, parse, pc, command, flags, mux, batch, executed>>

\* A GPIO that is no output reads whatever is applied to it.
Values(p) == IF gpio[p].out THEN {level[p]} ELSE {0, 1}

\* The input is as asked; whether the time is over is tested once more.
Match == Reply("etimedout") \/ (left > 0 /\ Reply("ok"))

\* As Poll, with no end of the wait.
PollForever ==
  /\ pc = "wait"
  /\ \E v \in Values(command.pin) : IF v = command.want THEN Match ELSE Waits(left)
  /\ UNCHANGED <<steps, gpio, level, outputs, broken>>

\* One look at the input, and at the time: a millisecond or more goes by.
Poll ==
  /\ pc = "wait"
  /\ \E v \in Values(command.pin) :
       IF v = command.want THEN Match
       ELSE Reply("etimedout") \/ (left > 1 /\ Waits(left - 1))
  /\ UNCHANGED <<steps, gpio, level, outputs, broken>>

-----------------------------------------------------------------------------
\* The steps for which the thread waits for nobody.
Running ==
  \/ ResetDone \/ ResetFails
  \/ Handle \/ RefusedReply \/ Step \/ StepFails \/ StepsDone \/ Control \/ Poll

Next ==
  \/ Running \/ Find \/ Answered \/ Shutdown
  \/ UsbStatus
  \/ \E u \in Packets : Receive(u)

\* The thread runs whenever it is not blocked.
Spec == Init /\ [][Next]_vars /\ WF_vars(Running)

(***************************************************************************)
(* Properties.                                                             *)
(***************************************************************************)
Labels == {"find", "recv", "handle", "refused", "run", "wait", "send", "reset"}

TypeOK ==
  /\ configured \in BOOLEAN
  /\ Len(request) <= RequestSpace /\ Len(response) <= ResponseSpace
  /\ num \in 0..(Wrap - 1) /\ queued \in BOOLEAN
  /\ pc \in Labels
  /\ left \in 0..MaxWait
  /\ flags \in [Pins \X (Functions \cup {"gpio"}) -> SUBSET Pulls]
  /\ mux \in [Pins -> [func : Functions \cup {"gpio"}, pulls : SUBSET Pulls]]
  /\ gpio \in [Pins -> [out : BOOLEAN, pulls : SUBSET Pulls]]
  /\ level \in [Pins -> {0, 1}]
  /\ outputs \subseteq Pins /\ broken \in BOOLEAN

Driven(p) == mux[p].func = "gpio" /\ gpio[p].out

\* A pin drives its line only while the last command for it in this session made
\* it an output: it is never driven for a moment between two steps of a command,
\* when a function is taken away, or because an earlier session had made it one
\* (commands_pinctrl.c:148 "ensure that it is initially configured as an input").
DrivenOnRequest == ~broken => \A p \in Pins : Driven(p) => p \in outputs

\* A request as the protocol has it: queued groups and one packet that is not.
CommandsOf(u) == IF u # <<>> /\ IsGroup(u[1]) THEN Tail(u) ELSE u

WellFormed(b) ==
  /\ b # <<>>
  /\ \A i \in 1..Len(b) :
       /\ b[i] # <<>>
       /\ b[i][1].cmd = "queue" <=> i < Len(b)
       /\ IsGroup(b[i][1]) => b[i][1].n = Len(b[i]) - 1 /\ b[i][1].n > 0
       /\ \A k \in 1..Len(CommandsOf(b[i])) : ~IsGroup(CommandsOf(b[i])[k])
       /\ ~IsGroup(b[i][1]) => Len(b[i]) = 1
  /\ Len(FlattenSeq(b)) <= RequestSpace

Asked == FlattenSeq([i \in 1..Len(batch) |-> CommandsOf(batch[i])])

ReplyTo(units) ==
  [i \in 1..Len(units) |-> IF IsGroup(units[i]) THEN "multi" ELSE units[i].cmd]

\* A well-formed request is carried out as it stands: every command once and in
\* order, over however many packets it was queued, each with its reply; if one is
\* unknown or the replies do not fit, those before it have been carried out and
\* the answer is the error alone.  Nothing is left of a session before.
RequestIsDone ==
  pc = "send" /\ WellFormed(batch) /\ ~broken =>
    IF response = <<Bad>>
      THEN /\ IsPrefix(executed, Asked)
           /\ \/ \E i \in 1..Len(Asked) : Asked[i] = Bad
              \/ Len(FlattenSeq(batch)) > ResponseSpace
      ELSE /\ executed = Asked
           /\ [i \in 1..Len(response) |-> response[i].cmd] = ReplyTo(FlattenSeq(batch))

\* Every request comes to its answer: the groups end, although their count wraps
\* when it is zero, and so do the waits (io.c:48-94, commands_gpio.c:183-191).
RequestEnds == pc = "handle" ~> pc = "send"

\* commands_pinctrl.c:148-149 says of a pin configured as a GPIO: "ensure that it
\* is initially configured as an input, and that the same pull up/down flags are
\* set": pin and GPIO have the same pulls.
PullsAgree ==
  pc \in {"handle", "send"} /\ executed # <<>> /\ response # <<>> =>
    LET c == Last(executed)
    IN  c.cmd = "pins_cfg" /\ Last(response) = [cmd |-> "pins_cfg", status |-> "ok"] /\
        c.func = "gpio" => mux[c.pin].pulls = gpio[c.pin].pulls
=============================================================================
