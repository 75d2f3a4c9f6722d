---------------------------- MODULE DapThreadProofs ----------------------------
(***************************************************************************)
(* Proofs about the DAP thread: a port is open only over the connection    *)
(* that opened it, for any number of clients, any packets and any sizes of *)
(* the buffers; the types and bounds of its state; and that every request   *)
(* that is well formed is answered by the replies of its commands.         *)
(***************************************************************************)
EXTENDS DapThread, FiniteSetTheorems, SequenceLemmas

Searching == {"tcp", "usb", "sleep"}

\* While the thread looks for a transport the port is closed, and there is none
\* when it starts; from then on it has one until it has been reset.
PortInv ==
  /\ PortIsMine
  /\ pc \in Searching => port = "closed"
  /\ pc = "tcp" => transport = "none"
  /\ pc \in {"recv", "handle", "send", "reset"} => transport \in {"tcp", "usb"}
  /\ transport \in {"none", "tcp", "usb"}
  /\ pc \in Labels

\* Where the thread does nothing to the port, the transport and the connection,
\* and goes on with its session, the port stays whose it was.
LEMMA SessionGoesOn ==
  ASSUME PortInv, UNCHANGED <<transport, port, conn>>,
         pc' = pc \/ (pc \in {"recv", "handle", "send"} /\ pc' \in {"recv", "handle", "send", "reset"})
  PROVE  PortInv'
  BY DEF PortInv, PortIsMine, Me, Searching, Labels

LEMMA EnvironmentLeavesThePort ==
  ASSUME PortInv, Environment
  PROVE  PortInv'
  <1> SUFFICES UNCHANGED <<transport, port, conn, pc>>
    BY SessionGoesOn
  <1>1. CASE UsbConfigure
    BY <1>1 DEF UsbConfigure, tcpVars
  <1>2. CASE UsbLost
    BY <1>2 DEF UsbLost, tcpVars
  <1>3. CASE UsbSuspend
    BY <1>3 DEF UsbSuspend, tcpVars
  <1>4. CASE UsbResume
    BY <1>4 DEF UsbResume, tcpVars
  <1>5. CASE UsbOut
    BY <1>5 DEF UsbOut, tcpVars
  <1>6. CASE UsbIn
    BY <1>6 DEF UsbIn, tcpVars
  <1>7. ASSUME NEW c \in Clients, ClientConnects(c) \/ ClientLeaves(c)
        PROVE  UNCHANGED <<transport, port, conn, pc>>
    BY <1>7 DEF ClientConnects, ClientLeaves
  <1>8. ASSUME NEW h \in Hosts, NEW p \in Packets, HostSends(h, p)
        PROVE  UNCHANGED <<transport, port, conn, pc>>
    BY <1>8 DEF HostSends, tcpVars
  <1> QED BY <1>1, <1>2, <1>3, <1>4, <1>5, <1>6, <1>7, <1>8 DEF Environment

LEMMA HandleKeepsThePort ==
  ASSUME PortInv, Handle
  PROVE  PortInv'
  <1>1. pc = "handle" /\ UNCHANGED <<transport, conn>>
    BY Zenon DEF Handle, tcpVars
  <1>2. pc' \in {"handle", "send"} /\ port' \in {port, Me}
    <2>1. ASSUME NEW c, NEW s, NEW n, NEW q, NEW at, Run(c, s, n, q, at)
          PROVE  pc' \in {"handle", "send"} /\ port' \in {port, Me}
      BY <2>1, Zenon DEF Run, Fail
    <2>2. CASE HandlePlain
      BY <2>1, <2>2 DEF HandlePlain
    <2>3. CASE HandleGroup
      BY <2>1, <2>3 DEF HandleGroup
    <2>4. CASE HandleTooShort
      BY <2>4 DEF HandleTooShort, Fail
    <2> QED BY <2>2, <2>3, <2>4 DEF Handle
  <1> QED BY <1>1, <1>2 DEF PortInv, PortIsMine, Me, Searching, Labels

\* The thread's own steps.
LEMMA ThreadKeepsThePort ==
  ASSUME PortInv, Thread
  PROVE  PortInv'
  <1>1. CASE ConfigureTcp
    BY <1>1 DEF ConfigureTcp, PortInv, PortIsMine, Searching, Labels
  <1>2. CASE ConfigureUsb
    BY <1>2 DEF ConfigureUsb, PortInv, PortIsMine, Searching, Labels, tcpVars
  <1>3. CASE Sleep
    BY <1>3 DEF Sleep, PortInv, PortIsMine, Searching, Labels, tcpVars
  <1>4. CASE RecvTcp
    <2>1. UNCHANGED <<transport, port, conn>> /\ pc = "recv" /\ pc' \in {"recv", "handle"}
      BY <1>4 DEF RecvTcp, Accept, tcpVars
    <2> QED BY <2>1, SessionGoesOn
  <1>5. CASE RecvUsb
    <2>1. UNCHANGED <<transport, port, conn>> /\ pc = "recv" /\ pc' \in {"recv", "handle"}
      BY <1>5 DEF RecvUsb, Accept, tcpVars
    <2> QED BY <2>1, SessionGoesOn
  <1>6. CASE RecvTcpEnds \/ UsbShutdown \/ SendTcpFails
    <2>1. /\ UNCHANGED <<transport, port, conn>>
          /\ pc \in {"recv", "send"} /\ pc' = "reset"
      BY <1>6 DEF RecvTcpEnds, UsbShutdown, SendTcpFails, tcpVars
    <2> QED BY <2>1, SessionGoesOn
  <1>7. CASE Handle
    BY <1>7, HandleKeepsThePort
  <1>8. CASE SendTcp \/ SendUsb
    <2>1. UNCHANGED <<transport, port, conn>> /\ pc = "send" /\ pc' = "recv"
      BY <1>8 DEF SendTcp, SendUsb, Answered, tcpVars
    <2> QED BY <2>1, SessionGoesOn
  <1>9. CASE Reset
    BY <1>9 DEF Reset, PortInv, PortIsMine, Searching, Labels
  <1> QED BY <1>1, <1>2, <1>3, <1>4, <1>5, <1>6, <1>7, <1>8, <1>9 DEF Thread

\* Whatever way a session ends, the next host finds the port closed, and nobody
\* uses a port that another one opened (dap_reset, dap_thread_fn).
THEOREM PortBelongsToTheSession == Spec => []PortIsMine
  <1>1. Init => PortInv
    BY DEF Init, PortInv, PortIsMine, Searching, Labels
  <1>2. PortInv /\ [Next]_vars => PortInv'
    <2> SUFFICES ASSUME PortInv, [Next]_vars PROVE PortInv'
      OBVIOUS
    <2>1. CASE Environment
      BY <2>1, EnvironmentLeavesThePort
    <2>2. CASE Thread
      BY <2>2, ThreadKeepsThePort
    <2>3. CASE UNCHANGED vars
      <3>1. UNCHANGED <<transport, port, conn, pc>>
        BY <2>3 DEF vars, tcpVars
      <3> QED BY <3>1, SessionGoesOn
    <2> QED BY <2>1, <2>2, <2>3 DEF Next
  <1>3. PortInv => PortIsMine
    BY DEF PortInv
  <1> QED BY <1>1, <1>2, <1>3, PTL DEF Spec

-----------------------------------------------------------------------------
(***************************************************************************)
(* Types and bounds.                                                       *)
(***************************************************************************)
LEMMA MinOfTwo ==
  ASSUME NEW a \in Nat, NEW b \in Nat
  PROVE  Min({a, b}) \in Nat /\ Min({a, b}) <= a /\ Min({a, b}) <= b
  <1>1. PICK m \in {a, b} : m <= a /\ m <= b
    BY SMT
  <1>2. \E x \in {a, b} : \A y \in {a, b} : x <= y
    BY <1>1
  <1> QED BY SMT, <1>2 DEF Min

LEMMA RemainderIsByte ==
  ASSUME NEW n \in Int
  PROVE  n % Wrap \in Bytes
  BY SMT, SizesAreLegal DEF Bytes

LEMMA EncodeIsBytes ==
  ASSUME NEW p \in Packets
  PROVE  Encode(p) \in Seq(Bytes)
  <1>1. p.cmds \in Seq(Bytes) /\ Len(p.cmds) \in Bytes /\ p.kind \in {"plain", "exec", "queue"}
    <2>1. p.cmds \in Seq(0..(Wrap - 1)) /\ Len(p.cmds) < Wrap /\ p.kind \in {"plain", "exec", "queue"}
      BY PacketsAreLegal
    <2>2. Len(p.cmds) \in Nat /\ Wrap \in Nat
      BY <2>1, SizesAreLegal
    <2> QED BY SMT, <2>1, <2>2 DEF Bytes
  <1>2. Exec \in Bytes /\ Queue \in Bytes
    BY CodesAreLegal DEF Bytes
  <1>3. <<Exec, Len(p.cmds)>> \in Seq(Bytes) /\ <<Queue, Len(p.cmds)>> \in Seq(Bytes)
    BY SMT, <1>1, <1>2
  <1>4. /\ <<Exec, Len(p.cmds)>> \o p.cmds \in Seq(Bytes)
        /\ <<Queue, Len(p.cmds)>> \o p.cmds \in Seq(Bytes)
    BY SMT, <1>1, <1>3
  <1> QED BY <1>1, <1>4 DEF Encode

\* What the thread itself reads and writes, and what the hosts and the stack do.
BufferTypes ==
  /\ mem \in [0..(Cap - 1) -> Bytes]
  /\ put \in 0..Cap /\ get \in 0..Cap
  /\ response \in Seq(Bytes \cup {Error}) /\ Len(response) <= Cap
  /\ num \in Bytes /\ queued \in BOOLEAN

SessionTypes ==
  /\ transport \in {"none", "tcp", "usb"}
  /\ port \in Hosts \cup {"closed", Nobody}
  /\ pc \in Labels
  /\ usb \in {"off", "on", "asleep"} /\ configured \in BOOLEAN
  /\ came \subseteq Clients /\ backlog \subseteq came /\ conn \in came \cup {Nobody}
  /\ gone \subseteq came /\ shut \subseteq came
  /\ transport = "tcp" => conn \in came

PacketTypes ==
  /\ xfer \in [state : {"busy", "done"}, bytes : Seq(Bytes)]
  /\ inbox \in [Hosts -> Seq(Packets)] /\ sends \in 0..MaxSends
  /\ batch \in Seq(Packets)

bufferVars == <<ring, response, parse>>
sessionVars == <<transport, port, pc, usbVars, tcpVars>>

LEMMA BuffersStay == BufferTypes /\ UNCHANGED bufferVars => BufferTypes'
  BY DEF BufferTypes, bufferVars, ring, parse

LEMMA PacketsStay == PacketTypes /\ UNCHANGED <<xfer, hostVars, batch>> => PacketTypes'
  BY DEF PacketTypes, hostVars

\* Every step of the session leaves it well typed.
LEMMA SessionTypesStay ==
  ASSUME SessionTypes, [Next]_vars
  PROVE  SessionTypes'
  <1>1. CASE UsbConfigure \/ UsbLost \/ UsbSuspend \/ UsbResume
    BY <1>1 DEF UsbConfigure, UsbLost, UsbSuspend, UsbResume, SessionTypes, tcpVars
  <1>2. CASE UsbOut \/ UsbIn
    BY <1>2 DEF UsbOut, UsbIn, SessionTypes, tcpVars, usbVars
  <1>3. ASSUME NEW c \in Clients, ClientConnects(c)
        PROVE  SessionTypes'
    BY <1>3 DEF ClientConnects, SessionTypes, usbVars
  <1>4. ASSUME NEW c \in Clients, ClientLeaves(c)
        PROVE  SessionTypes'
    BY <1>4 DEF ClientLeaves, SessionTypes, usbVars
  <1>5. ASSUME NEW h \in Hosts, NEW p \in Packets, HostSends(h, p)
        PROVE  SessionTypes'
    BY <1>5 DEF HostSends, SessionTypes, usbVars, tcpVars
  <1>6. CASE ConfigureTcp
    BY <1>6 DEF ConfigureTcp, SessionTypes, usbVars, Labels
  <1>7. CASE ConfigureUsb \/ Sleep
    BY <1>7 DEF ConfigureUsb, Sleep, SessionTypes, usbVars, tcpVars, Labels
  <1>8. CASE RecvTcp
    BY <1>8 DEF RecvTcp, Accept, SessionTypes, usbVars, tcpVars, Labels
  <1>9. CASE RecvUsb
    BY <1>9 DEF RecvUsb, Accept, SessionTypes, usbVars, tcpVars, Labels
  <1>10. CASE RecvTcpEnds \/ SendTcpFails
    BY <1>10 DEF RecvTcpEnds, SendTcpFails, SessionTypes, usbVars, Labels
  <1>11. CASE UsbShutdown
    BY <1>11 DEF UsbShutdown, SessionTypes, usbVars, tcpVars, Labels
  <1>12. CASE Handle
    <2>1. ASSUME NEW c, NEW s, NEW n, NEW q, NEW at, Run(c, s, n, q, at)
          PROVE  pc' \in {"handle", "send"} /\ port' \in {port, Me}
      BY <2>1, Zenon DEF Run, Fail
    <2>2. pc' \in {"handle", "send"} /\ port' \in {port, Me}
      <3>1. CASE HandlePlain
        BY <2>1, <3>1 DEF HandlePlain
      <3>2. CASE HandleGroup
        BY <2>1, <3>2 DEF HandleGroup
      <3>3. CASE HandleTooShort
        BY <3>3 DEF HandleTooShort, Fail
      <3> QED BY <1>12, <3>1, <3>2, <3>3 DEF Handle
    <2>3. UNCHANGED <<transport, usbVars, tcpVars>>
      BY <1>12 DEF Handle
    <2> QED BY <2>2, <2>3 DEF SessionTypes, Me, Labels, usbVars, tcpVars, Hosts
  <1>13. CASE SendTcp \/ SendUsb
    BY <1>13 DEF SendTcp, SendUsb, Answered, SessionTypes, usbVars, tcpVars, Labels
  <1>14. CASE Reset
    BY <1>14 DEF Reset, SessionTypes, usbVars, tcpVars, Labels
  <1>15. CASE UNCHANGED vars
    BY <1>15 DEF vars, SessionTypes, usbVars, tcpVars
  <1> QED BY <1>1, <1>2, <1>3, <1>4, <1>5, <1>6, <1>7, <1>8, <1>9, <1>10, <1>11, <1>12, <1>13,
             <1>14, <1>15 DEF Next, Environment, Thread

\* There are at least two bytes: two codes differ.
LEMMA TwoCodes == Wrap > 1
  <1>1. Info # Connect
    <2>1. ASSUME Info = Connect PROVE FALSE
      <3>1. {Info, Connect, Exec, Queue} = {Info, Exec, Queue}
        BY <2>1
      <3>2. Cardinality({Info, Exec, Queue}) <= 3
        <4>1. IsFiniteSet({Queue}) /\ Cardinality({Queue}) = 1
          BY FS_Singleton
        <4>2. IsFiniteSet({Queue} \cup {Exec}) /\ Cardinality({Queue} \cup {Exec}) <= 2
          BY SMT, <4>1, FS_AddElement
        <4>3. {Info, Exec, Queue} = ({Queue} \cup {Exec}) \cup {Info}
          OBVIOUS
        <4>4. Cardinality({Queue} \cup {Exec}) \in Nat
          BY <4>2, FS_CardinalityType
        <4> QED BY SMT, <4>2, <4>3, <4>4, FS_AddElement
      <3> QED BY SMT, <3>1, <3>2, CodesAreLegal
    <2> QED BY <2>1
  <1>2. Info \in 0..(Wrap - 1) /\ Connect \in 0..(Wrap - 1) /\ Wrap \in Nat
    BY CodesAreLegal, SizesAreLegal
  <1> QED BY SMT, <1>1, <1>2

\* Accepting a packet writes bytes only, and no further than the array.
LEMMA AcceptKeepsBuffers ==
  ASSUME BufferTypes, NEW b \in Seq(Bytes), NEW n \in Nat, Accept(b, n)
  PROVE  BufferTypes'
  <1>1. Cap \in Nat /\ Packet \in Nat /\ Wrap \in Nat /\ Wrap > 0
    BY SizesAreLegal
  <1>2. put \in Nat /\ put <= Cap /\ Cap - put \in Nat
    BY SMT, <1>1 DEF BufferTypes
  <1>3. mem' = Written(b) /\ put' = (IF n <= Room THEN put + n ELSE put) /\ get' = get
    BY DEF Accept
  <1>4. put' \in 0..Cap
    <2>1. Room \in Nat /\ Room <= Cap - put
      BY <1>1, <1>2, MinOfTwo DEF Room
    <2> QED BY SMT, <1>1, <1>2, <1>3, <2>1
  <1>5. mem' \in [0..(Cap - 1) -> Bytes]
    <2>1. Place \in Nat
      BY SMT, <1>1, <1>2 DEF Place
    <2>2. ASSUME NEW i \in 0..(Cap - 1), i \in Place..(Place + Len(b) - 1)
          PROVE  b[i - Place + 1] \in Bytes
      <3>1. i - Place + 1 \in 1..Len(b)
        BY SMT, <2>1, <2>2
      <3> QED BY <3>1
    <2>3. DOMAIN mem = 0..(Cap - 1) /\ \A i \in 0..(Cap - 1) : mem[i] \in Bytes
      BY DEF BufferTypes
    <2> QED BY <1>3, <2>2, <2>3 DEF Written
  <1>6. \/ UNCHANGED <<response, num, queued>>
        \/ response' = <<>> /\ num' = 1 /\ queued' = FALSE
    BY Zenon DEF Accept, parse
  <1>7. response' \in Seq(Bytes \cup {Error}) /\ Len(response') <= Cap
    <2>1. <<>> \in Seq(Bytes \cup {Error}) /\ Len(<<>>) <= Cap
      BY SMT, <1>1
    <2> QED BY <1>6, <2>1 DEF BufferTypes
  <1>8. num' \in Bytes /\ queued' \in BOOLEAN
    <2>1. 1 \in Bytes
      <3>1. 1 < Wrap
        BY TwoCodes
      <3> QED BY SMT, <3>1, <1>1 DEF Bytes
    <2> QED BY <1>6, <2>1 DEF BufferTypes
  <1> QED BY <1>3, <1>4, <1>5, <1>7, <1>8 DEF BufferTypes

\* The error byte fits into the response.
LEMMA FailKeepsBuffers ==
  ASSUME BufferTypes, response' = <<Error>>, UNCHANGED <<ring, parse>>
  PROVE  BufferTypes'
  <1>1. Cap \in Nat /\ Cap >= 1
    BY SMT, SizesAreLegal
  <1>2. <<Error>> \in Seq(Bytes \cup {Error}) /\ Len(<<Error>>) <= Cap
    BY SMT, <1>1
  <1> QED BY <1>2 DEF BufferTypes, ring, parse

\* A pass of the loop of dap_handle_request.
LEMMA RunKeepsBuffers ==
  ASSUME BufferTypes, NEW c \in Bytes, NEW s \in Seq(Bytes \cup {Error}), NEW n \in Bytes,
         NEW q \in BOOLEAN, NEW at \in 0..Cap, Len(s) <= Cap, Run(c, s, n, q, at)
  PROVE  BufferTypes'
  <1>1. Cap \in Nat /\ n \in Int
    BY SMT, SizesAreLegal DEF Bytes
  <1>2. CASE c \in {Info, Connect} /\ Len(s) < Cap
    <2>1. /\ response' = Append(s, c) /\ num' = (n - 1) % Wrap /\ queued' = q /\ get' = at
          /\ UNCHANGED <<mem, put>>
      BY <1>2, Zenon DEF Run
    <2>2. Append(s, c) \in Seq(Bytes \cup {Error}) /\ Len(Append(s, c)) <= Cap
      BY SMT, <1>1, <1>2
    <2>3. (n - 1) % Wrap \in Bytes
      BY <1>1, RemainderIsByte
    <2> QED BY <2>1, <2>2, <2>3 DEF BufferTypes
  <1>3. CASE ~(c \in {Info, Connect} /\ Len(s) < Cap)
    <2>1. response' = <<Error>> /\ UNCHANGED <<ring, parse>>
      BY <1>3, Zenon DEF Run, Fail
    <2> QED BY <2>1, FailKeepsBuffers
  <1> QED BY <1>2, <1>3

LEMMA HandleKeepsBuffers ==
  ASSUME BufferTypes, Handle
  PROVE  BufferTypes'
  <1>1. Cap \in Nat /\ put \in 0..Cap /\ get \in 0..Cap /\ Len(response) \in Nat /\ Len(response) <= Cap
    BY SMT, SizesAreLegal DEF BufferTypes
  <1>2. \A i \in 0..(Cap - 1) : mem[i] \in Bytes
    BY DEF BufferTypes
  <1>3. Queued \in BOOLEAN /\ Num \in Bytes
    <2>1. 1 \in Bytes
      BY SMT, TwoCodes, SizesAreLegal DEF Bytes
    <2> QED BY <2>1 DEF Queued, Num, GroupEnded, BufferTypes
  <1>4. CASE HandlePlain
    <2>1. get \in 0..(Cap - 1) /\ get + 1 \in 0..Cap
      BY SMT, <1>1, <1>4 DEF HandlePlain
    <2>2. Run(mem[get], response, Num, Queued, get + 1)
      BY <1>4, Zenon DEF HandlePlain
    <2> QED BY <1>2, <1>3, <2>1, <2>2, RunKeepsBuffers DEF BufferTypes
  <1>5. CASE HandleGroup
    <2> DEFINE sofar == response \o <<Exec, mem[get + 1]>>
    <2>1. get + 1 \in 0..(Cap - 1) /\ get + 2 \in 0..(Cap - 1) /\ get + 3 \in 0..Cap
      BY SMT, <1>1, <1>5 DEF HandleGroup
    <2>2. Run(mem[get + 2], sofar, mem[get + 1], Queued \/ mem[get] = Queue, get + 3)
      BY <1>5, Zenon DEF HandleGroup
    <2>3. mem[get + 1] \in Bytes /\ mem[get + 2] \in Bytes /\ Exec \in Bytes
      BY <1>2, <2>1, CodesAreLegal DEF Bytes
    <2>4. sofar \in Seq(Bytes \cup {Error}) /\ Len(sofar) <= Cap
      <3>1. response \in Seq(Bytes \cup {Error})
        BY DEF BufferTypes
      <3>2. <<Exec, mem[get + 1]>> \in Seq(Bytes \cup {Error}) /\ Len(<<Exec, mem[get + 1]>>) = 2
        BY SMT, <2>3
      <3>3. Len(response) + 2 <= Cap
        BY <1>5, Zenon DEF HandleGroup
      <3> QED BY SMT, <3>1, <3>2, <3>3
    <2>5. (Queued \/ mem[get] = Queue) \in BOOLEAN
      BY <1>3
    <2> HIDE DEF sofar
    <2> QED BY <2>1, <2>2, <2>3, <2>4, <2>5, RunKeepsBuffers
  <1>6. CASE HandleTooShort
    <2>1. response' = <<Error>> /\ UNCHANGED <<ring, parse>>
      BY <1>6, Zenon DEF HandleTooShort, Fail
    <2> QED BY <2>1, FailKeepsBuffers
  <1> QED BY <1>4, <1>5, <1>6 DEF Handle

LEMMA BufferTypesStay ==
  ASSUME BufferTypes, SessionTypes, PacketTypes, [Next]_vars
  PROVE  BufferTypes'
  <1>1. CASE Environment
    <2>1. UNCHANGED bufferVars
      BY <1>1 DEF Environment, UsbConfigure, UsbLost, UsbSuspend, UsbResume, UsbOut, UsbIn,
                  ClientConnects, ClientLeaves, HostSends, bufferVars
    <2> QED BY <2>1, BuffersStay
  <1>2. CASE ConfigureTcp \/ ConfigureUsb \/ Sleep \/ RecvTcpEnds \/ UsbShutdown \/ SendTcpFails
    <2>1. UNCHANGED bufferVars
      BY <1>2 DEF ConfigureTcp, ConfigureUsb, Sleep, RecvTcpEnds, UsbShutdown, SendTcpFails,
                  bufferVars
    <2> QED BY <2>1, BuffersStay
  <1>3. CASE RecvTcp
    <2> DEFINE p == Head(inbox[conn])
               b == Encode(p)
    <2>1. p \in Packets
      <3>1. conn \in Hosts
        BY <1>3 DEF RecvTcp, SessionTypes, Hosts
      <3>2. inbox[conn] \in Seq(Packets) /\ inbox[conn] # <<>>
        BY <3>1, <1>3 DEF RecvTcp, PacketTypes
      <3> QED BY <3>2
    <2>2. b \in Seq(Bytes)
      BY <2>1, EncodeIsBytes
    <2>3. Accept(b, IF b = <<>> THEN 2 ELSE Len(b))
      BY <1>3, Zenon DEF RecvTcp
    <2>4. (IF b = <<>> THEN 2 ELSE Len(b)) \in Nat
      <3> HIDE DEF b
      <3> QED BY SMT, <2>2
    <2> HIDE DEF b
    <2> QED BY <2>2, <2>3, <2>4, AcceptKeepsBuffers
  <1>4. CASE RecvUsb
    <2>1. xfer.bytes \in Seq(Bytes)
      BY DEF PacketTypes
    <2>2. Accept(xfer.bytes, Len(xfer.bytes))
      BY <1>4, Zenon DEF RecvUsb
    <2>3. Len(xfer.bytes) \in Nat
      BY <2>1
    <2> QED BY <2>1, <2>2, <2>3, AcceptKeepsBuffers
  <1>5. CASE Handle
    BY <1>5, HandleKeepsBuffers
  <1>6. CASE SendTcp \/ SendUsb
    <2>1. put' = 0 /\ get' = 0 /\ UNCHANGED <<mem, response, num, queued>>
      BY <1>6, Zenon DEF SendTcp, SendUsb, Answered, parse
    <2>2. 0 \in 0..Cap
      BY SMT, SizesAreLegal
    <2> QED BY <2>1, <2>2 DEF BufferTypes
  <1>7. CASE Reset
    <2>1. put' = 0 /\ get' = 0 /\ response' = <<>> /\ UNCHANGED <<mem, num, queued>>
      BY <1>7, Zenon DEF Reset, parse
    <2>2. 0 \in 0..Cap /\ <<>> \in Seq(Bytes \cup {Error}) /\ Len(<<>>) <= Cap
      BY SMT, SizesAreLegal
    <2> QED BY <2>1, <2>2 DEF BufferTypes
  <1>8. CASE UNCHANGED vars
    <2>1. UNCHANGED bufferVars
      BY <1>8 DEF vars, bufferVars
    <2> QED BY <2>1, BuffersStay
  <1> QED BY <1>1, <1>2, <1>3, <1>4, <1>5, <1>6, <1>7, <1>8 DEF Next, Thread

LEMMA PacketTypesStay ==
  ASSUME PacketTypes, BufferTypes, SessionTypes, [Next]_vars
  PROVE  PacketTypes'
  <1>0. 0 \in 0..MaxSends /\ Idle \in [state : {"busy", "done"}, bytes : Seq(Bytes)]
        /\ <<>> \in Seq(Packets) /\ <<>> \in Seq(Bytes)
    BY SizesAreLegal DEF Idle
  <1>1. CASE UNCHANGED <<xfer, hostVars, batch>>
    BY <1>1, PacketsStay
  <1>2. CASE UsbConfigure \/ UsbSuspend \/ UsbResume \/ ConfigureTcp \/ ConfigureUsb \/ Sleep
    BY <1>2, <1>1 DEF UsbConfigure, UsbSuspend, UsbResume, ConfigureTcp, ConfigureUsb, Sleep
  <1>3. CASE RecvTcpEnds \/ UsbShutdown \/ SendTcpFails \/ Handle \/ UNCHANGED vars
    BY <1>3, <1>1 DEF RecvTcpEnds, UsbShutdown, SendTcpFails, Handle, vars
  <1>4. ASSUME NEW c \in Clients, ClientConnects(c) \/ ClientLeaves(c)
        PROVE  PacketTypes'
    BY <1>4, <1>1 DEF ClientConnects, ClientLeaves
  <1>5. ASSUME NEW h \in Hosts, NEW p \in Packets, HostSends(h, p)
        PROVE  PacketTypes'
    <2>1. sends' \in 0..MaxSends
      <3>1. sends' = sends + 1 /\ sends < MaxSends
        BY <1>5, Zenon DEF HostSends
      <3> QED BY SMT, <3>1, SizesAreLegal DEF PacketTypes
    <2>2. inbox' = [inbox EXCEPT ![h] = Append(@, p)] /\ UNCHANGED <<xfer, batch>>
      BY <1>5, Zenon DEF HostSends
    <2>3. Append(inbox[h], p) \in Seq(Packets)
      BY DEF PacketTypes
    <2> QED BY <2>1, <2>2, <2>3 DEF PacketTypes
  <1>6. CASE UsbLost
    <2>1. inbox' = [inbox EXCEPT ![Usb] = <<>>] /\ UNCHANGED <<xfer, sends, batch>>
      BY <1>6, Zenon DEF UsbLost
    <2> QED BY <1>0, <2>1 DEF PacketTypes
  <1>7. ASSUME NEW h \in Hosts, inbox[h] # <<>>, inbox' = [inbox EXCEPT ![h] = Tail(@)],
               batch' = Append(batch, Head(inbox[h])), sends' = sends,
               xfer' \in [state : {"busy", "done"}, bytes : Seq(Bytes)]
        PROVE  PacketTypes'
    <2>1. inbox[h] \in Seq(Packets) /\ batch \in Seq(Packets)
      BY DEF PacketTypes
    <2>2. Head(inbox[h]) \in Packets /\ Tail(inbox[h]) \in Seq(Packets)
      BY <2>1, <1>7
    <2>3. batch' \in Seq(Packets)
      BY <2>1, <2>2, <1>7
    <2> QED BY <1>7, <2>2, <2>3 DEF PacketTypes
  <1>8. CASE RecvTcp
    <2>1. conn \in Hosts
      BY <1>8 DEF RecvTcp, SessionTypes, Hosts
    <2>2. /\ inbox[conn] # <<>> /\ inbox' = [inbox EXCEPT ![conn] = Tail(@)]
          /\ batch' = Append(batch, Head(inbox[conn])) /\ sends' = sends /\ xfer' = xfer
      BY <1>8, Zenon DEF RecvTcp
    <2>3. xfer' \in [state : {"busy", "done"}, bytes : Seq(Bytes)]
      BY <2>2 DEF PacketTypes
    <2> QED BY <2>1, <2>2, <2>3, <1>7
  <1>9. CASE UsbOut
    <2> DEFINE b == Encode(Head(inbox[Usb]))
    <2>1. /\ inbox[Usb] # <<>> /\ inbox' = [inbox EXCEPT ![Usb] = Tail(@)]
          /\ batch' = Append(batch, Head(inbox[Usb])) /\ sends' = sends
          /\ xfer' = [state |-> "done", bytes |-> SubSeq(b, 1, Min({Len(b), Room}))]
      BY <1>9, Zenon DEF UsbOut
    <2>2. Usb \in Hosts
      BY DEF Hosts
    <2>3. b \in Seq(Bytes)
      <3>1. inbox[Usb] \in Seq(Packets)
        BY <2>2 DEF PacketTypes
      <3> QED BY <2>1, <3>1, EncodeIsBytes
    <2>4. Room \in Nat
      BY MinOfTwo, SizesAreLegal DEF Room, BufferTypes
    <2>5. SubSeq(b, 1, Min({Len(b), Room})) \in Seq(Bytes)
      <3> HIDE DEF b
      <3>1. Len(b) \in Nat
        BY <2>3
      <3>2. Min({Len(b), Room}) \in Nat /\ Min({Len(b), Room}) <= Len(b)
        BY <3>1, <2>4, MinOfTwo
      <3>3. \A m \in Nat : m <= Len(b) => SubSeq(b, 1, m) \in Seq(Bytes)
        BY SMT, <2>3
      <3> QED BY <3>2, <3>3
    <2>6. xfer' \in [state : {"busy", "done"}, bytes : Seq(Bytes)]
      <3> HIDE DEF b
      <3> QED BY <2>1, <2>5
    <2> QED BY <2>1, <2>2, <2>6, <1>7
  <1>10. CASE RecvUsb
    <2>1. xfer' = Idle /\ UNCHANGED <<hostVars, batch>>
      BY <1>10, Zenon DEF RecvUsb
    <2> QED BY <1>0, <2>1 DEF PacketTypes, hostVars
  <1>11. CASE UsbIn
    <2>1. xfer' = [Idle EXCEPT !.state = "done"] /\ UNCHANGED <<hostVars, batch>>
      BY <1>11, Zenon DEF UsbIn
    <2> QED BY <1>0, <2>1 DEF PacketTypes, hostVars, Idle
  <1>12. CASE SendTcp \/ SendUsb \/ Reset
    <2>1. batch' = <<>> /\ UNCHANGED hostVars /\ xfer' \in {xfer, Idle}
      BY <1>12, Zenon DEF SendTcp, SendUsb, Reset, Answered
    <2> QED BY <1>0, <2>1 DEF PacketTypes, hostVars
  <1> QED BY <1>2, <1>3, <1>4, <1>5, <1>6, <1>8, <1>9, <1>10, <1>11, <1>12
          DEF Next, Environment, Thread

TypeInv == BufferTypes /\ SessionTypes /\ PacketTypes

LEMMA TypesAreInvariant == Spec => []TypeInv
  <1>1. Init => TypeInv
    <2> SUFFICES ASSUME Init PROVE TypeInv
      OBVIOUS
    <2>1. BufferTypes
      <3>1. 0 \in 0..Cap /\ 0 \in Bytes /\ <<>> \in Seq(Bytes \cup {Error}) /\ Len(<<>>) <= Cap
        BY SMT, SizesAreLegal DEF Bytes
      <3> QED BY <3>1 DEF Init, BufferTypes
    <2>2. SessionTypes
      BY DEF Init, SessionTypes, Labels
    <2>3. PacketTypes
      BY SizesAreLegal DEF Init, PacketTypes, Idle
    <2> QED BY <2>1, <2>2, <2>3 DEF TypeInv
  <1>2. TypeInv /\ [Next]_vars => TypeInv'
    BY BufferTypesStay, SessionTypesStay, PacketTypesStay DEF TypeInv
  <1> QED BY <1>1, <1>2, PTL DEF Spec

\* The state has the types and the buffers the bounds that the code relies on:
\* nothing is written past the ends of the two ring buffers.
THEOREM TypeCorrect == Spec => []TypeOK
  <1>1. TypeInv => TypeOK
    BY DEF TypeInv, TypeOK, BufferTypes, SessionTypes, PacketTypes
  <1> QED BY <1>1, TypesAreInvariant, PTL

-----------------------------------------------------------------------------
(***************************************************************************)
(* Requests and responses: what the packets of a request put into the      *)
(* buffer, and what their commands answer.                                 *)
(***************************************************************************)
LEMMA MinIsOne ==
  ASSUME NEW a \in Nat, NEW b \in Nat
  PROVE  Min({a, b}) \in {a, b}
  <1>1. PICK m \in {a, b} : m <= a /\ m <= b
    BY SMT
  <1>2. \E x \in {a, b} : \A y \in {a, b} : x <= y
    BY <1>1
  <1> QED BY SMT, <1>2 DEF Min


(***************************************************************************)
(* What a request is on the wire, and the replies to it.                   *)
(***************************************************************************)
Header(p) == IF p.kind = "plain" THEN 0 ELSE 2

\* The first k packets of b as they are sent, and the replies to them.
Stream(b, k)  == FlattenSeq([i \in 1..k |-> Encode(b[i])])
Replies(b, k) == FlattenSeq([i \in 1..k |-> GroupReply(b[i])])

LEMMA TwoElements ==
  ASSUME NEW S, NEW u \in Seq(S), Len(u) = 2
  PROVE  u = <<u[1], u[2]>>
  OBVIOUS

LEMMA BehindTwo ==
  ASSUME NEW S, NEW h \in Seq(S), Len(h) = 2, NEW c \in Seq(S)
  PROVE  /\ h \o c \in Seq(S) /\ Len(h \o c) = 2 + Len(c)
         /\ (h \o c)[1] = h[1] /\ (h \o c)[2] = h[2]
         /\ \A j \in 1..Len(c) : (h \o c)[2 + j] = c[j]
         /\ SubSeq(h \o c, 1, 2) = h
  <1>1. /\ h \o c \in Seq(S) /\ Len(h \o c) = Len(h) + Len(c)
        /\ \A i \in 1..(Len(h) + Len(c)) : (h \o c)[i] = IF i <= Len(h) THEN h[i] ELSE c[i - Len(h)]
    BY ConcatProperties
  <1> DEFINE s == h \o c
  <1> HIDE DEF s
  <1>2. /\ s \in Seq(S) /\ Len(s) = 2 + Len(c) /\ Len(c) \in Nat
        /\ \A i \in 1..(2 + Len(c)) : s[i] = IF i <= 2 THEN h[i] ELSE c[i - 2]
    BY <1>1 DEF s
  <1>3. s[1] = h[1] /\ s[2] = h[2]
    <2>1. 1 \in 1..(2 + Len(c)) /\ 2 \in 1..(2 + Len(c)) /\ 1 <= 2
      BY SMT, <1>2
    <2> QED BY <1>2, <2>1
  <1>4. \A j \in 1..Len(c) : s[2 + j] = c[j]
    <2>1. ASSUME NEW j \in 1..Len(c) PROVE s[2 + j] = c[j]
      <3>1. 2 + j \in 1..(2 + Len(c)) /\ ~(2 + j <= 2) /\ (2 + j) - 2 = j
        BY SMT, <1>2
      <3> QED BY <1>2, <3>1
    <2> QED BY <2>1
  <1>5. SubSeq(s, 1, 2) = h
    <2>1. h = <<h[1], h[2]>>
      BY TwoElements
    <2>2. SubSeq(s, 1, 2) = <<s[1], s[2]>>
      <3>1. s \in Seq(S) /\ Len(s) \in Nat /\ 2 <= Len(s)
        BY SMT, <1>2
      <3>2. SubSeq(s, 1, 2) \in Seq(S) /\ Len(SubSeq(s, 1, 2)) = 2
        BY SMT, <3>1
      <3>3. \A i \in 1..2 : SubSeq(s, 1, 2)[i] = s[i]
        BY SMT, <3>1
      <3>4. SubSeq(s, 1, 2)[1] = s[1] /\ SubSeq(s, 1, 2)[2] = s[2]
        BY <3>3
      <3> DEFINE u == SubSeq(s, 1, 2)
      <3> HIDE DEF u
      <3>5. u \in Seq(S) /\ Len(u) = 2
        BY <3>2 DEF u
      <3>6. u = <<u[1], u[2]>>
        BY <3>5, TwoElements
      <3> QED BY <3>4, <3>6 DEF u
    <2> QED BY <1>3, <2>1, <2>2
  <1> QED BY <1>2, <1>3, <1>4, <1>5 DEF s

LEMMA PacketShape ==
  ASSUME NEW p \in Packets
  PROVE  /\ Encode(p) \in Seq(Bytes) /\ GroupReply(p) \in Seq(Bytes) /\ p.cmds \in Seq(Bytes)
         /\ Len(p.cmds) \in Nat /\ Len(p.cmds) < Wrap /\ Header(p) \in Nat
         /\ Len(Encode(p)) = Header(p) + Len(p.cmds) /\ Len(GroupReply(p)) = Len(Encode(p))
         /\ \A j \in 1..Len(p.cmds) : /\ Encode(p)[Header(p) + j] = p.cmds[j]
                                      /\ GroupReply(p)[Header(p) + j] = p.cmds[j]
         /\ p.kind # "plain" => /\ Encode(p)[1] = (IF p.kind = "exec" THEN Exec ELSE Queue)
                                /\ Encode(p)[2] = Len(p.cmds)
                                /\ SubSeq(GroupReply(p), 1, 2) = <<Exec, Len(p.cmds)>>
  <1> DEFINE c == p.cmds   code == IF p.kind = "exec" THEN Exec ELSE Queue
  <1>1. /\ c \in Seq(Bytes) /\ Len(c) \in Nat /\ Len(c) < Wrap /\ Len(c) \in Bytes
        /\ p.kind \in {"plain", "exec", "queue"} /\ Exec \in Bytes /\ code \in Bytes
    <2>1. p.cmds \in Seq(0..(Wrap - 1)) /\ Len(p.cmds) < Wrap /\ p.kind \in {"plain", "exec", "queue"}
      BY PacketsAreLegal
    <2>2. Exec \in Bytes /\ Queue \in Bytes
      BY CodesAreLegal DEF Bytes
    <2> QED BY SMT, <2>1, <2>2, SizesAreLegal DEF Bytes
  <1>2. CASE p.kind = "plain"
    <2>1. Encode(p) = c /\ GroupReply(p) = <<>> \o c /\ Header(p) = 0
      BY <1>2, Zenon DEF Encode, GroupReply, Header
    <2> HIDE DEF c
    <2>2. <<>> \o c = c
      BY <1>1
    <2> QED BY SMT, <1>1, <1>2, <2>1, <2>2 DEF c
  <1>3. CASE p.kind # "plain"
    <2>1. /\ Encode(p) = <<code, Len(c)>> \o c /\ GroupReply(p) = <<Exec, Len(c)>> \o c
          /\ Header(p) = 2
      BY <1>1, <1>3 DEF Encode, GroupReply, Header
    <2> HIDE DEF c, code
    <2>2. ASSUME NEW x \in Bytes
          PROVE  LET s == <<x, Len(c)>> \o c
                 IN  /\ s \in Seq(Bytes) /\ Len(s) = 2 + Len(c) /\ s[1] = x /\ s[2] = Len(c)
                     /\ \A j \in 1..Len(c) : s[2 + j] = c[j]
                     /\ SubSeq(s, 1, 2) = <<x, Len(c)>>
      <3> DEFINE h == <<x, Len(c)>>   s == h \o c
      <3>1. h \in Seq(Bytes) /\ Len(h) = 2 /\ h[1] = x /\ h[2] = Len(c)
        BY SMT, <1>1
      <3> HIDE DEF h
      <3>0. c \in Seq(Bytes)
        BY <1>1
      <3>2. /\ s \in Seq(Bytes) /\ Len(s) = 2 + Len(c) /\ s[1] = h[1] /\ s[2] = h[2]
            /\ \A j \in 1..Len(c) : s[2 + j] = c[j]
            /\ SubSeq(s, 1, 2) = h
        BY <3>0, <3>1, BehindTwo
      <3> HIDE DEF s
      <3>5. s[1] = x /\ s[2] = Len(c) /\ SubSeq(s, 1, 2) = <<x, Len(c)>>
        BY <3>1, <3>2 DEF h
      <3> QED BY <3>2, <3>5 DEF s, h
    <2> QED BY <1>1, <2>1, <2>2 DEF c, code
  <1> QED BY <1>2, <1>3

LEMMA StreamIsSequence ==
  ASSUME NEW b \in Seq(Packets), NEW k \in 0..Len(b)
  PROVE  Stream(b, k) \in Seq(Bytes) /\ Replies(b, k) \in Seq(Bytes)
  <1>1. /\ [i \in 1..k |-> Encode(b[i])] \in Seq(Seq(Bytes))
        /\ [i \in 1..k |-> GroupReply(b[i])] \in Seq(Seq(Bytes))
    <2>1. \A i \in 1..k : Encode(b[i]) \in Seq(Bytes) /\ GroupReply(b[i]) \in Seq(Bytes)
      BY PacketShape
    <2> QED BY <2>1
  <1> QED BY <1>1, FlattenIsSequence DEF Stream, Replies

LEMMA StreamOfNone == ASSUME NEW b PROVE Stream(b, 0) = <<>> /\ Replies(b, 0) = <<>>
  <1>1. [i \in 1..0 |-> Encode(b[i])] = <<>> /\ [i \in 1..0 |-> GroupReply(b[i])] = <<>>
    OBVIOUS
  <1> QED BY <1>1, FlattenOfNone DEF Stream, Replies

LEMMA StreamGoesOn ==
  ASSUME NEW b \in Seq(Packets), NEW k \in 1..Len(b)
  PROVE  /\ Stream(b, k) = Stream(b, k - 1) \o Encode(b[k])
         /\ Replies(b, k) = Replies(b, k - 1) \o GroupReply(b[k])
  <1> DEFINE s == [i \in 1..(k - 1) |-> Encode(b[i])]
             r == [i \in 1..(k - 1) |-> GroupReply(b[i])]
  <1>1. \A i \in 1..k : Encode(b[i]) \in Seq(Bytes) /\ GroupReply(b[i]) \in Seq(Bytes)
    BY PacketShape
  <1>2. s \in Seq(Seq(Bytes)) /\ r \in Seq(Seq(Bytes)) /\ Len(s) = k - 1 /\ Len(r) = k - 1
    BY <1>1
  <1>3. [i \in 1..k |-> Encode(b[i])] = Append(s, Encode(b[k]))
    BY SMT, <1>1
  <1>4. [i \in 1..k |-> GroupReply(b[i])] = Append(r, GroupReply(b[k]))
    BY SMT, <1>1
  <1>5. Encode(b[k]) \in Seq(Bytes) /\ GroupReply(b[k]) \in Seq(Bytes)
    BY <1>1
  <1>6. Stream(b, k - 1) = FlattenSeq(s) /\ Replies(b, k - 1) = FlattenSeq(r)
    BY DEF Stream, Replies
  <1> HIDE DEF s, r
  <1>7. FlattenSeq(Append(s, Encode(b[k]))) = FlattenSeq(s) \o Encode(b[k])
    BY <1>2, <1>5, FlattenAppends
  <1>8. FlattenSeq(Append(r, GroupReply(b[k]))) = FlattenSeq(r) \o GroupReply(b[k])
    BY <1>2, <1>5, FlattenAppends
  <1> QED BY <1>3, <1>4, <1>6, <1>7, <1>8 DEF Stream, Replies

\* The packets that come later do not change what the first k of them are.
LEMMA StreamOfFirst ==
  ASSUME NEW b \in Seq(Packets), NEW p \in Packets, NEW k \in 0..Len(b)
  PROVE  Stream(Append(b, p), k) = Stream(b, k)
  <1>1. \A i \in 1..k : Append(b, p)[i] = b[i]
    OBVIOUS
  <1>2. [i \in 1..k |-> Encode(Append(b, p)[i])] = [i \in 1..k |-> Encode(b[i])]
    BY <1>1
  <1> QED BY <1>2 DEF Stream

\* A packet is answered by as many bytes as it has.
LEMMA RepliesAreAsLong ==
  ASSUME NEW b \in Seq(Packets)
  PROVE  \A k \in 0..Len(b) : Len(Replies(b, k)) = Len(Stream(b, k))
  <1> DEFINE T == {k \in Nat : k \in 0..Len(b) => Len(Replies(b, k)) = Len(Stream(b, k))}
  <1>1. 0 \in T
    BY StreamOfNone
  <1>2. ASSUME NEW k \in T PROVE k + 1 \in T
    <2> SUFFICES ASSUME k + 1 \in 0..Len(b)
                 PROVE  Len(Replies(b, k + 1)) = Len(Stream(b, k + 1))
      OBVIOUS
    <2>1. k \in 0..Len(b) /\ k + 1 \in 1..Len(b) /\ (k + 1) - 1 = k /\ b[k + 1] \in Packets
      BY SMT
    <2>2. /\ Stream(b, k + 1) = Stream(b, k) \o Encode(b[k + 1])
          /\ Replies(b, k + 1) = Replies(b, k) \o GroupReply(b[k + 1])
      BY <2>1, StreamGoesOn
    <2>3. Stream(b, k) \in Seq(Bytes) /\ Replies(b, k) \in Seq(Bytes)
      BY <2>1, StreamIsSequence
    <2>4. /\ Encode(b[k + 1]) \in Seq(Bytes) /\ GroupReply(b[k + 1]) \in Seq(Bytes)
          /\ Len(GroupReply(b[k + 1])) = Len(Encode(b[k + 1]))
      BY <2>1, PacketShape
    <2>5. Len(Replies(b, k)) = Len(Stream(b, k))
      BY <2>1
    <2> QED BY <2>2, <2>3, <2>4, <2>5
  <1>3. T = Nat
    <2> HIDE DEF T
    <2>1. T \in SUBSET Nat
      BY DEF T
    <2> QED BY <1>1, <1>2, <2>1, InductionOnSet
  <1> QED BY <1>3

\* The whole begins with its first k packets.
LEMMA StreamBegins ==
  ASSUME NEW b \in Seq(Packets), NEW k \in 0..Len(b)
  PROVE  \A m \in 0..Len(b) : k <= m =>
           /\ Len(Stream(b, k)) <= Len(Stream(b, m))
           /\ \A i \in 1..Len(Stream(b, k)) : Stream(b, m)[i] = Stream(b, k)[i]
  <1> DEFINE Q(m) == /\ Len(Stream(b, k)) <= Len(Stream(b, m))
                     /\ \A i \in 1..Len(Stream(b, k)) : Stream(b, m)[i] = Stream(b, k)[i]
             T == {d \in Nat : k + d \in 0..Len(b) => Q(k + d)}
  <1>0. k \in Nat /\ Len(b) \in Nat
    OBVIOUS
  <1>1. 0 \in T
    <2>1. k + 0 = k /\ Len(Stream(b, k)) \in Nat
      BY StreamIsSequence
    <2> QED BY <2>1
  <1>2. ASSUME NEW d \in T PROVE d + 1 \in T
    <2> DEFINE m == k + d
    <2>0. k + (d + 1) = m + 1 /\ m \in Nat
      BY <1>0
    <2> SUFFICES ASSUME m + 1 \in 0..Len(b) PROVE Q(m + 1)
      BY <2>0
    <2>1. m \in 0..Len(b) /\ m + 1 \in 1..Len(b) /\ (m + 1) - 1 = m /\ b[m + 1] \in Packets
      BY SMT, <1>0
    <2>2. Q(m)
      BY <2>1
    <2> HIDE DEF m
    <2>3. Stream(b, m + 1) = Stream(b, m) \o Encode(b[m + 1])
      BY <2>1, StreamGoesOn
    <2>4. Stream(b, m) \in Seq(Bytes) /\ Stream(b, k) \in Seq(Bytes) /\ Encode(b[m + 1]) \in Seq(Bytes)
      BY <2>1, StreamIsSequence, PacketShape
    <2> QED BY <2>2, <2>3, <2>4
  <1>3. T = Nat
    <2> HIDE DEF T
    <2>1. T \in SUBSET Nat
      BY DEF T
    <2> QED BY <1>1, <1>2, <2>1, InductionOnSet
  <1>4. ASSUME NEW m \in 0..Len(b), k <= m PROVE Q(m)
    <2>1. m - k \in Nat /\ k + (m - k) = m
      BY <1>0, <1>4
    <2>2. m - k \in T
      BY <1>3, <2>1
    <2> QED BY <2>1, <2>2
  <1> QED BY <1>4

\* Where the bytes of packet k are among those of all.
LEMMA PacketInStream ==
  ASSUME NEW b \in Seq(Packets), NEW k \in 1..Len(b)
  PROVE  /\ Len(Stream(b, k - 1)) \in Nat
         /\ Len(Stream(b, k)) = Len(Stream(b, k - 1)) + Len(Encode(b[k]))
         /\ Len(Stream(b, k)) <= Len(Stream(b, Len(b)))
         /\ \A i \in 1..Len(Encode(b[k])) :
              /\ Len(Stream(b, k - 1)) + i \in 1..Len(Stream(b, Len(b)))
              /\ Stream(b, Len(b))[Len(Stream(b, k - 1)) + i] = Encode(b[k])[i]
  <1>1. k - 1 \in 0..Len(b) /\ k \in 0..Len(b) /\ Len(b) \in 0..Len(b) /\ k <= Len(b) /\ b[k] \in Packets
    BY SMT
  <1>2. /\ Stream(b, k - 1) \in Seq(Bytes) /\ Stream(b, k) \in Seq(Bytes)
        /\ Stream(b, Len(b)) \in Seq(Bytes) /\ Encode(b[k]) \in Seq(Bytes)
    BY <1>1, StreamIsSequence, PacketShape
  <1>3. Stream(b, k) = Stream(b, k - 1) \o Encode(b[k])
    BY StreamGoesOn
  <1>4. /\ Len(Stream(b, k)) <= Len(Stream(b, Len(b)))
        /\ \A i \in 1..Len(Stream(b, k)) : Stream(b, Len(b))[i] = Stream(b, k)[i]
    BY <1>1, StreamBegins
  <1> DEFINE u == Stream(b, k - 1)   v == Stream(b, k)   w == Stream(b, Len(b))   e == Encode(b[k])
  <1> HIDE DEF u, v, w, e
  <1>5. /\ u \in Seq(Bytes) /\ v = u \o e /\ w \in Seq(Bytes) /\ e \in Seq(Bytes)
        /\ Len(v) <= Len(w) /\ \A i \in 1..Len(v) : w[i] = v[i]
    BY <1>2, <1>3, <1>4 DEF u, v, w, e
  <1>6. Len(u) \in Nat /\ Len(v) = Len(u) + Len(e) /\ Len(e) \in Nat /\ Len(w) \in Nat
    BY <1>5
  <1>7. \A i \in 1..Len(e) : Len(u) + i \in 1..Len(v) /\ v[Len(u) + i] = e[i]
    BY SMT, <1>5, <1>6
  <1>8. \A i \in 1..Len(e) : Len(u) + i \in 1..Len(w) /\ w[Len(u) + i] = e[i]
    <2>1. ASSUME NEW i \in 1..Len(e)
          PROVE  Len(u) + i \in 1..Len(w) /\ w[Len(u) + i] = e[i]
      <3>1. Len(u) + i \in 1..Len(v) /\ v[Len(u) + i] = e[i]
        BY <1>7
      <3>2. Len(u) + i \in 1..Len(w) /\ w[Len(u) + i] = v[Len(u) + i]
        BY <1>5, <1>6, <3>1
      <3> QED BY <3>1, <3>2
    <2> QED BY <2>1
  <1> QED BY <1>5, <1>6, <1>8 DEF u, v, w, e

(***************************************************************************)
(* Receiving a request.                                                    *)
(***************************************************************************)
Legal(p) == /\ p.cmds # <<>> /\ \A j \in 1..Len(p.cmds) : p.cmds[j] \notin {Exec, Queue}
            /\ Len(Encode(p)) <= Packet

\* What the first packets of a well-formed request are.
Fits(b) == /\ \A i \in 1..Len(b) : Legal(b[i])
           /\ \A i \in 1..(Len(b) - 1) : b[i].kind = "queue"
           /\ Len(Stream(b, Len(b))) <= Cap

AllQueued(b) == \A i \in 1..Len(b) : b[i].kind = "queue"

\* The request buffer begins with the first k packets of b.
Loaded(b, k) == /\ put = Len(Stream(b, k))
                /\ \A i \in 1..Len(Stream(b, k)) : mem[i - 1] = Stream(b, k)[i]

LEMMA WellFormedParts ==
  ASSUME NEW b \in Seq(Packets), WellFormed(b)
  PROVE  /\ \A i \in 1..Len(b) : Legal(b[i])
         /\ \A i \in 1..(Len(b) - 1) : b[i].kind = "queue"
         /\ Len(Stream(b, Len(b))) <= Cap
         /\ Len(b) \in 1..Len(b) /\ Final(b[Len(b)])
  <1>1. \A i \in 1..Len(b) : Legal(b[i])
    BY DEF WellFormed, Legal
  <1>2. \A i \in 1..(Len(b) - 1) : b[i].kind = "queue"
    BY DEF WellFormed
  <1>3. Len(Stream(b, Len(b))) <= Cap
    BY DEF WellFormed, Stream
  <1>4. Len(b) \in 1..Len(b)
    BY DEF WellFormed
  <1>5. Final(b[Len(b)])
    BY DEF WellFormed, Last
  <1> QED BY <1>1, <1>2, <1>3, <1>4, <1>5

LEMMA WellFormedFits ==
  ASSUME NEW b \in Seq(Packets), WellFormed(b)
  PROVE  Fits(b) /\ Len(b) \in 1..Len(b) /\ Final(b[Len(b)])
  BY WellFormedParts DEF Fits

LEMMA CodesDiffer == Exec # Queue
  <1>1. ASSUME Exec = Queue PROVE FALSE
    <2>1. {Info, Connect, Exec, Queue} = {Info, Connect, Exec}
      BY <1>1
    <2>2. Cardinality({Info, Connect, Exec}) <= 3
      <3>1. IsFiniteSet({Info}) /\ Cardinality({Info}) = 1
        BY FS_Singleton
      <3>2. IsFiniteSet({Info} \cup {Connect}) /\ Cardinality({Info} \cup {Connect}) <= 2
        BY SMT, <3>1, FS_AddElement
      <3>3. {Info, Connect, Exec} = ({Info} \cup {Connect}) \cup {Exec}
        OBVIOUS
      <3>4. Cardinality({Info} \cup {Connect}) \in Nat
        BY <3>2, FS_CardinalityType
      <3> QED BY SMT, <3>2, <3>3, <3>4, FS_AddElement
    <2> QED BY SMT, <2>1, <2>2, CodesAreLegal
  <1> QED BY <1>1

\* The first byte of a legal packet tells whether it is queued.
LEMMA FirstByteTells ==
  ASSUME NEW p \in Packets, Legal(p)
  PROVE  Len(Encode(p)) \in Nat \ {0} /\ (Encode(p)[1] = Queue <=> p.kind = "queue")
  <1>1. Len(p.cmds) \in Nat \ {0} /\ p.kind \in {"plain", "exec", "queue"}
    BY PacketShape, PacketsAreLegal DEF Legal
  <1>2. CASE p.kind = "plain"
    <2>1. Header(p) = 0 /\ Len(Encode(p)) = Header(p) + Len(p.cmds) /\ 1 \in 1..Len(p.cmds)
      <3>1. Header(p) = 0 /\ Len(Encode(p)) = Header(p) + Len(p.cmds)
        BY <1>2, PacketShape DEF Header
      <3> QED BY SMT, <1>1, <3>1
    <2>2. Encode(p)[Header(p) + 1] = p.cmds[1] /\ p.cmds[1] # Queue
      BY <2>1, PacketShape DEF Legal
    <2> QED BY <1>1, <1>2, <2>1, <2>2
  <1>3. CASE p.kind # "plain"
    <2>1. Header(p) = 2 /\ Len(Encode(p)) = Header(p) + Len(p.cmds)
      BY <1>3, PacketShape DEF Header
    <2>2. Encode(p)[1] = (IF p.kind = "exec" THEN Exec ELSE Queue)
      BY <1>3, PacketShape
    <2> QED BY <1>1, <1>3, <2>1, <2>2, CodesDiffer
  <1> QED BY <1>2, <1>3

LEMMA FitsBefore ==
  ASSUME NEW b \in Seq(Packets), NEW p \in Packets, Fits(Append(b, p))
  PROVE  /\ Fits(b) /\ AllQueued(b) /\ Legal(p)
         /\ Stream(Append(b, p), Len(b) + 1) = Stream(b, Len(b)) \o Encode(p)
         /\ Len(Stream(b, Len(b))) + Len(Encode(p)) <= Cap
  <1> DEFINE c == Append(b, p)   n == Len(b)
  <1>1. /\ c \in Seq(Packets) /\ Len(c) = n + 1 /\ n \in Nat /\ c[n + 1] = p
        /\ \A i \in 1..n : c[i] = b[i]
    OBVIOUS
  <1>2. Stream(c, n) = Stream(b, n)
    BY StreamOfFirst
  <1> HIDE DEF c
  <1>3. n + 1 \in 1..Len(c) /\ (n + 1) - 1 = n
    BY <1>1
  <1>4. Stream(c, n + 1) = Stream(b, n) \o Encode(p)
    BY <1>1, <1>2, <1>3, StreamGoesOn
  <1>5. Stream(b, n) \in Seq(Bytes) /\ Encode(p) \in Seq(Bytes)
    BY <1>1, StreamIsSequence, PacketShape
  <1>6. Len(Stream(c, n + 1)) = Len(Stream(b, n)) + Len(Encode(p))
    BY <1>4, <1>5
  <1>7. Len(Stream(c, n + 1)) <= Cap /\ (\A i \in 1..(n + 1) : Legal(c[i]))
        /\ (\A i \in 1..n : c[i].kind = "queue")
    BY <1>1 DEF Fits, c
  <1>8. Len(Stream(b, n)) <= Cap
    BY SMT, <1>5, <1>6, <1>7, SizesAreLegal
  <1>9. (\A i \in 1..n : Legal(b[i]) /\ b[i].kind = "queue") /\ Legal(p)
    BY <1>1, <1>7
  <1> QED BY <1>4, <1>6, <1>7, <1>8, <1>9 DEF Fits, AllQueued, c

\* A packet is put behind those that are there.
LEMMA AcceptLoads ==
  ASSUME BufferTypes, NEW b \in Seq(Packets), NEW p \in Packets, Fits(Append(b, p)),
         Loaded(b, Len(b)), get = 0, Accept(Encode(p), Len(Encode(p)))
  PROVE  /\ Loaded(Append(b, p), Len(b) + 1)' /\ get' = 0
         /\ IF p.kind = "queue" THEN pc' = "recv"
              ELSE pc' = "handle" /\ response' = <<>> /\ num' = 1 /\ queued' = FALSE
  <1> DEFINE s == Stream(b, Len(b))   e == Encode(p)   t == Stream(Append(b, p), Len(b) + 1)
  <1>1. /\ Legal(p) /\ t = s \o e /\ Len(s) + Len(e) <= Cap
        /\ s \in Seq(Bytes) /\ e \in Seq(Bytes)
    BY FitsBefore, StreamIsSequence, PacketShape
  <1>2. Len(e) \in Nat \ {0} /\ (e[1] = Queue <=> p.kind = "queue")
    BY <1>1, FirstByteTells
  <1>3. put = Len(s) /\ \A i \in 1..Len(s) : mem[i - 1] = s[i]
    BY DEF Loaded
  <1>4. Len(e) <= Packet
    BY <1>1 DEF Legal
  <1>5. /\ mem' = Written(e) /\ put' = (IF Len(e) <= Room THEN put + Len(e) ELSE put) /\ get' = get
        /\ IF mem'[Place] = Queue
             THEN pc' = "recv" /\ UNCHANGED <<response, parse>>
             ELSE pc' = "handle" /\ response' = <<>> /\ num' = 1 /\ queued' = FALSE
    BY Zenon DEF Accept
  <1> HIDE DEF s, e, t
  <1>6. Len(s) \in Nat /\ Len(e) \in Nat /\ Cap \in Nat /\ Packet \in Nat
    BY <1>1, SizesAreLegal
  <1>7. Place = Len(s) /\ Len(e) <= Room
    <2>1. put # Cap /\ Cap - put \in Nat /\ Len(e) <= Cap - put
      BY SMT, <1>1, <1>2, <1>3, <1>6
    <2>2. Room \in {Packet, Cap - put}
      BY <1>6, <2>1, MinIsOne DEF Room
    <2> QED BY <1>3, <1>4, <2>1, <2>2 DEF Place
  <1>8. DOMAIN mem = 0..(Cap - 1)
    BY DEF BufferTypes
  <1>9. \A i \in 0..(Cap - 1) :
          mem'[i] = IF i \in Len(s)..(Len(s) + Len(e) - 1) THEN e[i - Len(s) + 1] ELSE mem[i]
    BY <1>5, <1>7, <1>8 DEF Written
  <1>10. \A i \in 1..(Len(s) + Len(e)) : mem'[i - 1] = t[i]
    <2>1. ASSUME NEW i \in 1..Len(s) PROVE mem'[i - 1] = t[i]
      <3>1. i - 1 \in 0..(Cap - 1) /\ i - 1 \notin Len(s)..(Len(s) + Len(e) - 1)
        BY SMT, <1>1, <1>6
      <3>2. mem'[i - 1] = s[i]
        BY <1>3, <1>9, <3>1
      <3>3. (s \o e)[i] = s[i]
        BY <1>1
      <3> QED BY <1>1, <3>2, <3>3
    <2>2. ASSUME NEW i \in (Len(s) + 1)..(Len(s) + Len(e)) PROVE mem'[i - 1] = t[i]
      <3>1. /\ i - 1 \in 0..(Cap - 1) /\ i - 1 \in Len(s)..(Len(s) + Len(e) - 1)
            /\ (i - 1) - Len(s) + 1 = i - Len(s)
        BY SMT, <1>1, <1>6
      <3>2. mem'[i - 1] = e[i - Len(s)]
        BY <1>9, <3>1
      <3>3. (s \o e)[i] = e[i - Len(s)]
        BY <1>1, <1>6
      <3> QED BY <1>1, <3>2, <3>3
    <2>3. \A i \in 1..(Len(s) + Len(e)) : i \in 1..Len(s) \/ i \in (Len(s) + 1)..(Len(s) + Len(e))
      BY SMT, <1>6
    <2> QED BY <2>1, <2>2, <2>3
  <1>11. Len(t) = Len(s) + Len(e)
    BY <1>1
  <1>12. mem'[Place] = e[1]
    <2>1. /\ Len(s) \in 0..(Cap - 1) /\ Len(s) \in Len(s)..(Len(s) + Len(e) - 1)
          /\ Len(s) - Len(s) + 1 = 1
      BY SMT, <1>1, <1>2, <1>6
    <2> QED BY <1>7, <1>9, <2>1
  <1>13. put' = Len(t) /\ \A i \in 1..Len(t) : mem'[i - 1] = t[i]
    BY <1>3, <1>5, <1>7, <1>10, <1>11
  <1>14. Loaded(Append(b, p), Len(b) + 1)'
    BY <1>13 DEF Loaded, t
  <1> QED BY <1>2, <1>5, <1>12, <1>14 DEF e

(***************************************************************************)
(* Handling a request.                                                     *)
(***************************************************************************)
Good(p, j) == \A m \in 1..j : p.cmds[m] \in {Info, Connect}
AllGood(b, k) == \A i \in 1..k : Good(b[i], Len(b[i].cmds))

\* Behind command j of packet k: the bytes handled and the replies to them.
Offset(b, k, j) == Len(Stream(b, k - 1)) + Header(b[k]) + j
SoFar(b, k, j)  == Replies(b, k - 1) \o SubSeq(GroupReply(b[k]), 1, Header(b[k]) + j)

Past(b, k, j) ==
  /\ get = Offset(b, k, j) /\ response = SoFar(b, k, j)
  /\ num = Len(b[k].cmds) - j /\ queued = (b[k].kind = "queue")
  /\ AllGood(b, k - 1) /\ Good(b[k], j)

Between(b, k) ==
  /\ get = Len(Stream(b, k)) /\ response = Replies(b, k)
  /\ Num = 1 /\ Queued = FALSE
  /\ AllGood(b, k)

Handling(b) ==
  /\ Loaded(b, Len(b))
  /\ \/ Between(b, 0)
     \/ \E k \in 1..Len(b) : \E j \in 1..Len(b[k].cmds) : Past(b, k, j) /\ (num > 0 \/ queued)

HandleInv == pc = "handle" /\ WellFormed(batch) => Handling(batch)

LEMMA ByteAt ==
  ASSUME NEW b \in Seq(Packets), Loaded(b, Len(b)), NEW k \in 1..Len(b),
         NEW i \in 1..Len(Encode(b[k]))
  PROVE  /\ mem[Len(Stream(b, k - 1)) + i - 1] = Encode(b[k])[i]
         /\ Len(Stream(b, k - 1)) + i <= put /\ Len(Stream(b, k - 1)) \in Nat
  <1> DEFINE w == Stream(b, Len(b))   u == Len(Stream(b, k - 1))
  <1>1. /\ u + i \in 1..Len(w) /\ w[u + i] = Encode(b[k])[i] /\ u \in Nat
    BY PacketInStream
  <1>2. put = Len(w) /\ \A m \in 1..Len(w) : mem[m - 1] = w[m]
    BY DEF Loaded
  <1>3. Len(w) \in Nat
    BY StreamIsSequence
  <1> HIDE DEF w, u
  <1>4. mem[(u + i) - 1] = Encode(b[k])[i] /\ u + i <= put
    BY <1>1, <1>2, <1>3
  <1> QED BY <1>1, <1>4 DEF u

LEMMA AppendBehind ==
  \A r, s \in Seq(Bytes) : \A c \in Bytes : Append(r \o s, c) = r \o Append(s, c)
  OBVIOUS

\* The reply so far is as long as what has been handled, and grows by a command.
LEMMA ReplyGrows ==
  ASSUME NEW b \in Seq(Packets), NEW k \in 1..Len(b), NEW j \in 1..Len(b[k].cmds)
  PROVE  /\ Append(SoFar(b, k, j - 1), b[k].cmds[j]) = SoFar(b, k, j)
         /\ Len(SoFar(b, k, j - 1)) = Offset(b, k, j - 1)
         /\ Offset(b, k, j - 1) \in Nat /\ Offset(b, k, j) = Offset(b, k, j - 1) + 1
         /\ Offset(b, k, j) <= Len(Stream(b, Len(b)))
  <1> DEFINE p == b[k]   r == Replies(b, k - 1)   g == GroupReply(p)   h == Header(p)
             u == Len(Stream(b, k - 1))
  <1>1. /\ g \in Seq(Bytes) /\ h \in Nat /\ Len(g) = h + Len(p.cmds) /\ Len(p.cmds) \in Nat
        /\ g[h + j] = p.cmds[j] /\ Len(Encode(p)) = h + Len(p.cmds)
    BY PacketShape
  <1>2. r \in Seq(Bytes) /\ Len(r) = u /\ u \in Nat
    <2>1. k - 1 \in 0..Len(b)
      OBVIOUS
    <2> QED BY <2>1, StreamIsSequence, RepliesAreAsLong
  <1>3. u + (h + j) <= Len(Stream(b, Len(b)))
    <2>1. h + j \in 1..Len(Encode(p))
      BY SMT, <1>1
    <2>2. Len(Stream(b, Len(b))) \in Nat
      BY StreamIsSequence
    <2> QED BY SMT, <2>1, <2>2, PacketInStream
  <1> DEFINE c == p.cmds[j]   s == SubSeq(g, 1, h + (j - 1))   t == SubSeq(g, 1, h + j)
             l == Len(p.cmds)
  <1>4. SoFar(b, k, j - 1) = r \o s /\ SoFar(b, k, j) = r \o t
    BY DEF SoFar
  <1>5. Offset(b, k, j - 1) = u + h + (j - 1) /\ Offset(b, k, j) = u + h + j
    BY DEF Offset
  <1>6. j \in 1..l
    OBVIOUS
  <1> HIDE DEF r, g, h, u, c, l
  <1>7. /\ g \in Seq(Bytes) /\ h \in Nat /\ Len(g) = h + l /\ l \in Nat /\ g[h + j] = c
    BY <1>1 DEF g, h, l, c
  <1>8. s \in Seq(Bytes) /\ Len(s) = h + (j - 1) /\ t \in Seq(Bytes) /\ t = Append(s, g[h + j])
    BY SMT, <1>6, <1>7
  <1> HIDE DEF s, t
  <1>9. c \in Bytes
    <2>1. h + j \in 1..Len(g)
      BY SMT, <1>6, <1>7
    <2> QED BY <1>7, <2>1
  <1>10. Append(r \o s, c) = r \o Append(s, c) /\ Len(r \o s) = u + (h + (j - 1))
    <2>1. Append(r \o s, c) = r \o Append(s, c)
      <3>1. r \in Seq(Bytes) /\ s \in Seq(Bytes) /\ c \in Bytes
        BY <1>2, <1>8, <1>9
      <3> QED BY Zenon, <3>1, AppendBehind
    <2>2. Len(r \o s) = Len(r) + Len(s)
      <3>1. r \in Seq(Bytes) /\ s \in Seq(Bytes)
        BY <1>2, <1>8
      <3> QED BY <3>1
    <2> QED BY <1>2, <1>8, <2>1, <2>2
  <1>11. Append(SoFar(b, k, j - 1), c) = SoFar(b, k, j)
    BY <1>4, <1>7, <1>8, <1>10
  <1>12. Len(SoFar(b, k, j - 1)) = Offset(b, k, j - 1)
    <2>1. u + (h + (j - 1)) = u + h + (j - 1)
      BY SMT, <1>2, <1>6, <1>7
    <2> QED BY <1>4, <1>5, <1>10, <2>1
  <1>13. Offset(b, k, j - 1) \in Nat /\ Offset(b, k, j) = Offset(b, k, j - 1) + 1
    BY SMT, <1>2, <1>5, <1>6, <1>7
  <1>14. Offset(b, k, j) = u + (h + j)
    BY SMT, <1>2, <1>5, <1>6, <1>7
  <1> QED BY <1>3, <1>11, <1>12, <1>13, <1>14 DEF c, u, h

LEMMA NothingOfPacket ==
  ASSUME NEW b \in Seq(Packets), NEW k \in 1..Len(b)
  PROVE  /\ SoFar(b, k, 0) = Replies(b, k - 1) \o (IF b[k].kind = "plain" THEN <<>>
                                                   ELSE <<Exec, Len(b[k].cmds)>>)
         /\ Replies(b, k - 1) \in Seq(Bytes)
         /\ Replies(b, k - 1) \o <<>> = Replies(b, k - 1)
         /\ Offset(b, k, 0) = Len(Stream(b, k - 1)) + Header(b[k])
  <1>1. k - 1 \in 0..Len(b)
    OBVIOUS
  <1>2. Replies(b, k - 1) \in Seq(Bytes) /\ Len(Stream(b, k - 1)) \in Nat
    BY <1>1, StreamIsSequence
  <1>3. Header(b[k]) + 0 = Header(b[k]) /\ Header(b[k]) \in Nat
    BY PacketShape
  <1>4. SubSeq(GroupReply(b[k]), 1, Header(b[k])) =
          IF b[k].kind = "plain" THEN <<>> ELSE <<Exec, Len(b[k].cmds)>>
    <2>1. CASE b[k].kind = "plain"
      <3>1. Header(b[k]) = 0 /\ GroupReply(b[k]) \in Seq(Bytes)
        <4>1. Header(b[k]) = 0
          BY <2>1 DEF Header
        <4> QED BY <4>1, PacketShape
      <3>2. \A g \in Seq(Bytes) : SubSeq(g, 1, 0) = <<>>
        OBVIOUS
      <3> QED BY <2>1, <3>1, <3>2
    <2>2. CASE b[k].kind # "plain"
      <3>1. Header(b[k]) = 2
        BY <2>2 DEF Header
      <3> QED BY <2>2, <3>1, PacketShape
    <2> QED BY <2>1, <2>2
  <1>5. \A r \in Seq(Bytes) : r \o <<>> = r
    OBVIOUS
  <1>6. Offset(b, k, 0) = Len(Stream(b, k - 1)) + Header(b[k])
    BY <1>2, <1>3 DEF Offset
  <1> QED BY <1>2, <1>3, <1>4, <1>5, <1>6 DEF SoFar

\* The whole of a packet.
LEMMA WholePacket ==
  ASSUME NEW b \in Seq(Packets), NEW k \in 1..Len(b)
  PROVE  /\ SoFar(b, k, Len(b[k].cmds)) = Replies(b, k)
         /\ Offset(b, k, Len(b[k].cmds)) = Len(Stream(b, k))
         /\ AllGood(b, k - 1) /\ Good(b[k], Len(b[k].cmds)) => AllGood(b, k)
  <1> DEFINE g == GroupReply(b[k])   h == Header(b[k])   l == Len(b[k].cmds)
  <1>1. g \in Seq(Bytes) /\ h \in Nat /\ l \in Nat /\ Len(g) = h + l /\ Len(Encode(b[k])) = h + l
    BY PacketShape
  <1>2. SubSeq(g, 1, h + l) = g
    <2> HIDE DEF g, h, l
    <2> QED BY <1>1
  <1>3. SoFar(b, k, l) = Replies(b, k)
    BY <1>2, StreamGoesOn DEF SoFar
  <1>4. Offset(b, k, l) = Len(Stream(b, k))
    <2>1. Len(Stream(b, k - 1)) \in Nat /\ Len(Stream(b, k)) = Len(Stream(b, k - 1)) + (h + l)
      BY <1>1, PacketInStream
    <2>2. Offset(b, k, l) = Len(Stream(b, k - 1)) + h + l
      BY DEF Offset
    <2> HIDE DEF h, l
    <2> QED BY SMT, <1>1, <2>1, <2>2
  <1>5. ASSUME AllGood(b, k - 1), Good(b[k], l) PROVE AllGood(b, k)
    <2>1. \A i \in 1..k : i = k \/ i \in 1..(k - 1)
      BY SMT
    <2> QED BY <1>5, <2>1, Zenon DEF AllGood
  <1> QED BY <1>3, <1>4, <1>5

\* When a queued packet has been handled the next one is taken up.
LEMMA PacketEnds ==
  ASSUME NEW b \in Seq(Packets), WellFormed(b), NEW k \in 1..Len(b),
         Past(b, k, Len(b[k].cmds)), queued
  PROVE  k < Len(b) /\ Between(b, k)
  <1>1. b[k].kind = "queue" /\ Len(b[k].cmds) \in Nat
    <2>1. queued = (b[k].kind = "queue")
      BY DEF Past
    <2>2. b[k].kind = "queue"
      BY <2>1, Zenon
    <2> QED BY <2>2, PacketShape
  <1>2. k # Len(b)
    BY <1>1, WellFormedFits DEF Final
  <1>3. get = Len(Stream(b, k)) /\ response = Replies(b, k) /\ AllGood(b, k)
    BY WholePacket DEF Past
  <1>4. num = 0
    BY <1>1 DEF Past
  <1>5. Num = 1 /\ Queued = FALSE
    BY <1>4 DEF Num, Queued, GroupEnded
  <1> QED BY <1>2, <1>3, <1>5 DEF Between

\* A command that fails fails the request.
LEMMA FailedRequest ==
  ASSUME NEW b \in Seq(Packets), NEW k \in 1..Len(b), NEW j \in 1..Len(b[k].cmds),
         b[k].cmds[j] \notin {Info, Connect}
  PROVE  Expected(b) = <<Error>>
  BY DEF Expected

LEMMA WholeRequest ==
  ASSUME NEW b \in Seq(Packets), AllGood(b, Len(b))
  PROVE  Expected(b) = Replies(b, Len(b))
  <1>1. ~ \E i \in 1..Len(b) : \E j \in 1..Len(b[i].cmds) : b[i].cmds[j] \notin {Info, Connect}
    BY DEF AllGood, Good
  <1> QED BY <1>1 DEF Expected, Replies

\* A pass of the loop that runs command j of packet k.
LEMMA CommandRuns ==
  ASSUME BufferTypes, batch \in Seq(Packets), WellFormed(batch), batch' = batch,
         NEW k \in 1..Len(batch), NEW j \in 1..Len(batch[k].cmds), NEW q,
         q = (batch[k].kind = "queue"),
         Loaded(batch, Len(batch)), AllGood(batch, k - 1), Good(batch[k], j - 1),
         Run(batch[k].cmds[j], SoFar(batch, k, j - 1), Len(batch[k].cmds) - (j - 1), q,
             Offset(batch, k, j))
  PROVE  HandleInv' /\ Reply'
  <1> DEFINE b == batch   p == b[k]   c == p.cmds[j]   s == SoFar(b, k, j - 1)
  <1>1. Len(s) < Cap /\ Append(s, c) = SoFar(b, k, j) /\ Offset(b, k, j) = Offset(b, k, j - 1) + 1
    <2>1. /\ Len(s) = Offset(b, k, j - 1) /\ Offset(b, k, j - 1) \in Nat
          /\ Offset(b, k, j) = Offset(b, k, j - 1) + 1 /\ Append(s, c) = SoFar(b, k, j)
          /\ Offset(b, k, j) <= Len(Stream(b, Len(b)))
      BY ReplyGrows
    <2>2. Len(Stream(b, Len(b))) <= Cap /\ Len(Stream(b, Len(b))) \in Nat /\ Cap \in Nat
      BY WellFormedFits, StreamIsSequence, SizesAreLegal DEF Fits
    <2> HIDE DEF s
    <2> QED BY SMT, <2>1, <2>2
  <1>2. CASE c \notin {Info, Connect}
    <2>1. response' = <<Error>> /\ pc' = "send"
      BY <1>2, Zenon DEF Run, Fail
    <2>2. Expected(b) = <<Error>>
      BY <1>2, FailedRequest
    <2> QED BY <2>1, <2>2 DEF HandleInv, Reply
  <1>3. CASE c \in {Info, Connect}
    <2>1. /\ response' = SoFar(b, k, j) /\ get' = Offset(b, k, j) /\ queued' = q
          /\ num' = (Len(p.cmds) - (j - 1) - 1) % Wrap
          /\ pc' = IF num' > 0 \/ q THEN "handle" ELSE "send"
          /\ UNCHANGED <<mem, put>>
      BY <1>1, <1>3, Zenon DEF Run
    <2>2. Len(p.cmds) \in Nat /\ Len(p.cmds) < Wrap /\ j \in 1..Len(p.cmds)
      BY PacketShape
    <2>3. num' = Len(p.cmds) - j
      <3>1. Len(p.cmds) - (j - 1) - 1 = Len(p.cmds) - j /\ Len(p.cmds) - j \in 0..(Wrap - 1)
        <4> DEFINE l == Len(p.cmds)
        <4>1. l \in Nat /\ l < Wrap /\ j \in 1..l /\ Wrap \in Nat
          BY <2>2, SizesAreLegal
        <4> HIDE DEF l
        <4>2. l - (j - 1) - 1 = l - j /\ l - j \in 0..(Wrap - 1)
          BY SMT, <4>1
        <4> QED BY <4>2 DEF l
      <3>2. \A n \in 0..(Wrap - 1) : n % Wrap = n
        BY SMT, SizesAreLegal
      <3> QED BY <2>1, <3>1, <3>2
    <2>4. Good(p, j)
      <3>1. \A m \in 1..j : m = j \/ m \in 1..(j - 1)
        BY SMT, <2>2
      <3> QED BY <1>3, <3>1 DEF Good
    <2>5. Past(b, k, j)'
      BY <2>1, <2>3, <2>4 DEF Past
    <2>6. Loaded(b, Len(b))'
      BY <2>1 DEF Loaded
    <2>7. CASE num' > 0 \/ q
      <3>1. pc' = "handle" /\ (num' > 0 \/ queued')
        BY <2>1, <2>7
      <3>2. Handling(b)'
        BY <2>5, <2>6, <3>1 DEF Handling
      <3> QED BY <3>1, <3>2 DEF HandleInv, Reply
    <2>8. CASE ~(num' > 0 \/ q)
      <3>1. pc' = "send" /\ j = Len(p.cmds) /\ p.kind # "queue"
        <4> DEFINE l == Len(p.cmds)
        <4>1. l \in Nat /\ j \in 1..l /\ num' = l - j /\ ~(num' > 0) /\ ~q
          BY <2>2, <2>3, <2>8
        <4> HIDE DEF l
        <4>2. j = l
          BY SMT, <4>1
        <4> QED BY <2>1, <4>1, <4>2 DEF l
      <3>2. k = Len(b)
        <4>1. \A i \in 1..(Len(b) - 1) : b[i].kind = "queue"
          BY WellFormedFits DEF Fits
        <4> QED BY SMT, <3>1, <4>1
      <3>3. AllGood(b, Len(b)) /\ response' = Replies(b, Len(b))
        BY <2>1, <2>4, <3>1, <3>2, WholePacket
      <3>4. response' = Expected(b)
        BY <3>3, WholeRequest
      <3> QED BY <3>1, <3>4 DEF HandleInv, Reply
    <2> QED BY <2>7, <2>8
  <1> QED BY <1>2, <1>3

\* Inside a packet the next command is run.
LEMMA HandleInside ==
  ASSUME BufferTypes, batch \in Seq(Packets), WellFormed(batch), batch' = batch,
         NEW k \in 1..Len(batch), NEW j \in 1..(Len(batch[k].cmds) - 1), Past(batch, k, j),
         Loaded(batch, Len(batch)), HandlePlain \/ HandleGroup \/ HandleTooShort
  PROVE  HandleInv' /\ Reply'
  <1> DEFINE p == batch[k]   h == Header(p)   u == Len(Stream(batch, k - 1))
  <1>0. /\ Len(p.cmds) \in Nat /\ h \in Nat /\ Len(Encode(p)) = h + Len(p.cmds) /\ j + 1 \in 1..Len(p.cmds)
        /\ j \in Nat /\ (j + 1) - 1 = j /\ h + (j + 1) \in 1..Len(Encode(p))
    BY SMT, PacketShape
  <1>1. /\ mem[u + (h + (j + 1)) - 1] = Encode(p)[h + (j + 1)] /\ u + (h + (j + 1)) <= put /\ u \in Nat
        /\ Encode(p)[h + (j + 1)] = p.cmds[j + 1]
    <2> DEFINE i == h + (j + 1)
    <2>1. i \in 1..Len(Encode(p))
      BY <1>0
    <2>2. Encode(p)[i] = p.cmds[j + 1]
      BY <1>0, PacketShape
    <2> HIDE DEF i
    <2>3. mem[u + i - 1] = Encode(p)[i] /\ u + i <= put /\ u \in Nat
      BY <2>1, ByteAt
    <2> QED BY <2>2, <2>3 DEF i
  <1>2. get = u + h + j
    BY DEF Past, Offset
  <1>3. mem[get] = p.cmds[j + 1] /\ put > get /\ ~(put <= get) /\ get + 1 = Offset(batch, k, j + 1)
    <2>1. u + (h + (j + 1)) - 1 = u + h + j /\ Offset(batch, k, j + 1) = u + h + (j + 1)
      BY SMT, <1>0, <1>1 DEF Offset
    <2> HIDE DEF u, h, p
    <2>2. put \in Nat
      BY SMT, SizesAreLegal DEF BufferTypes
    <2> QED BY SMT, <1>0, <1>1, <1>2, <2>1, <2>2
  <1>4. p.cmds[j + 1] \notin {Exec, Queue}
    BY <1>0, WellFormedFits DEF Fits, Legal
  <1>5. Num = Len(p.cmds) - j /\ Queued = (p.kind = "queue")
    <2>1. num = Len(p.cmds) - j /\ queued = (p.kind = "queue") /\ num # 0
      BY SMT, <1>0 DEF Past
    <2> QED BY <2>1 DEF Num, Queued, GroupEnded
  <1>6. HandlePlain
    BY <1>3, <1>4, Zenon DEF HandleGroup, HandleTooShort
  <1>7. Run(p.cmds[j + 1], SoFar(batch, k, j), Len(p.cmds) - j, Queued, Offset(batch, k, j + 1))
    BY <1>3, <1>5, <1>6, Zenon DEF HandlePlain, Past
  <1>8. AllGood(batch, k - 1) /\ Good(p, j)
    BY DEF Past
  <1> QED BY <1>0, <1>5, <1>7, <1>8, CommandRuns

\* Between packets the first command of the next one is run, behind its header.
LEMMA HandleBetween ==
  ASSUME BufferTypes, batch \in Seq(Packets), WellFormed(batch), batch' = batch,
         NEW k \in 0..(Len(batch) - 1), Between(batch, k),
         Loaded(batch, Len(batch)), HandlePlain \/ HandleGroup \/ HandleTooShort
  PROVE  HandleInv' /\ Reply'
  <1> DEFINE n == k + 1   p == batch[n]   h == Header(p)   u == Len(Stream(batch, k))
             l == Len(p.cmds)   e == Encode(p)
  <1>0. n \in 1..Len(batch) /\ n - 1 = k /\ p \in Packets /\ k \in 0..Len(batch)
    BY SMT
  <1>1. /\ l \in Nat \ {0} /\ h \in Nat /\ Len(e) = h + l /\ Legal(p)
        /\ p.kind \in {"plain", "exec", "queue"} /\ e[h + 1] = p.cmds[1] /\ 1 \in 1..l
    <2>1. Legal(p)
      BY <1>0, WellFormedFits DEF Fits
    <2>2. l \in Nat \ {0}
      BY <1>0, <2>1, PacketShape DEF Legal
    <2>3. 1 \in 1..l
      BY SMT, <2>2
    <2>4. h \in Nat /\ Len(e) = h + l /\ e[h + 1] = p.cmds[1]
      BY <1>0, <2>3, PacketShape
    <2> QED BY <1>0, <2>1, <2>2, <2>3, <2>4, PacketsAreLegal
  <1>2. \A i \in 1..Len(e) : mem[u + i - 1] = e[i] /\ u + i <= put /\ u \in Nat
    BY <1>0, ByteAt
  <1>3. get = u /\ response = Replies(batch, k) /\ Num = 1 /\ Queued = FALSE /\ AllGood(batch, k)
    BY DEF Between
  <1>4. put \in Nat /\ put <= Cap /\ Cap \in Nat
    BY SMT, SizesAreLegal DEF BufferTypes
  <1>5. p.cmds[1] \notin {Exec, Queue}
    BY <1>1 DEF Legal
  <1>6. Good(p, 0)
    BY SMT DEF Good
  <1>7. SoFar(batch, n, 0) = response \o (IF p.kind = "plain" THEN <<>> ELSE <<Exec, l>>)
        /\ response \o <<>> = response /\ Len(response) = u
    BY <1>0, <1>3, NothingOfPacket, RepliesAreAsLong
  <1>8. Offset(batch, n, 1) = u + h + 1
    BY <1>0 DEF Offset
  <1> HIDE DEF u, l, e, h, p, n
  <1>9. CASE p.kind = "plain"
    <2>1. h = 0
      BY <1>9 DEF h, Header
    <2>2. 1 \in 1..Len(e) /\ u + 1 - 1 = u
      BY SMT, <1>1, <1>2, <2>1
    <2>3. mem[get] = p.cmds[1] /\ put > get /\ ~(put <= get) /\ get + 1 = Offset(batch, n, 1)
      BY SMT, <1>1, <1>2, <1>3, <1>4, <1>8, <2>1, <2>2
    <2>4. HandlePlain
      BY <1>5, <2>3, Zenon DEF HandleGroup, HandleTooShort
    <2>5. l = 1
      <3>1. n = Len(batch)
        <4>1. \A i \in 1..(Len(batch) - 1) : batch[i].kind = "queue"
          BY WellFormedFits DEF Fits
        <4> QED BY SMT, <1>0, <1>9, <4>1 DEF p
      <3> QED BY <1>9, <3>1, WellFormedFits DEF Final, p, l
    <2>6. SoFar(batch, n, 0) = response
      BY <1>7, <1>9
    <2>7. Run(p.cmds[1], SoFar(batch, n, 0), l, FALSE, Offset(batch, n, 1))
      BY <1>3, <2>3, <2>4, <2>5, <2>6, Zenon DEF HandlePlain
    <2>8. FALSE = (p.kind = "queue") /\ 1 - 1 = 0 /\ l - 0 = l
      BY <1>1, <1>9
    <2> QED BY <1>0, <1>1, <1>3, <1>6, <2>7, <2>8, CommandRuns DEF p, l
  <1>10. CASE p.kind # "plain"
    <2>1. h = 2
      BY <1>10 DEF h, Header
    <2>2. /\ 1 \in 1..Len(e) /\ 2 \in 1..Len(e) /\ 3 \in 1..Len(e)
          /\ u + 1 - 1 = u /\ u + 2 - 1 = u + 1 /\ u + 3 - 1 = u + 2
      BY SMT, <1>1, <1>2, <2>1
    <2>3. mem[get] = e[1] /\ mem[get + 1] = e[2] /\ mem[get + 2] = e[3] /\ get + 3 <= put
          /\ get \in Nat
      BY <1>2, <1>3, <2>2
    <2>4. /\ e[1] = (IF p.kind = "exec" THEN Exec ELSE Queue) /\ e[2] = l /\ e[3] = p.cmds[1]
      <3>1. /\ e[1] = (IF p.kind = "exec" THEN Exec ELSE Queue) /\ e[2] = l
        BY <1>0, <1>10, PacketShape DEF e, p, l
      <3>2. h + 1 = 3
        BY <2>1
      <3> QED BY <1>1, <3>1, <3>2
    <2>5. get + 3 = Offset(batch, n, 1) /\ put > get /\ ~(put <= get) /\ ~(put <= get + 2)
          /\ Len(response) + 2 <= Cap /\ ~(Len(response) + 2 > Cap)
      BY SMT, <1>3, <1>4, <1>7, <1>8, <2>1, <2>3
    <2>6. HandleGroup
      <3>1. mem[get] \in {Exec, Queue}
        BY <2>3, <2>4
      <3> QED BY <2>5, <3>1, Zenon DEF HandlePlain, HandleTooShort
    <2>7. SoFar(batch, n, 0) = response \o <<Exec, mem[get + 1]>>
      BY <1>7, <1>10, <2>3, <2>4
    <2> DEFINE q == Queued \/ mem[get] = Queue
    <2>8. Run(p.cmds[1], SoFar(batch, n, 0), l, q, Offset(batch, n, 1))
      BY <2>3, <2>4, <2>5, <2>6, <2>7, Zenon DEF HandleGroup
    <2>9. q = (p.kind = "queue") /\ 1 - 1 = 0 /\ l - 0 = l
      <3>1. mem[get] = Queue <=> p.kind = "queue"
        BY <1>1, <1>10, <2>3, <2>4, CodesDiffer
      <3> QED BY <1>1, <1>3, <3>1
    <2> HIDE DEF q
    <2> QED BY <1>0, <1>1, <1>3, <1>6, <2>8, <2>9, CommandRuns DEF p, l
  <1> QED BY <1>9, <1>10

LEMMA HandleAnswers ==
  ASSUME BufferTypes, batch \in Seq(Packets), HandleInv, Handle
  PROVE  HandleInv' /\ Reply'
  <1>1. pc = "handle" /\ batch' = batch /\ (HandlePlain \/ HandleGroup \/ HandleTooShort)
    BY Zenon DEF Handle
  <1>2. CASE ~WellFormed(batch)
    <2>1. ~WellFormed(batch')
      BY <1>1, <1>2
    <2> QED BY <2>1 DEF HandleInv, Reply
  <1>3. CASE WellFormed(batch)
    <2>1. Handling(batch) /\ Len(batch) \in 1..Len(batch)
      BY <1>1, <1>3, WellFormedFits DEF HandleInv
    <2>2. CASE Between(batch, 0)
      <3>1. 0 \in 0..(Len(batch) - 1)
        BY <2>1
      <3> QED BY <1>1, <1>3, <2>1, <2>2, <3>1, HandleBetween DEF Handling
    <2>3. ASSUME NEW k \in 1..Len(batch), NEW j \in 1..Len(batch[k].cmds), Past(batch, k, j),
                 num > 0 \/ queued
          PROVE  HandleInv' /\ Reply'
      <3>1. CASE j = Len(batch[k].cmds)
        <4>1. ~(num > 0)
          BY <2>3, <3>1, PacketShape DEF Past
        <4>2. Past(batch, k, Len(batch[k].cmds)) /\ queued
          BY <2>3, <3>1, <4>1
        <4>3. k \in 0..(Len(batch) - 1) /\ Between(batch, k)
          BY <1>3, <4>2, PacketEnds
        <4> QED BY <1>1, <1>3, <2>1, <4>3, HandleBetween DEF Handling
      <3>2. CASE j # Len(batch[k].cmds)
        <4>1. Len(batch[k].cmds) \in Nat
          BY PacketShape
        <4>2. j \in 1..(Len(batch[k].cmds) - 1)
          BY SMT, <3>2, <4>1
        <4> QED BY <1>1, <1>3, <2>1, <2>3, <4>2, HandleInside DEF Handling
      <3> QED BY <3>1, <3>2
    <2> QED BY <2>1, <2>2, <2>3 DEF Handling
  <1> QED BY <1>2, <1>3

-----------------------------------------------------------------------------
(***************************************************************************)
(* The whole: receiving, handling and answering a request.                 *)
(***************************************************************************)
ReceiveInv ==
  /\ pc \in Searching => put = 0 /\ get = 0 /\ batch = <<>>
  /\ pc = "recv" => get = 0
  /\ pc = "recv" /\ xfer.state = "busy" /\ Fits(batch) =>
       AllQueued(batch) /\ Loaded(batch, Len(batch))
  /\ pc = "recv" /\ xfer.state = "done" =>
       \E b \in Seq(Packets), p \in Packets :
         /\ batch = Append(b, p)
         /\ Fits(batch) => Loaded(b, Len(b)) /\ xfer.bytes = Encode(p)
  /\ xfer.state = "done" => transport = "usb" /\ pc \in {"recv", "send"}

ReplyInv == ReceiveInv /\ HandleInv /\ Reply

replyVars == <<pc, transport, ring, response, parse, xfer, batch>>

LEMMA NothingChanges == ReplyInv /\ UNCHANGED replyVars => ReplyInv'
  BY DEF ReplyInv, ReceiveInv, HandleInv, Reply, Handling, Between, Past, Loaded, Num, Queued,
         GroupEnded, replyVars, ring, parse

\* A packet that is accepted: the thread waits for more, or handles the request.
LEMMA AcceptReceives ==
  ASSUME BufferTypes, NEW b \in Seq(Packets), NEW p \in Packets, NEW e, NEW n,
         Fits(Append(b, p)) => Loaded(b, Len(b)) /\ e = Encode(p) /\ n = Len(e),
         get = 0, Accept(e, n), batch' = Append(b, p), xfer'.state = "busy"
  PROVE  ReplyInv'
  <1>1. get' = 0 /\ pc' \in {"recv", "handle"}
    BY DEF Accept
  <1>2. Len(Append(b, p)) = Len(b) + 1 /\ Append(b, p) \in Seq(Packets)
    OBVIOUS
  <1>3. CASE ~Fits(Append(b, p))
    <2>1. ~WellFormed(Append(b, p))
      BY <1>2, <1>3, WellFormedFits
    <2> QED BY <1>1, <1>3, <2>1 DEF ReplyInv, ReceiveInv, HandleInv, Reply, Searching
  <1>4. CASE Fits(Append(b, p))
    <2>1. /\ Loaded(Append(b, p), Len(b) + 1)'
          /\ IF p.kind = "queue" THEN pc' = "recv"
               ELSE pc' = "handle" /\ response' = <<>> /\ num' = 1 /\ queued' = FALSE
      BY <1>4, AcceptLoads
    <2>2. Loaded(batch, Len(batch))'
      BY <1>2, <2>1 DEF Loaded
    <2>3. CASE p.kind = "queue"
      <3>1. AllQueued(b)
        BY <1>4, FitsBefore
      <3>2. AllQueued(Append(b, p))
        BY <2>3, <3>1 DEF AllQueued
      <3>3. pc' = "recv"
        BY <2>1, <2>3
      <3>4. AllQueued(batch)'
        BY <3>2 DEF AllQueued
      <3> QED BY <1>1, <2>2, <3>3, <3>4 DEF ReplyInv, ReceiveInv, HandleInv, Reply, Searching
    <2>4. CASE p.kind # "queue"
      <3>1. pc' = "handle" /\ response' = <<>> /\ num' = 1 /\ queued' = FALSE
        BY <2>1, <2>4
      <3>2. Between(batch, 0)'
        <4>1. Stream(batch', 0) = <<>> /\ Replies(batch', 0) = <<>> /\ Len(<<>>) = 0
          BY StreamOfNone
        <4>2. \A x : AllGood(x, 0)
          BY SMT DEF AllGood
        <4> QED BY <1>1, <3>1, <4>1, <4>2 DEF Between, Num, Queued, GroupEnded
      <3>3. Handling(batch)'
        BY <2>2, <3>2 DEF Handling
      <3> QED BY <3>1, <3>3 DEF ReplyInv, ReceiveInv, HandleInv, Reply, Searching
    <2> QED BY <2>3, <2>4
  <1> QED BY <1>3, <1>4

\* What fits into the buffer fits into the transfer.
LEMMA TransferIsWhole ==
  ASSUME BufferTypes, NEW b \in Seq(Packets), NEW p \in Packets, Fits(Append(b, p)),
         Loaded(b, Len(b))
  PROVE  SubSeq(Encode(p), 1, Min({Len(Encode(p)), Room})) = Encode(p)
  <1> DEFINE e == Encode(p)   m == Min({Len(e), Room})
  <1>1. /\ Len(Stream(b, Len(b))) + Len(e) <= Cap /\ Len(e) <= Packet /\ e \in Seq(Bytes)
        /\ Len(e) \in Nat /\ Len(Stream(b, Len(b))) \in Nat
    BY FitsBefore, StreamIsSequence, PacketShape DEF Legal
  <1>2. put = Len(Stream(b, Len(b)))
    BY DEF Loaded
  <1> HIDE DEF e
  <1>3. Cap - put \in Nat /\ Len(e) <= Cap - put /\ Packet \in Nat
    BY SMT, <1>1, <1>2, SizesAreLegal
  <1>4. Room \in {Packet, Cap - put}
    BY <1>3, MinIsOne DEF Room
  <1>5. Room \in Nat /\ Len(e) <= Room
    BY <1>1, <1>3, <1>4
  <1>6. m \in {Len(e), Room} /\ m <= Len(e)
    BY <1>1, <1>5, MinIsOne, MinOfTwo
  <1> HIDE DEF m
  <1>7. m = Len(e)
    BY <1>1, <1>5, <1>6
  <1>8. SubSeq(e, 1, Len(e)) = e
    BY <1>1
  <1> QED BY <1>7, <1>8 DEF m, e

\* With no transfer done, what is known ends with the session.
LEMMA SessionIsOver ==
  ASSUME ReplyInv, pc' = "reset", xfer' = xfer, transport' = transport, xfer.state # "done"
  PROVE  ReplyInv'
  BY DEF ReplyInv, ReceiveInv, HandleInv, Reply, Searching

LEMMA WithoutPackets ==
  ASSUME put' = 0, get' = 0, batch' = <<>>, xfer'.state # "done", pc' \in Searching \cup {"recv"}
  PROVE  ReplyInv'
  <1>1. (AllQueued(batch) /\ Loaded(batch, Len(batch)))'
    <2>1. Stream(<<>>, 0) = <<>> /\ Len(<<>>) = 0
      BY StreamOfNone
    <2> QED BY <2>1 DEF AllQueued, Loaded
  <1> QED BY <1>1 DEF ReplyInv, ReceiveInv, HandleInv, Reply, Searching

LEMMA ReplyStays ==
  ASSUME BufferTypes, SessionTypes, PacketTypes, ReplyInv, [Next]_vars
  PROVE  ReplyInv'
  <1>0. xfer.state \in {"busy", "done"} /\ batch \in Seq(Packets) /\ Idle.state = "busy"
    BY DEF PacketTypes, Idle
  <1>1. CASE UsbConfigure \/ UsbLost \/ UsbSuspend \/ UsbResume \/ UNCHANGED vars
    <2>1. UNCHANGED replyVars
      BY <1>1 DEF UsbConfigure, UsbLost, UsbSuspend, UsbResume, vars, replyVars
    <2> QED BY <2>1, NothingChanges
  <1>2. ASSUME NEW c \in Clients, ClientConnects(c) \/ ClientLeaves(c)
        PROVE  ReplyInv'
    <2>1. UNCHANGED replyVars
      BY <1>2 DEF ClientConnects, ClientLeaves, replyVars
    <2> QED BY <2>1, NothingChanges
  <1>3. ASSUME NEW h \in Hosts, NEW p \in Packets, HostSends(h, p)
        PROVE  ReplyInv'
    <2>1. UNCHANGED replyVars
      BY <1>3 DEF HostSends, replyVars
    <2> QED BY <2>1, NothingChanges
  <1>4. CASE UsbOut
    <2> DEFINE p == Head(inbox[Usb])   e == Encode(p)
    <2>1. /\ pc = "recv" /\ transport = "usb" /\ xfer = Idle /\ inbox[Usb] # <<>>
          /\ xfer' = [state |-> "done", bytes |-> SubSeq(e, 1, Min({Len(e), Room}))]
          /\ batch' = Append(batch, p)
          /\ UNCHANGED <<pc, transport, ring, response, parse>>
      BY <1>4, Zenon DEF UsbOut
    <2>2. p \in Packets
      <3>1. Usb \in Hosts
        BY DEF Hosts
      <3>2. inbox[Usb] \in Seq(Packets)
        BY <3>1 DEF PacketTypes
      <3> QED BY <2>1, <3>2
    <2> HIDE DEF p
    <2>3. get = 0 /\ (Fits(batch) => Loaded(batch, Len(batch)))
      BY <1>0, <2>1 DEF ReplyInv, ReceiveInv
    <2>4. Fits(batch') => Loaded(batch, Len(batch)) /\ xfer'.bytes = e
      <3> SUFFICES ASSUME Fits(Append(batch, p))
                   PROVE  Loaded(batch, Len(batch)) /\ xfer'.bytes = e
        BY <2>1
      <3>1. Loaded(batch, Len(batch))
        BY <1>0, <2>2, <2>3, FitsBefore
      <3>2. SubSeq(e, 1, Min({Len(e), Room})) = e
        BY <1>0, <2>2, <3>1, TransferIsWhole
      <3> QED BY <2>1, <3>1, <3>2
    <2>5. Fits(batch') => Loaded(batch, Len(batch)) /\ (\A b : b = batch => Loaded(b, Len(b))')
      BY <2>1, <2>4 DEF Loaded, ring
    <2>6. \E b \in Seq(Packets), q \in Packets :
            batch' = Append(b, q) /\ (Fits(batch') => Loaded(b, Len(b))' /\ xfer'.bytes = Encode(q))
      <3>1. ASSUME NEW b, b = batch
            PROVE  Fits(batch') => Loaded(b, Len(b))' /\ xfer'.bytes = e
        BY <2>4, <2>5, <3>1
      <3>2. PICK b \in Seq(Packets) : b = batch
        BY <1>0
      <3> QED BY <2>1, <2>2, <3>1, <3>2
    <2>7. xfer'.state = "done" /\ get' = 0 /\ pc' = "recv" /\ transport' = "usb"
      BY <2>1, <2>3 DEF ring
    <2> QED BY <2>6, <2>7 DEF ReplyInv, ReceiveInv, HandleInv, Reply, Searching
  <1>5. CASE UsbIn
    <2>1. /\ pc = "send" /\ transport = "usb"
          /\ UNCHANGED <<transport, ring, response, parse, pc, batch>>
      BY <1>5, Zenon DEF UsbIn
    <2> QED BY <2>1 DEF ReplyInv, ReceiveInv, HandleInv, Reply, Searching
  <1>6. CASE ConfigureTcp \/ ConfigureUsb \/ Sleep
    <2>1. /\ pc \in Searching /\ pc' \in Searching \cup {"recv"}
          /\ UNCHANGED <<put, get, batch, xfer>>
      BY <1>6 DEF ConfigureTcp, ConfigureUsb, Sleep, Searching, ring
    <2>2. put = 0 /\ get = 0 /\ batch = <<>> /\ xfer.state # "done"
      BY <2>1 DEF ReplyInv, ReceiveInv, Searching
    <2> QED BY <2>1, <2>2, WithoutPackets
  <1>7. CASE RecvTcp
    <2> DEFINE p == Head(inbox[conn])   e == Encode(p)   n == IF e = <<>> THEN 2 ELSE Len(e)
    <2>1. /\ pc = "recv" /\ transport = "tcp" /\ inbox[conn] # <<>> /\ Accept(e, n)
          /\ batch' = Append(batch, p) /\ xfer' = xfer
      BY <1>7, Zenon DEF RecvTcp
    <2>2. p \in Packets
      <3>1. conn \in Hosts
        BY <2>1 DEF SessionTypes, Hosts
      <3>2. inbox[conn] \in Seq(Packets)
        BY <3>1 DEF PacketTypes
      <3> QED BY <2>1, <3>2
    <2>3. xfer.state = "busy" /\ get = 0 /\ (Fits(batch) => Loaded(batch, Len(batch)))
      BY <1>0, <2>1 DEF ReplyInv, ReceiveInv
    <2> HIDE DEF p
    <2>4. Fits(Append(batch, p)) => Loaded(batch, Len(batch)) /\ n = Len(e)
      <3> SUFFICES ASSUME Fits(Append(batch, p)) PROVE Loaded(batch, Len(batch)) /\ n = Len(e)
        OBVIOUS
      <3>1. Fits(batch) /\ Legal(p)
        BY <1>0, <2>2, FitsBefore
      <3>2. Len(e) # 0 /\ e \in Seq(Bytes)
        BY <2>2, <3>1, FirstByteTells, PacketShape
      <3>3. e # <<>>
        BY <3>2
      <3> QED BY <2>3, <3>1, <3>3
    <2> HIDE DEF e, n
    <2>5. xfer'.state = "busy"
      BY <2>1, <2>3
    <2> QED BY <1>0, <2>1, <2>2, <2>3, <2>4, <2>5, AcceptReceives DEF e
  <1>8. CASE RecvUsb
    <2>1. /\ pc = "recv" /\ xfer.state = "done" /\ Accept(xfer.bytes, Len(xfer.bytes))
          /\ batch' = batch /\ xfer' = Idle
      BY <1>8, Zenon DEF RecvUsb
    <2>2. PICK b \in Seq(Packets), p \in Packets :
            batch = Append(b, p) /\ (Fits(batch) => Loaded(b, Len(b)) /\ xfer.bytes = Encode(p))
      BY <2>1 DEF ReplyInv, ReceiveInv
    <2>3. get = 0 /\ xfer'.state = "busy" /\ batch' = Append(b, p)
      BY <1>0, <2>1, <2>2 DEF ReplyInv, ReceiveInv
    <2>4. Fits(Append(b, p)) =>
            Loaded(b, Len(b)) /\ xfer.bytes = Encode(p) /\ Len(xfer.bytes) = Len(xfer.bytes)
      BY <2>2
    <2> QED BY <2>1, <2>3, <2>4, AcceptReceives
  <1>9. CASE RecvTcpEnds \/ UsbShutdown \/ SendTcpFails
    <2>1. /\ pc' = "reset" /\ xfer' = xfer /\ transport' = transport
          /\ transport # "usb" \/ xfer.state = "busy"
      BY <1>9 DEF RecvTcpEnds, UsbShutdown, SendTcpFails
    <2>2. xfer.state # "done"
      BY <2>1 DEF ReplyInv, ReceiveInv
    <2> QED BY <2>1, <2>2, SessionIsOver
  <1>10. CASE Handle
    <2>1. pc = "handle" /\ UNCHANGED <<transport, xfer, batch>> /\ pc' \in {"handle", "send"}
      <3>1. ASSUME NEW c, NEW s, NEW n, NEW q, NEW at, Run(c, s, n, q, at)
            PROVE  pc' \in {"handle", "send"}
        BY <3>1, Zenon DEF Run, Fail
      <3>2. pc = "handle" /\ UNCHANGED <<transport, xfer, batch>>
        BY <1>10, Zenon DEF Handle
      <3>3. HandlePlain \/ HandleGroup \/ HandleTooShort
        BY <1>10, Zenon DEF Handle
      <3>4. HandlePlain => pc' \in {"handle", "send"}
        BY <3>1 DEF HandlePlain
      <3>5. HandleGroup => pc' \in {"handle", "send"}
        BY <3>1 DEF HandleGroup
      <3>6. HandleTooShort => pc' \in {"handle", "send"}
        BY DEF HandleTooShort, Fail
      <3> QED BY <3>2, <3>3, <3>4, <3>5, <3>6
    <2>2. HandleInv' /\ Reply'
      BY <1>0, <1>10, HandleAnswers DEF ReplyInv
    <2>3. xfer.state # "done"
      BY <2>1 DEF ReplyInv, ReceiveInv
    <2>4. ReceiveInv'
      BY <2>1, <2>3 DEF ReceiveInv, Searching
    <2> QED BY <2>2, <2>4 DEF ReplyInv
  <1>11. CASE SendTcp \/ SendUsb
    <2>1. /\ put' = 0 /\ get' = 0 /\ batch' = <<>> /\ pc' = "recv"
          /\ xfer' = Idle \/ (transport = "tcp" /\ xfer' = xfer)
      BY <1>11, Zenon DEF SendTcp, SendUsb, Answered
    <2>2. xfer'.state # "done"
      BY <1>0, <2>1 DEF ReplyInv, ReceiveInv
    <2> QED BY <2>1, <2>2, WithoutPackets
  <1>12. CASE Reset
    <2>1. /\ put' = 0 /\ get' = 0 /\ batch' = <<>> /\ pc = "reset" /\ pc' = "tcp" /\ xfer' = xfer
      BY <1>12, Zenon DEF Reset
    <2>2. xfer'.state # "done"
      BY <2>1 DEF ReplyInv, ReceiveInv
    <2> QED BY <2>1, <2>2, WithoutPackets DEF Searching
  <1> QED BY <1>1, <1>2, <1>3, <1>4, <1>5, <1>6, <1>7, <1>8, <1>9, <1>10, <1>11, <1>12
          DEF Next, Environment, Thread

\* Every well-formed request is answered by exactly the replies of its commands,
\* or by the error byte when one of them fails, however it was split into packets
\* and whatever was in the buffers before (dap_thread_fn, dap_handle_request).
THEOREM RequestsAreAnswered == Spec => []Reply
  <1>1. Init => ReplyInv
    <2> SUFFICES ASSUME Init PROVE ReplyInv
      OBVIOUS
    <2>1. /\ pc = "tcp" /\ put = 0 /\ get = 0 /\ batch = <<>>
          /\ xfer.state = "busy"
      BY DEF Init, Idle
    <2> QED BY <2>1 DEF ReplyInv, ReceiveInv, HandleInv, Reply, Searching
  <1>2. ReplyInv /\ TypeInv /\ [Next]_vars => ReplyInv'
    BY ReplyStays DEF TypeInv
  <1>3. ReplyInv => Reply
    BY DEF ReplyInv
  <1> QED BY <1>1, <1>2, <1>3, TypesAreInvariant, PTL DEF Spec
=============================================================================
