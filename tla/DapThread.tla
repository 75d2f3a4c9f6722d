------------------------------ MODULE DapThread ------------------------------
(***************************************************************************)
(* The DAP thread of firmware/src/dap/dap.c: it finds a transport, receives *)
(* requests from it, runs the commands they hold and sends the response,   *)
(* with the two transports of transport_tcp.c and transport_usb.c.         *)
(*                                                                         *)
(* Three kinds of actor share its state: the thread itself, one action per *)
(* call that can block or be overtaken; the USB device stack, whose status *)
(* callback dap_usb_status_cb writes dap_usb_configured at any time and    *)
(* whose transfers complete on their own; and the hosts, a USB host and    *)
(* TCP clients that come, send packets and leave when they please.         *)
(*                                                                         *)
(* A byte is a number below Wrap, which stands for 256, so that a count of *)
(* commands wraps as the uint8_t of dap_handle_request does.  A command is *)
(* one byte and answers with one byte: itself.  Connect stands for every   *)
(* command that changes the state of the driver, Info for one that does    *)
(* not; a byte that is none of the named ones is a command that fails.     *)
(***************************************************************************)
EXTENDS Integers, SequencesExt

CONSTANTS
  Cap,        (* DAP_RING_BUF_SIZE, capacity of dap->buf.request and .response   *)
  Packet,     (* DAP_MAX_PACKET_SIZE, most bytes of one receive                  *)
  Wrap,       (* number of values of a byte                                      *)
  Info, Connect, Exec, Queue, (* command codes, Exec 0x7f and Queue 0x7e         *)
  Error,      (* dap_cmd_response_error, the whole response of a failed request  *)
  Clients,    (* TCP clients                                                     *)
  Nobody,     (* no TCP client                                                   *)
  Packets,    (* what a host may send                                            *)
  MaxSends    (* bound: packets sent by all hosts together                       *)

Usb == "usb"
Hosts == Clients \cup {Usb}

ASSUME SizesAreLegal ==
  /\ Packet \in Nat \ {0} /\ Cap \in Nat /\ Packet <= Cap
  /\ Wrap \in Nat \ {0}
  /\ MaxSends \in Nat

ASSUME CodesAreLegal ==
  /\ {Info, Connect, Exec, Queue} \subseteq 0..(Wrap - 1)
  /\ Cardinality({Info, Connect, Exec, Queue}) = 4
  /\ Error \notin 0..(Wrap - 1)

ASSUME HostsAreDistinct == Nobody \notin Clients /\ Usb \notin Clients

\* A packet is a group of commands: sent as it is, as an atomic group or as a
\* queued group, whose length is a byte.
ASSUME PacketsAreLegal ==
  \A p \in Packets : /\ p.kind \in {"plain", "exec", "queue"}
                     /\ p.cmds \in Seq(0..(Wrap - 1))
                     /\ Len(p.cmds) < Wrap

VARIABLES
  transport,          (* dap->transport: "none", "tcp" or "usb"                    *)
  port,               (* who opened the port, "closed" when dap->swj.port is       *)
                      (* disabled                                                  *)
  mem, put, get,      (* dap->buf.request: its array, bytes written, bytes read    *)
  response,           (* dap->buf.response                                         *)
  num, queued,        (* dap_handle_request: num_commands, queued_commands         *)
  pc,                 (* where the thread is                                       *)
  usb, configured,    (* state of the USB device; dap_usb_configured               *)
  xfer,               (* USB transfer the thread waits for: "busy" or "done", and  *)
                      (* the bytes it moved                                        *)
  came, backlog, conn, (* clients that connected; those waiting to be accepted;    *)
                      (* the one tcp_conn_sock belongs to                          *)
  gone, shut,         (* clients that closed their end; sockets the probe closed   *)
  inbox, sends,       (* packets sent by each host and not read; packets sent      *)
  batch               (* history: packets received since the last response         *)

ring    == <<mem, put, get>>
parse   == <<num, queued>>
usbVars == <<usb, configured>>
tcpVars == <<came, backlog, conn, gone, shut>>
hostVars == <<inbox, sends>>
vars == <<transport, port, ring, response, parse, pc, usbVars, xfer, tcpVars, hostVars, batch>>

Idle == [state |-> "busy", bytes |-> <<>>]

\* The bytes of a packet on the wire.
Encode(p) ==
  CASE p.kind = "plain" -> p.cmds
    [] p.kind = "exec"  -> <<Exec, Len(p.cmds)>> \o p.cmds
    [] p.kind = "queue" -> <<Queue, Len(p.cmds)>> \o p.cmds

Init ==
  /\ transport = "none" /\ port = "closed"
  /\ mem = [i \in 0..(Cap - 1) |-> 0] /\ put = 0 /\ get = 0
  /\ response = <<>>
  /\ num = 0 /\ queued = FALSE
  /\ pc = "tcp"
  /\ usb = "off" /\ configured = FALSE /\ xfer = Idle
  /\ came = {} /\ backlog = {} /\ conn = Nobody /\ gone = {} /\ shut = {}
  /\ inbox = [h \in Hosts |-> <<>>] /\ sends = 0
  /\ batch = <<>>

(***************************************************************************)
(* The hosts and the USB device stack.                                     *)
(***************************************************************************)

\* The USB host gives the device a configuration.
UsbConfigure ==
  /\ usb = "off"
  /\ usb' = "on" /\ configured' = TRUE
  /\ UNCHANGED <<transport, port, ring, response, parse, pc, xfer, tcpVars, hostVars, batch>>

\* A bus reset, an unplugged cable or a device error: what the host had sent
\* and the probe had not read is gone with the configuration.
UsbLost ==
  /\ usb # "off"
  /\ usb' = "off" /\ configured' = FALSE
  /\ inbox' = [inbox EXCEPT ![Usb] = <<>>]
  /\ UNCHANGED <<transport, port, ring, response, parse, pc, xfer, tcpVars, sends, batch>>

UsbSuspend ==
  /\ usb = "on"
  /\ usb' = "asleep" /\ configured' = FALSE
  /\ UNCHANGED <<transport, port, ring, response, parse, pc, xfer, tcpVars, hostVars, batch>>

\* The device keeps its configuration: there is no second CONFIGURED event, and
\* the callback ignores RESUME.
UsbResume ==
  /\ usb = "asleep"
  /\ usb' = "on"
  /\ UNCHANGED <<transport, port, ring, response, parse, pc, configured, xfer, tcpVars,
                 hostVars, batch>>

ClientConnects(c) ==
  /\ c \notin came
  /\ came' = came \cup {c}
  /\ backlog' = backlog \cup {c}
  /\ UNCHANGED <<transport, port, ring, response, parse, pc, usbVars, xfer, conn, gone, shut,
                 hostVars, batch>>

ClientLeaves(c) ==
  /\ c \in came \ gone
  /\ gone' = gone \cup {c}
  /\ UNCHANGED <<transport, port, ring, response, parse, pc, usbVars, xfer, came, backlog, conn,
                 shut, hostVars, batch>>

\* A host that is there sends a packet.
HostSends(h, p) ==
  /\ sends < MaxSends
  /\ IF h = Usb THEN usb = "on" ELSE h \in came \ (gone \cup shut)
  /\ inbox' = [inbox EXCEPT ![h] = Append(@, p)]
  /\ sends' = sends + 1
  /\ UNCHANGED <<transport, port, ring, response, parse, pc, usbVars, xfer, tcpVars, batch>>

(***************************************************************************)
(* The thread looks for a transport: the loop over the transports asks     *)
(* each of them, in the order of their names, and its continue statement   *)
(* neither ends the loop nor skips the sleep.                              *)
(***************************************************************************)
ConfigureTcp ==
  /\ pc = "tcp" /\ pc' = "usb"
  /\ IF backlog = {}
       THEN UNCHANGED <<transport, backlog, conn>>
       ELSE \E c \in backlog : /\ transport' = "tcp"
                               /\ conn' = c
                               /\ backlog' = backlog \ {c}
  /\ UNCHANGED <<port, ring, response, parse, usbVars, xfer, came, gone, shut, hostVars, batch>>

ConfigureUsb ==
  /\ pc = "usb" /\ pc' = "sleep"
  /\ transport' = IF configured THEN "usb" ELSE transport
  /\ UNCHANGED <<port, ring, response, parse, usbVars, xfer, tcpVars, hostVars, batch>>

Sleep ==
  /\ pc = "sleep"
  /\ pc' = IF transport = "none" THEN "tcp" ELSE "recv"
  /\ UNCHANGED <<transport, port, ring, response, parse, usbVars, xfer, tcpVars, hostVars,
                 batch>>

(***************************************************************************)
(* The thread receives.                                                    *)
(***************************************************************************)

\* As Room, without regard to what the queued packets already take.
WholeRoom == Packet

\* ring_buf_put_claim: as much as fits before the end of the array, from the
\* start of the array when it is full.
Room == Min({Packet, Cap - put})
Place == IF put = Cap THEN 0 ELSE put

Written(bytes) ==
  [i \in DOMAIN mem |-> IF i \in Place..(Place + Len(bytes) - 1)
                          THEN bytes[i - Place + 1] ELSE mem[i]]

\* What the thread does with a packet whose bytes are in place, when recv
\* returned n: the first byte says whether more packets belong to the request.
Accept(bytes, n) ==
  /\ mem' = Written(bytes)
  /\ put' = IF n <= Room THEN put + n ELSE put
  /\ UNCHANGED <<get, transport, port>>
  /\ IF mem'[Place] = Queue
       THEN pc' = "recv" /\ UNCHANGED <<response, parse>>
       ELSE pc' = "handle" /\ response' = <<>> /\ num' = 1 /\ queued' = FALSE

\* dap_tcp_transport_recv: the packet's length comes first, and of an empty
\* packet it is the size of the length that is returned.
RecvTcp ==
  /\ pc = "recv" /\ transport = "tcp"
  /\ inbox[conn] # <<>>
  /\ LET p == Head(inbox[conn])
         b == Encode(p)
     IN  /\ Len(b) <= Room
         /\ Accept(b, IF b = <<>> THEN 2 ELSE Len(b))
         /\ batch' = Append(batch, p)
  /\ inbox' = [inbox EXCEPT ![conn] = Tail(@)]
  /\ UNCHANGED <<usbVars, xfer, tcpVars, sends>>

\* As RecvTcpEnds, where an end of the stream is not taken for a shutdown.
RecvTcpTooLong ==
  /\ pc = "recv" /\ pc' = "reset"
  /\ transport = "tcp"
  /\ inbox[conn] # <<>> /\ Len(Encode(Head(inbox[conn]))) > Room
  /\ shut' = shut \cup {conn}
  /\ UNCHANGED <<transport, port, ring, response, parse, usbVars, xfer, came, backlog, conn,
                 gone, hostVars, batch>>

\* The connection is closed by the client, breaks, or brings a packet that does
\* not fit: the transport closes the socket.
RecvTcpEnds ==
  /\ pc = "recv" /\ pc' = "reset"
  /\ transport = "tcp"
  /\ \/ conn \in gone /\ inbox[conn] = <<>>
     \/ inbox[conn] # <<>> /\ Len(Encode(Head(inbox[conn]))) > Room
  /\ shut' = shut \cup {conn}
  /\ UNCHANGED <<transport, port, ring, response, parse, usbVars, xfer, came, backlog, conn, gone,
                 hostVars, batch>>

\* The USB stack completes the transfer that dap_usb_transport_recv waits for;
\* what does not fit of the packet is lost.
UsbOut ==
  /\ pc = "recv" /\ transport = "usb"
  /\ usb = "on" /\ xfer = Idle /\ inbox[Usb] # <<>>
  /\ LET p == Head(inbox[Usb])
         b == Encode(p)
     IN  /\ xfer' = [state |-> "done", bytes |-> SubSeq(b, 1, Min({Len(b), Room}))]
         /\ batch' = Append(batch, p)
  /\ inbox' = [inbox EXCEPT ![Usb] = Tail(@)]
  /\ UNCHANGED <<transport, port, ring, response, parse, pc, usbVars, tcpVars, sends>>

RecvUsb ==
  /\ pc = "recv" /\ transport = "usb"
  /\ xfer.state = "done"
  /\ Accept(xfer.bytes, Len(xfer.bytes))
  /\ xfer' = Idle
  /\ UNCHANGED <<usbVars, tcpVars, hostVars, batch>>

\* As UsbShutdown, without the test while the thread waits for a request.
ShutdownWhileSending ==
  /\ pc = "send" /\ pc' = "reset"
  /\ transport = "usb"
  /\ xfer.state = "busy" /\ ~configured
  /\ UNCHANGED <<transport, port, ring, response, parse, usbVars, xfer, tcpVars, hostVars,
                 batch>>

\* A transfer that is still busy is cancelled once the device is not configured.
UsbShutdown ==
  /\ pc \in {"recv", "send"} /\ pc' = "reset"
  /\ transport = "usb"
  /\ xfer.state = "busy" /\ ~configured
  /\ UNCHANGED <<transport, port, ring, response, parse, usbVars, xfer, tcpVars, hostVars,
                 batch>>

(***************************************************************************)
(* dap_handle_request: one action per pass of its loop.                    *)
(***************************************************************************)
Me == IF transport = "usb" THEN Usb ELSE conn

\* A command or the request itself fails: one byte replaces the response.
Fail ==
  /\ response' = <<Error>>
  /\ pc' = "send"
  /\ UNCHANGED <<ring, parse>>

\* Running command c is put after what the response already holds; n commands
\* and the flag are what the loop goes on with.
Run(c, sofar, n, q, at) ==
  /\ port' = IF c = Connect THEN Me ELSE port
  /\ IF c \in {Info, Connect} /\ Len(sofar) < Cap
       THEN /\ response' = Append(sofar, c)
            /\ num' = (n - 1) % Wrap /\ queued' = q
            /\ get' = at
            /\ pc' = IF num' > 0 \/ q THEN "handle" ELSE "send"
            /\ UNCHANGED <<mem, put>>
       ELSE Fail

\* As Queued, without the reset of the flag when a group has ended.
StillQueued == queued

\* At the start of a pass: when a queued group has ended, the next packet is
\* taken for the last one until its first byte says otherwise.
GroupEnded == queued /\ num = 0
Num == IF GroupEnded THEN 1 ELSE num
Queued == queued /\ ~GroupEnded

HandlePlain ==
  /\ put > get
  /\ mem[get] \notin {Exec, Queue}
  /\ Run(mem[get], response, Num, Queued, get + 1)

\* A group names its length before its first command, and is answered by the
\* code of an atomic group whether it was queued or not.
HandleGroup ==
  /\ put > get + 2
  /\ mem[get] \in {Exec, Queue}
  /\ Len(response) + 2 <= Cap
  /\ Run(mem[get + 2], response \o <<Exec, mem[get + 1]>>, mem[get + 1],
         Queued \/ mem[get] = Queue, get + 3)

HandleTooShort ==
  /\ \/ put <= get
     \/ put > get /\ mem[get] \in {Exec, Queue} /\ (put <= get + 2 \/ Len(response) + 2 > Cap)
  /\ Fail
  /\ UNCHANGED port

Handle ==
  /\ pc = "handle"
  /\ HandlePlain \/ HandleGroup \/ HandleTooShort
  /\ UNCHANGED <<transport, usbVars, xfer, tcpVars, hostVars, batch>>

(***************************************************************************)
(* The thread sends the response.                                          *)
(***************************************************************************)
Answered ==
  /\ pc' = "recv"
  /\ put' = 0 /\ get' = 0
  /\ batch' = <<>>
  /\ UNCHANGED <<transport, port, mem, response, parse>>

\* As SendTcpFails, taking up the next connection without a reset.
SendTcpFailsSoftly ==
  /\ pc = "send" /\ pc' = "tcp"
  /\ transport = "tcp" /\ transport' = "none"
  /\ conn \in gone
  /\ shut' = shut \cup {conn}
  /\ UNCHANGED <<port, ring, response, parse, usbVars, xfer, came, backlog, conn, gone,
                 hostVars, batch>>

\* To a client that has left the response may still be accepted by the stack.
SendTcp ==
  /\ pc = "send" /\ transport = "tcp"
  /\ Answered
  /\ UNCHANGED <<usbVars, xfer, tcpVars, hostVars>>

SendTcpFails ==
  /\ pc = "send" /\ pc' = "reset"
  /\ transport = "tcp"
  /\ conn \in gone
  /\ shut' = shut \cup {conn}
  /\ UNCHANGED <<transport, port, ring, response, parse, usbVars, xfer, came, backlog, conn, gone,
                 hostVars, batch>>

\* The USB host reads the response.
UsbIn ==
  /\ pc = "send" /\ transport = "usb"
  /\ usb = "on" /\ xfer = Idle
  /\ xfer' = [Idle EXCEPT !.state = "done"]
  /\ UNCHANGED <<transport, port, ring, response, parse, pc, usbVars, tcpVars, hostVars,
                 batch>>

SendUsb ==
  /\ pc = "send" /\ transport = "usb"
  /\ xfer.state = "done" /\ xfer' = Idle
  /\ Answered
  /\ UNCHANGED <<usbVars, tcpVars, hostVars>>

\* dap_reset: the request buffer is emptied, its bytes stay where they are.
Reset ==
  /\ pc = "reset" /\ pc' = "tcp"
  /\ transport' = "none" /\ port' = "closed"
  /\ put' = 0 /\ get' = 0 /\ response' = <<>>
  /\ batch' = <<>>
  /\ UNCHANGED <<mem, parse, usbVars, xfer, tcpVars, hostVars>>

-----------------------------------------------------------------------------
Environment ==
  \/ UsbConfigure \/ UsbLost \/ UsbSuspend \/ UsbResume \/ UsbOut \/ UsbIn
  \/ \E c \in Clients : ClientConnects(c) \/ ClientLeaves(c)
  \/ \E h \in Hosts, p \in Packets : HostSends(h, p)

Thread ==
  \/ ConfigureTcp \/ ConfigureUsb \/ Sleep
  \/ RecvTcp \/ RecvTcpEnds \/ RecvUsb \/ UsbShutdown
  \/ Handle
  \/ SendTcp \/ SendTcpFails \/ SendUsb
  \/ Reset

Next == Environment \/ Thread

\* The scheduler runs the thread whenever it is not blocked; nothing is promised
\* about hosts and cables.
Spec == Init /\ [][Next]_vars /\ WF_vars(Thread)

(***************************************************************************)
(* Properties.                                                             *)
(***************************************************************************)
Bytes == 0..(Wrap - 1)

Labels == {"tcp", "usb", "sleep", "recv", "handle", "send", "reset"}

\* Types, and the bounds of the two buffers.
TypeOK ==
  /\ transport \in {"none", "tcp", "usb"}
  /\ port \in Hosts \cup {"closed", Nobody}
  /\ mem \in [0..(Cap - 1) -> Bytes]
  /\ put \in 0..Cap /\ get \in 0..Cap
  /\ response \in Seq(Bytes \cup {Error}) /\ Len(response) <= Cap
  /\ num \in Bytes /\ queued \in BOOLEAN
  /\ pc \in Labels
  /\ usb \in {"off", "on", "asleep"} /\ configured \in BOOLEAN
  /\ xfer \in [state : {"busy", "done"}, bytes : Seq(Bytes)]
  /\ came \subseteq Clients /\ backlog \subseteq came /\ conn \in came \cup {Nobody}
  /\ gone \subseteq came /\ shut \subseteq came
  /\ inbox \in [Hosts -> Seq(Packets)] /\ sends \in 0..MaxSends
  /\ batch \in Seq(Packets)

\* A port that is open was opened over the connection that is being served:
\* whatever way a session ends, the next host finds the driver reset.
PortIsMine == port # "closed" => transport # "none" /\ port = Me

\* A request as the protocol allows it: queued groups and one packet that is
\* not queued, in all no more than the buffer holds.
Final(p) == p.kind = "exec" \/ (p.kind = "plain" /\ Len(p.cmds) = 1)

WellFormed(b) ==
  /\ b # <<>>
  /\ \A i \in 1..(Len(b) - 1) : b[i].kind = "queue"
  /\ Final(Last(b))
  /\ \A i \in 1..Len(b) : /\ b[i].cmds # <<>>
                          /\ \A j \in 1..Len(b[i].cmds) : b[i].cmds[j] \notin {Exec, Queue}
                          /\ Len(Encode(b[i])) <= Packet
  /\ Len(FlattenSeq([i \in 1..Len(b) |-> Encode(b[i])])) <= Cap

\* What the host should get: the replies of all groups in order, or the error
\* byte when a command of any of them fails.
GroupReply(p) == (IF p.kind = "plain" THEN <<>> ELSE <<Exec, Len(p.cmds)>>) \o p.cmds

Expected(b) ==
  IF \E i \in 1..Len(b) : \E j \in 1..Len(b[i].cmds) : b[i].cmds[j] \notin {Info, Connect}
    THEN <<Error>>
    ELSE FlattenSeq([i \in 1..Len(b) |-> GroupReply(b[i])])

\* Every well-formed request is answered by exactly the replies of its commands,
\* however it was split into queued packets and whatever was in the buffers
\* before (dap_thread_fn, dap_handle_request).
Reply == pc = "send" /\ WellFormed(batch) => response = Expected(batch)

\* A USB host that goes for good is let go of: no transfer keeps the thread.
UsbSessionEnds == <>[](usb = "off") => <>[](transport # "usb")

\* A TCP client that has left is let go of, once what it sent is dealt with.
TcpSessionEnds ==
  \A c \in Clients :
    (transport = "tcp" /\ conn = c /\ c \in gone) ~> (transport # "tcp" \/ conn # c)

\* dap/transport.h:9 says that configure "checks if a transport is ready to
\* accept data": a USB device that is configured and awake is reported as ready.
ReadyIsSeen == usb = "on" => configured
=============================================================================
