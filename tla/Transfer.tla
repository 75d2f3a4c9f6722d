------------------------------- MODULE Transfer -------------------------------
(***************************************************************************)
(* The transfer commands of firmware/src/dap/commands_transfer.c: Transfer, *)
(* TransferBlock, WriteAbort and TransferConfigure, over JTAG or SWD.      *)
(*                                                                         *)
(* Reads of a JTAG port and of the access port over SWD are posted: the    *)
(* target performs the access and hands over its value with the next one.  *)
(* The handler therefore collects the value of a read when it comes to the *)
(* next transfer, or at the end, with a read of RDBUFF, which is no access  *)
(* to a register.                                                          *)
(*                                                                         *)
(* Two actors: the handler, one action per attempt on the wire and per     *)
(* decision between two of them, and the target, which answers each        *)
(* attempt as it likes (Answers).  Its registers hold any value at any     *)
(* time.  Request bytes and 32 bit words are both one unit of the request  *)
(* buffer here, so that a word met in place of a request is parsed as one. *)
(***************************************************************************)
EXTENDS Integers, SequencesExt

CONSTANTS
  Reads, Aps, Matches, Masks,  (* units that, as requests, have RnW, APnDP, match  *)
                               (* value or match mask set                          *)
  Units,         (* everything a unit of the request buffer may be                 *)
  Values,        (* values of the target's registers                               *)
  Junk,          (* what the target sends when it has nothing to send              *)
  JtagCount,     (* dap->jtag.count                                                *)
  DefaultWait,   (* retries after WAIT that a reset sets, 100 in the code            *)
  Limits,        (* what hosts configure, see CommandsAreLegal                       *)
  SkipWrap,      (* words after which a count of bytes to skip wraps, 2^14          *)
  RequestSpace,  (* words the request buffer takes up beyond the request           *)
  ResponseSpace, (* words the response buffer takes up                             *)
  Commands,      (* what hosts send, see CommandsAreLegal                          *)
  Following      (* units of the command that follows in the same request          *)

\* Acknowledgements, as the transfer_response constants.
Ok == 1
Wait == 2
Fault == 4
ParityError == 8
Mismatch == 16

ASSUME UnitsAreLegal ==
  /\ Units \subseteq Nat /\ Values \subseteq Units /\ Junk \in Units
  /\ Values # {}
  /\ Reads \cup Aps \cup Matches \cup Masks \subseteq Units

ASSUME LimitsAreLegal ==
  /\ SkipWrap \in Nat \ {0}
  /\ {JtagCount, DefaultWait, RequestSpace, ResponseSpace} \subseteq Nat

\* A request that carries a word of data.
HasWord(r) == r \notin Reads \/ r \in Matches

\* A Transfer command holds transfers, each a request and, where it has one, its
\* word; a TransferBlock command one request and the words to write, which are
\* fewer than a request buffer whose bytes are counted in 16 bits takes up.
ASSUME CommandsAreLegal ==
  /\ \A c \in Commands :
       /\ c.kind \in {"transfer", "block", "abort"} /\ c.index \in Nat
       /\ c.kind = "transfer" => c.batch \in Seq([request : Units, word : Units])
       /\ c.kind = "block" =>
            /\ c.count \in Nat /\ c.request \in Units /\ c.words \in Seq(Units)
            /\ IF c.request \in Reads THEN c.words = <<>>
                                      ELSE c.count = Len(c.words) /\ c.count < SkipWrap
       /\ c.kind = "abort" => c.word \in Units
  /\ Following \in Seq(Units)
  /\ Limits \subseteq [wait : Nat, match : Nat]

\* What hosts send of transfer x, and of the transfers behind the first i.
ItemOf(x) == IF HasWord(x.request) THEN <<x.request, x.word>> ELSE <<x.request>>

Rest(c, i) == FlattenSeq([j \in 1..(Len(c.batch) - i) |-> ItemOf(c.batch[i + j])])

VARIABLES
  port,                        (* dap->swj.port                                    *)
  mask,                        (* dap->transfer.match_mask                         *)
  waitRetries, matchRetries,   (* dap->transfer.wait_retries, .match_retries       *)
  ir, posted,                  (* target: what its instruction register selects;   *)
                               (* value the last read left for the next transfer   *)
  pc,                          (* where the handler is                             *)
  ring,                        (* dap->buf.request: the units not read yet         *)
  count, completed,            (* count, completed_count                           *)
  request, matchValue,         (* request, match_value                             *)
  transferData,                (* transfer_data                                    *)
  lastIr,                      (* last_ir, request_ir of a block                   *)
  readPending, ackPending,     (* read_pending, ack_pending                        *)
  ack,                         (* transfer_ack                                     *)
  tries, matches,              (* i of port_transfer, i of the match loop          *)
  respCount, respAck, out,     (* response: count, acknowledgement, words          *)
  sent, whole,                 (* history: the command; whether all of it arrived  *)
  taken,                       (* history: transfers taken from the request        *)
  accesses, data               (* history: register accesses of the target; words  *)
                               (* read that went into the request buffer           *)

wire    == <<ir, lastIr, posted, accesses, transferData>>
cursor  == <<ring, count, request, taken>>
pending == <<readPending, ackPending>>
resp    == <<respCount, respAck, out>>
limits  == <<waitRetries, matchRetries>>
fixed   == <<port, limits, sent, whole>>
vars == <<fixed, mask, wire, pc, cursor, completed, matchValue, pending, ack, tries, matches,
          resp, data>>

Init ==
  /\ port \in {"disabled", "jtag", "swd"}
  /\ sent = [kind |-> "none"] /\ whole = TRUE
  /\ mask = 0 /\ waitRetries = DefaultWait /\ matchRetries = 0
  /\ ir = "none" /\ lastIr = "none" /\ posted = Junk /\ accesses = <<>> /\ transferData = Junk
  /\ pc = "idle"
  /\ ring = <<>> /\ count = 0 /\ request = Junk /\ taken = 0
  /\ completed = 0 /\ matchValue = Junk
  /\ readPending = FALSE /\ ackPending = FALSE
  /\ ack = 0 /\ tries = 0 /\ matches = 0
  /\ respCount = 0 /\ respAck = 0 /\ out = <<>>
  /\ data = <<>>

(***************************************************************************)
(* The host sends a command, whole or cut short, when the last one is      *)
(* answered.                                                               *)
(***************************************************************************)
Encode(c) ==
  CASE c.kind = "transfer" -> <<c.index, Len(c.batch)>> \o Rest(c, 0)
    [] c.kind = "block" -> <<c.index, c.count, c.request>> \o c.words
    [] c.kind = "abort" -> <<c.index, c.word>>

Send(c) ==
  /\ pc = "idle" /\ pc' = c.kind
  /\ sent' = c
  /\ \/ whole' = TRUE /\ ring' = Encode(c) \o Following
     \/ /\ whole' = FALSE
        /\ \E n \in 0..(Len(Encode(c)) - 1) : ring' = SubSeq(Encode(c), 1, n)
  /\ UNCHANGED <<port, limits, mask, wire, count, request, taken, completed, matchValue, pending,
                 ack, tries, matches, resp, data>>

\* TransferConfigure: the limits are stored as they come, so that a command cut
\* short leaves a new limit beside an old one.
TransferConfigure(l) ==
  /\ pc = "idle"
  /\ \/ waitRetries' = l.wait /\ matchRetries' = l.match
     \/ waitRetries' = l.wait /\ UNCHANGED matchRetries
  /\ UNCHANGED <<port, sent, whole, mask, wire, pc, cursor, completed, matchValue, pending, ack,
                 tries, matches, resp, data>>

\* The handler has returned: its locals are gone, the response is sent and what
\* is left of the request is dropped.
Answered ==
  /\ pc \in {"done", "failed"} /\ pc' = "idle"
  /\ sent' = [kind |-> "none"] /\ whole' = TRUE
  /\ lastIr' = "none" /\ accesses' = <<>> /\ transferData' = Junk
  /\ ring' = <<>> /\ count' = 0 /\ request' = Junk /\ taken' = 0
  /\ completed' = 0 /\ matchValue' = Junk
  /\ readPending' = FALSE /\ ackPending' = FALSE
  /\ ack' = 0 /\ tries' = 0 /\ matches' = 0
  /\ respCount' = 0 /\ respAck' = 0 /\ out' = <<>>
  /\ data' = <<>>
  /\ UNCHANGED <<port, limits, mask, ir, posted>>

(***************************************************************************)
(* One transfer on the wire.  A transfer goes to the debug port, the       *)
(* access port or the abort register; on JTAG it is the instruction        *)
(* register that decides, on SWD the request.                              *)
(***************************************************************************)
Access(r) == [reg |-> IF r \in Aps THEN "ap" ELSE "dp", read |-> r \in Reads, rdbuff |-> FALSE]
Rdbuff == [reg |-> "dp", read |-> TRUE, rdbuff |-> TRUE]
Abort  == [reg |-> "abort", read |-> FALSE, rdbuff |-> FALSE]

\* As SetIr, where an instruction set once is taken for the right one.
StickyIr(reg) ==
  IF port = "jtag" /\ lastIr = "none"
    THEN ir' = reg /\ lastIr' = reg
    ELSE UNCHANGED <<ir, lastIr>>

\* port_set_ir
SetIr(reg) ==
  IF port = "jtag" /\ lastIr # reg
    THEN ir' = reg /\ lastIr' = reg
    ELSE UNCHANGED <<ir, lastIr>>

\* The target performs access a to register reg: v is what it reads or is given.
Perform(a, reg, v) ==
  accesses' = Append(accesses, [by |-> taken, reg |-> reg, read |-> a.read, value |-> v])

\* Reading the register of the last read's value is no access.
Collects(a, reg) == a.rdbuff /\ reg = "dp"

\* The target takes the access: over JTAG, and for the access port, a read
\* returns what the read before it left behind.
Accept(a) ==
  LET reg == IF port = "jtag" THEN ir' ELSE a.reg
      direct == port = "swd" /\ reg = "dp"
  IN  IF Collects(a, reg)
        THEN /\ transferData' = posted /\ posted' = Junk
             /\ UNCHANGED accesses
        ELSE \E v \in IF a.read THEN Values ELSE {transferData} :
               /\ Perform(a, reg, v)
               /\ transferData' = IF ~a.read \/ direct THEN v ELSE posted
               /\ posted' = IF ~a.read THEN Junk ELSE IF direct THEN posted ELSE v

\* The data of an SWD read arrives damaged: the access has been performed.
Damaged(a) ==
  /\ port = "swd" /\ a.read
  /\ transferData' = Junk
  /\ IF Collects(a, a.reg)
       THEN posted' = Junk /\ UNCHANGED accesses
       ELSE \E v \in Values : Perform(a, a.reg, v) /\ posted' = v

\* One attempt, answered by k: jtag_transfer or swd_transfer.  An answer that is
\* none of those named is treated as a fault.
Attempt(a, k) ==
  /\ SetIr(a.reg)
  /\ \/ k = Ok /\ Accept(a)
     \/ k = ParityError /\ Damaged(a)
     \/ k \in {Wait, Fault} /\ UNCHANGED <<transferData, posted, accesses>>

Answers == {Ok, Wait, Fault, ParityError}

\* As Again, with one attempt too many.
TooPatient(k) == k = Wait /\ tries <= waitRetries

\* port_transfer tries again.
Again(k) == k = Wait /\ tries < waitRetries

\* As Retry, with a counter too narrow for the limit.
NarrowRetry == tries' = (tries + 1) % 2

Retry == tries' = tries + 1

(***************************************************************************)
(* dap_handle_cmd_transfer                                                 *)
(***************************************************************************)
Usable(index) == port = "swd" \/ (port = "jtag" /\ index < JtagCount)

\* Reads that return the value of the read before.
Posts(r) == port = "jtag" \/ r \in Aps

Begin ==
  /\ pc = "transfer" /\ Len(ring) >= 2
  /\ count' = ring[2]
  /\ ring' = SubSeq(ring, 3, Len(ring))
  /\ pc' = IF Usable(ring[1]) /\ count' > 0 THEN "next" ELSE "end"
  /\ UNCHANGED <<fixed, mask, wire, request, taken, completed, matchValue, pending, ack, tries,
                 matches, resp, data>>

\* As Start, where a match does not post its read first.
StartUnposted(r) ==
  CASE r \in Reads /\ r \in Matches -> "match"
    [] r \in Reads \ Matches -> "read"
    [] r \in Masks \ Reads -> "mask"
    [] OTHER -> "write"

\* What the handler does first for request r.
Start(r) ==
  CASE r \in Reads /\ r \in Matches -> IF Posts(r) THEN "post" ELSE "match"
    [] r \in Reads \ Matches -> "read"
    [] r \in Masks \ Reads -> "mask"
    [] OTHER -> "write"

Dispatch(r) ==
  /\ pc' = Start(r)
  /\ matchValue' = IF r \in Reads \cap Matches THEN transferData' ELSE matchValue

\* The next request and its word are taken from the buffer; the word goes where
\* the value of a pending read goes too.
Take ==
  /\ pc = "next" /\ ring # <<>>
  /\ LET r == ring[1]
         n == IF HasWord(r) THEN 2 ELSE 1
     IN  /\ Len(ring) >= n
         /\ request' = r
         /\ transferData' = IF HasWord(r) THEN ring[2] ELSE transferData
         /\ ring' = SubSeq(ring, n + 1, Len(ring))
         /\ IF readPending THEN pc' = "collect" /\ UNCHANGED matchValue ELSE Dispatch(r)
  /\ count' = count - 1
  /\ taken' = taken + 1
  /\ UNCHANGED <<fixed, mask, ir, lastIr, posted, accesses, completed, pending, ack, tries,
                 matches, resp, data>>

\* The word read is put into the request buffer, or the command fails.
Store(v, next) ==
  IF Len(data) < RequestSpace
    THEN ring' = Append(ring, v) /\ data' = Append(data, v) /\ pc' = next
    ELSE pc' = "failed" /\ UNCHANGED <<ring, data>>

\* The value of the pending read is collected before the new request starts.
Collect ==
  /\ pc = "collect"
  /\ \E k \in Answers :
       /\ Attempt(Rdbuff, k)
       /\ ack' = k
       /\ IF Again(k)
            THEN Retry /\ UNCHANGED <<pc, ring, matchValue, readPending, data>>
            ELSE /\ tries' = 0 /\ readPending' = FALSE
                 /\ IF k = Ok
                      THEN /\ Store(transferData', Start(request))
                           /\ matchValue' = IF request \in Reads \cap Matches
                                              THEN transferData' ELSE matchValue
                      ELSE pc' = "end" /\ UNCHANGED <<ring, matchValue, data>>
  /\ UNCHANGED <<fixed, mask, count, request, taken, completed, ackPending, matches, resp>>

\* After a transfer that succeeded.
Loop == IF count > 0 THEN "next" ELSE "end"

Read ==
  /\ pc = "read"
  /\ \E k \in Answers :
       /\ Attempt(Access(request), k)
       /\ ack' = k
       /\ \/ /\ Again(k) /\ Retry
             /\ UNCHANGED <<pc, ring, completed, pending, data>>
          \/ /\ ~Again(k) /\ k # Ok
             /\ tries' = 0 /\ pc' = "end"
             /\ UNCHANGED <<ring, completed, pending, data>>
          \/ /\ k = Ok
             /\ tries' = 0 /\ completed' = completed + 1
             /\ ackPending' = FALSE
             /\ IF Posts(request)
                  THEN readPending' = TRUE /\ pc' = Loop /\ UNCHANGED <<ring, data>>
                  ELSE Store(transferData', Loop) /\ UNCHANGED readPending
  /\ UNCHANGED <<fixed, mask, count, request, taken, matchValue, matches, resp>>

\* A match over a posting port posts its read first.
Post ==
  /\ pc = "post"
  /\ \E k \in Answers :
       /\ Attempt(Access(request), k)
       /\ ack' = k
       /\ IF Again(k)
            THEN Retry /\ UNCHANGED pc
            ELSE tries' = 0 /\ pc' = IF k = Ok THEN "match" ELSE "end"
  /\ UNCHANGED <<fixed, mask, cursor, completed, matchValue, pending, matches, resp, data>>

\* The bits of both, in words of two bits.
And(a, b) == (a % 2) * (b % 2) + 2 * (((a \div 2) % 2) * ((b \div 2) % 2))

\* One read of a match; without success the value compared is the one at hand.
Match ==
  /\ pc = "match"
  /\ \E k \in Answers :
       /\ Attempt(Access(request), k)
       /\ LET equal == And(transferData', mask) = matchValue
          IN  \/ /\ Again(k) /\ Retry
                 /\ ack' = k
                 /\ UNCHANGED <<pc, completed, ackPending, matches>>
              \/ /\ k = Ok /\ ~equal /\ matches < matchRetries
                 /\ tries' = 0 /\ matches' = matches + 1
                 /\ ack' = k
                 /\ UNCHANGED <<pc, completed, ackPending>>
              \/ /\ k = Ok /\ equal
                 /\ tries' = 0 /\ matches' = 0
                 /\ ack' = k
                 /\ completed' = completed + 1 /\ ackPending' = FALSE
                 /\ pc' = Loop
              \/ /\ ~Again(k) /\ (k # Ok \/ (~equal /\ matches = matchRetries))
                 /\ tries' = 0 /\ matches' = 0
                 /\ ack' = IF equal THEN k ELSE k + Mismatch
                 /\ pc' = "end"
                 /\ UNCHANGED <<completed, ackPending>>
  /\ UNCHANGED <<fixed, mask, cursor, matchValue, readPending, resp, data>>

\* A write of the match mask does not reach the target.
SetMask ==
  /\ pc = "mask" /\ pc' = Loop
  /\ mask' = transferData
  /\ ack' = Ok
  /\ completed' = completed + 1
  /\ UNCHANGED <<fixed, wire, cursor, matchValue, pending, tries, matches, resp, data>>

Write ==
  /\ pc = "write"
  /\ \E k \in Answers :
       /\ Attempt(Access(request), k)
       /\ ack' = k
       /\ \/ /\ Again(k) /\ Retry
             /\ UNCHANGED <<pc, completed, ackPending>>
          \/ /\ ~Again(k) /\ k # Ok
             /\ tries' = 0 /\ pc' = "end"
             /\ UNCHANGED <<completed, ackPending>>
          \/ /\ k = Ok
             /\ tries' = 0 /\ pc' = Loop
             /\ completed' = completed + 1 /\ ackPending' = TRUE
  /\ UNCHANGED <<fixed, mask, cursor, matchValue, readPending, matches, resp, data>>

\* As Remains, where a read that is still pending is forgotten.
RemainsOfWrites == ack = Ok /\ ackPending

\* A last read tells how the last transfer went and what it read.
Remains == ack = Ok /\ (readPending \/ ackPending)

End ==
  /\ pc = "end"
  /\ respCount' = completed /\ respAck' = ack
  /\ pc' = IF count > 0 THEN "cancel" ELSE IF Remains THEN "last" ELSE "done"
  /\ UNCHANGED <<fixed, mask, wire, cursor, completed, matchValue, pending, ack, tries, matches,
                 out, data>>

\* As UnitsOf, without the words of matches.
UnitsOfWrite(r) == IF r \notin Reads THEN 2 ELSE 1

UnitsOf(r) == IF r \notin Reads \/ r \in Reads \cap Matches THEN 2 ELSE 1

\* The requests that were not reached are taken out of the buffer.
Cancel ==
  /\ pc = "cancel" /\ ring # <<>> /\ Len(ring) >= UnitsOf(ring[1])
  /\ ring' = SubSeq(ring, UnitsOf(ring[1]) + 1, Len(ring))
  /\ count' = count - 1
  /\ pc' = IF count' > 0 THEN "cancel" ELSE IF Remains THEN "last" ELSE "done"
  /\ UNCHANGED <<fixed, mask, wire, request, taken, completed, matchValue, pending, ack, tries,
                 matches, resp, data>>

LastRead ==
  /\ pc = "last"
  /\ \E k \in Answers :
       /\ Attempt(Rdbuff, k)
       /\ ack' = k
       /\ IF Again(k)
            THEN Retry /\ UNCHANGED <<pc, ring, respAck, data>>
            ELSE /\ tries' = 0
                 /\ IF k = Ok /\ readPending
                      THEN Store(transferData', "done")
                      ELSE pc' = "done" /\ UNCHANGED <<ring, data>>
                 /\ respAck' = IF pc' = "done" THEN k ELSE respAck
  /\ UNCHANGED <<fixed, mask, count, request, taken, completed, matchValue, pending, matches,
                 respCount, out>>

(***************************************************************************)
(* dap_handle_cmd_transfer_block                                           *)
(***************************************************************************)

\* Where the loop goes on, with n words to go.
BlockLoop(r, n) ==
  IF r \in Reads THEN IF n > 0 THEN "blockread" ELSE "blockend"
                 ELSE IF n > 0 THEN "blockword" ELSE "blocklast"

BlockBegin ==
  /\ pc = "block" /\ Len(ring) >= 3
  /\ count' = ring[2] /\ request' = ring[3]
  /\ ring' = SubSeq(ring, 4, Len(ring))
  /\ IF Usable(ring[1])
       THEN /\ SetIr(Access(request').reg)
            /\ pc' = IF request' \in Reads /\ Posts(request')
                       THEN "blockpost" ELSE BlockLoop(request', count')
       ELSE pc' = "blockend" /\ UNCHANGED <<ir, lastIr>>
  /\ UNCHANGED <<fixed, mask, posted, accesses, transferData, taken, completed, matchValue,
                 pending, ack, tries, matches, resp, data>>

BlockPost ==
  /\ pc = "blockpost"
  /\ \E k \in Answers :
       /\ Attempt(Access(request), k)
       /\ ack' = k
       /\ IF Again(k)
            THEN Retry /\ UNCHANGED pc
            ELSE tries' = 0 /\ pc' = IF k = Ok THEN BlockLoop(request, count) ELSE "blockend"
  /\ UNCHANGED <<fixed, mask, cursor, completed, matchValue, pending, matches, resp, data>>

\* As BlockAccess, where the last word is read like the others.
GreedyBlockAccess == Access(request)

\* The last word of a posted block is only collected.
BlockAccess == IF count = 1 /\ Posts(request) THEN Rdbuff ELSE Access(request)

BlockRead ==
  /\ pc = "blockread"
  /\ \E k \in Answers :
       /\ Attempt(BlockAccess, k)
       /\ ack' = k
       /\ IF Again(k)
            THEN Retry /\ UNCHANGED <<pc, count, completed, out>>
            ELSE /\ tries' = 0 /\ count' = count - 1
                 /\ IF k = Ok /\ Len(out) < ResponseSpace
                      THEN /\ out' = Append(out, transferData')
                           /\ completed' = completed + 1
                           /\ pc' = BlockLoop(request, count')
                      ELSE /\ pc' = IF k = Ok THEN "failed" ELSE "blockend"
                           /\ UNCHANGED <<completed, out>>
  /\ UNCHANGED <<fixed, mask, ring, request, taken, matchValue, pending, matches, respCount,
                 respAck, data>>

BlockWord ==
  /\ pc = "blockword" /\ ring # <<>>
  /\ pc' = "blockwrite"
  /\ count' = count - 1
  /\ transferData' = ring[1] /\ ring' = Tail(ring)
  /\ taken' = taken + 1
  /\ UNCHANGED <<fixed, mask, ir, lastIr, posted, accesses, request, completed, matchValue,
                 pending, ack, tries, matches, resp, data>>

BlockWrite ==
  /\ pc = "blockwrite"
  /\ \E k \in Answers :
       /\ Attempt(Access(request), k)
       /\ ack' = k
       /\ IF Again(k)
            THEN Retry /\ UNCHANGED <<pc, completed>>
            ELSE /\ tries' = 0
                 /\ IF k = Ok
                      THEN completed' = completed + 1 /\ pc' = BlockLoop(request, count)
                      ELSE pc' = "blockend" /\ UNCHANGED completed
  /\ UNCHANGED <<fixed, mask, cursor, matchValue, pending, matches, resp, data>>

\* The acknowledgement of the last write.
BlockLast ==
  /\ pc = "blocklast"
  /\ \E k \in Answers :
       /\ Attempt(Rdbuff, k)
       /\ ack' = k
       /\ IF Again(k) THEN Retry /\ UNCHANGED pc ELSE tries' = 0 /\ pc' = "blockend"
  /\ UNCHANGED <<fixed, mask, cursor, completed, matchValue, pending, matches, resp, data>>

\* Words that were not written; their number of bytes is kept in 16 bits.
Unwritten == IF request \in Reads THEN 0 ELSE count % SkipWrap

BlockEnd ==
  /\ pc = "blockend" /\ Len(ring) >= Unwritten
  /\ pc' = "done"
  /\ respCount' = completed /\ respAck' = ack
  /\ ring' = SubSeq(ring, Unwritten + 1, Len(ring))
  /\ UNCHANGED <<fixed, mask, wire, count, request, taken, completed, matchValue, pending, ack,
                 tries, matches, out, data>>

(***************************************************************************)
(* dap_handle_cmd_write_abort: what the target answers is not reported.    *)
(***************************************************************************)
AbortBegin ==
  /\ pc = "abort" /\ Len(ring) >= 2
  /\ transferData' = ring[2]
  /\ ring' = SubSeq(ring, 3, Len(ring))
  /\ pc' = IF Usable(ring[1]) THEN "aborting" ELSE "done"
  /\ UNCHANGED <<fixed, mask, ir, lastIr, posted, accesses, count, request, taken, completed,
                 matchValue, pending, ack, tries, matches, resp, data>>

WriteAbort ==
  /\ pc = "aborting"
  /\ \E k \in Answers :
       /\ Attempt(Abort, k)
       /\ ack' = k
       /\ IF Again(k) THEN Retry /\ UNCHANGED pc ELSE tries' = 0 /\ pc' = "done"
  /\ UNCHANGED <<fixed, mask, cursor, completed, matchValue, pending, matches, resp, data>>

(***************************************************************************)
(* The request is shorter than the command says (EMSGSIZE).                *)
(***************************************************************************)
Needed ==
  CASE pc \in {"transfer", "abort"} -> 2
    [] pc = "block" -> 3
    [] pc = "next" -> IF ring # <<>> /\ HasWord(ring[1]) THEN 2 ELSE 1
    [] pc = "cancel" -> IF ring # <<>> THEN UnitsOf(ring[1]) ELSE 1
    [] pc = "blockword" -> 1
    [] pc = "blockend" -> Unwritten
    [] OTHER -> 0

TooShort ==
  /\ Len(ring) < Needed
  /\ pc' = "failed"
  /\ UNCHANGED <<fixed, mask, wire, cursor, completed, matchValue, pending, ack, tries, matches,
                 resp, data>>

-----------------------------------------------------------------------------
Handler ==
  \/ Begin \/ Take \/ Collect \/ Read \/ Post \/ Match \/ SetMask \/ Write
  \/ End \/ Cancel \/ LastRead
  \/ BlockBegin \/ BlockPost \/ BlockRead \/ BlockWord \/ BlockWrite \/ BlockLast \/ BlockEnd
  \/ AbortBegin \/ WriteAbort
  \/ TooShort \/ Answered

Next == Handler \/ (\E c \in Commands : Send(c)) \/ (\E l \in Limits : TransferConfigure(l))

\* Each attempt on the wire ends, whatever the target answers.
Spec == Init /\ [][Next]_vars /\ WF_vars(Handler)

(***************************************************************************)
(* Properties.                                                             *)
(***************************************************************************)
Registers == {"dp", "ap", "abort"}

Labels == {"transfer", "next", "collect", "read", "post", "match", "mask", "write", "end",
           "cancel", "last", "block", "blockpost", "blockread", "blockword", "blockwrite",
           "blocklast", "blockend", "abort", "aborting", "done", "failed", "idle"}


\* Types, and the bounds of the loops and of the two buffers.
TypeOK ==
  /\ port \in {"disabled", "jtag", "swd"}
  /\ mask \in Nat /\ waitRetries \in Nat /\ matchRetries \in Nat
  /\ ir \in Registers \cup {"none"} /\ lastIr \in Registers \cup {"none"}
  /\ posted \in Nat /\ transferData \in Nat /\ matchValue \in Nat
  /\ pc \in Labels
  /\ ring \in Seq(Nat) /\ count \in Nat /\ request \in Nat
  /\ taken \in Nat /\ completed \in Nat
  /\ readPending \in BOOLEAN /\ ackPending \in BOOLEAN
  /\ ack \in Nat
  /\ tries \in 0..waitRetries /\ matches \in 0..matchRetries
  /\ respCount \in Nat /\ respAck \in Nat
  /\ out \in Seq(Nat) /\ Len(out) <= ResponseSpace
  /\ data \in Seq(Nat) /\ Len(data) <= RequestSpace
  /\ accesses \in Seq([by : Nat, reg : Registers, read : BOOLEAN, value : Nat])
  /\ whole \in BOOLEAN

Transferring == whole /\ sent.kind = "transfer"
Blocking == whole /\ sent.kind = "block"

IsMatch(x) == x.request \in Reads \cap Matches
IsPlainRead(x) == x.request \in Reads \ Matches
IsMask(x) == x.request \in Masks \ Reads
IsWrite(x) == x.request \notin Reads \cup Masks

RegisterOf(r) == IF r \in Aps THEN "ap" ELSE "dp"

\* No read is left pending by the transfer before transfer k: a pending read's
\* value takes the place of k's word.
Undisturbed(k) ==
  k = 1 \/ LET before == sent.batch[k - 1]
           IN  ~(IsPlainRead(before) /\ Posts(before.request))

\* The reads among the accesses, and the one of them that comes j-th.
ReadsSoFar == {i \in 1..Len(accesses) : IsPlainRead(sent.batch[accesses[i].by])}

Nth(R, j) == CHOOSE i \in R : Cardinality({h \in R : h <= i}) = j

\* What the registers held that were to be read, in the order of the reads.
ReadValues == [j \in 1..Cardinality(ReadsSoFar) |-> accesses[Nth(ReadsSoFar, j)].value]

\* The words that a Transfer collects are the values of the registers it was
\* asked to read, in order, whatever reads, writes and matches it mixes and
\* however often the target makes it wait; when it reports success none is
\* missing (dap_handle_cmd_transfer, commands_transfer.c:333-340, 375 and 420).
DataInOrder ==
  Transferring =>
    /\ IsPrefix(data, ReadValues)
    /\ pc = "done" /\ respAck = Ok => data = ReadValues

\* Every access of the target was asked for by a transfer, register, direction
\* and word; transfers come in order; only a match accesses its register more
\* than once, and no more often than its retries say; and no transfer that is
\* counted was skipped.  A read of the value register that went to another
\* register instead, say after a missed change of the instruction register,
\* would read that register behind the host's back.
AccessesAsAsked ==
  Transferring =>
    /\ \A i \in 1..Len(accesses) :
         LET a == accesses[i]
             x == sent.batch[a.by]
         IN  /\ ~IsMask(x)
             /\ a.reg = RegisterOf(x.request) /\ a.read = (x.request \in Reads)
             /\ IsWrite(x) /\ Undisturbed(a.by) => a.value = x.word
             /\ i > 1 => \/ accesses[i - 1].by < a.by
                         \/ IsMatch(x) /\ accesses[i - 1].by = a.by
    /\ \A k \in 1..taken :
         Cardinality({i \in 1..Len(accesses) : accesses[i].by = k}) <= matchRetries + 2
    /\ \A k \in 1..completed :
         ~IsMask(sent.batch[k]) => \E i \in 1..Len(accesses) : accesses[i].by = k

\* The mask that counts for transfer k, if the command sets one before it.
MaskWrites(k) == {j \in 1..(k - 1) : IsMask(sent.batch[j])}

\* A match that is counted as completed has seen, in the register it names and
\* during this very match, a value that equals its word under the mask last
\* written: never a value that some earlier transfer had left in the pipeline
\* (commands_transfer.c:346-362).
MatchIsReal ==
  Transferring =>
    \A k \in 1..completed :
      (IsMatch(sent.batch[k]) /\ MaskWrites(k) # {} /\
       \A j \in MaskWrites(k) \cup {k} : Undisturbed(j)) =>
         \E i \in 1..Len(accesses) :
           /\ accesses[i].by = k
           /\ And(accesses[i].value, sent.batch[Max(MaskWrites(k))].word) = sent.batch[k].word

\* However a command ends, by success, failure in the middle or refusal, the
\* request is left at the command that follows.
RestIsNext ==
  pc = "done" /\ whole /\ sent.kind # "none" => ring = Following \o data

\* A block that reports success has accessed its one register exactly once per
\* word: the words read are the values it held, in order, and the words written
\* are those of the request.  After a failure the count tells how many words of
\* either are good.
BlockIsExact ==
  pc = "done" /\ Blocking =>
    LET Values0 == [i \in 1..Len(accesses) |-> accesses[i].value]
    IN  /\ \A i \in 1..Len(accesses) : /\ accesses[i].reg = RegisterOf(sent.request)
                                       /\ accesses[i].read = (sent.request \in Reads)
        /\ sent.count > 0 => Len(accesses) \in respCount..sent.count
        /\ IF sent.request \in Reads
             THEN Len(out) = respCount /\ IsPrefix(out, Values0)
             ELSE IsPrefix(Values0, sent.words)
        /\ respAck = Ok /\ sent.count > 0 => Len(accesses) = sent.count

\* The debug port that the host sees.  The value of a read that is posted belongs
\* to its results already: the pipeline is what the mapping takes out.  A command
\* cut short is none of the port's: the words read take the place of its rest.
Returned(a) == a.read /\ CASE sent.kind = "transfer" -> IsPlainRead(sent.batch[a.by])
                           [] sent.kind = "block" -> sent.count > 0
                           [] OTHER -> FALSE

AbstractLog ==
  [i \in 1..(IF whole THEN Len(accesses) ELSE 0) |->
     [reg |-> accesses[i].reg, read |-> accesses[i].read, value |-> accesses[i].value,
      wanted |-> Returned(accesses[i])]]

Pipeline ==
  IF \/ readPending /\ pc \notin {"done", "failed"}
     \/ pc = "blockread" /\ Posts(request)
    THEN <<posted>> ELSE <<>>

AbstractResults ==
  IF whole THEN (IF sent.kind = "block" THEN out ELSE data) \o Pipeline ELSE <<>>

AbstractBroken ==
  whole /\ \/ pc = "failed"
           \/ pc \in {"end", "cancel", "blockend", "done"} /\ ack # Ok

AtomicPort == INSTANCE DebugPort WITH
  Registers <- Registers,
  Values <- Units,
  log <- AbstractLog,
  results <- AbstractResults,
  broken <- AbstractBroken,
  success <- whole /\ pc = "done" /\ respAck = Ok

\* The commands implement a port of atomic accesses: posted reads, the reads of
\* RDBUFF that collect them, waits, retries, damaged data and a full buffer
\* neither lose, repeat nor reorder a value that success is reported for, and
\* after a failure nothing more is accessed.
IsAtomicPort == AtomicPort!Spec

\* Every command ends: retries, matches and cancelled transfers are bounded.
CommandEnds == pc # "idle" ~> pc = "idle"

\* test_transfer.c:32 expects the word read by a Transfer in its response.
ReadDataIsReturned ==
  pc = "done" /\ Transferring /\ respAck = Ok => out = ReadValues

\* commands_transfer.c:345 says "match value already stored in transfer_data":
\* the word of a match is its match value.
MatchValueIsStored ==
  Transferring /\ pc \in {"post", "match"} => matchValue = sent.batch[taken].word
=============================================================================
