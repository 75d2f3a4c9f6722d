---------------------------------- MODULE Utf8 ----------------------------------
(***************************************************************************)
(* The conversion of firmware/src/utf8.c that packs the numbers of I/O     *)
(* commands and of their subjects: a number takes one to four bytes, and a *)
(* request is such numbers and plain bytes one after the other, with       *)
(* nothing between them.                                                   *)
(***************************************************************************)
EXTENDS Naturals, Sequences

Byte == 0..255
CodePoint == {v \in Nat : v < 1114112}

\* Bytes that are needed, and the bits of the first one that say so.
Size(v) == IF v < 128 THEN 1 ELSE IF v < 2048 THEN 2 ELSE IF v < 65536 THEN 3 ELSE 4

\* Any byte but the first: six bits.
More(v) == 128 + (v % 64)

\* utf8_encode; the caller sees to the room.
Encode(v) ==
  CASE Size(v) = 1 -> <<v>>
    [] Size(v) = 2 -> <<192 + (v \div 64), More(v)>>
    [] Size(v) = 3 -> <<224 + (v \div 4096), More(v \div 64), More(v)>>
    [] Size(v) = 4 -> <<240 + (v \div 262144), More(v \div 4096), More(v \div 64), More(v)>>

\* Bytes that the first one announces, none if it cannot be first.
Announced(b) ==
  IF b < 128 THEN 1 ELSE IF b < 192 THEN 0 ELSE IF b < 224 THEN 2 ELSE IF b < 240 THEN 3
  ELSE IF b < 248 THEN 4 ELSE 0

IsMore(b) == b >= 128 /\ b < 192

Value(buf) ==
  CASE Announced(buf[1]) = 1 -> buf[1]
    [] Announced(buf[1]) = 2 -> (buf[1] - 192) * 64 + (buf[2] - 128)
    [] Announced(buf[1]) = 3 -> (buf[1] - 224) * 4096 + (buf[2] - 128) * 64 + (buf[3] - 128)
    [] Announced(buf[1]) = 4 -> (buf[1] - 240) * 262144 + (buf[2] - 128) * 4096 +
                                (buf[3] - 128) * 64 + (buf[4] - 128)

\* utf8_decode: whether a number begins the buffer.
Begins(buf) ==
  /\ Len(buf) >= 1
  /\ Announced(buf[1]) # 0 /\ Announced(buf[1]) <= Len(buf)
  /\ \A i \in 2..Announced(buf[1]) : IsMore(buf[i])

\* utf8_rbuf_put and utf8_rbuf_get, on what the ring buffer holds: a failure
\* leaves it alone.
Put(buf, space, v) ==
  IF v \in CodePoint /\ Len(buf) + Size(v) <= space
    THEN [ok |-> TRUE, buf |-> buf \o Encode(v)]
    ELSE [ok |-> FALSE, buf |-> buf]

Get(buf) ==
  IF Begins(buf)
    THEN [ok |-> TRUE, val |-> Value(buf),
          buf |-> SubSeq(buf, Announced(buf[1]) + 1, Len(buf))]
    ELSE [ok |-> FALSE, buf |-> buf]
=============================================================================
