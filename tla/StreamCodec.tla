----------------------------- MODULE StreamCodec -----------------------------
(***************************************************************************)
(* Stream_Writer and Stream_Reader: numbers, blocks and strings as bytes.  *)
(* A writer makes all the bytes of a value and hands them to writeBlock. A *)
(* reader asks readBlock for so many bytes, looks at them, and asks for    *)
(* more, or has the value, or gives up: a reader is [part, need, got]. *)
(*                                                                         *)
(* An op is what both ends agree on: the kind of value, the width of a     *)
(* number or of the length in front of a block, and what the reader will   *)
(* take: the size of its buffer, or the end it waits for.                  *)
(***************************************************************************)
EXTENDS Naturals, SequencesExt

CONSTANTS Base,       \* bytes are 0 .. Base - 1 (256)
          BlockBytes  \* readers that wait for a delimiter take memory so much at a time (65536)

ASSUME StreamCodecAssumption == Base \in Nat \ {0, 1} /\ BlockBytes \in Nat \ {0}

MutBigEndian(n, width) ==  \* the bytes as they lie in memory
    [i \in 1 .. width |-> (n \div Base ^ (i - 1)) % Base]

\* htons, htonl, htonll
BigEndian(n, width) == [i \in 1 .. width |-> (n \div Base ^ (width - i)) % Base]

\* ntohs, ntohl, ntohll
FromBigEndian(bytes) == FoldLeft(LAMBDA n, b : n * Base + b, 0, bytes)

-----------------------------------------------------------------------------
(* Stream_Writer *)

\* What no value is written as
Refused == <<Base>>

\* writeU8 .. writeU64
writeNumber(n, width) == BigEndian(n, width)

\* writeBlock8, writeBlock16, writeBlock32
writeBlockN(data, width) == BigEndian(Len(data), width) \o data

\* writeString8, writeString16; writeString32 with the most it may take
writeString(str, width, most) ==
    IF Len(str) > (IF width = 4 THEN most ELSE Base ^ width - 1) THEN Refused ELSE writeBlockN(str, width)

Bytes(op) ==
    CASE op.kind = "number" -> writeNumber(op.value, op.width)
      [] op.kind \in {"block", "alloc"} -> writeBlockN(op.value, op.width)
      [] op.kind = "string" -> writeString(op.value, op.width, op.most)
      [] op.kind = "delimited" -> op.value

-----------------------------------------------------------------------------
(* Stream_Reader *)

\* What readBlock is asked for first
Reader(op) ==
    [part |-> IF op.kind \in {"number", "delimited"} THEN "value" ELSE "length",
     need |-> IF op.kind = "delimited" THEN 1 ELSE op.width, got |-> <<>>]

More(part, need) == [part |-> part, need |-> need, got |-> <<>>]
Value(v) == [value |-> v]
GivesUp == [given |-> "up"]

\* readBlock8, readBlock16, readBlock32: an empty block counts as none, and its length has to be
\* the one that was asked for unless the caller keeps whatever comes
readBlockN(op, len) ==
    IF len = 0 \/ (len # op.most /\ ~op.keep) THEN GivesUp ELSE More("value", len)

\* readBlock32WAlloc
readBlock32WAlloc(op, len) == IF len = 0 \/ len > op.most THEN GivesUp ELSE More("value", len)

\* readString and readBlockWAlloc: one more than the length has to be within 2^sizel - 1
readBlockWAlloc(op, len) ==
    IF len + 1 > Base ^ op.width - 1 THEN GivesUp ELSE More("value", len)

\* read64KBlockDelim, readBlock32WAllocAndDelim: byte after byte, until the last ones are the
\* delimiter; one more block of memory whenever the last is full, as long as it is allowed
readBlock32WAllocAndDelim(op, r) ==
    LET n == Len(r.got)
    IN  IF op.most < BlockBytes THEN GivesUp
        ELSE IF IsSuffix(op.delim, r.got) THEN Value(r.got)
        ELSE IF n % BlockBytes = 0 /\ n + BlockBytes > op.most THEN GivesUp
        ELSE [r EXCEPT !.need = n + 1]

\* readBlock has brought what was asked for; of an empty string nothing more is asked
AfterBlock(op, r) ==
    LET len == FromBigEndian(r.got)
    IN  CASE op.kind = "number" -> Value(len)
          [] op.kind = "delimited" -> readBlock32WAllocAndDelim(op, r)
          [] op.kind = "block" /\ r.part = "length" -> readBlockN(op, len)
          [] op.kind = "alloc" /\ r.part = "length" -> readBlock32WAlloc(op, len)
          [] op.kind = "string" /\ r.part = "length" ->
               IF len = 0 THEN Value(<<>>) ELSE readBlockWAlloc(op, len)
          [] OTHER -> Value(r.got)
=============================================================================
