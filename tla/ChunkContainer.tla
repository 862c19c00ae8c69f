---------------------------- MODULE ChunkContainer ----------------------------
(***************************************************************************)
(* BinaryContainer_Chunks: bytes in a vector of chunks, in a file mapped   *)
(* into memory once they are too many; BinaryContainer_MMAP, that file or  *)
(* one opened for itself, which reads through a BinaryContainer_MEM; and a *)
(* BinaryContainer_Ref to a part of either. What is public is checked in   *)
(* BinaryContainer_Base first.                                             *)
(*                                                                         *)
(* The BinaryContainer_MEM keeps the size it got when the file was opened, *)
(* whatever is written to the file: 0 of a file that was created.          *)
(*                                                                         *)
(* Each chunk keeps the offset of its first byte: copyOut finds the chunk  *)
(* of an offset by bisection, everything else walks over the chunks.       *)
(* content is what the calls so far should have left. Some calls leave     *)
(* something else; then sane becomes FALSE and only clear follows.         *)
(***************************************************************************)
EXTENDS Integers, SequencesExt

CONSTANTS Letters,          \* the bytes written
          LowerCase(_),     \* of a byte
          UintMax,          \* numeric_limits<uint64_t>::max()
          Uint32Max,        \* numeric_limits<uint32_t>::max()
          maxSize, maxChunkSize, maxChunks,
          maxContainerSizeUntilGoingToFS,   \* 0: never goes
          blockSize,        \* memmove64 moves as many at a time
          MaxBuffer,        \* the longest buffer written in one call
          MaxNeedle,        \* the longest one searched for
          MaxFile,          \* the longest file: no size() stops one from growing
          MaxOffset         \* stale offsets grow with what goes through: no more is appended then

ASSUME ContainerAssumption ==
    /\ {UintMax, Uint32Max, maxSize, maxChunkSize, maxChunks, blockSize} \subseteq Nat \ {0}
    /\ {MaxBuffer, MaxNeedle, MaxFile, MaxOffset} \subseteq Nat \ {0}
    /\ maxContainerSizeUntilGoingToFS \in Nat
    /\ maxSize < UintMax /\ "zero" \notin Letters

VARIABLES storeMethod,     \* the class of the container: "chunks" or "filemmap"
          chunks,          \* chunksVector
          containerBytes,
          file,            \* fileReference: open or not, what is in it; seen: the size of mem
          ref,             \* a reference to the container: its offset and its referencedMaxBytes
          content, sane,   \* what the container should hold, and whether it may (history)
          searchable       \* the chunks' offsets are right (history)

held == <<chunks, containerBytes, file, content, sane, searchable>>

vars == <<storeMethod, chunks, containerBytes, file, ref, content, sane, searchable>>

NoFile == [on |-> FALSE, data |-> <<>>, seen |-> 0]
NoRef == [on |-> FALSE, offset |-> 0, max |-> 0]

Lesser(a, b) == IF a < b THEN a ELSE b

\* CHECK_UINT_OVERFLOW_SUM
Overflows(a, b) == a + b > UintMax

\* What is read comes from mem
Mapped == storeMethod = "filemmap" \/ file.on

size == IF Mapped THEN file.seen ELSE containerBytes

\* Either class, and no file open
Init ==
    /\ storeMethod \in {"chunks", "filemmap"}
    /\ chunks = <<>> /\ containerBytes = 0 /\ file = NoFile /\ ref = NoRef
    /\ content = <<>> /\ sane = TRUE /\ searchable = TRUE

nextOffset(c) == c.offset + Len(c.data)

MutContainsOffset(c, offset) == offset > c.offset /\ offset <= nextOffset(c)

containsOffset(c, offset) == offset >= c.offset /\ offset < nextOffset(c)

-----------------------------------------------------------------------------
\* Reading. The copies of the chunks' pieces from an offset on, at most that many bytes
Walk(offset, bytes) ==
    FoldLeft(LAMBDA w, c :
        IF w.left = 0 THEN w
        ELSE IF w.offset > Len(c.data) THEN [w EXCEPT !.offset = @ - Len(c.data)]
        ELSE LET piece == SubSeq(c.data, w.offset + 1, Lesser(w.offset + w.left, Len(c.data)))
             IN  [offset |-> 0, left |-> w.left - Len(piece), out |-> w.out \o piece],
        [offset |-> offset, left |-> bytes, out |-> <<>>], chunks).out

\* The same of the bytes mapped from a file, which are in one piece
MemCopyTo2(offset, bytes) == SubSeq(file.data, offset + 1, Lesser(offset + bytes, file.seen))

\* Each piece is written to another container, or to a stream of the library
copyTo2(offset, bytes) == IF Mapped THEN MemCopyTo2(offset, bytes) ELSE Walk(offset, bytes)

\* To a stream of the library the pieces go one by one, and nobody asks whether they arrive
MemPieces(offset, bytes) ==
    LET there == MemCopyTo2(offset, bytes)
    IN  [i \in 1 .. (Len(there) + blockSize - 1) \div blockSize |->
            SubSeq(there, (i - 1) * blockSize + 1, Lesser(i * blockSize, Len(there)))]

copyToStreamUsingCleanVector(pieces) == FlattenSeq(pieces)

copyToStream2(offset, bytes) ==
    IF Mapped THEN copyToStreamUsingCleanVector(MemPieces(offset, bytes)) ELSE Walk(offset, bytes)

Failed == [ok |-> FALSE, data |-> <<>>]
Copied(bytes) == [ok |-> TRUE, data |-> bytes]

\* What is asked for, UintMax being all there is
Asked(bytes, offset) == IF bytes = UintMax THEN size - offset ELSE bytes

Refused(bytes, offset) ==
    (bytes = UintMax /\ offset > size) \/ Overflows(offset, Asked(bytes, offset))

\* appendTo and copyToStream copy as much as there is
appendTo(bytes, offset) ==
    LET n == Asked(bytes, offset)
    IN  IF Refused(bytes, offset) \/ (n # 0 /\ offset > size) THEN Failed
        ELSE Copied(IF n = 0 THEN <<>> ELSE copyTo2(offset, Lesser(n, size - offset)))

copyToStream(bytes, offset) ==
    LET n == Asked(bytes, offset)
    IN  IF Refused(bytes, offset) \/ (n # 0 /\ offset > size) THEN Failed
        ELSE Copied(IF n = 0 THEN <<>> ELSE copyToStream2(offset, Lesser(n, size - offset)))

\* I_Chunk_GetPosForOffset: 0 for none, chunks are numbered from 1 here
RECURSIVE Bisect(_, _, _, _)
Bisect(offset, cur, hi, lo) ==
    LET middle(a, b) == IF a = b THEN a ELSE a + ((b + 1 - a) \div 2) - ((b - a) % 2)
    IN  IF containsOffset(chunks[cur], offset) THEN cur
        ELSE IF offset < chunks[cur].offset
             THEN IF cur = lo THEN 0 ELSE Bisect(offset, middle(lo, cur - 1), cur - 1, lo)
             ELSE IF cur = hi THEN 0 ELSE Bisect(offset, middle(cur + 1, hi), hi, cur + 1)

I_Chunk_GetPosForOffset(offset) ==
    LET n == Len(chunks)
    IN  IF n = 0 THEN 0 ELSE Bisect(offset, IF n = 1 THEN 1 ELSE n \div 2, n, 1)

\* Of a file copyOut says that it failed, having copied
MemCopyOut2(bytes, offset) == [ok |-> FALSE, data |-> MemCopyTo2(offset, bytes)]

\* copyOut2: from the chunk of the offset on
copyOut2(bytes, offset) ==
    LET i == I_Chunk_GetPosForOffset(offset)
        from == FlattenSeq([k \in 1 .. Len(chunks) - i + 1 |-> chunks[i + k - 1].data])
        start == offset - chunks[i].offset
    IN  IF Mapped THEN MemCopyOut2(bytes, offset)
        ELSE IF i = 0 THEN Failed
        ELSE Copied(SubSeq(from, start + 1, Lesser(start + bytes, Len(from))))

\* copyOut, and copyToString and toString, which are made of it
copyOut(bytes, offset) ==
    LET n == Asked(bytes, offset)
    IN  IF Refused(bytes, offset) THEN Failed
        ELSE IF n = 0 THEN Copied(<<>>)
        ELSE IF offset + n > size THEN Failed
        ELSE copyOut2(n, offset)

copyToString(bytes, offset) ==
    LET copied == copyOut(bytes, offset) IN IF copied.ok THEN copied ELSE Failed

toString(bytes, offset) == copyToString(bytes, offset).data

\* streamTo a container with so much room: each piece is written whole or not at all, and the
\* first that is not is the last. Whatever was written, the end is announced as a success.
write(room, out, piece) ==
    IF Len(out) + Len(piece) <= room THEN [succeed |-> TRUE, out |-> out \o piece]
    ELSE [succeed |-> FALSE, out |-> out]

PiecesHeld == IF Mapped THEN MemPieces(0, size) ELSE [i \in DOMAIN chunks |-> chunks[i].data]

copyToSOUsingCleanVector(room) ==
    FoldLeft(LAMBDA w, piece : IF w.succeed THEN write(room, w.out, piece) ELSE w,
             [succeed |-> TRUE, out |-> <<>>], PiecesHeld).out

streamTo(room) == [out |-> copyToSOUsingCleanVector(room), eof |-> appendTo(UintMax, 0).ok]

\* memicmp2
Same(s, t, caseSensitive) ==
    /\ Len(s) = Len(t)
    /\ \A i \in DOMAIN s : IF caseSensitive THEN s[i] = t[i] ELSE LowerCase(s[i]) = LowerCase(t[i])

MemCompare2(buf, caseSensitive, offset) == Same(MemCopyTo2(offset, Len(buf)), buf, caseSensitive)

compare2(buf, caseSensitive, offset) ==
    IF Mapped THEN MemCompare2(buf, caseSensitive, offset)
    ELSE Same(Walk(offset, Len(buf)), buf, caseSensitive)

compare(buf, caseSensitive, offset) ==
    /\ ~Overflows(offset, Len(buf))
    /\ buf = <<>> \/ (offset + Len(buf) <= size /\ compare2(buf, caseSensitive, offset))

\* Where a letter is found between two positions (from 0), UintMax when it is not
PositionIn(c, offset, space) ==
    LET piece == copyTo2(offset, space)
        at == {i \in DOMAIN piece : piece[i] = c}
    IN  IF at = {} THEN UintMax ELSE offset + (CHOOSE i \in at : \A j \in at : i <= j) - 1

\* BinaryContainer_MEM: no search space is all there is
MemFindChar(c, offset, space, caseSensitive) ==
    IF size = 0 \/ Overflows(offset, space) \/ offset + space > size THEN UintMax
    ELSE PositionIn(IF caseSensitive THEN LowerCase(c) ELSE c, offset,
                    IF space = 0 THEN size - offset ELSE space)

ChunksFindChar(c, offset, space, caseSensitive) ==
    IF Overflows(offset, space) \/ offset > size \/ offset + space > size THEN UintMax
    ELSE PositionIn(IF caseSensitive THEN LowerCase(c) ELSE c, offset, space)

MutFindChar(c, offset, space, caseSensitive) ==  \* the last letter is out of bounds
    IF Overflows(offset, space) \/ offset > size \/ offset + space >= size THEN UintMax
    ELSE PositionIn(IF caseSensitive THEN LowerCase(c) ELSE c, offset, space)

\* Of a letter in either case the lower one is found. A container that went to a file hands on
\* neither the search space nor the case.
findChar(c, offset, space, caseSensitive) ==
    IF storeMethod = "filemmap" THEN MemFindChar(c, offset, space, caseSensitive)
    ELSE IF file.on THEN MemFindChar(c, offset, 0, FALSE)
    ELSE ChunksFindChar(c, offset, space, caseSensitive)

\* find: the first letter of the needle, then the rest; again after it
RECURSIVE Search(_, _, _, _)
Search(needle, caseSensitive, cur, space) ==
    LET Found(at) ==
            IF at = UintMax \/ compare(needle, caseSensitive, at) THEN at
            ELSE IF space - (at - cur) <= 0 THEN UintMax
            ELSE Search(needle, caseSensitive, at + 1, space - (at - cur) - 1)
    IN  Found(findChar(Head(needle), cur, space, caseSensitive))

find(needle, caseSensitive, offset, searchSpace) ==
    LET space == IF searchSpace = 0 THEN size - offset ELSE searchSpace
    IN  IF Overflows(offset, Len(needle)) \/ Overflows(offset, searchSpace) \/ offset > size
           \/ space = 0 \/ space < Len(needle)
        THEN UintMax
        ELSE IF needle = <<>> THEN 0
        ELSE Search(needle, caseSensitive, offset, space)

\* The same for a list: the first needle of it that is found at all
findAny(needles, caseSensitive, offset, searchSpace) ==
    LET First(found) ==
            IF found = <<>> THEN [needle |-> <<>>, at |-> UintMax] ELSE Head(found)
    IN  First(SelectSeq([i \in DOMAIN needles |->
                            [needle |-> needles[i],
                             at |-> find(needles[i], caseSensitive, offset, searchSpace)]],
                        LAMBDA one : one.at # UintMax))

\* copyUntil an empty container: what stands before the needle, and the needle unless it is removed
copyUntil(needle, maxCopySize, removeNeedle) ==
    LET Copy(at, n) ==
            IF at = UintMax \/ Overflows(at, Len(needle)) \/ at + n > maxCopySize THEN Failed
            ELSE appendTo(at + n, 0)
    IN  Copy(find(needle, FALSE, 0, maxCopySize), IF removeNeedle THEN 0 ELSE Len(needle))

-----------------------------------------------------------------------------
\* Writing. Base's append and prepend refuse what does not fit.
Fits(buf) == ~Overflows(Len(buf), size) /\ Len(buf) + size <= maxSize /\ buf # <<>>

GoesToFS(buf) ==
    ~Mapped /\ maxContainerSizeUntilGoingToFS # 0 /\ Len(buf) + size > maxContainerSizeUntilGoingToFS

\* The chunks that append2 cuts a buffer into, as many as maxChunks leaves room for
Pieces(buf) ==
    LET n == (Len(buf) + maxChunkSize - 1) \div maxChunkSize
    IN  [i \in 1 .. Lesser(n, maxChunks - Len(chunks)) |->
            SubSeq(buf, (i - 1) * maxChunkSize + 1, Lesser(i * maxChunkSize, Len(buf)))]

Kept(buf) == Len(FlattenSeq(Pieces(buf)))

\* recalcChunkOffsets writes the offset of the first chunk, as often as there are chunks
recalcChunkOffsets(cs) ==
    IF cs = <<>> THEN cs ELSE [cs EXCEPT ![1].offset = (Len(cs) - 1) * Len(cs[1].data)]

\* The file may exist, and what it holds is mapped
openFile(data) == [on |-> TRUE, data |-> data, seen |-> 0]

\* BinaryContainer_MEM::reference, of 32 bits
MemReference(f, bytes) == [f EXCEPT !.seen = bytes % (Uint32Max + 1)]

referenceFile(data) == MemReference(openFile(data), Len(data))

\* reMapMemoryContainer takes the size of the mapping from size(), and that is mem's own
reMapMemoryContainer(f) == MemReference(f, f.seen)

mmapAppend(old, buf) == old \o buf

\* mmapPrepend moves the bytes towards the front before it writes the new ones there
mmapPrepend(old, buf) ==
    buf \o [i \in 1 .. Len(old) |->
               IF 2 * Len(buf) + i <= Len(old) THEN old[2 * Len(buf) + i] ELSE "zero"]

MmapAppend2(f, buf, prependMode) ==
    reMapMemoryContainer(
        [f EXCEPT !.data = IF prependMode THEN mmapPrepend(@, buf) ELSE mmapAppend(@, buf)])

\* copyToFS into a file of a random name, then clearChunks; containerBytes stays
ToFS == MmapAppend2(referenceFile(<<>>), appendTo(UintMax, 0).data, FALSE)

\* A BinaryContainer_MMAP opens another file
ReferenceFile(data) ==
    /\ storeMethod = "filemmap"
    /\ file' = referenceFile(data)
    /\ content' = data /\ sane' = TRUE
    /\ UNCHANGED <<storeMethod, chunks, containerBytes, ref, searchable>>

\* mem is left as it was
closeFile == [NoFile EXCEPT !.seen = file.seen]

InFile(buf) == (file.on \/ GoesToFS(buf)) /\ Len(content) + Len(buf) <= MaxFile

append(buf) ==
    /\ sane /\ Fits(buf)
    /\ \/ /\ InFile(buf)
          /\ file' = MmapAppend2(IF file.on THEN file ELSE ToFS, buf, FALSE)
          /\ chunks' = <<>>
          /\ content' = content \o buf
          /\ UNCHANGED containerBytes
       \/ /\ ~Mapped /\ ~GoesToFS(buf)
          /\ LET start == IF chunks = <<>> THEN 0 ELSE nextOffset(Last(chunks))
             IN  /\ start <= MaxOffset
                 /\ chunks' = chunks \o [i \in DOMAIN Pieces(buf) |->
                        [data |-> Pieces(buf)[i], offset |-> start + (i - 1) * maxChunkSize]]
          /\ containerBytes' = containerBytes + Kept(buf)
          /\ content' = content \o SubSeq(buf, 1, Kept(buf))
          /\ UNCHANGED file
    /\ UNCHANGED <<storeMethod, ref, sane, searchable>>

\* The pieces go to the front one by one, the first of them deepest
prepend(buf) ==
    /\ sane /\ Fits(buf)
    /\ content' = buf \o content
    /\ \/ /\ InFile(buf)
          /\ file' = MmapAppend2(IF file.on THEN file ELSE ToFS, buf, TRUE)
          /\ chunks' = <<>>
          /\ sane' = (content = <<>>)
          /\ UNCHANGED <<containerBytes, searchable>>
       \/ /\ ~Mapped /\ ~GoesToFS(buf)
          /\ LET pieces == Reverse(Pieces(buf))
                 new == [i \in DOMAIN pieces |-> [data |-> pieces[i], offset |-> 0]] \o chunks
             IN  chunks' = IF Kept(buf) = Len(buf) THEN recalcChunkOffsets(new) ELSE new
          /\ containerBytes' = containerBytes + Kept(buf)
          /\ sane' = (Len(buf) <= maxChunkSize /\ Kept(buf) = Len(buf))
          /\ searchable' = (Len(chunks') = 1)
          /\ UNCHANGED file
    /\ UNCHANGED <<storeMethod, ref>>

MutDisplaced(bytes) ==  \* the chunk the new beginning is in stays whole
    FoldLeft(LAMBDA w, c :
        IF w.left >= Len(c.data) THEN [w EXCEPT !.left = @ - Len(c.data)]
        ELSE [left |-> 0, out |-> Append(w.out, c)],
        [left |-> bytes, out |-> <<>>], chunks).out

\* BinaryContainerChunk::displace
ChunkDisplace(c, n) == [c EXCEPT !.data = SubSeq(@, n + 1, Len(@))]

Displaced(bytes) ==
    FoldLeft(LAMBDA w, c :
        IF w.left = 0 THEN [w EXCEPT !.out = Append(@, c)]
        ELSE IF w.left >= Len(c.data) THEN [w EXCEPT !.left = @ - Len(c.data)]
        ELSE [left |-> 0, out |-> <<ChunkDisplace(c, w.left)>>],
        [left |-> bytes, out |-> <<>>], chunks).out

\* memmove64 of so many bytes only ends well within one block
Moves(n) == n <= blockSize \/ n % blockSize = 0

mmapDisplace(bytes) == [file EXCEPT !.data = SubSeq(@, bytes + 1, Len(@))]

\* Of a file that became shorter than what is shown, the rest is read behind its end
DisplaceBytes(bytes) ==
    LET rest == Len(file.data) - bytes
    IN  /\ sane
        /\ \/ /\ file.on
              /\ file' = reMapMemoryContainer(mmapDisplace(bytes))
              /\ sane' = (file.seen <= rest /\ (bytes = 0 \/ Moves(rest)))
              /\ UNCHANGED <<chunks, containerBytes, searchable>>
           \/ /\ ~Mapped
              /\ chunks' = recalcChunkOffsets(Displaced(bytes))
              /\ containerBytes' = containerBytes - bytes
              /\ searchable' = (Len(chunks') <= 1)
              /\ UNCHANGED <<file, sane>>
        /\ UNCHANGED <<storeMethod, ref>>

Displace(n) ==
    /\ DisplaceBytes(Lesser(n, size))
    /\ content' = SubSeq(content, Lesser(n, size) + 1, Len(content))

\* Where a needle is, its first letter as it is written, the others in either case
Occurrences(needle, s) ==
    {i \in 0 .. Len(s) - Len(needle) :
        s[i + 1] = needle[1] /\ Same(SubSeq(s, i + 1, i + Len(needle)), needle, FALSE)}

\* What is left should be what stands behind the first needle
displaceUntil(needle, maxCopySize, removeNeedle) ==
    LET n(copied) == Len(copied.data) + (IF removeNeedle THEN Len(needle) ELSE 0)
        First(at) == CHOOSE i \in at : \A j \in at : i <= j
    IN  /\ sane
        /\ \E copied \in {copyUntil(needle, maxCopySize, removeNeedle)} :
              copied.ok /\ DisplaceBytes(Lesser(n(copied), size))
        /\ content' =
              SubSeq(content, First(Occurrences(needle, content)) + Len(needle) + 1, Len(content))

\* The chunk of the new end goes, the one behind it is emptied, and of the others each second goes
Truncated(i) ==
    [k \in 1 .. i - 1 + ((Len(chunks) - i + 1) \div 2) |->
        IF k < i THEN chunks[k]
        ELSE IF k = i THEN [chunks[i + 1] EXCEPT !.data = <<>>]
        ELSE chunks[i + 1 + 2 * (k - i)]]

mmapTruncate(data, n) == SubSeq(data, 1, n)

\* What is shown of a file stays, and lies behind its end now
Truncate(n) ==
    /\ sane /\ n < size
    /\ content' = SubSeq(content, 1, n)
    /\ sane' = FALSE
    /\ \/ /\ file.on
          /\ file' = reMapMemoryContainer([file EXCEPT !.data = mmapTruncate(@, n)])
          /\ UNCHANGED chunks
       \/ /\ ~Mapped
          /\ LET i == I_Chunk_GetPosForOffset(n)
             IN  chunks' = IF i = 0 THEN chunks ELSE Truncated(i)
          /\ UNCHANGED file
    /\ UNCHANGED <<storeMethod, containerBytes, ref, searchable>>

\* With the chunks the BinaryContainer_MMAP goes; one that is cleared itself shows what is unmapped
Clear ==
    /\ chunks' = <<>> /\ containerBytes' = 0
    /\ file' = IF storeMethod = "chunks" THEN NoFile ELSE closeFile
    /\ content' = <<>> /\ sane' = (file'.seen = 0) /\ searchable' = TRUE
    /\ UNCHANGED <<storeMethod, ref>>

-----------------------------------------------------------------------------
\* A reference to the container. It changes with it, and the container may become too short.
Reference(offset, max) ==
    /\ offset <= size
    /\ ref' = [on |-> TRUE, offset |-> offset, max |-> max]
    /\ UNCHANGED <<storeMethod, held>>

RefSize ==
    LET available == (size - ref.offset) % (UintMax + 1)
    IN  IF ref.max = UintMax \/ ref.max > available THEN available ELSE ref.max

\* The container reaches the reference; otherwise RefSize wraps, and nothing is said of it
Reached == ref.on /\ ref.offset <= size

RefDisplace(n) ==
    /\ Reached /\ n <= RefSize
    /\ ref' = [ref EXCEPT !.max = IF @ = UintMax THEN @ ELSE @ - n, !.offset = @ + n]
    /\ UNCHANGED <<storeMethod, held>>

RefTruncate(n) ==
    /\ Reached /\ n < RefSize
    /\ ref' = [ref EXCEPT !.max = n]
    /\ UNCHANGED <<storeMethod, held>>

RefClear ==
    /\ ref' = NoRef
    /\ UNCHANGED <<storeMethod, held>>

\* The reads of a reference, of the whole of it
RefCopyTo2 ==
    IF RefSize = 0 THEN Copied(<<>>) ELSE appendTo(RefSize, ref.offset)

RefCopyToStream2 ==
    IF RefSize = 0 THEN Copied(<<>>) ELSE copyToStream(RefSize, ref.offset)

RefCopyOut2 ==
    IF RefSize = 0 THEN Copied(<<>>) ELSE copyOut(RefSize, ref.offset)

RefCompare2(buf, caseSensitive) ==
    buf = <<>> \/ (Len(buf) <= RefSize /\ compare(buf, caseSensitive, ref.offset))

Buffers == UNION {[1 .. n -> Letters] : n \in 1 .. MaxBuffer}

\* What a file may hold when it is opened
Files == UNION {[1 .. n -> Letters] : n \in 0 .. MaxFile}

\* What is searched for: long enough to lie across the end of a chunk
Needles == {buf \in Buffers : Len(buf) <= MaxNeedle}

Next ==
    \/ \E buf \in Buffers : append(buf) \/ prepend(buf)
    \/ \E n \in 0 .. maxSize : Displace(n) \/ Truncate(n) \/ RefDisplace(n) \/ RefTruncate(n)
    \/ \E offset \in 0 .. maxSize, max \in {1, UintMax} : Reference(offset, max)
    \/ \E needle \in Needles, max \in 1 .. maxSize, removeNeedle \in BOOLEAN :
           displaceUntil(needle, max, removeNeedle)
    \/ \E data \in Files : ReferenceFile(data)
    \/ Clear \/ RefClear

Spec == Init /\ [][Next]_vars

-----------------------------------------------------------------------------
TypeOK ==
    /\ \A i \in DOMAIN chunks : chunks[i].data \in Seq(Letters) /\ Len(chunks[i].data) <= maxChunkSize
    /\ Len(chunks) <= maxChunks
    /\ containerBytes \in 0 .. maxSize /\ ref.offset \in 0 .. UintMax /\ ref.max \in 0 .. UintMax
    /\ file.on => chunks = <<>>
    /\ file.seen \in 0 .. Uint32Max
    /\ Len(content) <= IF file.on THEN MaxFile ELSE maxSize

\* What can be read: of chunks everything; of a file as many bytes from its beginning as mem's size
\* says, which is set when the file is opened. That is nothing of a file the container created.
Shown == IF Mapped THEN SubSeq(content, 1, file.seen) ELSE content

\* In memory what was written, and not displaced, is what is read: the whole of it and any part,
\* however it is cut into chunks; a write that does not fit the chunks keeps the part it reports.
\* In a file what was written, and not displaced, is in the file, in its order; read back is no
\* more than as many bytes as were there when it was opened, nothing after the chunks went to a
\* file, and those bytes are exact. It holds until a buffer of several chunks is prepended,
\* something is prepended to a file, a container of chunks or a file is truncated, a file is
\* displaced below what is shown or over several blocks, or one is cleared that was shown.
ContentKept ==
    sane => /\ file.on => file.data = content
            /\ size = Len(Shown)
            /\ \A offset \in 0 .. Len(Shown), n \in 0 .. UintMax :
                  LET read == appendTo(n, offset)
                  IN  /\ read = IF n # UintMax /\ Overflows(offset, n) THEN Failed
                                ELSE Copied(SubSeq(Shown, offset + 1, Lesser(offset + n, Len(Shown))))
                      /\ copyToStream(n, offset) = read

\* A destination that is full gets the beginning of what can be read and nothing from behind a gap.
StreamedPrefix ==
    sane => \A room \in 0 .. maxSize :
        /\ IsPrefix(streamTo(room).out, Shown)
        /\ room >= Len(Shown) => streamTo(room) = [out |-> Shown, eof |-> TRUE]

\* The chunk of an offset is found by bisection wherever it is, and what copyOut and toString
\* answer is right: in memory, and as long as no offset is stale, that is until something is
\* prepended or displaced and more than one chunk is left.
RandomAccessExact ==
    sane /\ searchable /\ ~Mapped =>
        \A offset \in 0 .. Len(content), n \in 1 .. UintMax :
            /\ copyOut(n, offset).ok => toString(n, offset) = copyOut(n, offset).data
            /\ copyOut(n, offset) =
                IF n = UintMax THEN Copied(SubSeq(content, offset + 1, Len(content)))
                ELSE IF offset + n <= Len(content)
                THEN Copied(SubSeq(content, offset + 1, offset + n))
                ELSE Failed

\* find, the search the parsers' delimiters are found with, finds the first occurrence that begins
\* in the search space, wherever chunks end: the first letter as it is written, the others in
\* either case. It asks for no more than there is.
FindFirst ==
    sane /\ ~Mapped =>
        \A needle \in Needles, offset \in 0 .. Len(content) :
          \A space \in Len(needle) .. Len(content) - offset :
            LET Right(at, found, any, copied) ==
                    /\ IF at = {} THEN found = UintMax
                       ELSE found \in at /\ \A i \in at : found <= i
                    /\ any.at = UintMax => at = {}
                    /\ offset = 0 /\ copied.ok => copied.data = SubSeq(content, 1, found)
            IN  Right(Occurrences(needle, content) \intersect offset .. offset + space - 1,
                      find(needle, FALSE, offset, space),
                      findAny(<<Tail(needle), needle>>, FALSE, offset, space),
                      copyUntil(needle, space, TRUE))

\* A reference reads what the container shows now behind its offset, as long as the container
\* reaches that far: a reference made to chunks does not reach them in the file they go to, unless
\* it began at the first byte, and then it is empty.
RefReadsThrough ==
    sane /\ Reached =>
        LET there == SubSeq(Shown, ref.offset + 1, Lesser(ref.offset + ref.max, Len(Shown)))
        IN  /\ RefSize = Len(there)
            /\ RefCopyTo2 = Copied(there) /\ RefCopyToStream2 = Copied(there)
            /\ (searchable /\ ~Mapped) => RefCopyOut2 = Copied(there)
            /\ \A buf \in Needles : RefCompare2(buf, TRUE) <=> IsPrefix(buf, there)

\* The invariants of the module in one: types, and the content that every way of reading keeps.
Safe == TypeOK /\ ContentKept

\* What is read in part is exact too: streamed out, at any offset, and through a reference.
PartsExact == StreamedPrefix /\ RandomAccessExact /\ RefReadsThrough
=============================================================================
