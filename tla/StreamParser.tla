----------------------------- MODULE StreamParser -----------------------------
(***************************************************************************)
(* SubStreamParser: one element of a protocol, read from blocks of bytes   *)
(* that may be cut anywhere. A parser holds what it has not parsed yet in  *)
(* buf, of at most max bytes. A block either fits buf as a whole, with all *)
(* that follows the element in it, or is refused.                          *)
(***************************************************************************)
EXTENDS Naturals, SequencesExt, FiniteSetsExt

Smaller(a, b) == IF a < b THEN a ELSE b

Parser(mode, delimiters, target) ==
    [mode |-> mode, delimiters |-> delimiters, left |-> target, max |-> target,
     buf |-> <<>>, ended |-> FALSE, found |-> <<>>]

setParseMode(p, mode) == [p EXCEPT !.mode = mode]

setParseDataTargetSize(p, n) == [p EXCEPT !.left = n, !.max = n]

\* What a parser makes of a block: whether it takes it, whether parse() is called and of what, how
\* much of the block is used, and what becomes of the parser
Refuse(p) ==
    [ok |-> FALSE, p |-> [p EXCEPT !.buf = <<>>], called |-> FALSE, data |-> <<>>, used |-> 0, status |-> "error"]
Keep(p, used, status) ==
    [ok |-> TRUE, p |-> p, called |-> FALSE, data |-> <<>>, used |-> used, status |-> status]
CallParse(p, data, used) ==
    [ok |-> TRUE, p |-> p, called |-> TRUE, data |-> data, used |-> used, status |-> "more"]

\* append of the buffer
Fits(p, block) == Len(p.buf) + Len(block) <= p.max

Places(bytes, d) == {i \in 0 .. Len(bytes) - Len(d) : SubSeq(bytes, i + 1, i + Len(d)) = d}

\* find of several needles: the first of the list that is there at all
DelimiterIn(p, bytes) ==
    LET there == SelectSeq(p.delimiters, LAMBDA d : Places(bytes, d) # {})
    IN  IF there = <<>> THEN <<>> ELSE Head(there)

MutParseByMultiDelimiter(p, block) ==  \* what was held is not counted
    LET held == p.buf \o block
        ended == p.ended \/ block = <<>>
        d == DelimiterIn(p, held)
        done == [p EXCEPT !.buf = <<>>, !.ended = ended, !.found = d]
    IN  IF ~Fits(p, block) THEN Refuse(p)
        ELSE IF d # <<>>
        THEN LET at == Min(Places(held, d))
             IN  CallParse(done, SubSeq(held, 1, at), Smaller(at + Len(d), Len(block)))
        ELSE IF ended THEN CallParse(done, held, Len(block))
        ELSE Keep([done EXCEPT !.buf = held], Len(block), "more")

parseByMultiDelimiter(p, block) ==
    LET held == p.buf \o block
        ended == p.ended \/ block = <<>>
        d == DelimiterIn(p, held)
        done == [p EXCEPT !.buf = <<>>, !.ended = ended, !.found = d]
    IN  IF ~Fits(p, block) THEN Refuse(p)
        ELSE IF d # <<>>
        THEN LET at == Min(Places(held, d))
             IN  CallParse(done, SubSeq(held, 1, at), (at + Len(d)) - Len(p.buf))
        ELSE IF ended THEN CallParse(done, held, Len(block))
        ELSE Keep([done EXCEPT !.buf = held], Len(block), "more")

\* The same with one needle
parseByDelimiter(p, block) == parseByMultiDelimiter(p, block)

\* At the end of the stream what was read is thrown away, and the next element is due
parseBySize(p, block) ==
    LET n == Smaller(Len(block), p.left)
        piece == SubSeq(block, 1, n)
    IN  IF block = <<>> THEN Keep([p EXCEPT !.buf = <<>>, !.ended = TRUE], 0, "next")
        ELSE IF ~Fits(p, piece) THEN Refuse(p)
        ELSE IF n = p.left THEN CallParse([p EXCEPT !.buf = <<>>, !.left = 0], p.buf \o piece, n)
        ELSE Keep([p EXCEPT !.buf = @ \o piece, !.left = @ - n], n, "more")

\* Whatever comes is parsed at once, nothing at the end of the stream
parseDirect(p, block) ==
    LET n == Smaller(Len(block), p.left)
        piece == SubSeq(block, 1, n)
    IN  IF ~Fits(p, piece) THEN Refuse(p)
        ELSE CallParse([p EXCEPT !.left = @ - n, !.ended = (block = <<>>)], piece, n)

\* After parse() of a direct parser
ResetLeft(p) == IF p.mode = "direct" /\ p.left = 0 THEN [p EXCEPT !.left = p.max] ELSE p

writeIntoParser(p, block) ==
    CASE p.mode = "delimiter" -> parseByDelimiter(p, block)
      [] p.mode = "multidelimiter" -> parseByMultiDelimiter(p, block)
      [] p.mode = "size" -> parseBySize(p, block)
      [] p.mode = "direct" -> parseDirect(p, block)
=============================================================================
