-------------------------- MODULE MCSocketBridge ---------------------------
(* Bytes are 0 .. 3, so a length of one byte is at most 3 and a length of two at most 15. *)
EXTENDS SocketBridge

Op(kind, width, value, most, keep, delim) ==
    [kind |-> kind, width |-> width, value |-> value, most |-> most, keep |-> keep, delim |-> delim]
Num(width, n) == Op("number", width, n, 0, FALSE, <<>>)
Str(width, s) == Op("string", width, s, 15, FALSE, <<>>)
Block(data, most, keep) == Op("block", 1, data, most, keep, <<>>)
Alloc(data, most) == Op("alloc", 2, data, most, FALSE, <<>>)
Delimited(data, delim) == Op("delimited", 0, data, 4, FALSE, delim)

Write(op) == [do |-> "write", op |-> op]
Read(op) == [do |-> "read", op |-> op]
Shut == [do |-> "shut", op |-> Num(1, 0)]

\* A question and its answer
Ask == <<<<Write(Str(1, <<3, 1>>)), Read(Num(2, 6))>>, <<Read(Str(1, <<3, 1>>)), Write(Num(2, 6))>>>>
\* Both speak first
Greet == <<<<Write(Block(<<2, 3>>, 2, FALSE)), Read(Str(1, <<>>))>>,
           <<Write(Str(1, <<>>)), Read(Block(<<2, 3>>, 2, FALSE))>>>>
\* One end of the conversation is over before the answer
HalfClose == <<<<Write(Delimited(<<1, 2, 0>>, <<2, 0>>)), Shut, Read(Alloc(<<1>>, 2))>>,
               <<Read(Delimited(<<1, 2, 0>>, <<2, 0>>)), Write(Alloc(<<1>>, 2))>>>>
\* One string too long to be written, one too long to be read, a block of another length
TooLong == <<<<Write(Str(1, <<1, 1, 1, 1>>))>>, <<Read(Str(1, <<1, 1, 1, 1>>))>>>>
Longest == <<<<Write(Str(1, <<1, 1, 1>>))>>, <<Read(Str(1, <<1, 1, 1>>))>>>>
Other == <<<<Write(Block(<<1, 1>>, 1, FALSE))>>, <<Read(Block(<<1, 1>>, 1, FALSE))>>>>
\* One leaves before it has heard everything; both write more than the sockets hold
Early == <<<<Write(Num(2, 9)), Write(Num(2, 9))>>, <<Read(Num(2, 9))>>>>
Shout == <<<<Write(Num(7, 9)), Read(Num(7, 7))>>, <<Write(Num(7, 7)), Read(Num(7, 9))>>>>
\* One writes all it has and leaves, the other does not listen before it has spoken
Flood == <<<<Write(Num(6, 9))>>, <<Write(Num(7, 7)), Read(Num(6, 9))>>>>

MCScript == [ask |-> Ask, greet |-> Greet, halfClose |-> HalfClose, tooLong |-> TooLong, longest |-> Longest,
             other |-> Other, early |-> Early, shout |-> Shout, flood |-> Flood]
MCCases == {<<"bridge", 1>>, <<"chain", 1>>} \X DOMAIN MCScript
           \cup {<<"chain", 2>>} \X {"ask", "early"}
=============================================================================
