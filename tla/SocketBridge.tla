---------------------------- MODULE SocketBridge ----------------------------
(***************************************************************************)
(* Bytes on their way from one host to another through sockets: either     *)
(* through a Socket_Stream_Bridge, two threads that copy between the two   *)
(* sockets of two connections, or up a ChainSockets, a stack of socket     *)
(* pairs with two threads in every layer.                                  *)
(*                                                                         *)
(* Both are a row of links with a relay between every two of them. Link k  *)
(* has a left end <<k, 0>> and a right end <<k, 1>>; host 0 has the left   *)
(* end of the first link and host 1 the right end of the last. A relay has *)
(* one thread for each direction. A direction is the side bytes come from. *)
(*                                                                         *)
(* The hosts speak through Stream_Writer and Stream_Reader: a script is    *)
(* what a host does, one value after the other, before it closes. The      *)
(* kernel's sockets are external: a bounded queue in each direction, what  *)
(* shutdown and close do to both ends, and connections that break.         *)
(***************************************************************************)
EXTENDS StreamCodec, FiniteSets

CONSTANTS Script,      \* pairs of scripts by name
          Cases,       \* what may stand between the hosts, <<"bridge", 1>> or <<"chain", layers>>, and
                       \* the script they follow with it
          Capacity,    \* bytes a socket holds for its reader
          BlockSize,   \* the most that a relay reads at once (8192, 4096)
          MaxBreaks,   \* bound: connections that break
          shutdownRemotePeerOnFinish, closeRemotePeerOnFinish

ASSUME SocketBridgeAssumption ==
    /\ \A c \in Cases : c[1][1] \in {"bridge", "chain"} /\ c[1][2] \in Nat \ {0} /\ c[2] \in DOMAIN Script
    /\ \A c \in Cases : c[1][1] = "bridge" => c[1][2] = 1
    /\ {Capacity, BlockSize} \subseteq Nat \ {0} /\ MaxBreaks \in Nat
    /\ {shutdownRemotePeerOnFinish, closeRemotePeerOnFinish} \subseteq BOOLEAN

VARIABLES setting,  \* what stands between the hosts, and what they do
          queue,    \* [<<link, side it comes from>> -> bytes]
          shutR, shutW, closed, broken,
          host, relay,
          counted,  \* sentBytes, recvBytes
          finishingPeer,
          owner     \* the thread in process(), or in ~ChainSockets

sockets == <<queue, shutR, shutW, closed, broken>>
vars == <<setting, queue, shutR, shutW, closed, broken, host, relay, counted, finishingPeer, owner>>

Sides == {0, 1}
Layers == setting[1][2]
Links == 0 .. Layers
Relays == (1 .. Layers) \X Sides
Ends == Links \X Sides

Peer(e) == <<e[1], 1 - e[2]>>
HostEnd(h) == IF h = 0 THEN <<0, 0>> ELSE <<Layers, 1>>
\* A relay's socket towards host s: the one its thread of direction s reads from
Towards(k, s) == IF s = 0 THEN <<k - 1, 1>> ELSE <<k, 0>>
IsBridge == setting[1][1] = "bridge"

-----------------------------------------------------------------------------
(* The kernel's sockets *)

\* What recv may bring: nothing stands for 0 or -1, which every caller treats alike
Receives(e, most) ==
    LET q == queue[Peer(e)]
    IN  IF q # <<>> THEN {SubSeq(q, 1, n) : n \in 1 .. (IF Len(q) < most THEN Len(q) ELSE most)}
        ELSE IF e \in shutR \/ Peer(e) \in shutW \/ e[1] \in broken THEN {<<>>} ELSE {}

Taken(e, data) == queue' = [queue EXCEPT ![Peer(e)] = SubSeq(@, Len(data) + 1, Len(@))]

\* send fails, or takes what there is room for, or, to an end that reads no more, takes all and the
\* connection is reset
SendFails(e) == e \in shutW \/ e[1] \in broken \/ Peer(e) \in shutR
Room(e) == Capacity - Len(queue[e])
Sent(data, e) == IF Len(data) < Room(e) THEN Len(data) ELSE Room(e)
Sends(e, data) ==
    /\ e \notin shutW /\ e[1] \notin broken /\ Peer(e) \notin shutR
    /\ Room(e) > 0
    /\ queue' = [queue EXCEPT ![e] = @ \o SubSeq(data, 1, Sent(data, e))]
IsReset(e) == e \notin shutW /\ e[1] \notin broken /\ Peer(e) \in shutR /\ broken' = broken \cup {e[1]}

\* shutdown: the end is deaf or dumb from now on, what has been sent to it or by it stays
Shutdown(deaf, dumb) == shutR' = shutR \cup deaf /\ shutW' = shutW \cup dumb

\* close, of sockets that may have bytes nobody has read: then the connection is reset
Close(ends) ==
    LET unread == {e \in ends : queue[Peer(e)] # <<>>}
    IN  /\ closed' = closed \cup ends /\ shutR' = shutR \cup ends /\ shutW' = shutW \cup ends
        /\ queue' = [e \in DOMAIN queue |-> IF Peer(e) \in ends THEN <<>> ELSE queue[e]]
        /\ \E reset \in SUBSET {e[1] : e \in unread} : broken' = broken \cup reset

\* A connection breaks: of what was on its way, something or nothing arrives
Break ==
    /\ Cardinality(broken) < MaxBreaks
    /\ \E k \in Links \ broken, lost \in SUBSET Sides :
         /\ broken' = broken \cup {k}
         /\ queue' = [e \in DOMAIN queue |-> IF e[1] = k /\ e[2] \in lost THEN <<>> ELSE queue[e]]
    /\ UNCHANGED <<setting, shutR, shutW, closed, host, relay, counted, finishingPeer, owner>>

-----------------------------------------------------------------------------
(* A host: its script, value by value *)

Steps(h) == Script[setting[2]][h + 1]

At(h, i) ==
    LET here == i <= Len(Steps(h))
    IN  [at |-> i,
         out |-> IF here /\ Steps(h)[i].do = "write" THEN Bytes(Steps(h)[i].op) ELSE <<>>,
         in |-> IF here /\ Steps(h)[i].do = "read" THEN Reader(Steps(h)[i].op) ELSE Value(<<>>)]

Runs(h, do) ==
    /\ host[h].state = "runs" /\ host[h].at <= Len(Steps(h))
    /\ Steps(h)[host[h].at].do = do

Goes(h, values) == host' = [host EXCEPT ![h] = At(h, @.at + 1) @@ [@ EXCEPT !.got = @ \o values]]
Fails(h) == host' = [host EXCEPT ![h].failed = TRUE, ![h].at = Len(Steps(h)) + 1]

Init ==
    /\ setting \in Cases
    /\ queue = [e \in Ends |-> <<>>] /\ shutR = {} /\ shutW = {} /\ closed = {} /\ broken = {}
    /\ host = [h \in Sides |-> At(h, 1) @@ [got |-> <<>>, failed |-> FALSE, state |-> "runs"]]
    /\ relay = [t \in Relays |-> [pc |-> "read", block |-> <<>>, left |-> <<>>]]
    /\ counted = [s \in Sides |-> 0] /\ finishingPeer = 2 /\ owner = "waits"

\* Stream_Writer: all the bytes of the value through writeBlock
HostWrites(h) ==
    /\ Runs(h, "write")
    /\ LET e == HostEnd(h)
           out == host[h].out
       IN  IF out = Refused THEN Fails(h) /\ UNCHANGED sockets
           ELSE \/ /\ Sends(e, out)
                   /\ IF Sent(out, e) = Len(out) THEN Goes(h, <<>>)
                      ELSE host' = [host EXCEPT ![h].out = SubSeq(out, Sent(out, e) + 1, Len(out))]
                   /\ UNCHANGED <<shutR, shutW, closed, broken>>
                \/ IsReset(e) /\ Goes(h, <<>>) /\ UNCHANGED <<queue, shutR, shutW, closed>>
                \/ SendFails(e) /\ Fails(h) /\ Shutdown({e}, {e}) /\ UNCHANGED <<queue, closed, broken>>
    /\ UNCHANGED <<setting, relay, counted, finishingPeer, owner>>

\* Stream_Reader: readBlock until it has enough, or the stream is over
HostReads(h) ==
    /\ Runs(h, "read")
    /\ LET e == HostEnd(h)
           r == host[h].in
       IN  \E data \in Receives(e, r.need - Len(r.got)) :
             /\ Taken(e, data)
             /\ IF data = <<>> THEN Fails(h)
                ELSE LET more == [r EXCEPT !.got = @ \o data]
                         next == IF Len(more.got) = r.need THEN AfterBlock(Steps(h)[host[h].at].op, more)
                                 ELSE more
                     IN  IF next = GivesUp THEN Fails(h)
                         ELSE IF "value" \in DOMAIN next THEN Goes(h, <<next.value>>)
                         ELSE host' = [host EXCEPT ![h].in = next]
    /\ UNCHANGED <<setting, shutR, shutW, closed, broken, relay, counted, finishingPeer, owner>>

\* shutdownSocket(SHUT_WR): no more to say, still listening
HostShuts(h) ==
    /\ Runs(h, "shut")
    /\ Shutdown({}, {HostEnd(h)}) /\ Goes(h, <<>>)
    /\ UNCHANGED <<setting, queue, closed, broken, relay, counted, finishingPeer, owner>>

\* The script is over or something failed: the socket is closed. The upper end of a chain is closed
\* by its destructor, which begins by shutting that end down for writing.
HostLeaves(h) ==
    /\ host[h].state = "runs" /\ host[h].at > Len(Steps(h))
    /\ host' = [host EXCEPT ![h].state = "left"]
    /\ IF ~IsBridge /\ h = 1
         THEN Shutdown({}, {HostEnd(1)}) /\ owner' = "joins" /\ UNCHANGED <<queue, closed, broken>>
         ELSE Close({HostEnd(h)}) /\ UNCHANGED owner
    /\ UNCHANGED <<setting, relay, counted, finishingPeer>>

-----------------------------------------------------------------------------
(* Relays: processPeer and simpleProcessPipe, chainThread *)

\* partialRead
RelayReads(k, s) ==
    /\ relay[<<k, s>>].pc = "read"
    /\ \E data \in Receives(Towards(k, s), BlockSize) :
         /\ Taken(Towards(k, s), data)
         /\ relay' = [relay EXCEPT ![<<k, s>>] = [pc |-> IF data = <<>> THEN "ends" ELSE "write",
                                                  block |-> data, left |-> data]]
    /\ UNCHANGED <<setting, shutR, shutW, closed, broken, host, counted, finishingPeer, owner>>

\* The block is through: *bytesCounter += dataRecv
Through(k, s) ==
    /\ relay' = [relay EXCEPT ![<<k, s>>] = [pc |-> "read", block |-> <<>>, left |-> <<>>]]
    /\ counted' = [counted EXCEPT ![s] = IF IsBridge THEN @ + Len(relay[<<k, s>>].block) ELSE @]

\* writeBlock, until all is sent. If it fails it shuts the socket down both ways, and a bridge's
\* thread, told -2, leaves without a word to the other socket.
RelayWrites(k, s) ==
    /\ relay[<<k, s>>].pc = "write"
    /\ LET e == Towards(k, 1 - s)
           left == relay[<<k, s>>].left
       IN  \/ /\ Sends(e, left)
              /\ IF Sent(left, e) = Len(left) THEN Through(k, s)
                 ELSE /\ relay' = [relay EXCEPT ![<<k, s>>].left = SubSeq(left, Sent(left, e) + 1, Len(left))]
                      /\ UNCHANGED counted
              /\ UNCHANGED <<shutR, shutW, closed, broken>>
           \/ IsReset(e) /\ Through(k, s) /\ UNCHANGED <<queue, shutR, shutW, closed>>
           \/ /\ SendFails(e)
              /\ Shutdown({e}, {e})
              /\ relay' = [relay EXCEPT ![<<k, s>>] = [pc |-> IF IsBridge THEN "over" ELSE "ends",
                                                       block |-> <<>>, left |-> <<>>]]
              /\ UNCHANGED <<queue, closed, broken, counted>>
    /\ UNCHANGED <<setting, host, finishingPeer, owner>>

MutShutOwn(k, s) ==  \* the socket that has ended is shut down, not the other one
    IF IsBridge THEN <<{Towards(k, s)}, {Towards(k, s)}>> ELSE <<{Towards(k, s)}, {Towards(k, 1 - s)}>>

MutShutBoth(k, s) ==  \* shutdownSocket, with its default of both ways
    LET next == {Towards(k, 1 - s)} IN IF IsBridge THEN <<next, next>> ELSE <<{Towards(k, s)} \cup next, next>>

\* What is shut down for reading and for writing when there is no more to read: the other socket of
\* a bridge, both ways; in a chain, each side one way
ShutAtEnd(k, s) ==
    LET next == IF IsBridge /\ ~shutdownRemotePeerOnFinish THEN {} ELSE {Towards(k, 1 - s)}
    IN  IF IsBridge THEN <<next, next>> ELSE <<{Towards(k, s)}, next>>

\* There is no more to read
RelayEnds(k, s) ==
    /\ relay[<<k, s>>].pc = "ends"
    /\ relay' = [relay EXCEPT ![<<k, s>>].pc = "over"]
    /\ Shutdown(ShutAtEnd(k, s)[1], ShutAtEnd(k, s)[2])
    /\ finishingPeer' = IF IsBridge /\ shutdownRemotePeerOnFinish THEN s ELSE finishingPeer
    /\ UNCHANGED <<setting, queue, closed, broken, host, counted, owner>>

AllOver == \A t \in Relays : relay[t].pc = "over"

\* process() has both threads back; ~ChainSockets has joined every layer
OwnerEnds ==
    /\ AllOver /\ owner = (IF IsBridge THEN "waits" ELSE "joins")
    /\ owner' = "returned"
    /\ IF IsBridge /\ ~closeRemotePeerOnFinish THEN UNCHANGED sockets
       ELSE Close(Ends \ {HostEnd(h) : h \in (IF IsBridge THEN Sides ELSE {0})})
    /\ UNCHANGED <<setting, host, relay, counted, finishingPeer>>

-----------------------------------------------------------------------------

Host(h) == HostWrites(h) \/ HostReads(h) \/ HostShuts(h) \/ HostLeaves(h)
Relay(k, s) == RelayReads(k, s) \/ RelayWrites(k, s) \/ RelayEnds(k, s)

Next ==
    \/ \E h \in Sides : Host(h)
    \/ \E t \in Relays : Relay(t[1], t[2])
    \/ OwnerEnds
    \/ Break

AllRelays == UNION {(1 .. c[1][2]) \X Sides : c \in Cases}

\* Hosts and threads go on whenever they can; connections break only if they must
Spec ==
    /\ Init /\ [][Next]_vars
    /\ \A h \in Sides : WF_vars(Host(h))
    /\ \A t \in AllRelays : WF_vars(t \in Relays /\ Relay(t[1], t[2]))
    /\ WF_vars(OwnerEnds)

-----------------------------------------------------------------------------
(* Properties *)

Bytes01(seq) == \A i \in DOMAIN seq : seq[i] \in 0 .. Base - 1
Written(h) == LET writes == SelectSeq(Steps(h), LAMBDA x : x.do = "write")
              IN  [i \in DOMAIN writes |-> writes[i].op.value]

\* Bytes are bytes, no socket holds more than it can, a closed end is deaf and dumb, the threads of a
\* bridge and of a chain are where their functions can be (Socket_Stream_Bridge, ChainSockets)
TypeOK ==
    /\ \A e \in Ends : Bytes01(queue[e]) /\ Len(queue[e]) <= Capacity
    /\ closed \subseteq shutR \cap shutW /\ shutR \cup shutW \subseteq Ends /\ broken \subseteq Links
    /\ \A t \in Relays : relay[t].pc \in {"read", "write", "ends", "over"} /\ Len(relay[t].block) <= BlockSize
    /\ \A t \in Relays : relay[t].pc = "write" <=> relay[t].left # <<>>
    /\ finishingPeer \in {0, 1, 2} /\ owner \in {"waits", "joins", "returned"}

\* What a host reads is what the other one wrote, from the first value on, however the bytes were cut
\* on the way and whatever broke: a value that has not come whole is not handed over
\* (Stream_Reader over readBlock, writeBlock, the copying threads)
ReadsAreWrites == \A h \in Sides : IsPrefix(host[h].got, Written(1 - h))

\* The scripts a host can trust: each reads all that the other writes before it leaves
Matched == \A h \in Sides : Len(Written(h)) = Len(SelectSeq(Steps(1 - h), LAMBDA x : x.do = "read"))
HalfCloses == \E h \in Sides : \E i \in DOMAIN Steps(h) : Steps(h)[i].do = "shut"
\* What the reader of a value will not take: an empty block, one of another length than it waits for,
\* one longer than it allows, and a string as long as writeString8 or writeString16 still write it
Unreadable(op) ==
    LET len == IF op.kind = "number" THEN 0 ELSE Len(op.value)
    IN  CASE op.kind = "block" -> len = 0 \/ (len # op.most /\ ~op.keep)
          [] op.kind = "alloc" -> len = 0 \/ len > op.most
          [] op.kind = "string" -> len + 1 > Base ^ op.width - 1
          [] OTHER -> FALSE
Readable == \A h \in Sides : \A i \in DOMAIN Steps(h) : ~Unreadable(Steps(h)[i].op)

\* If no connection breaks, two hosts whose scripts match, in values
\* their readers take, never fail: neither a thread that ends early
\* nor the end of one direction takes away bytes that are still due. A half-close passes through a
\* chain; a bridge answers it by shutting the other side down both ways. And what a bridge has counted
\* in the end is what was sent (processPeer, chainThread).
UnbrokenArrives ==
    broken = {} /\ Matched /\ Readable /\ (IsBridge => ~HalfCloses) =>
        /\ \A h \in Sides : ~host[h].failed
        /\ owner = "returned" /\ IsBridge =>
             \A h \in Sides : counted[h] = FoldLeft(LAMBDA n, x : n + Len(Bytes(x.op)), 0,
                                                   SelectSeq(Steps(h), LAMBDA x : x.do = "write"))

\* A host that is still there, with more bytes under way to it than it reads, and in a bridge with
\* more to say than anybody takes
Jammed(h) ==
    LET e == HostEnd(h)
    IN  host[h].state = "runs" /\ Room(Peer(e)) = 0 /\ Room(e) = 0

\* Once a host has closed its socket, process() returns, and once the owner of a chain destroys it, the
\* destructor does; unless the host that remains neither reads nor is read: a bridge's thread whose
\* write failed leaves the other socket open with nobody behind it. And a destructor that finds the
\* top of its chain full waits for ever, because it only shuts that down for writing
\* (Socket_Stream_Bridge::process, ChainSockets::~ChainSockets).
OwnerReturns ==
    \A h \in Sides :
        (host[h].state = "left" /\ (IsBridge \/ h = 1)) ~>
            (owner = "returned" \/ Jammed(1 - h) \/ (~IsBridge /\ Room(Peer(HostEnd(1))) = 0))

\* The invariants of the module in one: types, and values that are read as they were written.
Safe == TypeOK /\ ReadsAreWrites
=============================================================================
