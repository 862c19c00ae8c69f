------------------------------ MODULE MuxLine ------------------------------
(***************************************************************************)
(* One established line of a Socket_Multiplexer, both ends of it.  Each    *)
(* end joins a local stream socket to the line with two threads: the       *)
(* thread of processLine reads the local socket and sends the bytes to the *)
(* peer ("up"), processLineThread writes what the peer sent to the local   *)
(* socket ("down").  A third thread per end, that of start(), reads the    *)
(* multiplexed socket and hands messages to the lines ("mux").             *)
(*                                                                         *)
(* Flow control: an end counts the bytes it sent and the peer has not yet  *)
(* reported as read (remoteUnprocessedBytes) and stops reading its local   *)
(* socket when they fill the peer's window.                                *)
(*                                                                         *)
(* Only lengths and offsets of the data are kept.  The multiplexed socket  *)
(* is reliable and FIFO while it works; it may break at any time, and the  *)
(* local sockets may be closed by their other side at any time.            *)
(***************************************************************************)
EXTENDS Naturals, Sequences, FiniteSets

CONSTANTS
    L, R,       \* the two ends
    Window,     \* MUX_LINE_HEAPSIZE: localWindowSize of both ends
    SendBuf,    \* MUX_LINE_SENDBUF
    Inputs,     \* what the local sockets have to send: a set of [Ends -> Nat]
    MayBreak    \* whether the multiplexed socket may break

Ends == {L, R}

ASSUME MuxLineAssumption ==
    /\ L # R
    /\ Window \in Nat /\ SendBuf \in 1 .. Window - 1
    /\ Inputs \subseteq [Ends -> Nat]
    /\ MayBreak \in BOOLEAN

VARIABLES
    wire,       \* wire[e]: the messages on their way to e, oldest first
    link,       \* the multiplexed socket: "up" or "broken"
    sock,       \* sock[e]: e's local socket, "open" or "shut"
    unread,     \* unread[e]: bytes of the input not yet read from it
    up,         \* where e's processLine thread is
    avail,      \* its avlen
    chunk,      \* its len
    remoteUnprocessedBytes,
    remoteUnprocessedFinished,
    down,       \* where e's processLineThread is
    datab,      \* the element it holds
    dataBuffer, \* the elements e's mux thread queued for it
    localWindowUsedBuffer,
    registered, \* whether e's line is in multiplexedLinesMap
    mux,        \* where e's start() thread is
    sent,       \* history: bytes e put on the wire
    delivered   \* history: bytes written to e's local socket

upVars == <<up, avail, chunk, unread, sent>>
downVars == <<down, datab, delivered>>
heapVars == <<dataBuffer, localWindowUsedBuffer>>
creditVars == <<remoteUnprocessedBytes, remoteUnprocessedFinished>>
muxVars == <<mux, registered>>
vars == <<wire, link, sock, upVars, downVars, heapVars, creditVars, muxVars>>

\* A data message or element: len bytes from offset on; len 0 ends the line.
Data(offset, len) == [type |-> "data", offset |-> offset, len |-> len]
Readen(len) == [type |-> "bytesreaden", offset |-> 0, len |-> len]
Termination == Data(0, 0)

Bytes == UNION {UNION {0 .. input[e] : e \in Ends} : input \in Inputs}
Messages == [type : {"data", "bytesreaden"}, offset : Bytes, len : 0 .. SendBuf]

TypeOK ==
    /\ wire \in [Ends -> Seq(Messages)]
    /\ link \in {"up", "broken"}
    /\ sock \in [Ends -> {"open", "shut"}]
    /\ unread \in [Ends -> Bytes]
    /\ up \in [Ends -> {"starting", "window", "asleep", "reading", "sending",
                        "counting", "joining", "terminating", "removing",
                        "destroying", "ended"}]
    /\ avail \in [Ends -> 0 .. SendBuf]
    /\ chunk \in [Ends -> 0 .. SendBuf]
    /\ remoteUnprocessedBytes \in [Ends -> 0 .. Window]
    /\ remoteUnprocessedFinished \in [Ends -> BOOLEAN]
    /\ down \in [Ends -> {"unstarted", "getting", "asleep", "acking", "writing",
                          "closing", "ended"}]
    /\ datab \in [Ends -> Messages]
    /\ dataBuffer \in [Ends -> Seq(Messages)]
    /\ localWindowUsedBuffer \in [Ends -> Nat]
    /\ registered \in [Ends -> BOOLEAN]
    /\ mux \in [Ends -> {"running", "closing", "waiting", "stopped"}]
    /\ sent \in [Ends -> Bytes]
    /\ delivered \in [Ends -> Bytes]

Init ==
    /\ wire = [e \in Ends |-> <<>>]
    /\ link = "up"
    /\ sock = [e \in Ends |-> "open"]
    /\ unread \in Inputs
    /\ up = [e \in Ends |-> "starting"]
    /\ avail = [e \in Ends |-> 0]
    /\ chunk = [e \in Ends |-> 0]
    /\ remoteUnprocessedBytes = [e \in Ends |-> 0]
    /\ remoteUnprocessedFinished = [e \in Ends |-> FALSE]
    /\ down = [e \in Ends |-> "unstarted"]
    /\ datab = [e \in Ends |-> Termination]
    /\ dataBuffer = [e \in Ends |-> <<>>]
    /\ localWindowUsedBuffer = [e \in Ends |-> 0]
    /\ registered = [e \in Ends |-> TRUE]
    /\ mux = [e \in Ends |-> "running"]
    /\ sent = [e \in Ends |-> 0]
    /\ delivered = [e \in Ends |-> 0]

-----------------------------------------------------------------------------
(* State formulae and helpers *)

Peer(e) == IF e = L THEN R ELSE L

Smaller(m, n) == IF m < n THEN m ELSE n

\* noSendData is set when start() leaves its loop.
NoSendData(e) == mux[e] # "running"

\* A send works, or it fails, or, on a broken socket, it seems to work.
SendWorks(e, m) ==
    /\ ~NoSendData(e)
    /\ wire' = IF link = "up" THEN [wire EXCEPT ![Peer(e)] = Append(@, m)] ELSE wire
SendFails(e) ==
    /\ NoSendData(e) \/ link = "broken"
    /\ UNCHANGED wire
Send(e, m) == SendWorks(e, m) \/ SendFails(e)

\* The bytes of the messages of a type in a queue, each byte named by its place.
BytesIn(q, type) ==
    {p \in (1 .. Len(q)) \X (1 .. SendBuf) : q[p[1]].type = type /\ p[2] <= q[p[1]].len}
Total(q, type) == Cardinality(BytesIn(q, type))

\* The condition addBufferElement waits on.
HeapFull(e, len) == len + localWindowUsedBuffer[e] >= 2 * Window + 1

\* dataBuffer is a queue; a mutant that uses it as a stack.
PushFront(q, m) == <<m>> \o q
PushBack(q, m) == Append(q, m)

\* addBufferElement, with its notify.
AddBufferElement(e, m) ==
    /\ ~HeapFull(e, m.len)
    /\ dataBuffer' = [dataBuffer EXCEPT ![e] = PushBack(@, m)]
    /\ localWindowUsedBuffer' = [localWindowUsedBuffer EXCEPT ![e] = @ + m.len]
    /\ down' = [down EXCEPT ![e] = IF @ = "asleep" THEN "getting" ELSE @]

Shutdown(e) == sock' = [sock EXCEPT ![e] = "shut"]

\* psigRemoteProccesedBytesNotFull.notify_one: only the up thread waits on it.
WakeUp(e) == up' = [up EXCEPT ![e] = IF @ = "asleep" THEN "window" ELSE @]

-----------------------------------------------------------------------------
(* processLine: local socket to multiplexed socket *)

\* processLine attaches the socket and starts processLineThread.
StartLine(e) ==
    /\ up[e] = "starting"
    /\ up' = [up EXCEPT ![e] = "window"]
    /\ down' = [down EXCEPT ![e] = "getting"]
    /\ UNCHANGED <<wire, link, sock, avail, chunk, unread, sent, datab, delivered,
                   heapVars, creditVars, muxVars>>

\* getRemoteAvailableBytes; a mutant that forgets the bytes on their way.
WholeWindow(e) == Window
Available(e) == Window - remoteUnprocessedBytes[e]

\* avlen: the available bytes, cut to MUX_LINE_SENDBUF.
ReadSize(e) == Smaller(Available(e), SendBuf)

GetRemoteAvailableBytes(e) ==
    /\ up[e] = "window"
    /\ \/ /\ remoteUnprocessedBytes[e] >= Window
          /\ up' = [up EXCEPT ![e] = "asleep"]
          /\ UNCHANGED avail
       \/ /\ remoteUnprocessedBytes[e] < Window
          /\ up' = [up EXCEPT ![e] = "reading"]
          /\ avail' = [avail EXCEPT ![e] = ReadSize(e)]
    /\ UNCHANGED <<wire, link, sock, chunk, unread, sent, downVars, heapVars,
                   creditVars, muxVars>>

PartialRead(e) ==
    /\ up[e] = "reading"
    /\ sock[e] = "open"
    /\ \E len \in 1 .. Smaller(avail[e], unread[e]) :
          /\ chunk' = [chunk EXCEPT ![e] = len]
          /\ unread' = [unread EXCEPT ![e] = @ - len]
    /\ up' = [up EXCEPT ![e] = "sending"]
    /\ UNCHANGED <<wire, link, sock, avail, sent, downVars, heapVars, creditVars,
                   muxVars>>

SendLineData(e) ==
    /\ up[e] = "sending"
    /\ SendWorks(e, Data(sent[e], chunk[e]))
    /\ sent' = [sent EXCEPT ![e] = @ + chunk[e]]
    /\ up' = [up EXCEPT ![e] = "counting"]
    /\ UNCHANGED <<link, sock, avail, chunk, unread, downVars, heapVars,
                   creditVars, muxVars>>

\* The bytes are counted after they were sent.
CountUnprocessed(e) ==
    /\ up[e] = "counting"
    /\ remoteUnprocessedBytes' = [remoteUnprocessedBytes EXCEPT ![e] = @ + chunk[e]]
    /\ up' = [up EXCEPT ![e] = "window"]
    /\ UNCHANGED <<wire, link, sock, avail, chunk, unread, sent, downVars,
                   heapVars, remoteUnprocessedFinished, muxVars>>

\* The local socket ended or the send failed: shut it, and leave an empty
\* element for processLineThread.
StopReading(e) ==
    /\ \/ up[e] = "reading" /\ sock[e] = "shut" /\ UNCHANGED wire
       \/ up[e] = "sending" /\ SendFails(e)
    /\ Shutdown(e)
    /\ AddBufferElement(e, Termination)
    /\ up' = [up EXCEPT ![e] = "joining"]
    /\ UNCHANGED <<link, avail, chunk, unread, sent, datab, delivered,
                   creditVars, muxVars>>

JoinProcessLineThread(e) ==
    /\ up[e] = "joining"
    /\ down[e] = "ended"
    /\ up' = [up EXCEPT ![e] = "terminating"]
    /\ UNCHANGED <<wire, link, sock, avail, chunk, unread, sent, downVars,
                   heapVars, creditVars, muxVars>>

\* After processLine, in client_HandlerConnection_Callback and in
\* server_AcceptConnection_Callback.
SendTermination(e) ==
    /\ up[e] = "terminating"
    /\ Send(e, Termination)
    /\ up' = [up EXCEPT ![e] = "removing"]
    /\ UNCHANGED <<link, sock, avail, chunk, unread, sent, downVars, heapVars,
                   creditVars, muxVars>>

RemoveLine(e) ==
    /\ up[e] = "removing"
    /\ registered' = [registered EXCEPT ![e] = FALSE]
    /\ up' = [up EXCEPT ![e] = "destroying"]
    /\ UNCHANGED <<wire, link, sock, avail, chunk, unread, sent, downVars,
                   heapVars, creditVars, mux>>

\* The destructor takes each element left in the heap, which reports it as read.
DestroyLine(e) ==
    /\ up[e] = "destroying"
    /\ IF dataBuffer[e] = <<>>
       THEN /\ up' = [up EXCEPT ![e] = "ended"]
            /\ UNCHANGED <<wire, heapVars>>
       ELSE LET m == Head(dataBuffer[e]) IN
            /\ dataBuffer' = [dataBuffer EXCEPT ![e] = Tail(@)]
            /\ localWindowUsedBuffer' = [localWindowUsedBuffer EXCEPT ![e] = @ - m.len]
            /\ \/ m.len # 0 /\ Send(e, Readen(m.len))
               \/ m.len = 0 /\ UNCHANGED wire
            /\ UNCHANGED up
    /\ UNCHANGED <<link, sock, avail, chunk, unread, sent, downVars, creditVars,
                   muxVars>>

-----------------------------------------------------------------------------
(* processLineThread: multiplexed socket to local socket *)

\* getBufferElement; a mutant that forgets to give the bytes back.
KeepUsed(e, len) == UNCHANGED localWindowUsedBuffer
Release(e, len) ==
    localWindowUsedBuffer' = [localWindowUsedBuffer EXCEPT ![e] = @ - len]

GetBufferElement(e) ==
    /\ down[e] = "getting"
    /\ IF dataBuffer[e] = <<>>
       THEN /\ down' = [down EXCEPT ![e] = "asleep"]
            /\ UNCHANGED <<heapVars, datab>>
       ELSE LET m == Head(dataBuffer[e]) IN
            /\ datab' = [datab EXCEPT ![e] = m]
            /\ dataBuffer' = [dataBuffer EXCEPT ![e] = Tail(@)]
            /\ Release(e, m.len)
            /\ down' = [down EXCEPT ![e] = IF m.len = 0 THEN "closing" ELSE "acking"]
    /\ UNCHANGED <<wire, link, sock, upVars, delivered, creditVars, muxVars>>

SendReadenBytes(e) ==
    /\ down[e] = "acking"
    /\ Send(e, Readen(datab[e].len))
    /\ down' = [down EXCEPT ![e] = "writing"]
    /\ UNCHANGED <<link, sock, upVars, datab, delivered, heapVars, creditVars,
                   muxVars>>

WriteBlock(e) ==
    /\ down[e] = "writing"
    /\ IF sock[e] = "open"
       THEN /\ delivered' = [delivered EXCEPT ![e] = @ + datab[e].len]
            /\ down' = [down EXCEPT ![e] = "getting"]
       ELSE /\ down' = [down EXCEPT ![e] = "ended"]
            /\ UNCHANGED delivered
    /\ UNCHANGED <<wire, link, sock, upVars, datab, heapVars, creditVars, muxVars>>

\* An empty element: the peer, or the up thread, has finished.
CloseLocalSocket(e) ==
    /\ down[e] = "closing"
    /\ Shutdown(e)
    /\ down' = [down EXCEPT ![e] = "ended"]
    /\ UNCHANGED <<wire, link, upVars, datab, delivered, heapVars, creditVars,
                   muxVars>>

-----------------------------------------------------------------------------
(* start(): messages from the multiplexed socket *)

\* The next message, which e's mux thread takes off the wire; replies go out.
Receive(e, reply) ==
    LET rest == [wire EXCEPT ![e] = Tail(@)] IN
    \/ reply = <<>> /\ wire' = rest
    \/ reply # <<>> /\ wire' = [rest EXCEPT ![Peer(e)] = @ \o reply]

ReceiveLineData(e) ==
    /\ mux[e] = "running" /\ link = "up" /\ wire[e] # <<>>
    /\ LET m == Head(wire[e]) IN
       /\ m.type = "data"
       /\ IF registered[e]
          THEN /\ AddBufferElement(e, m)
               /\ Receive(e, <<>>)
          ELSE /\ Receive(e, IF m.len # 0 THEN <<Termination>> ELSE <<>>)
               /\ UNCHANGED <<heapVars, down>>
    /\ UNCHANGED <<link, sock, upVars, datab, delivered, creditVars, muxVars>>

\* addProcessedBytes.
Unprocessed(e, value) ==
    IF remoteUnprocessedFinished[e] \/ value > remoteUnprocessedBytes[e]
    THEN 0
    ELSE remoteUnprocessedBytes[e] - value

ReceiveReadenBytes(e) ==
    /\ mux[e] = "running" /\ link = "up" /\ wire[e] # <<>>
    /\ LET m == Head(wire[e]) IN
       /\ m.type = "bytesreaden"
       /\ IF registered[e]
          THEN /\ remoteUnprocessedBytes' =
                     [remoteUnprocessedBytes EXCEPT ![e] = Unprocessed(e, m.len)]
               /\ WakeUp(e)
               /\ Receive(e, <<>>)
          ELSE /\ Receive(e, <<Termination>>)
               /\ UNCHANGED <<remoteUnprocessedBytes, up>>
    /\ UNCHANGED <<link, sock, avail, chunk, unread, sent, downVars, heapVars,
                   remoteUnprocessedFinished, muxVars>>

\* readU8 fails: start() leaves its loop, sends nothing more and accepts no line.
StopMux(e) ==
    /\ mux[e] = "running"
    /\ link = "broken"
    /\ mux' = [mux EXCEPT ![e] = "closing"]
    /\ UNCHANGED <<wire, link, sock, upVars, downVars, heapVars, creditVars,
                   registered>>

\* resetRemoteAvailableBytes: the other half of closeAndWaitForEveryLine's loop;
\* a mutant that does not wake the up thread.
ResetSilently(e) ==
    /\ remoteUnprocessedBytes' = [remoteUnprocessedBytes EXCEPT ![e] = 0]
    /\ remoteUnprocessedFinished' = [remoteUnprocessedFinished EXCEPT ![e] = TRUE]
    /\ UNCHANGED up
ResetRemoteAvailableBytes(e) ==
    /\ remoteUnprocessedBytes' = [remoteUnprocessedBytes EXCEPT ![e] = 0]
    /\ remoteUnprocessedFinished' = [remoteUnprocessedFinished EXCEPT ![e] = TRUE]
    /\ WakeUp(e)

\* closeAndWaitForEveryLine: a line whose processLine has not begun has no
\* socket to shut down yet.
CloseEveryLine(e) ==
    /\ mux[e] = "closing"
    /\ mux' = [mux EXCEPT ![e] = "waiting"]
    /\ IF registered[e]
       THEN /\ \/ up[e] = "starting" /\ UNCHANGED sock
               \/ up[e] # "starting" /\ Shutdown(e)
            /\ ResetRemoteAvailableBytes(e)
       ELSE UNCHANGED <<sock, creditVars, up>>
    /\ UNCHANGED <<wire, link, avail, chunk, unread, sent, downVars, heapVars,
                   registered>>

WaitForEveryLine(e) ==
    /\ mux[e] = "waiting"
    /\ ~registered[e]
    /\ mux' = [mux EXCEPT ![e] = "stopped"]
    /\ UNCHANGED <<wire, link, sock, upVars, downVars, heapVars, creditVars,
                   registered>>

-----------------------------------------------------------------------------
(* The environment *)

\* The other side of a local socket closes it.
LocalSocketCloses(e) ==
    /\ sock[e] = "open"
    /\ Shutdown(e)
    /\ UNCHANGED <<wire, link, upVars, downVars, heapVars, creditVars, muxVars>>

LinkBreaks ==
    /\ MayBreak
    /\ link = "up"
    /\ link' = "broken"
    /\ wire' = [e \in Ends |-> <<>>]
    /\ UNCHANGED <<sock, upVars, downVars, heapVars, creditVars, muxVars>>

-----------------------------------------------------------------------------

UpStep(e) ==
    \/ StartLine(e)
    \/ GetRemoteAvailableBytes(e)
    \/ PartialRead(e)
    \/ SendLineData(e)
    \/ CountUnprocessed(e)
    \/ StopReading(e)
    \/ JoinProcessLineThread(e)
    \/ SendTermination(e)
    \/ RemoveLine(e)
    \/ DestroyLine(e)

DownStep(e) ==
    \/ GetBufferElement(e)
    \/ SendReadenBytes(e)
    \/ WriteBlock(e)
    \/ CloseLocalSocket(e)

MuxStep(e) ==
    \/ ReceiveLineData(e)
    \/ ReceiveReadenBytes(e)
    \/ StopMux(e)
    \/ CloseEveryLine(e)
    \/ WaitForEveryLine(e)

Next ==
    \/ \E e \in Ends : UpStep(e) \/ DownStep(e) \/ MuxStep(e) \/ LocalSocketCloses(e)
    \/ LinkBreaks

SafeSpec == Init /\ [][Next]_vars

\* The three threads of an end run.  Sockets need neither close nor break.
Fairness ==
    \A e \in Ends : WF_vars(UpStep(e)) /\ WF_vars(DownStep(e)) /\ WF_vars(MuxStep(e))

Spec == SafeSpec /\ Fairness

-----------------------------------------------------------------------------
(* Properties *)

\* The bytes e sent that are on the wire, in the peer's heap or in its hands
\* unreported, and the reports on their way back.
OnTheWay(e) ==
    Total(wire[Peer(e)], "data")
        + Total(dataBuffer[Peer(e)], "data")
        + (IF down[Peer(e)] = "acking" THEN datab[Peer(e)].len ELSE 0)
        + Total(wire[e], "bytesreaden")

\* The window is never overstated: a sender counts, or is about to count, every
\* byte the peer may still have, although a report can arrive before the bytes
\* it reports were counted and is then clamped to zero.
WindowNotOverstated ==
    \A e \in Ends :
        remoteUnprocessedFinished[e]
            \/ OnTheWay(e) <= remoteUnprocessedBytes[e]
                               + (IF up[e] = "counting" THEN chunk[e] ELSE 0)

\* A peer never has more than a window of bytes to write, so addBufferElement
\* never blocks the mux thread, and with it every other line, on a full heap.
MuxNeverBlocked ==
    \A e \in Ends :
        /\ localWindowUsedBuffer[e] = Total(dataBuffer[e], "data")
        /\ localWindowUsedBuffer[e] <= Window

\* What an end writes to its local socket is what the other end read from its
\* own, in order, with no gap and no byte twice.
InOrder ==
    \A e \in Ends :
        /\ down[e] = "writing" /\ sock[e] = "open" => datab[e].offset = delivered[e]
        /\ delivered[e] <= sent[Peer(e)]

\* closeAndWaitForEveryLine returns: a line whose processLine has begun ends
\* when the multiplexed socket breaks, even one that sleeps on a full window.
CloseWaitEnds ==
    \A e \in Ends : (mux[e] = "closing" /\ up[e] # "starting") ~> mux[e] = "stopped"

\* The invariants of the module in one: the types, the window that both ends count,
\* and the thread of the socket that never waits for one line.
Safe == TypeOK /\ WindowNotOverstated /\ MuxNeverBlocked
=============================================================================
