--------------------------- MODULE MuxLineProofs ---------------------------
(***************************************************************************)
(* Proofs about a multiplexed line for every window, every size of a       *)
(* message and every input of the local sockets.                           *)
(*                                                                         *)
(* The window is counted on one side and filled on the other, by different *)
(* threads, so that neither half of Safe is inductive: Credit follows each *)
(* byte from the chunk that is about to be sent to the report that comes   *)
(* back.  For InOrder the messages of a direction form a chain: each       *)
(* begins where another one, or what was delivered, ends (Chained), and    *)
(* the chain is in the order of the queues it is spread over (Sorted).     *)
(***************************************************************************)
EXTENDS MuxLine, FiniteSetTheorems, SequenceTheorems, TLAPS

\* Beyond TypeOK: what is queued for the local socket is data, and what an end
\* has sent, has read and may still read is within one input.
Kinds ==
    \A e \in Ends :
        /\ datab[e].type = "data"
        /\ \A i \in DOMAIN dataBuffer[e] : dataBuffer[e][i].type = "data"
        /\ sent[e] + unread[e] + (IF up[e] = "sending" THEN chunk[e] ELSE 0) \in Bytes

\* How far the threads of an end are: who has stopped when its local socket, its
\* line or its mux thread has.
Phases ==
    \A e \in Ends :
        /\ up[e] = "starting" => down[e] = "unstarted"
        /\ up[e] \in {"joining", "terminating", "removing", "destroying", "ended"}
              => sock[e] = "shut"
        /\ ~registered[e] => up[e] \in {"destroying", "ended"}
        /\ down[e] = "ended" => sock[e] = "shut"
        /\ remoteUnprocessedFinished[e] => mux[e] # "running"

\* The credit of a sender: what it may still send is what the peer has room for.
Counting(e) == IF up[e] = "counting" THEN chunk[e] ELSE 0
Credit ==
    \A e \in Ends :
        /\ localWindowUsedBuffer[e] = Total(dataBuffer[e], "data")
        /\ OnTheWay(e) <= Window
        /\ remoteUnprocessedFinished[e] \/ OnTheWay(e) <= remoteUnprocessedBytes[e] + Counting(e)
        /\ up[e] = "reading" => remoteUnprocessedBytes[e] + avail[e] <= Window
        /\ up[e] \in {"sending", "counting"} => remoteUnprocessedBytes[e] + chunk[e] <= Window

\* The data on its way to e's local socket: in the hands of processLineThread,
\* in the heap or on the wire.
Among(m, q) == \E i \in DOMAIN q : m = q[i]
InHand(e) == down[e] \in {"acking", "writing"}
Holds(e, m) == InHand(e) /\ m = datab[e]
Queued(e, m) == Among(m, dataBuffer[e])
Flying(e, m) == Among(m, wire[e])
IsData(m) == m.type = "data" /\ m.len # 0
Unwritten(e, m) == IsData(m) /\ (Holds(e, m) \/ Queued(e, m) \/ Flying(e, m))

Before(m, n) == IsData(m) /\ IsData(n) => m.offset < n.offset
Ascending(q) == \A i, j \in DOMAIN q : i < j => Before(q[i], q[j])
Ending(m) == m.offset + m.len

\* The queues of a direction are in the order of the offsets.
Sorted ==
    \A e \in Ends :
        /\ InHand(e) => IsData(datab[e])
        /\ \A n \in Messages : Holds(e, n) => \A m \in Messages : Queued(e, m) \/ Flying(e, m) => Before(n, m)
        /\ \A n \in Messages : Queued(e, n) => \A m \in Messages : Flying(e, m) => Before(n, m)
        /\ Ascending(dataBuffer[e])
        /\ Ascending(wire[e])
        /\ \A m \in Messages : Unwritten(e, m) => Ending(m) <= sent[Peer(e)]

\* What is on its way to an open socket has no gap.
Chained ==
    \A e \in Ends :
        /\ delivered[e] <= sent[Peer(e)]
        /\ sock[e] = "open" =>
              /\ \A m \in Messages : Unwritten(e, m) =>
                    \/ m.offset = delivered[e]
                    \/ \E n \in Messages : Unwritten(e, n) /\ Ending(n) = m.offset
              /\ link = "up" =>
                    \/ sent[Peer(e)] = delivered[e]
                    \/ \E n \in Messages : Unwritten(e, n) /\ Ending(n) = sent[Peer(e)]

IInv == TypeOK /\ Kinds /\ Phases /\ Credit /\ Sorted /\ Chained

-----------------------------------------------------------------------------
(* The ends, and the numbers of bytes *)

\* A line has two ends, each the peer of the other.
LEMMA PeerFacts ==
    ASSUME NEW e \in Ends
    PROVE  /\ Peer(e) \in Ends
           /\ Peer(e) # e
           /\ Peer(Peer(e)) = e
           /\ \A f \in Ends : f = e \/ f = Peer(e)
BY MuxLineAssumption DEF Ends, Peer

\* What is at most the length of an input is the length of a part of it.
LEMMA BytesShape ==
    ASSUME NEW b \in Bytes
    PROVE  b \in Nat /\ \A a \in Nat : a <= b => a \in Bytes
<1>1. PICK e \in Ends, input \in Inputs : b \in 0 .. input[e]
    BY DEF Bytes
<1>2. input[e] \in Nat
    BY MuxLineAssumption
<1>3. b \in Nat /\ \A a \in Nat : a <= b => a \in 0 .. input[e]
    BY <1>1, <1>2
<1>4. \A a \in 0 .. input[e] : a \in Bytes
    BY DEF Bytes
<1> QED
    BY <1>3, <1>4

\* The bytes of a queue are finitely many.
LEMMA TotalType ==
    ASSUME NEW q \in Seq(Messages), NEW type
    PROVE  /\ IsFiniteSet(BytesIn(q, type))
           /\ Total(q, type) \in Nat
<1>1. IsFiniteSet(1 .. Len(q)) /\ IsFiniteSet(1 .. SendBuf)
    BY FS_Interval, MuxLineAssumption
<1>2. IsFiniteSet((1 .. Len(q)) \X (1 .. SendBuf))
    BY <1>1, FS_Product
<1>3. BytesIn(q, type) \in SUBSET ((1 .. Len(q)) \X (1 .. SendBuf))
    BY DEF BytesIn
<1>4. IsFiniteSet(BytesIn(q, type))
    BY <1>2, <1>3, FS_Subset
<1> QED
    BY <1>4, FS_CardinalityType DEF Total

\* An empty queue has none.
LEMMA TotalEmpty ==
    ASSUME NEW type
    PROVE  Total(<<>>, type) = 0
<1>1. BytesIn(<<>>, type) = {}
    BY DEF BytesIn
<1> QED
    BY <1>1, FS_EmptySet DEF Total

\* The bytes of one message in place n.
LEMMA BlockSize ==
    ASSUME NEW n \in Nat, NEW len \in Nat
    PROVE  IsFiniteSet({n} \X (1 .. len)) /\ Cardinality({n} \X (1 .. len)) = len
<1>1. IsFiniteSet({n}) /\ Cardinality({n}) = 1
    BY FS_Singleton
<1>2. IsFiniteSet(1 .. len) /\ Cardinality(1 .. len) = len
    BY FS_Interval
<1>3. /\ IsFiniteSet({n} \X (1 .. len))
      /\ Cardinality({n} \X (1 .. len)) = Cardinality({n}) * Cardinality(1 .. len)
    BY <1>1, <1>2, FS_Product
<1>4. 1 * len = len
    OBVIOUS
<1> QED
    BY <1>1, <1>2, <1>3, <1>4

\* A message at the end of a queue adds its bytes to those of its type.
LEMMA TotalAppend ==
    ASSUME NEW q \in Seq(Messages), NEW m \in Messages, NEW type
    PROVE  Total(Append(q, m), type) = Total(q, type) + (IF m.type = type THEN m.len ELSE 0)
<1> DEFINE n == Len(q) + 1
<1>0. PICK len \in 0 .. SendBuf : len = IF m.type = type THEN m.len ELSE 0
    BY MuxLineAssumption DEF Messages
<1> DEFINE added == {n} \X (1 .. len)
<1>1. m.len \in 0 .. SendBuf /\ Len(q) \in Nat
    BY DEF Messages
<1>2. /\ Len(Append(q, m)) = n
      /\ \A i \in 1 .. Len(q) : Append(q, m)[i] = q[i]
      /\ Append(q, m)[n] = m
    BY AppendProperties
<1>3. BytesIn(Append(q, m), type) = BytesIn(q, type) \cup added
  <2>1. ASSUME NEW p \in BytesIn(Append(q, m), type)
        PROVE  p \in BytesIn(q, type) \cup added
    <3>1. PICK i \in 1 .. n, b \in 1 .. SendBuf : p = <<i, b>>
      BY <1>2 DEF BytesIn
    <3>2. CASE i = n
      BY <1>0, <1>1, <1>2, <2>1, <3>1, <3>2, MuxLineAssumption DEF BytesIn
    <3>3. CASE i # n
      <4>1. i \in 1 .. Len(q)
        BY <1>1, <3>1, <3>3
      <4> QED
        BY <1>2, <2>1, <3>1, <4>1 DEF BytesIn
    <3> QED
      BY <3>2, <3>3
  <2>2. ASSUME NEW p \in BytesIn(q, type)
        PROVE  p \in BytesIn(Append(q, m), type)
    <3>1. PICK i \in 1 .. Len(q), b \in 1 .. SendBuf : p = <<i, b>>
      BY DEF BytesIn
    <3>2. i \in 1 .. n
      BY <1>1
    <3> QED
      BY <1>2, <2>2, <3>1, <3>2 DEF BytesIn
  <2>3. ASSUME NEW p \in added
        PROVE  p \in BytesIn(Append(q, m), type)
    <3>1. PICK b \in 1 .. len : p = <<n, b>>
      OBVIOUS
    <3>2. m.type = type /\ b \in 1 .. SendBuf /\ b <= m.len /\ n \in 1 .. n
      BY <1>0, <1>1, <3>1, MuxLineAssumption
    <3> QED
      BY <1>2, <3>1, <3>2 DEF BytesIn
  <2> QED
    BY <2>1, <2>2, <2>3
<1>4. BytesIn(q, type) \cap added = {}
  <2>1. n \notin 1 .. Len(q)
    BY <1>1
  <2> QED
    BY <2>1 DEF BytesIn
<1>5. IsFiniteSet(added) /\ Cardinality(added) = len
  <2>1. len \in Nat /\ n \in Nat
    BY <1>1, MuxLineAssumption
  <2> QED
    BY <2>1, BlockSize
<1> HIDE DEF added
<1>6. Cardinality(BytesIn(q, type) \cup added)
        = Cardinality(BytesIn(q, type)) + Cardinality(added)
            - Cardinality(BytesIn(q, type) \cap added)
    BY <1>5, TotalType, FS_Union
<1>7. Cardinality(BytesIn(q, type) \cap added) = 0
    BY <1>4, FS_EmptySet
<1> QED
    BY <1>0, <1>3, <1>5, <1>6, <1>7, TotalType, MuxLineAssumption DEF Total

\* Taking the head of a queue takes its bytes.
LEMMA TotalTail ==
    ASSUME NEW q \in Seq(Messages), q # <<>>, NEW type
    PROVE  Total(q, type) = Total(Tail(q), type) + (IF Head(q).type = type THEN Head(q).len ELSE 0)
<1>0. PICK len : len = IF Head(q).type = type THEN Head(q).len ELSE 0
    OBVIOUS
<1> DEFINE first == {1} \X (1 .. len)
           rest == BytesIn(q, type) \ first
           f == [p \in BytesIn(Tail(q), type) |-> <<p[1] + 1, p[2]>>]
<1>1. /\ Len(q) \in Nat
      /\ Head(q) = q[1] /\ Len(q) >= 1
      /\ Tail(q) \in Seq(Messages)
      /\ Len(Tail(q)) = Len(q) - 1
      /\ \A i \in 1 .. Len(Tail(q)) : Tail(q)[i] = q[i + 1]
    BY HeadTailProperties
<1>2. len \in 0 .. SendBuf
  <2>1. q[1] \in Messages
    BY <1>1
  <2> QED
    BY <1>0, <1>1, <2>1, MuxLineAssumption DEF Messages
<1>3. first \subseteq BytesIn(q, type)
  <2>1. SUFFICES ASSUME NEW b \in 1 .. len
                 PROVE  <<1, b>> \in BytesIn(q, type)
    OBVIOUS
  <2>2. q[1].type = type /\ b <= q[1].len /\ b \in 1 .. SendBuf
    BY <1>0, <1>1, <1>2, MuxLineAssumption
  <2> QED
    BY <1>1, <2>2 DEF BytesIn
<1>4. f \in Bijection(BytesIn(Tail(q), type), rest)
  <2>1. ASSUME NEW p \in BytesIn(Tail(q), type)
        PROVE  f[p] \in rest
    <3>1. PICK i \in 1 .. Len(Tail(q)), b \in 1 .. SendBuf : p = <<i, b>>
      BY DEF BytesIn
    <3>2. i + 1 \in 1 .. Len(q) /\ i + 1 # 1 /\ Tail(q)[i] = q[i + 1]
      BY <1>1, <3>1
    <3>3. f[p] = <<i + 1, b>>
      BY <3>1
    <3> QED
      BY <2>1, <3>1, <3>2, <3>3 DEF BytesIn
  <2>2. ASSUME NEW p \in BytesIn(Tail(q), type), NEW r \in BytesIn(Tail(q), type), f[p] = f[r]
        PROVE  p = r
    <3>1. PICK i \in 1 .. Len(Tail(q)), b \in 1 .. SendBuf : p = <<i, b>>
      BY DEF BytesIn
    <3>2. PICK j \in 1 .. Len(Tail(q)), c \in 1 .. SendBuf : r = <<j, c>>
      BY DEF BytesIn
    <3>3. f[p] = <<i + 1, b>> /\ f[r] = <<j + 1, c>>
      BY <3>1, <3>2
    <3> QED
      BY <2>2, <3>1, <3>2, <3>3
  <2>3. ASSUME NEW r \in rest
        PROVE  \E p \in BytesIn(Tail(q), type) : f[p] = r
    <3>1. PICK i \in 1 .. Len(q), b \in 1 .. SendBuf : r = <<i, b>>
      BY DEF BytesIn
    <3>2. q[i].type = type /\ b <= q[i].len
      BY <2>3, <3>1 DEF BytesIn
    <3>3. i # 1
      BY <1>0, <1>1, <2>3, <3>1, <3>2
    <3>4. i - 1 \in 1 .. Len(Tail(q)) /\ Tail(q)[i - 1] = q[i]
      BY <1>1, <3>1, <3>3
    <3>5. <<i - 1, b>> \in BytesIn(Tail(q), type)
      BY <3>2, <3>4 DEF BytesIn
    <3>6. f[<<i - 1, b>>] = <<i, b>>
      BY <3>5
    <3> QED
      BY <3>1, <3>5, <3>6
  <2> HIDE DEF rest
  <2>4. f \in [BytesIn(Tail(q), type) -> rest]
    BY <2>1
  <2> HIDE DEF f
  <2>5. f \in Injection(BytesIn(Tail(q), type), rest)
    BY <2>2, <2>4 DEF Injection, IsInjective
  <2>6. f \in Surjection(BytesIn(Tail(q), type), rest)
    BY <2>3, <2>4 DEF Surjection
  <2> QED
    BY <2>5, <2>6 DEF Bijection
<1>5. IsFiniteSet(first) /\ Cardinality(first) = len
  <2>1. len \in Nat /\ 1 \in Nat
    BY <1>2, MuxLineAssumption
  <2> QED
    BY <2>1, BlockSize
<1>6. BytesIn(q, type) = rest \cup first /\ rest \cap first = {}
    BY <1>3
<1> HIDE DEF f, first, rest
<1>7. IsFiniteSet(BytesIn(Tail(q), type))
    BY <1>1, TotalType
<1>8. IsFiniteSet(rest) /\ Cardinality(rest) = Cardinality(BytesIn(Tail(q), type))
    BY <1>4, <1>7, FS_Bijection DEF ExistsBijection
<1>9. Cardinality(rest \cup first)
        = Cardinality(rest) + Cardinality(first) - Cardinality(rest \cap first)
    BY <1>5, <1>8, FS_Union
<1>10. Cardinality(rest \cap first) = 0
    BY <1>6, FS_EmptySet
<1>11. Total(q, type) = Total(Tail(q), type) + len
    BY <1>1, <1>2, <1>5, <1>6, <1>8, <1>9, <1>10, TotalType, MuxLineAssumption DEF Total
<1> QED
    BY <1>0, <1>11

-----------------------------------------------------------------------------
(* Messages and queues *)

\* What the two ends send each other are messages.
LEMMA MessageTypes ==
    ASSUME TypeOK, NEW e \in Ends
    PROVE  /\ 0 \in Bytes
           /\ Termination \in Messages /\ ~IsData(Termination) /\ Termination.type = "data" /\ Termination.len = 0
           /\ \A n \in 0 .. SendBuf : /\ Readen(n) \in Messages
                                      /\ ~IsData(Readen(n))
                                      /\ Readen(n).type = "bytesreaden"
                                      /\ Readen(n).len = n
           /\ Data(sent[e], chunk[e]) \in Messages
           /\ Data(sent[e], chunk[e]).type = "data"
           /\ Data(sent[e], chunk[e]).offset = sent[e]
           /\ Data(sent[e], chunk[e]).len = chunk[e]
<1>1. sent[e] \in Bytes /\ chunk[e] \in 0 .. SendBuf
    BY DEF TypeOK
<1>2. 0 \in Bytes
    BY <1>1, BytesShape
<1>3. 0 \in 0 .. SendBuf
    BY MuxLineAssumption
<1> QED
    BY <1>1, <1>2, <1>3 DEF Messages, Termination, Readen, Data, IsData

\* What a message is made of.
LEMMA MessageFields ==
    ASSUME NEW m \in Messages
    PROVE  /\ m.offset \in Bytes /\ m.offset \in Nat
           /\ m.len \in 0 .. SendBuf /\ m.len \in Nat
           /\ m.type \in {"data", "bytesreaden"}
<1>1. m.offset \in Bytes /\ m.len \in 0 .. SendBuf /\ m.type \in {"data", "bytesreaden"}
    BY DEF Messages
<1> QED
    BY <1>1, BytesShape, MuxLineAssumption

\* A message at the end of a queue: what the queue holds, and in which order.
LEMMA AppendMembers ==
    ASSUME NEW q \in Seq(Messages), NEW m \in Messages
    PROVE  /\ Append(q, m) \in Seq(Messages)
           /\ \A i \in DOMAIN q : i \in DOMAIN Append(q, m) /\ Append(q, m)[i] = q[i]
           /\ \E i \in DOMAIN Append(q, m) : Append(q, m)[i] = m
           /\ \A i \in DOMAIN Append(q, m) :
                 \/ i \in DOMAIN q /\ Append(q, m)[i] = q[i]
                 \/ Append(q, m)[i] = m /\ \A j \in DOMAIN q : j < i
           /\ \A i, j \in DOMAIN Append(q, m) : i < j => i \in DOMAIN q
<1>1. DOMAIN q = 1 .. Len(q) /\ Len(q) \in Nat
    BY LenProperties
<1>2. /\ Append(q, m) \in Seq(Messages)
      /\ Len(Append(q, m)) = Len(q) + 1
      /\ \A i \in 1 .. Len(q) : Append(q, m)[i] = q[i]
      /\ Append(q, m)[Len(q) + 1] = m
    BY AppendProperties
<1>3. DOMAIN Append(q, m) = 1 .. Len(q) + 1
    BY <1>2, LenProperties
<1> QED
    BY <1>1, <1>2, <1>3

\* The head of a queue and the rest of it.
LEMMA TailMembers ==
    ASSUME NEW q \in Seq(Messages), q # <<>>
    PROVE  /\ Head(q) \in Messages /\ Tail(q) \in Seq(Messages)
           /\ 1 \in DOMAIN q /\ q[1] = Head(q)
           /\ \A i \in DOMAIN Tail(q) : i + 1 \in DOMAIN q /\ Tail(q)[i] = q[i + 1] /\ 1 < i + 1
           /\ \A i \in DOMAIN q : i = 1 \/ \E j \in DOMAIN Tail(q) : i = j + 1
           /\ \A i, j \in DOMAIN Tail(q) : i < j => i + 1 < j + 1
<1>1. /\ Head(q) \in Messages
      /\ Tail(q) \in Seq(Messages)
      /\ Len(Tail(q)) = Len(q) - 1
      /\ \A i \in 1 .. Len(Tail(q)) : Tail(q)[i] = q[i + 1]
    BY HeadTailProperties
<1>2. /\ DOMAIN q = 1 .. Len(q) /\ Len(q) \in Nat /\ Len(q) # 0
      /\ DOMAIN Tail(q) = 1 .. Len(Tail(q))
      /\ q[1] = Head(q)
    BY <1>1, LenProperties, EmptySeq
<1>3. ASSUME NEW i \in DOMAIN q, i # 1
      PROVE  \E j \in DOMAIN Tail(q) : i = j + 1
  <2>1. i - 1 \in DOMAIN Tail(q) /\ i = (i - 1) + 1
    BY <1>1, <1>2, <1>3
  <2> QED
    BY <2>1
<1> QED
    BY <1>1, <1>2, <1>3

\* A message that is sent goes to the peer's wire or nowhere.
LEMMA SendEffect ==
    ASSUME TypeOK, NEW e \in Ends, NEW m \in Messages, Send(e, m)
    PROVE  /\ wire' \in [Ends -> Seq(Messages)]
           /\ wire'[e] = wire[e]
           /\ \/ wire'[Peer(e)] = wire[Peer(e)]
              \/ wire'[Peer(e)] = Append(wire[Peer(e)], m)
           /\ \A type : /\ Total(wire'[e], type) = Total(wire[e], type)
                        /\ Total(wire'[Peer(e)], type)
                              <= Total(wire[Peer(e)], type) + (IF m.type = type THEN m.len ELSE 0)
<1>1. /\ wire \in [Ends -> Seq(Messages)]
      /\ Peer(e) \in Ends /\ Peer(e) # e
    BY PeerFacts DEF TypeOK
<1>2. Append(wire[Peer(e)], m) \in Seq(Messages)
    BY <1>1, AppendProperties
<1>3. /\ wire' \in [Ends -> Seq(Messages)]
      /\ wire'[e] = wire[e]
      /\ \/ wire'[Peer(e)] = wire[Peer(e)]
         \/ wire'[Peer(e)] = Append(wire[Peer(e)], m)
    BY <1>1, <1>2 DEF Send, SendWorks, SendFails
<1>4. ASSUME NEW type
      PROVE  Total(wire'[Peer(e)], type)
                <= Total(wire[Peer(e)], type) + (IF m.type = type THEN m.len ELSE 0)
  <2>1. Total(wire[Peer(e)], type) \in Nat /\ m.len \in Nat
    BY <1>1, TotalType, MessageFields
  <2>2. Total(Append(wire[Peer(e)], m), type)
          = Total(wire[Peer(e)], type) + (IF m.type = type THEN m.len ELSE 0)
    BY <1>1, TotalAppend
  <2>3. CASE wire'[Peer(e)] = wire[Peer(e)]
    BY <2>1, <2>3
  <2>4. CASE wire'[Peer(e)] = Append(wire[Peer(e)], m)
    BY <2>1, <2>2, <2>4
  <2> QED
    BY <1>3, <2>3, <2>4
<1> QED
    BY <1>3, <1>4

\* What the mux thread of e takes off the wire, with the replies it sends.
LEMMA ReceiveEffect ==
    ASSUME TypeOK, NEW e \in Ends, wire[e] # <<>>, NEW reply \in {<<>>, <<Termination>>}, Receive(e, reply)
    PROVE  /\ wire' \in [Ends -> Seq(Messages)]
           /\ wire'[e] = Tail(wire[e])
           /\ \/ wire'[Peer(e)] = wire[Peer(e)]
              \/ wire'[Peer(e)] = Append(wire[Peer(e)], Termination)
           /\ \A type : /\ Total(wire[e], type)
                              = Total(wire'[e], type) + (IF Head(wire[e]).type = type THEN Head(wire[e]).len ELSE 0)
                        /\ Total(wire'[Peer(e)], type) = Total(wire[Peer(e)], type)
<1>1. /\ wire \in [Ends -> Seq(Messages)]
      /\ Peer(e) \in Ends /\ Peer(e) # e
    BY PeerFacts DEF TypeOK
<1>2. Tail(wire[e]) \in Seq(Messages) /\ Termination \in Messages
    BY <1>1, HeadTailProperties, MessageTypes
<1>3. /\ Append(wire[Peer(e)], Termination) = wire[Peer(e)] \o <<Termination>>
      /\ Append(wire[Peer(e)], Termination) \in Seq(Messages)
    BY <1>1, <1>2, AppendProperties, AppendIsConcat
<1>4. /\ wire' \in [Ends -> Seq(Messages)]
      /\ wire'[e] = Tail(wire[e])
      /\ \/ wire'[Peer(e)] = wire[Peer(e)]
         \/ wire'[Peer(e)] = Append(wire[Peer(e)], Termination)
  <2>1. CASE reply = <<>>
    BY <1>1, <1>2, <2>1 DEF Receive
  <2>2. CASE reply = <<Termination>>
    BY <1>1, <1>2, <1>3, <2>2 DEF Receive
  <2> QED
    BY <2>1, <2>2
<1>5. ASSUME NEW type
      PROVE  Total(wire'[Peer(e)], type) = Total(wire[Peer(e)], type)
  <2>1. Total(wire[Peer(e)], type) \in Nat
    BY <1>1, TotalType
  <2>2. Total(Append(wire[Peer(e)], Termination), type)
          = Total(wire[Peer(e)], type) + (IF Termination.type = type THEN Termination.len ELSE 0)
    BY <1>1, <1>2, TotalAppend
  <2>3. Termination.len = 0
    BY MessageTypes
  <2>4. CASE wire'[Peer(e)] = Append(wire[Peer(e)], Termination)
    BY <2>1, <2>2, <2>3, <2>4
  <2> QED
    BY <1>4, <2>4
<1> QED
    BY <1>1, <1>4, <1>5, TotalTail

-----------------------------------------------------------------------------
(* The order of the bytes: how each kind of step changes the queues of a    *)
(* direction.                                                               *)

\* A message at the end of a queue.
LEMMA AppendData ==
    ASSUME NEW q \in Seq(Messages), NEW m \in Messages
    PROVE  /\ \A n : Among(n, Append(q, m)) <=> Among(n, q) \/ n = m
           /\ Ascending(q) /\ (\A n \in Messages : Among(n, q) => Before(n, m))
                 => Ascending(Append(q, m))
<1>1. \A i \in DOMAIN q : q[i] \in Messages
    BY ElementOfSeq, LenProperties
<1> QED
    BY <1>1, AppendMembers DEF Among, Ascending

\* The head of a queue and the rest of it.
LEMMA TailData ==
    ASSUME NEW q \in Seq(Messages), q # <<>>
    PROVE  /\ \A n : Among(n, q) <=> n = Head(q) \/ Among(n, Tail(q))
           /\ Ascending(q) => Ascending(Tail(q))
           /\ Ascending(q) => \A n : Among(n, Tail(q)) => Before(Head(q), n)
BY TailMembers DEF Among, Ascending

\* A queue that stays or gets a message without data holds the same data in the same order.
LEMMA NoDataAdded ==
    ASSUME NEW q \in Seq(Messages), NEW r,
           r = q \/ \E m \in Messages : ~IsData(m) /\ r = Append(q, m)
    PROVE  /\ \A n : IsData(n) => (Among(n, r) <=> Among(n, q))
           /\ Ascending(q) => Ascending(r)
<1>1. ASSUME NEW m \in Messages, ~IsData(m), r = Append(q, m)
      PROVE  /\ \A n : IsData(n) => (Among(n, r) <=> Among(n, q))
             /\ Ascending(q) => Ascending(r)
  <2>1. \A n \in Messages : Before(n, m)
    BY <1>1 DEF Before
  <2>2. /\ \A n : Among(n, r) <=> Among(n, q) \/ n = m
        /\ Ascending(q) => Ascending(r)
    BY <1>1, <2>1, AppendData
  <2> QED
    BY <1>1, <2>2
<1> QED
    BY <1>1

\* Steps that neither send nor take data leave the order alone.
LEMMA QuietOrder ==
    ASSUME TypeOK, Sorted, Chained,
           UNCHANGED <<datab, delivered, sent>>,
           link' = "up" => link = "up",
           \A e \in Ends : InHand(e)' = InHand(e),
           \A e \in Ends : sock'[e] = "open" => sock[e] = "open",
           \A e \in Ends : \/ wire'[e] = wire[e]
                           \/ \E m \in Messages : ~IsData(m) /\ wire'[e] = Append(wire[e], m),
           \A e \in Ends : \/ dataBuffer'[e] = dataBuffer[e]
                           \/ \E m \in Messages : ~IsData(m) /\ dataBuffer'[e] = Append(dataBuffer[e], m)
    PROVE  Sorted' /\ Chained'
<1>1. ASSUME NEW e \in Ends
      PROVE  /\ \A m \in Messages : IsData(m) => (Flying(e, m)' <=> Flying(e, m))
             /\ \A m \in Messages : IsData(m) => (Queued(e, m)' <=> Queued(e, m))
             /\ \A m \in Messages : Holds(e, m)' <=> Holds(e, m)
             /\ Ascending(wire'[e])
             /\ Ascending(dataBuffer'[e])
  <2>1. wire[e] \in Seq(Messages) /\ dataBuffer[e] \in Seq(Messages)
    BY DEF TypeOK
  <2>4. PICK w, b : w = wire'[e] /\ b = dataBuffer'[e]
    OBVIOUS
  <2>5. /\ w = wire[e] \/ \E m \in Messages : ~IsData(m) /\ w = Append(wire[e], m)
        /\ b = dataBuffer[e] \/ \E m \in Messages : ~IsData(m) /\ b = Append(dataBuffer[e], m)
    BY <2>4
  <2>6. /\ Ascending(wire[e])
        /\ Ascending(dataBuffer[e])
    BY DEF Sorted
  <2>7. /\ \A m \in Messages : IsData(m) =>
              (Among(m, w) <=> Among(m, wire[e]))
        /\ Ascending(wire[e]) => Ascending(w)
    BY <2>1, <2>5, NoDataAdded, Zenon
  <2>8. /\ \A m \in Messages : IsData(m) =>
              (Among(m, b) <=> Among(m, dataBuffer[e]))
        /\ Ascending(dataBuffer[e]) => Ascending(b)
    BY <2>1, <2>5, NoDataAdded, Zenon
  <2>2. /\ \A m \in Messages : IsData(m) =>
              (Among(m, wire'[e]) <=> Among(m, wire[e]))
        /\ Ascending(wire'[e])
    BY <2>4, <2>6, <2>7, <2>8
  <2>3. /\ \A m \in Messages : IsData(m) =>
              (Among(m, dataBuffer'[e]) <=> Among(m, dataBuffer[e]))
        /\ Ascending(dataBuffer'[e])
    BY <2>4, <2>6, <2>7, <2>8
  <2> QED
    BY <2>2, <2>3 DEF Flying, Queued, Holds
<1>2. \A e \in Ends, m \in Messages : Unwritten(e, m)' <=> Unwritten(e, m)
    BY <1>1 DEF Unwritten
<1>3. Sorted'
    BY <1>1, <1>2 DEF Sorted, Before
<1>4. Chained'
    BY <1>2 DEF Chained
<1> QED
    BY <1>3, <1>4

\* The bytes in hand are the next ones to deliver.
LEMMA HandIsNext ==
    ASSUME TypeOK, Sorted, Chained, NEW e \in Ends, InHand(e), sock[e] = "open"
    PROVE  datab[e].offset = delivered[e]
<1>1. datab[e] \in Messages /\ Unwritten(e, datab[e])
    BY DEF TypeOK, Sorted, Unwritten, Holds
<1>2. ASSUME NEW n \in Messages, Unwritten(e, n), Ending(n) = datab[e].offset
      PROVE  FALSE
  <2>1. n # datab[e]
    BY <1>1, <1>2, MessageFields DEF Ending, Unwritten, IsData
  <2>2. Before(datab[e], n)
    BY <1>1, <1>2, <2>1 DEF Unwritten, Holds, Sorted
  <2> QED
    BY <1>1, <1>2, <2>2, MessageFields DEF Before, Ending, Unwritten, IsData
<1> QED
    BY <1>1, <1>2 DEF Chained

\* A chunk that is sent continues the chain.
LEMMA SendLineDataOrder ==
    ASSUME TypeOK, Sorted, Chained, NEW e \in Ends, SendLineData(e)
    PROVE  Sorted' /\ Chained'
<1> DEFINE p == Peer(e)
           m == Data(sent[e], chunk[e])
<1>1. p \in Ends /\ p # e /\ Peer(p) = e /\ \A f \in Ends : f = e \/ f = p
    BY PeerFacts
<1>2. /\ m \in Messages /\ m.offset = sent[e] /\ m.len = chunk[e] /\ m.type = "data"
      /\ sent[e] \in Nat /\ chunk[e] \in Nat
    BY MessageTypes, BytesShape, MuxLineAssumption DEF TypeOK
<1>3. /\ wire[p] \in Seq(Messages) /\ wire[e] \in Seq(Messages)
      /\ sent'[e] = sent[e] + chunk[e] /\ sent'[p] = sent[p]
      /\ wire'[e] = wire[e]
      /\ wire'[p] = (IF link = "up" THEN Append(wire[p], m) ELSE wire[p])
      /\ UNCHANGED <<link, sock, downVars, heapVars>>
    BY <1>1 DEF SendLineData, SendWorks, TypeOK
<1> HIDE DEF p, m
<1>4. \A f \in Ends, n \in Messages :
         /\ Holds(f, n)' <=> Holds(f, n)
         /\ Queued(f, n)' <=> Queued(f, n)
         /\ Flying(e, n)' <=> Flying(e, n)
    BY <1>3 DEF Holds, Queued, Flying, InHand, downVars, heapVars
<1>5. \A n \in Messages : Flying(p, n)' <=> Flying(p, n) \/ (link = "up" /\ n = m)
  <2>1. CASE link = "up"
    <3>1. wire'[p] = Append(wire[p], m)
      BY <1>3, <2>1
    <3>2. \A n : Among(n, Append(wire[p], m)) <=> Among(n, wire[p]) \/ n = m
      BY <1>2, <1>3, AppendData
    <3> QED
      BY <2>1, <3>1, <3>2 DEF Flying
  <2> QED
    BY <1>3, <2>1 DEF Flying
<1>6. \A n \in Messages :
         /\ Unwritten(e, n)' <=> Unwritten(e, n)
         /\ Unwritten(p, n)' <=> Unwritten(p, n) \/ (link = "up" /\ n = m /\ IsData(m))
    BY <1>1, <1>4, <1>5 DEF Unwritten
<1>7. \A n \in Messages : Unwritten(p, n) => Before(n, m) /\ Ending(n) <= sent[e]
    BY <1>1, <1>2, MessageFields DEF Sorted, Before, Ending, Unwritten, IsData
<1>8. Sorted'
  <2>1. ASSUME NEW f \in Ends, InHand(f)'
        PROVE  IsData(datab'[f])
    BY <1>3, <2>1 DEF Sorted, InHand, downVars
  <2>2. ASSUME NEW f \in Ends, NEW n \in Messages, NEW k \in Messages, Holds(f, n)', Queued(f, k)' \/ Flying(f, k)'
        PROVE  Before(n, k)
    <3>1. CASE f = e
      BY <1>4, <2>2, <3>1 DEF Sorted
    <3>2. CASE f = p
      BY <1>4, <1>5, <1>7, <2>2, <3>2 DEF Sorted, Unwritten, Before
    <3> QED
      BY <1>1, <3>1, <3>2
  <2>3. ASSUME NEW f \in Ends, NEW n \in Messages, NEW k \in Messages, Queued(f, n)', Flying(f, k)'
        PROVE  Before(n, k)
    <3>1. CASE f = e
      BY <1>4, <2>3, <3>1 DEF Sorted
    <3>2. CASE f = p
      BY <1>4, <1>5, <1>7, <2>3, <3>2 DEF Sorted, Unwritten, Before
    <3> QED
      BY <1>1, <3>1, <3>2
  <2>4. ASSUME NEW f \in Ends
        PROVE  Ascending(dataBuffer'[f])
    BY <1>3 DEF Sorted, heapVars
  <2>5. ASSUME NEW f \in Ends
        PROVE  Ascending(wire'[f])
    <3>1. CASE f = e \/ link # "up"
      BY <1>1, <1>3, <3>1 DEF Sorted
    <3>2. CASE f = p /\ link = "up"
      <4>1. wire'[p] = Append(wire[p], m) /\ Ascending(wire[p])
        BY <1>1, <1>3, <3>2 DEF Sorted
      <4>2. \A n \in Messages : Among(n, wire[p]) => Before(n, m)
        BY <1>7 DEF Flying, Unwritten, Before
      <4> QED
        BY <1>2, <1>3, <3>2, <4>1, <4>2, AppendData
    <3> QED
      BY <1>1, <3>1, <3>2
  <2>6. ASSUME NEW f \in Ends, NEW n \in Messages, Unwritten(f, n)'
        PROVE  Ending(n) <= sent'[Peer(f)]
    <3>1. CASE f = e
      BY <1>1, <1>3, <1>6, <2>6, <3>1 DEF Sorted, p
    <3>2. CASE f = p
      <4>1. Ending(m) = sent'[e]
        BY <1>2, <1>3 DEF Ending
      <4>2. Ending(n) \in Nat
        BY MessageFields DEF Ending
      <4> QED
        BY <1>1, <1>2, <1>3, <1>6, <1>7, <2>6, <3>2, <4>1, <4>2
    <3> QED
      BY <1>1, <3>1, <3>2
  <2> QED
    BY <2>1, <2>2, <2>3, <2>4, <2>5, <2>6 DEF Sorted
<1>9. Chained'
  <2>1. ASSUME NEW f \in Ends
        PROVE  delivered'[f] <= sent'[Peer(f)]
    <3>1. delivered'[f] = delivered[f] /\ delivered[f] \in Nat /\ delivered[f] <= sent[Peer(f)]
      BY <1>3, BytesShape DEF Chained, downVars, TypeOK
    <3> QED
      BY <1>1, <1>2, <1>3, <3>1 DEF p
  <2>2. ASSUME NEW f \in Ends, sock'[f] = "open", NEW n \in Messages, Unwritten(f, n)'
        PROVE  \/ n.offset = delivered'[f]
               \/ \E k \in Messages : Unwritten(f, k)' /\ Ending(k) = n.offset
    <3>1. CASE Unwritten(f, n)
      BY <1>1, <1>3, <1>6, <2>2, <3>1 DEF Chained, downVars
    <3>2. CASE f = p /\ link = "up" /\ n = m
      BY <1>1, <1>2, <1>3, <1>6, <2>2, <3>2 DEF Chained, downVars
    <3> QED
      BY <1>1, <1>6, <2>2, <3>1, <3>2
  <2>3. ASSUME NEW f \in Ends, sock'[f] = "open", link' = "up"
        PROVE  \/ sent'[Peer(f)] = delivered'[f]
               \/ \E n \in Messages : Unwritten(f, n)' /\ Ending(n) = sent'[Peer(f)]
    <3>1. CASE f = e
      BY <1>1, <1>3, <1>6, <2>3, <3>1 DEF Chained, downVars, p
    <3>2. CASE f = p /\ chunk[e] = 0
      BY <1>1, <1>2, <1>3, <1>6, <2>3, <3>2 DEF Chained, downVars
    <3>3. CASE f = p /\ chunk[e] # 0
      <4>1. IsData(m) /\ Ending(m) = sent'[e]
        BY <1>2, <1>3, <3>3 DEF IsData, Ending
      <4> QED
        BY <1>1, <1>2, <1>3, <1>6, <2>3, <3>3, <4>1
    <3> QED
      BY <1>1, <3>1, <3>2, <3>3
  <2> QED
    BY <2>1, <2>2, <2>3 DEF Chained
<1> QED
    BY <1>8, <1>9

\* Queues that lose something and stay in order are in order.
LEMMA SortedShrinks ==
    ASSUME Sorted, UNCHANGED sent,
           \A f \in Ends : InHand(f)' => InHand(f) /\ datab'[f] = datab[f],
           \A f \in Ends, n \in Messages :
              IsData(n) => (Queued(f, n)' => Queued(f, n)) /\ (Flying(f, n)' => Flying(f, n)),
           \A f \in Ends : Ascending(dataBuffer'[f]) /\ Ascending(wire'[f])
    PROVE  Sorted'
<1>1. \A f \in Ends, n \in Messages : /\ Holds(f, n)' => Holds(f, n)
                                      /\ Unwritten(f, n)' => Unwritten(f, n)
    BY DEF Holds, Unwritten
<1> QED
    BY <1>1 DEF Sorted, Before

\* getBufferElement: the head of the heap is what processLineThread writes next.
LEMMA GetBufferElementOrder ==
    ASSUME TypeOK, Kinds, Sorted, Chained, NEW e \in Ends, GetBufferElement(e)
    PROVE  Sorted' /\ Chained'
<1>1. CASE dataBuffer[e] = <<>>
  <2>1. \A f \in Ends : InHand(f)' = InHand(f)
    BY <1>1 DEF GetBufferElement, InHand, TypeOK
  <2> QED
    BY <1>1, <2>1, QuietOrder DEF GetBufferElement, upVars, heapVars
<1>2. CASE dataBuffer[e] # <<>>
  <2> DEFINE q == dataBuffer[e]
             m == Head(q)
  <2>1. q \in Seq(Messages) /\ m \in Messages /\ m.type = "data"
    <3>1. q \in Seq(Messages) /\ 1 \in DOMAIN q /\ q[1] = m /\ m \in Messages
      BY <1>2, TailMembers DEF TypeOK
    <3> QED
      BY <3>1 DEF Kinds
  <2>2. /\ UNCHANGED <<wire, link, sock, sent, delivered>>
        /\ dataBuffer' = [dataBuffer EXCEPT ![e] = Tail(q)]
        /\ datab' = [datab EXCEPT ![e] = m]
        /\ down[e] = "getting" /\ down' = [down EXCEPT ![e] = IF m.len = 0 THEN "closing" ELSE "acking"]
    BY <1>2 DEF GetBufferElement, upVars
  <2>3. /\ \A n : Among(n, q) <=> n = m \/ Among(n, Tail(q))
        /\ Ascending(Tail(q))
        /\ \A n : Among(n, Tail(q)) => Before(m, n)
    <3>1. Ascending(q)
      BY DEF Sorted
    <3> QED
      BY <1>2, <2>1, <3>1, TailData
  <2> HIDE DEF q, m
  <2>4. \A n \in Messages : /\ ~Holds(e, n)
                            /\ Holds(e, n)' <=> IsData(m) /\ n = m
                            /\ Queued(e, n) <=> n = m \/ Queued(e, n)'
                            /\ Flying(e, n)' <=> Flying(e, n)
    <3>1. datab'[e] = m /\ down'[e] = (IF m.len = 0 THEN "closing" ELSE "acking")
      BY <2>2 DEF TypeOK
    <3>2. dataBuffer'[e] = Tail(q)
      BY <2>2 DEF TypeOK
    <3>3. InHand(e)' <=> IsData(m)
      BY <2>1, <3>1 DEF InHand, IsData
    <3>4. \A n : Queued(e, n) <=> n = m \/ Queued(e, n)'
      BY <2>3, <3>2 DEF Queued, q
    <3> QED
      BY <2>2, <3>1, <3>3, <3>4 DEF Holds, Flying, InHand
  <2>5. \A f \in Ends, n \in Messages : f # e => /\ Holds(f, n)' <=> Holds(f, n)
                                                 /\ Queued(f, n)' <=> Queued(f, n)
                                                 /\ Flying(f, n)' <=> Flying(f, n)
    BY <2>2 DEF Holds, Queued, Flying, InHand, TypeOK
  <2>6. \A f \in Ends, n \in Messages : Unwritten(f, n)' <=> Unwritten(f, n)
    BY <2>4, <2>5 DEF Unwritten
  <2>7. Chained'
    BY <2>2, <2>6 DEF Chained
  <2>8. Sorted'
    <3>1. ASSUME NEW f \in Ends, InHand(f)'
          PROVE  IsData(datab'[f])
      <4>1. CASE f = e
        BY <2>1, <2>2, <3>1, <4>1 DEF InHand, IsData, TypeOK
      <4>2. CASE f # e
        BY <2>2, <3>1, <4>2 DEF Sorted, InHand, TypeOK
      <4> QED
        BY <4>1, <4>2
    <3>2. ASSUME NEW f \in Ends, NEW n \in Messages, Holds(f, n)',
                 NEW k \in Messages, Queued(f, k)' \/ Flying(f, k)'
          PROVE  Before(n, k)
      <4>1. CASE f = e /\ Queued(f, k)'
        <5>1. Among(k, Tail(q)) /\ n = m
          BY <2>2, <2>4, <3>2, <4>1 DEF Queued, TypeOK
        <5> QED
          BY <2>3, <5>1
      <4>2. CASE f = e /\ Flying(f, k)'
        BY <2>4, <3>2, <4>2 DEF Sorted
      <4>3. CASE f # e
        BY <2>5, <3>2, <4>3 DEF Sorted
      <4> QED
        BY <3>2, <4>1, <4>2, <4>3
    <3>3. ASSUME NEW f \in Ends, NEW n \in Messages, Queued(f, n)', NEW k \in Messages, Flying(f, k)'
          PROVE  Before(n, k)
      BY <2>4, <2>5, <3>3 DEF Sorted
    <3>4. \A f \in Ends : Ascending(dataBuffer'[f]) /\ Ascending(wire'[f])
      BY <2>2, <2>3 DEF Sorted, TypeOK
    <3>5. \A f \in Ends, n \in Messages : Unwritten(f, n)' => Ending(n) <= sent'[Peer(f)]
      BY <2>2, <2>6 DEF Sorted
    <3> QED
      BY <3>1, <3>2, <3>3, <3>4, <3>5 DEF Sorted
  <2> QED
    BY <2>7, <2>8
<1> QED
    BY <1>1, <1>2

\* writeBlock: what is delivered is the beginning of what is left.
LEMMA WriteBlockOrder ==
    ASSUME TypeOK, Sorted, Chained, NEW e \in Ends, WriteBlock(e)
    PROVE  Sorted' /\ Chained'
<1> DEFINE h == datab[e]
<1>1. /\ UNCHANGED <<wire, link, sock, sent, datab, dataBuffer>>
      /\ down[e] = "writing" /\ down'[e] \notin {"acking", "writing"}
      /\ \A f \in Ends : f # e => down'[f] = down[f] /\ delivered'[f] = delivered[f]
      /\ h \in Messages /\ InHand(e)
      /\ IF sock[e] = "open" THEN delivered'[e] = delivered[e] + h.len ELSE delivered'[e] = delivered[e]
    BY DEF WriteBlock, TypeOK, upVars, heapVars, InHand
<1> HIDE DEF h
<1>2. \A f \in Ends, n \in Messages : /\ Queued(f, n)' <=> Queued(f, n)
                                      /\ Flying(f, n)' <=> Flying(f, n)
                                      /\ Holds(f, n)' <=> f # e /\ Holds(f, n)
    BY <1>1 DEF Queued, Flying, Holds, InHand
<1>3. Sorted'
  <2>1. \A f \in Ends : InHand(f)' => InHand(f) /\ datab'[f] = datab[f]
    BY <1>1 DEF InHand
  <2>2. \A f \in Ends : Ascending(dataBuffer'[f]) /\ Ascending(wire'[f])
    BY <1>1 DEF Sorted
  <2> QED
    BY <1>1, <1>2, <2>1, <2>2, SortedShrinks
<1>4. /\ Unwritten(e, h) /\ Holds(e, h)
      /\ \A n \in Messages : Unwritten(e, n) => n = h \/ (n # h /\ Unwritten(e, n)' /\ h.offset < n.offset)
      /\ \A f \in Ends, n \in Messages : f # e => (Unwritten(f, n)' <=> Unwritten(f, n))
      /\ \A n \in Messages : Unwritten(e, n)' => Unwritten(e, n) /\ h.offset < n.offset
  <2>1. Unwritten(e, h) /\ Holds(e, h)
    BY <1>1 DEF Unwritten, Holds, Sorted, h
  <2>2. \A n \in Messages : Holds(e, n) => n = h
    BY DEF Holds, h
  <2>3. \A n \in Messages : IsData(n) /\ (Queued(e, n) \/ Flying(e, n)) => h.offset < n.offset
    BY <1>1, <2>1 DEF Sorted, Before, Unwritten
  <2>4. h.offset \in Nat
    BY <1>1, MessageFields
  <2> QED
    BY <1>1, <1>2, <2>1, <2>2, <2>3, <2>4 DEF Unwritten
<1>5. ASSUME NEW f \in Ends
      PROVE  delivered'[f] <= sent'[Peer(f)]
  <2>1. CASE f = e /\ sock[e] = "open"
    BY <1>1, <1>4, <2>1, HandIsNext DEF Sorted, Ending, h
  <2> QED
    BY <1>1, <2>1 DEF Chained
<1>6. ASSUME NEW f \in Ends, sock'[f] = "open", NEW n \in Messages, Unwritten(f, n)'
      PROVE  \/ n.offset = delivered'[f]
             \/ \E k \in Messages : Unwritten(f, k)' /\ Ending(k) = n.offset
  <2>1. CASE f # e
    BY <1>1, <1>4, <1>6, <2>1 DEF Chained
  <2>2. CASE f = e
    <3>1. h.offset = delivered[e] /\ delivered'[e] = Ending(h)
      BY <1>1, <1>6, <2>2, HandIsNext DEF h, Ending
    <3>2. Unwritten(e, n) /\ h.offset < n.offset
      BY <1>4, <1>6, <2>2
    <3>3. n.offset # delivered[e]
      BY <1>1, <3>1, <3>2, MessageFields
    <3>4. PICK k \in Messages : Unwritten(e, k) /\ Ending(k) = n.offset
      BY <1>1, <1>6, <2>2, <3>2, <3>3 DEF Chained
    <3> QED
      BY <1>4, <2>2, <3>1, <3>4
  <2> QED
    BY <2>1, <2>2
<1>7. ASSUME NEW f \in Ends, sock'[f] = "open", link' = "up"
      PROVE  \/ sent'[Peer(f)] = delivered'[f]
             \/ \E n \in Messages : Unwritten(f, n)' /\ Ending(n) = sent'[Peer(f)]
  <2>1. CASE f # e
    BY <1>1, <1>4, <1>7, <2>1 DEF Chained
  <2>2. CASE f = e
    <3>1. h.offset = delivered[e] /\ delivered'[e] = Ending(h)
      BY <1>1, <1>7, <2>2, HandIsNext DEF h, Ending
    <3>2. h.len > 0 /\ Ending(h) <= sent[Peer(e)] /\ h.len \in Nat /\ h.offset \in Nat
      BY <1>1, <1>4, MessageFields DEF Sorted, Unwritten, IsData
    <3>3. sent[Peer(e)] # delivered[e]
      BY <3>1, <3>2 DEF Ending
    <3>4. PICK k \in Messages : Unwritten(e, k) /\ Ending(k) = sent[Peer(e)]
      BY <1>1, <1>7, <2>2, <3>3 DEF Chained
    <3> QED
      BY <1>1, <1>4, <2>2, <3>1, <3>4
  <2> QED
    BY <2>1, <2>2
<1> QED
    BY <1>3, <1>5, <1>6, <1>7 DEF Chained

\* The mux thread moves the head of the wire to the end of the heap.
LEMMA ReceiveLineDataOrder ==
    ASSUME TypeOK, Phases, Sorted, Chained, NEW e \in Ends, ReceiveLineData(e)
    PROVE  Sorted' /\ Chained'
<1> DEFINE p == Peer(e)
           w == wire[e]
           m == Head(w)
           q == dataBuffer[e]
<1>1. /\ p \in Ends /\ p # e /\ \A f \in Ends : f = e \/ f = p
      /\ w \in Seq(Messages) /\ w # <<>> /\ q \in Seq(Messages)
      /\ m \in Messages
      /\ UNCHANGED <<link, sock, sent, datab, delivered>>
    BY PeerFacts, HeadTailProperties DEF ReceiveLineData, TypeOK, upVars
<1>2. \A f \in Ends : InHand(f)' = InHand(f)
    BY DEF ReceiveLineData, AddBufferElement, InHand, TypeOK
<1>3. /\ \A n : Among(n, w) <=> n = m \/ Among(n, Tail(w))
      /\ Ascending(Tail(w))
      /\ \A n : Among(n, Tail(w)) => Before(m, n)
  <2>1. Ascending(w)
    BY DEF Sorted
  <2> QED
    BY <1>1, <2>1, TailData
<1>4. CASE registered[e]
  <2>1. /\ wire'[e] = Tail(w) /\ wire'[p] = wire[p]
        /\ dataBuffer'[e] = Append(q, m) /\ dataBuffer'[p] = dataBuffer[p]
    BY <1>1, <1>4 DEF ReceiveLineData, Receive, AddBufferElement, PushBack, TypeOK
  <2>2. \A n : Among(n, Append(q, m)) <=> Among(n, q) \/ n = m
    BY <1>1, AppendData
  <2>3. Ascending(Append(q, m))
    <3>1. \A n \in Messages : Among(n, q) => Before(n, m)
      BY <1>1, <1>3 DEF Sorted, Queued, Flying
    <3> QED
      BY <1>1, <3>1, AppendData DEF Sorted
  <2> HIDE DEF p, w, m, q
  <2>4. \A n \in Messages : /\ Flying(e, n) <=> n = m \/ Flying(e, n)'
                            /\ Queued(e, n)' <=> Queued(e, n) \/ n = m
                            /\ Flying(p, n)' <=> Flying(p, n)
                            /\ Queued(p, n)' <=> Queued(p, n)
    BY <1>3, <2>1, <2>2 DEF Flying, Queued, w, q
  <2>5. \A f \in Ends, n \in Messages : /\ Holds(f, n)' <=> Holds(f, n)
                                        /\ Unwritten(f, n)' <=> Unwritten(f, n)
    BY <1>1, <1>2, <2>4 DEF Holds, Unwritten
  <2>6. Chained'
    BY <1>1, <2>5 DEF Chained
  <2>7. Sorted'
    <3>1. \A f \in Ends : InHand(f)' => IsData(datab'[f])
      BY <1>1, <1>2 DEF Sorted
    <3>2. ASSUME NEW f \in Ends, NEW n \in Messages, Holds(f, n)',
                 NEW k \in Messages, Queued(f, k)' \/ Flying(f, k)'
          PROVE  Before(n, k)
      BY <1>1, <2>4, <2>5, <3>2 DEF Sorted
    <3>3. ASSUME NEW f \in Ends, NEW n \in Messages, Queued(f, n)', NEW k \in Messages, Flying(f, k)'
          PROVE  Before(n, k)
      <4>1. CASE f = e /\ n = m
        BY <1>3, <2>1, <3>3, <4>1 DEF Flying
      <4>2. CASE ~(f = e /\ n = m)
        BY <1>1, <2>4, <3>3, <4>2 DEF Sorted
      <4> QED
        BY <4>1, <4>2
    <3>4. \A f \in Ends : Ascending(dataBuffer'[f]) /\ Ascending(wire'[f])
      BY <1>1, <1>3, <2>1, <2>3 DEF Sorted
    <3>5. \A f \in Ends, n \in Messages : Unwritten(f, n)' => Ending(n) <= sent'[Peer(f)]
      BY <1>1, <2>5 DEF Sorted
    <3> QED
      BY <3>1, <3>2, <3>3, <3>4, <3>5 DEF Sorted
  <2> QED
    BY <2>6, <2>7
<1>5. CASE ~registered[e]
  <2>1. /\ wire'[e] = Tail(w)
        /\ \/ wire'[p] = wire[p]
           \/ wire'[p] = Append(wire[p], Termination)
        /\ UNCHANGED dataBuffer
        /\ sock[e] = "shut"
    <3>1. sock[e] = "shut" /\ UNCHANGED dataBuffer
      BY <1>5 DEF Phases, ReceiveLineData, heapVars
    <3>2. PICK reply \in {<<>>, <<Termination>>} : Receive(e, reply)
      BY <1>5 DEF ReceiveLineData
    <3> QED
      BY <1>1, <3>1, <3>2, ReceiveEffect
  <2> HIDE DEF p, w, m, q
  <2>2. /\ \A n : IsData(n) => (Among(n, wire'[p]) <=> Among(n, wire[p]))
        /\ Ascending(wire'[p])
    <3>1. PICK r : r = wire'[p]
      OBVIOUS
    <3>2. r = wire[p] \/ \E k \in Messages : ~IsData(k) /\ r = Append(wire[p], k)
      BY <1>1, <2>1, <3>1, MessageTypes
    <3>3. wire[p] \in Seq(Messages) /\ Ascending(wire[p])
      BY <1>1 DEF TypeOK, Sorted
    <3> QED
      BY <3>1, <3>2, <3>3, NoDataAdded, Zenon
  <2>3. \A n \in Messages : /\ Flying(e, n)' => Flying(e, n)
                            /\ IsData(n) => (Flying(p, n)' <=> Flying(p, n))
    BY <1>3, <2>1, <2>2 DEF Flying, w
  <2>4. \A f \in Ends, n \in Messages : /\ Holds(f, n)' <=> Holds(f, n)
                                        /\ Queued(f, n)' <=> Queued(f, n)
    BY <1>1, <1>2, <2>1 DEF Holds, Queued
  <2>5. Sorted'
    <3>1. \A f \in Ends : Ascending(dataBuffer'[f]) /\ Ascending(wire'[f])
      BY <1>1, <1>3, <2>1, <2>2 DEF Sorted
    <3> QED
      BY <1>1, <1>2, <2>3, <2>4, <3>1, SortedShrinks
  <2>6. \A n \in Messages : Unwritten(p, n)' <=> Unwritten(p, n)
    BY <1>1, <2>3, <2>4 DEF Unwritten
  <2>7. Chained'
    BY <1>1, <2>1, <2>6 DEF Chained
  <2> QED
    BY <2>5, <2>7
<1> QED
    BY <1>4, <1>5

\* The mux thread takes a report off the wire; data stays where it is.
LEMMA ReceiveReadenBytesOrder ==
    ASSUME TypeOK, Sorted, Chained, NEW e \in Ends, ReceiveReadenBytes(e)
    PROVE  Sorted' /\ Chained'
<1> DEFINE p == Peer(e)
           w == wire[e]
           m == Head(w)
<1>1. /\ p \in Ends /\ p # e /\ \A f \in Ends : f = e \/ f = p
      /\ w \in Seq(Messages) /\ w # <<>>
      /\ ~IsData(m)
      /\ UNCHANGED <<link, sock, sent, datab, down, dataBuffer, delivered>>
    BY PeerFacts DEF ReceiveReadenBytes, TypeOK, downVars, heapVars, IsData
<1>2. /\ wire'[e] = Tail(w)
      /\ wire'[p] = wire[p] \/ wire'[p] = Append(wire[p], Termination)
  <2>1. PICK reply \in {<<>>, <<Termination>>} : Receive(e, reply)
    BY DEF ReceiveReadenBytes
  <2> QED
    BY <1>1, <2>1, ReceiveEffect
<1>3. /\ \A n : Among(n, w) <=> n = m \/ Among(n, Tail(w))
      /\ Ascending(Tail(w))
  <2>1. Ascending(w)
    BY DEF Sorted
  <2> QED
    BY <1>1, <2>1, TailData
<1>4. /\ \A n : IsData(n) => (Among(n, wire'[p]) <=> Among(n, wire[p]))
      /\ Ascending(wire'[p])
  <2>1. PICK r : r = wire'[p]
    OBVIOUS
  <2>2. r = wire[p] \/ \E k \in Messages : ~IsData(k) /\ r = Append(wire[p], k)
    BY <1>1, <1>2, <2>1, MessageTypes
  <2>3. wire[p] \in Seq(Messages) /\ Ascending(wire[p])
    BY <1>1 DEF TypeOK, Sorted
  <2> QED
    BY <2>1, <2>2, <2>3, NoDataAdded, Zenon
<1> HIDE DEF p, w, m
<1>5. \A f \in Ends, n \in Messages : /\ Holds(f, n)' <=> Holds(f, n)
                                      /\ Queued(f, n)' <=> Queued(f, n)
                                      /\ IsData(n) => (Flying(f, n)' <=> Flying(f, n))
  <2>1. \A n \in Messages : IsData(n) => (Flying(e, n)' <=> Flying(e, n)) /\ (Flying(p, n)' <=> Flying(p, n))
    BY <1>1, <1>2, <1>3, <1>4 DEF Flying, w
  <2> QED
    BY <1>1, <2>1 DEF Holds, Queued, InHand
<1>6. \A f \in Ends, n \in Messages : Unwritten(f, n)' <=> Unwritten(f, n)
    BY <1>5 DEF Unwritten
<1>7. Sorted'
  <2>1. \A f \in Ends : Ascending(dataBuffer'[f]) /\ Ascending(wire'[f])
    BY <1>1, <1>2, <1>3, <1>4 DEF Sorted
  <2>2. \A f \in Ends : InHand(f)' => InHand(f) /\ datab'[f] = datab[f]
    BY <1>1 DEF InHand
  <2> QED
    BY <1>1, <1>5, <2>1, <2>2, SortedShrinks
<1>8. Chained'
    BY <1>1, <1>6 DEF Chained
<1> QED
    BY <1>7, <1>8

\* The destructor of a line takes from the heap of a shut socket.
LEMMA DestroyLineOrder ==
    ASSUME TypeOK, Phases, Sorted, Chained, NEW e \in Ends, DestroyLine(e)
    PROVE  Sorted' /\ Chained'
<1> DEFINE p == Peer(e)
           q == dataBuffer[e]
           m == Head(q)
<1>1. /\ p \in Ends /\ p # e /\ \A f \in Ends : f = e \/ f = p
      /\ sock[e] = "shut"
      /\ q \in Seq(Messages)
      /\ UNCHANGED <<link, sock, sent, datab, down, delivered>>
    BY PeerFacts DEF DestroyLine, Phases, TypeOK, downVars
<1>2. CASE q = <<>>
  <2>1. UNCHANGED <<wire, dataBuffer>>
    BY <1>2 DEF DestroyLine, heapVars
  <2> QED
    BY <1>1, <2>1, QuietOrder DEF InHand
<1>3. CASE q # <<>>
  <2>1. m \in Messages /\ Tail(q) \in Seq(Messages)
    BY <1>1, <1>3, HeadTailProperties
  <2>2. /\ dataBuffer'[e] = Tail(q) /\ dataBuffer'[p] = dataBuffer[p]
        /\ wire'[e] = wire[e]
        /\ wire'[p] = wire[p] \/ \E k \in Messages : ~IsData(k) /\ wire'[p] = Append(wire[p], k)
    <3>1. dataBuffer'[e] = Tail(q) /\ dataBuffer'[p] = dataBuffer[p]
      BY <1>1, <1>3 DEF DestroyLine, TypeOK
    <3>2. CASE UNCHANGED wire
      BY <3>1, <3>2
    <3>3. CASE Send(e, Readen(m.len))
      <4>1. Readen(m.len) \in Messages /\ ~IsData(Readen(m.len))
        BY <2>1, MessageFields, MessageTypes
      <4> QED
        BY <3>1, <3>3, <4>1, SendEffect
    <3> QED
      BY <1>3, <3>2, <3>3 DEF DestroyLine
  <2>3. /\ \A n : Among(n, q) <=> n = m \/ Among(n, Tail(q))
        /\ Ascending(Tail(q))
    <3>1. Ascending(q)
      BY DEF Sorted
    <3> QED
      BY <1>1, <1>3, <3>1, TailData
  <2>4. /\ \A n : IsData(n) => (Among(n, wire'[p]) <=> Among(n, wire[p]))
        /\ Ascending(wire'[p])
    <3>1. PICK r : r = wire'[p]
      OBVIOUS
    <3>2. r = wire[p] \/ \E k \in Messages : ~IsData(k) /\ r = Append(wire[p], k)
      BY <2>2, <3>1
    <3>3. wire[p] \in Seq(Messages) /\ Ascending(wire[p])
      BY <1>1 DEF TypeOK, Sorted
    <3> QED
      BY <3>1, <3>2, <3>3, NoDataAdded, Zenon
  <2> HIDE DEF p, q, m
  <2>5. /\ \A n \in Messages : /\ Queued(e, n)' => Queued(e, n)
                               /\ Queued(p, n)' <=> Queued(p, n)
                               /\ Flying(e, n)' <=> Flying(e, n)
                               /\ IsData(n) => (Flying(p, n)' <=> Flying(p, n))
        /\ \A f \in Ends, n \in Messages : Holds(f, n)' <=> Holds(f, n)
    BY <1>1, <2>2, <2>3, <2>4 DEF Queued, Flying, Holds, InHand, q
  <2>6. Sorted'
    <3>1. \A f \in Ends : Ascending(dataBuffer'[f]) /\ Ascending(wire'[f])
      BY <1>1, <2>2, <2>3, <2>4 DEF Sorted
    <3>2. \A f \in Ends : InHand(f)' => InHand(f) /\ datab'[f] = datab[f]
      BY <1>1 DEF InHand
    <3>3. \A f \in Ends, n \in Messages :
              IsData(n) => (Queued(f, n)' => Queued(f, n)) /\ (Flying(f, n)' => Flying(f, n))
      BY <1>1, <2>5
    <3> QED
      BY <1>1, <3>1, <3>2, <3>3, SortedShrinks
  <2>7. \A n \in Messages : Unwritten(p, n)' <=> Unwritten(p, n)
    BY <1>1, <2>5 DEF Unwritten
  <2>8. Chained'
    BY <1>1, <2>7 DEF Chained
  <2> QED
    BY <2>6, <2>8
<1> QED
    BY <1>2, <1>3

\* A broken socket loses what was on the wire, which is the end of every chain.
LEMMA LinkBreaksOrder ==
    ASSUME TypeOK, Sorted, Chained, LinkBreaks
    PROVE  Sorted' /\ Chained'
<1>1. /\ UNCHANGED <<sock, sent, datab, down, dataBuffer, delivered>>
      /\ link' = "broken"
      /\ \A f \in Ends : wire'[f] = <<>>
    BY DEF LinkBreaks, upVars, downVars, heapVars
<1>2. \A f \in Ends, n \in Messages : /\ Holds(f, n)' <=> Holds(f, n)
                                      /\ Queued(f, n)' <=> Queued(f, n)
                                      /\ ~Flying(f, n)'
    BY <1>1 DEF Holds, Queued, Flying, InHand, Among
<1>3. Sorted'
  <2>1. \A f \in Ends : Ascending(dataBuffer'[f]) /\ Ascending(wire'[f])
    BY <1>1 DEF Sorted, Ascending
  <2>2. \A f \in Ends : InHand(f)' => InHand(f) /\ datab'[f] = datab[f]
    BY <1>1 DEF InHand
  <2> QED
    BY <1>1, <1>2, <2>1, <2>2, SortedShrinks
<1>4. ASSUME NEW f \in Ends, sock'[f] = "open", NEW n \in Messages, Unwritten(f, n)'
      PROVE  \/ n.offset = delivered'[f]
             \/ \E k \in Messages : Unwritten(f, k)' /\ Ending(k) = n.offset
  <2>1. Unwritten(f, n) /\ (Holds(f, n) \/ Queued(f, n))
    BY <1>2, <1>4 DEF Unwritten
  <2>2. ASSUME NEW k \in Messages, Unwritten(f, k), Ending(k) = n.offset
        PROVE  Unwritten(f, k)'
    <3>1. ~Flying(f, k)
      <4>1. ASSUME Flying(f, k) PROVE n.offset < k.offset
        BY <2>1, <2>2, <4>1 DEF Sorted, Before, Unwritten
      <4> QED
        BY <2>2, <4>1, MessageFields DEF Ending, Unwritten, IsData
    <3> QED
      BY <1>2, <2>2, <3>1 DEF Unwritten
  <2> QED
    BY <1>1, <1>4, <2>1, <2>2 DEF Chained
<1>5. \A f \in Ends : delivered'[f] <= sent'[Peer(f)]
    BY <1>1 DEF Chained
<1> QED
    BY <1>1, <1>3, <1>4, <1>5 DEF Chained

-----------------------------------------------------------------------------
(* The credit: each kind of step against the bytes on the way *)

\* All the numbers of a line are natural.
LEMMA Numbers ==
    ASSUME TypeOK, NEW e \in Ends
    PROVE  /\ \A type : /\ Total(wire[e], type) \in Nat
                        /\ Total(dataBuffer[e], type) \in Nat
           /\ datab[e] \in Messages /\ datab[e].len \in 0 .. SendBuf /\ datab[e].len \in Nat
           /\ remoteUnprocessedBytes[e] \in Nat /\ localWindowUsedBuffer[e] \in Nat
           /\ chunk[e] \in 0 .. SendBuf /\ chunk[e] \in Nat
           /\ avail[e] \in 0 .. SendBuf /\ avail[e] \in Nat
           /\ sent[e] \in Nat /\ unread[e] \in Nat /\ delivered[e] \in Nat
           /\ Counting(e) \in Nat
           /\ OnTheWay(e) \in Nat
<1>1. /\ wire[e] \in Seq(Messages) /\ wire[Peer(e)] \in Seq(Messages)
      /\ dataBuffer[e] \in Seq(Messages) /\ dataBuffer[Peer(e)] \in Seq(Messages)
    BY PeerFacts DEF TypeOK
<1>2. datab[e] \in Messages /\ datab[e].len \in 0 .. SendBuf /\ datab[Peer(e)].len \in 0 .. SendBuf
    BY PeerFacts, MessageFields DEF TypeOK
<1>3. chunk[e] \in 0 .. SendBuf /\ avail[e] \in 0 .. SendBuf /\ remoteUnprocessedBytes[e] \in 0 .. Window
    BY DEF TypeOK
<1>4. sent[e] \in Nat /\ unread[e] \in Nat /\ delivered[e] \in Nat
    BY BytesShape DEF TypeOK
<1>5. \A type : /\ Total(wire[e], type) \in Nat /\ Total(wire[Peer(e)], type) \in Nat
                /\ Total(dataBuffer[e], type) \in Nat /\ Total(dataBuffer[Peer(e)], type) \in Nat
    BY <1>1, TotalType
<1>6. OnTheWay(e) \in Nat
  <2>1. (IF down[Peer(e)] = "acking" THEN datab[Peer(e)].len ELSE 0) \in Nat
    BY <1>2, MuxLineAssumption
  <2> QED
    BY <1>5, <2>1 DEF OnTheWay
<1>7. Window \in Nat /\ SendBuf \in Nat
    BY MuxLineAssumption
<1>8. /\ datab[e].len \in Nat /\ chunk[e] \in Nat /\ avail[e] \in Nat
      /\ remoteUnprocessedBytes[e] \in Nat
    BY <1>2, <1>3, <1>7
<1>9. Counting(e) \in Nat
    BY <1>8 DEF Counting
<1>10. localWindowUsedBuffer[e] \in Nat
    BY DEF TypeOK
<1> QED
    BY <1>2, <1>3, <1>4, <1>5, <1>6, <1>8, <1>9, <1>10

\* What is on the way after a step is a number too.
LEMMA WayAfter ==
    ASSUME wire' \in [Ends -> Seq(Messages)],
           dataBuffer' \in [Ends -> Seq(Messages)],
           datab' \in [Ends -> Messages]
    PROVE  \A f \in Ends : OnTheWay(f)' \in Nat
<1> SUFFICES ASSUME NEW f \in Ends PROVE OnTheWay(f)' \in Nat
    OBVIOUS
<1>1. Peer(f) \in Ends
    BY PeerFacts
<1>2. /\ Total(wire'[Peer(f)], "data") \in Nat
      /\ Total(dataBuffer'[Peer(f)], "data") \in Nat
      /\ Total(wire'[f], "bytesreaden") \in Nat
    BY <1>1, TotalType
<1>3. (IF down'[Peer(f)] = "acking" THEN datab'[Peer(f)].len ELSE 0) \in Nat
    BY <1>1, MessageFields
<1> QED
    BY <1>2, <1>3 DEF OnTheWay

\* Where no message moves, nothing is on another way.
LEMMA SameOnTheWay ==
    ASSUME UNCHANGED <<wire, dataBuffer, datab>>,
           \A f \in Ends : down'[f] = "acking" <=> down[f] = "acking"
    PROVE  \A f \in Ends : OnTheWay(f)' = OnTheWay(f)
<1>1. \A f \in Ends : Peer(f) \in Ends
    BY PeerFacts
<1> QED
    BY <1>1 DEF OnTheWay

\* Steps that count nothing and begin no send, and put nothing on the way.
LEMMA CreditKept ==
    ASSUME TypeOK, Credit, UNCHANGED creditVars,
           \A f \in Ends : OnTheWay(f)' \in Nat /\ OnTheWay(f)' <= OnTheWay(f),
           \A f \in Ends : localWindowUsedBuffer'[f] = Total(dataBuffer'[f], "data"),
           \A f \in Ends : up'[f] \in {"reading", "sending", "counting"}
                              => up'[f] = up[f] /\ avail'[f] = avail[f] /\ chunk'[f] = chunk[f],
           \A f \in Ends : up[f] = "counting" => up'[f] = "counting"
    PROVE  Credit'
<1> SUFFICES ASSUME NEW f \in Ends
             PROVE  /\ localWindowUsedBuffer'[f] = Total(dataBuffer'[f], "data")
                    /\ OnTheWay(f)' <= Window
                    /\ remoteUnprocessedFinished'[f]
                          \/ OnTheWay(f)' <= remoteUnprocessedBytes'[f] + Counting(f)'
                    /\ up'[f] = "reading" => remoteUnprocessedBytes'[f] + avail'[f] <= Window
                    /\ up'[f] \in {"sending", "counting"} => remoteUnprocessedBytes'[f] + chunk'[f] <= Window
    BY DEF Credit
<1>1. Counting(f)' = Counting(f)
    BY DEF Counting
<1>2. /\ OnTheWay(f) \in Nat /\ remoteUnprocessedBytes[f] \in Nat /\ Counting(f) \in Nat
    BY Numbers
<1> QED
    BY <1>1, <1>2, MuxLineAssumption DEF Credit, creditVars

\* The threads that begin, end or are told to stop.
LEMMA ControlCredit ==
    ASSUME TypeOK, Kinds, Phases, Credit, NEW e \in Ends,
           \/ StartLine(e) \/ JoinProcessLineThread(e) \/ RemoveLine(e) \/ CloseLocalSocket(e)
           \/ StopMux(e) \/ WaitForEveryLine(e) \/ LocalSocketCloses(e)
    PROVE  TypeOK' /\ Kinds' /\ Phases' /\ Credit'
<1> USE DEF StartLine, JoinProcessLineThread, RemoveLine, CloseLocalSocket, StopMux,
            WaitForEveryLine, LocalSocketCloses, Shutdown, upVars, downVars, heapVars, creditVars, muxVars
<1>1. TypeOK'
    BY DEF TypeOK
<1>2. Kinds'
  <2>1. /\ UNCHANGED <<datab, dataBuffer, sent, unread, chunk>>
        /\ \A f \in Ends : up'[f] = "sending" <=> up[f] = "sending"
    BY DEF TypeOK
  <2> QED
    BY <2>1 DEF Kinds
<1>3. Phases'
    BY DEF TypeOK, Phases
<1>4. Credit'
  <2>5. UNCHANGED <<wire, dataBuffer, datab, localWindowUsedBuffer, avail, chunk>>
    OBVIOUS
  <2>6. \A f \in Ends : down'[f] = "acking" <=> down[f] = "acking"
    BY DEF TypeOK, Phases
  <2>7. \A f \in Ends : up'[f] \in {"reading", "sending", "counting"} => up'[f] = up[f]
    BY DEF TypeOK
  <2>8. \A f \in Ends : up[f] = "counting" => up'[f] = "counting"
    BY DEF TypeOK
  <2>1. /\ UNCHANGED <<wire, dataBuffer, datab, localWindowUsedBuffer, avail, chunk>>
        /\ \A f \in Ends : down'[f] = "acking" <=> down[f] = "acking"
        /\ \A f \in Ends : up'[f] \in {"reading", "sending", "counting"} => up'[f] = up[f]
        /\ \A f \in Ends : up[f] = "counting" => up'[f] = "counting"
    BY <2>5, <2>6, <2>7, <2>8
  <2>2. \A f \in Ends : OnTheWay(f)' \in Nat /\ OnTheWay(f)' <= OnTheWay(f)
    BY <2>1, SameOnTheWay, Numbers
  <2>3. \A f \in Ends : localWindowUsedBuffer'[f] = Total(dataBuffer'[f], "data")
    BY <2>1 DEF Credit
  <2>4. UNCHANGED creditVars
    OBVIOUS
  <2> QED
    BY <2>1, <2>2, <2>3, <2>4, CreditKept
<1> QED
    BY <1>1, <1>2, <1>3, <1>4

\* processLine asks for no more than the window leaves, and reads no more than it asked for.
LEMMA ReadingCredit ==
    ASSUME TypeOK, Kinds, Phases, Credit, NEW e \in Ends,
           GetRemoteAvailableBytes(e) \/ PartialRead(e)
    PROVE  TypeOK' /\ Kinds' /\ Phases' /\ Credit'
<1>1. /\ UNCHANGED <<wire, link, sock, sent, datab, dataBuffer, delivered, localWindowUsedBuffer,
                     remoteUnprocessedBytes, remoteUnprocessedFinished, mux, registered, down>>
      /\ \A f \in Ends : f # e => up'[f] = up[f] /\ avail'[f] = avail[f] /\ chunk'[f] = chunk[f]
    BY DEF GetRemoteAvailableBytes, PartialRead, TypeOK, downVars, heapVars, creditVars, muxVars
<1>2. \A f \in Ends : OnTheWay(f)' = OnTheWay(f)
    BY <1>1, SameOnTheWay
<1>3. /\ remoteUnprocessedBytes[e] \in 0 .. Window /\ unread[e] \in Nat /\ avail[e] \in 0 .. SendBuf
      /\ Window \in Nat /\ SendBuf \in Nat
    BY Numbers, MuxLineAssumption DEF TypeOK
<1>4. CASE GetRemoteAvailableBytes(e)
  <2>1. CASE remoteUnprocessedBytes[e] >= Window
    <3>1. /\ up[e] = "window" /\ up' = [up EXCEPT ![e] = "asleep"]
          /\ UNCHANGED <<avail, chunk, unread>>
      BY <1>3, <1>4, <2>1 DEF GetRemoteAvailableBytes
    <3>2. TypeOK'
      BY <1>1, <3>1 DEF TypeOK
    <3>3. Kinds' /\ Phases'
      BY <1>1, <3>1 DEF Kinds, Phases, TypeOK
    <3>4. Credit'
      BY <1>1, <1>2, <3>1 DEF Credit, Counting, TypeOK
    <3> QED
      BY <3>2, <3>3, <3>4
  <2>2. CASE remoteUnprocessedBytes[e] < Window
    <3>1. /\ up[e] = "window" /\ up' = [up EXCEPT ![e] = "reading"]
          /\ avail' = [avail EXCEPT ![e] = ReadSize(e)]
          /\ UNCHANGED <<chunk, unread>>
      BY <1>3, <1>4, <2>2 DEF GetRemoteAvailableBytes
    <3>2. ReadSize(e) \in 0 .. SendBuf /\ remoteUnprocessedBytes[e] + ReadSize(e) <= Window
      BY <1>3, <2>2 DEF ReadSize, Available, Smaller
    <3>3. TypeOK'
      BY <1>1, <3>1, <3>2 DEF TypeOK
    <3>4. Kinds' /\ Phases'
      BY <1>1, <3>1 DEF Kinds, Phases, TypeOK
    <3>5. Credit'
      BY <1>1, <1>2, <3>1, <3>2 DEF Credit, Counting, TypeOK
    <3> QED
      BY <3>3, <3>4, <3>5
  <2> QED
    BY <1>3, <2>1, <2>2
<1>5. CASE PartialRead(e)
  <2>1. PICK len \in 1 .. Smaller(avail[e], unread[e]) :
            /\ chunk' = [chunk EXCEPT ![e] = len]
            /\ unread' = [unread EXCEPT ![e] = @ - len]
    BY <1>5 DEF PartialRead
  <2>2. /\ up[e] = "reading" /\ up' = [up EXCEPT ![e] = "sending"]
        /\ UNCHANGED avail
    BY <1>5 DEF PartialRead
  <2>3. len \in 0 .. SendBuf /\ len <= avail[e] /\ len <= unread[e] /\ len \in Nat
    BY <1>3 DEF Smaller
  <2>4. unread[e] - len \in Bytes
    BY <1>3, <2>3, BytesShape DEF TypeOK
  <2>5. TypeOK'
    BY <1>1, <2>1, <2>2, <2>3, <2>4 DEF TypeOK
  <2>6. Kinds'
    <3>1. sent[e] \in Nat /\ sent[e] + (unread[e] - len) + len = sent[e] + unread[e] + 0
      BY <1>3, <2>3, Numbers
    <3>2. ASSUME NEW f \in Ends
          PROVE  sent'[f] + unread'[f] + (IF up'[f] = "sending" THEN chunk'[f] ELSE 0) \in Bytes
      <4>1. CASE f = e
        BY <1>1, <2>1, <2>2, <3>1, <4>1 DEF Kinds, TypeOK
      <4>2. CASE f # e
        BY <1>1, <2>1, <4>2 DEF Kinds, TypeOK
      <4> QED
        BY <4>1, <4>2
    <3> QED
      BY <1>1, <3>2 DEF Kinds
  <2>7. Phases'
    BY <1>1, <2>2 DEF Phases, TypeOK
  <2>8. Credit'
    <3>1. remoteUnprocessedBytes[e] + len <= Window
      BY <1>3, <2>2, <2>3 DEF Credit
    <3> QED
      BY <1>1, <1>2, <2>1, <2>2, <3>1 DEF Credit, Counting, TypeOK
  <2> QED
    BY <2>5, <2>6, <2>7, <2>8
<1> QED
    BY <1>4, <1>5

\* The bytes that are sent were within the window, and are counted next.
LEMMA SendLineDataCredit ==
    ASSUME TypeOK, Kinds, Phases, Credit, NEW e \in Ends, SendLineData(e)
    PROVE  TypeOK' /\ Kinds' /\ Phases' /\ Credit'
<1> DEFINE p == Peer(e)
           m == Data(sent[e], chunk[e])
<1>1. /\ m \in Messages /\ m.type = "data" /\ m.len = chunk[e]
      /\ p \in Ends /\ p # e /\ Peer(p) = e /\ \A f \in Ends : f = e \/ f = p
    BY MessageTypes, PeerFacts
<1> HIDE DEF m, p
<1>2. /\ up[e] = "sending" /\ up' = [up EXCEPT ![e] = "counting"]
      /\ sent' = [sent EXCEPT ![e] = @ + chunk[e]]
      /\ mux[e] = "running"
      /\ Send(e, m)
      /\ UNCHANGED <<link, sock, avail, chunk, unread, down, datab, delivered, dataBuffer,
                     localWindowUsedBuffer, remoteUnprocessedBytes, remoteUnprocessedFinished, mux, registered>>
    BY DEF SendLineData, SendWorks, NoSendData, Send, m, downVars, heapVars, creditVars, muxVars
<1>3. /\ wire' \in [Ends -> Seq(Messages)]
      /\ \A type : /\ Total(wire'[e], type) = Total(wire[e], type)
                   /\ Total(wire'[p], type)
                         <= Total(wire[p], type) + (IF m.type = type THEN m.len ELSE 0)
    BY <1>1, <1>2, SendEffect DEF p
<1>4. /\ chunk[e] \in Nat /\ sent[e] \in Nat /\ unread[e] \in Nat
      /\ sent[e] + unread[e] + chunk[e] \in Bytes
    BY <1>2, Numbers DEF Kinds
<1>5. TypeOK'
  <2>1. sent[e] + chunk[e] \in Nat /\ sent[e] + chunk[e] <= sent[e] + unread[e] + chunk[e]
    BY <1>4
  <2>2. sent[e] + chunk[e] \in Bytes
    BY <1>4, <2>1, BytesShape
  <2> QED
    BY <1>2, <1>3, <2>2 DEF TypeOK
<1>6. Kinds'
  <2>1. (sent[e] + chunk[e]) + unread[e] + 0 = sent[e] + unread[e] + chunk[e]
    BY <1>4
  <2>2. ASSUME NEW f \in Ends
        PROVE  sent'[f] + unread'[f] + (IF up'[f] = "sending" THEN chunk'[f] ELSE 0) \in Bytes
    <3>1. CASE f = e
      BY <1>2, <1>4, <2>1, <3>1 DEF TypeOK
    <3>2. CASE f # e
      BY <1>2, <3>2 DEF Kinds, TypeOK
    <3> QED
      BY <3>1, <3>2
  <2> QED
    BY <1>2, <2>2 DEF Kinds
<1>7. Phases'
    BY <1>2 DEF Phases, TypeOK
<1>8. Credit'
  <2>1. /\ OnTheWay(e)' <= OnTheWay(e) + chunk[e]
        /\ OnTheWay(p)' <= OnTheWay(p)
    <3>1. /\ Total(wire'[p], "data") <= Total(wire[p], "data") + chunk[e]
          /\ Total(wire'[p], "bytesreaden") <= Total(wire[p], "bytesreaden")
      <4>1. Total(wire[p], "bytesreaden") \in Nat
        BY <1>1, Numbers
      <4>2. Total(wire'[p], "bytesreaden") <= Total(wire[p], "bytesreaden") + 0
        BY <1>1, <1>3
      <4> QED
        BY <1>1, <1>3, <4>1, <4>2
    <3>2. \A type : /\ Total(wire[e], type) \in Nat /\ Total(wire[p], type) \in Nat
                    /\ Total(wire'[p], type) \in Nat
                    /\ Total(dataBuffer[e], type) \in Nat /\ Total(dataBuffer[p], type) \in Nat
      BY <1>1, <1>3, Numbers, TotalType
    <3>3. datab[e].len \in Nat /\ datab[p].len \in Nat
      BY <1>1, Numbers
    <3>4. /\ (IF down[p] = "acking" THEN datab[p].len ELSE 0) \in Nat
          /\ (IF down[e] = "acking" THEN datab[e].len ELSE 0) \in Nat
      BY <3>3
    <3>5. /\ OnTheWay(e) = Total(wire[p], "data") + Total(dataBuffer[p], "data")
                              + (IF down[p] = "acking" THEN datab[p].len ELSE 0)
                              + Total(wire[e], "bytesreaden")
          /\ OnTheWay(e)' = Total(wire'[p], "data") + Total(dataBuffer[p], "data")
                              + (IF down[p] = "acking" THEN datab[p].len ELSE 0)
                              + Total(wire'[e], "bytesreaden")
      BY <1>2 DEF OnTheWay, p
    <3>6. /\ OnTheWay(p) = Total(wire[e], "data") + Total(dataBuffer[e], "data")
                              + (IF down[e] = "acking" THEN datab[e].len ELSE 0)
                              + Total(wire[p], "bytesreaden")
          /\ OnTheWay(p)' = Total(wire'[e], "data") + Total(dataBuffer[e], "data")
                              + (IF down[e] = "acking" THEN datab[e].len ELSE 0)
                              + Total(wire'[p], "bytesreaden")
      BY <1>1, <1>2 DEF OnTheWay
    <3>7. OnTheWay(e)' <= OnTheWay(e) + chunk[e]
      <4>1. /\ Total(wire[p], "data") \in Nat /\ Total(wire'[p], "data") \in Nat
            /\ Total(dataBuffer[p], "data") \in Nat
            /\ Total(wire[e], "bytesreaden") \in Nat
            /\ Total(wire'[e], "bytesreaden") = Total(wire[e], "bytesreaden")
        BY <1>3, <3>2
      <4>2. \A a, b, c, d, r, k \in Nat : r <= a + k => r + b + c + d <= a + b + c + d + k
        OBVIOUS
      <4> QED
        BY <1>4, <3>1, <3>4, <3>5, <4>1, <4>2
    <3>8. OnTheWay(p)' <= OnTheWay(p)
      BY <1>3, <3>1, <3>2, <3>4, <3>6
    <3> QED
      BY <3>7, <3>8
  <2>2. /\ remoteUnprocessedBytes[e] \in Nat /\ OnTheWay(e) \in Nat /\ OnTheWay(p) \in Nat
        /\ OnTheWay(e)' \in Nat /\ OnTheWay(p)' \in Nat
        /\ remoteUnprocessedBytes[p] \in Nat /\ Counting(p) \in Nat
    <3>1. OnTheWay(e)' \in Nat /\ OnTheWay(p)' \in Nat
      BY <1>1, <1>2, <1>3, WayAfter DEF TypeOK
    <3> QED
      BY <1>1, <3>1, Numbers
  <2>3. OnTheWay(e) <= remoteUnprocessedBytes[e] /\ remoteUnprocessedBytes[e] + chunk[e] <= Window
    BY <1>2, <2>2 DEF Credit, Phases, Counting
  <2>4. /\ OnTheWay(e)' <= Window
        /\ OnTheWay(e)' <= remoteUnprocessedBytes'[e] + Counting(e)'
    <3>1. Counting(e)' = chunk[e]
      BY <1>2 DEF Counting, TypeOK
    <3> QED
      BY <1>2, <1>4, <2>1, <2>2, <2>3, <3>1, MuxLineAssumption
  <2>5. /\ OnTheWay(p)' <= Window
        /\ remoteUnprocessedFinished'[p] \/ OnTheWay(p)' <= remoteUnprocessedBytes'[p] + Counting(p)'
    <3>1. Counting(p)' = Counting(p)
      BY <1>1, <1>2 DEF Counting, TypeOK
    <3> QED
      BY <1>1, <1>2, <2>1, <2>2, <3>1, MuxLineAssumption DEF Credit
  <2> QED
    BY <1>1, <1>2, <2>3, <2>4, <2>5 DEF Credit, TypeOK
<1> QED
    BY <1>5, <1>6, <1>7, <1>8

\* The count of what was sent.
LEMMA CountUnprocessedCredit ==
    ASSUME TypeOK, Kinds, Phases, Credit, NEW e \in Ends, CountUnprocessed(e)
    PROVE  TypeOK' /\ Kinds' /\ Phases' /\ Credit'
<1>1. /\ up[e] = "counting" /\ up' = [up EXCEPT ![e] = "window"]
      /\ remoteUnprocessedBytes' = [remoteUnprocessedBytes EXCEPT ![e] = @ + chunk[e]]
      /\ UNCHANGED <<wire, link, sock, avail, chunk, unread, sent, down, datab, delivered, dataBuffer,
                     localWindowUsedBuffer, remoteUnprocessedFinished, mux, registered>>
    BY DEF CountUnprocessed, downVars, heapVars, muxVars
<1>2. /\ remoteUnprocessedBytes[e] \in Nat /\ chunk[e] \in Nat /\ Window \in Nat
      /\ remoteUnprocessedBytes[e] + chunk[e] <= Window
    BY <1>1, Numbers, MuxLineAssumption DEF Credit
<1>3. TypeOK'
  <2>1. remoteUnprocessedBytes[e] + chunk[e] \in 0 .. Window
    BY <1>2
  <2> QED
    BY <1>1, <2>1 DEF TypeOK
<1>4. Kinds' /\ Phases'
    BY <1>1 DEF Kinds, Phases, TypeOK
<1>5. Credit'
  <2>1. \A f \in Ends : OnTheWay(f)' = OnTheWay(f)
    BY <1>1, SameOnTheWay
  <2>2. \A f \in Ends : remoteUnprocessedBytes'[f] + Counting(f)' = remoteUnprocessedBytes[f] + Counting(f)
    BY <1>1, <1>2 DEF Counting, TypeOK
  <2> QED
    BY <1>1, <2>1, <2>2 DEF Credit, TypeOK
<1> QED
    BY <1>3, <1>4, <1>5

\* What processLineThread has taken and not reported, as OnTheWay counts it.
Unreported(e) == IF down[e] = "acking" THEN datab[e].len ELSE 0

\* Steps of an end on what comes to it: nothing is added to what it sent itself,
\* and what it takes from one place it puts, at most, in the next.
LEMMA MovesOnTheWay ==
    ASSUME TypeOK, NEW e \in Ends,
           wire' \in [Ends -> Seq(Messages)],
           dataBuffer' \in [Ends -> Seq(Messages)],
           datab' \in [Ends -> Messages],
           Total(wire'[Peer(e)], "data") <= Total(wire[Peer(e)], "data"),
           dataBuffer'[Peer(e)] = dataBuffer[Peer(e)],
           Unreported(Peer(e))' = Unreported(Peer(e)),
           Total(wire'[e], "bytesreaden") <= Total(wire[e], "bytesreaden"),
           Total(wire'[e], "data") + Total(dataBuffer'[e], "data") + Unreported(e)'
                + Total(wire'[Peer(e)], "bytesreaden")
             <= Total(wire[e], "data") + Total(dataBuffer[e], "data") + Unreported(e)
                + Total(wire[Peer(e)], "bytesreaden")
    PROVE  \A f \in Ends : OnTheWay(f)' \in Nat /\ OnTheWay(f)' <= OnTheWay(f)
<1>1. Peer(e) \in Ends /\ Peer(Peer(e)) = e /\ \A f \in Ends : f = e \/ f = Peer(e)
    BY PeerFacts
<1>2. /\ Total(wire[Peer(e)], "data") \in Nat /\ Total(wire'[Peer(e)], "data") \in Nat
      /\ Total(dataBuffer[Peer(e)], "data") \in Nat
      /\ Total(wire[e], "bytesreaden") \in Nat /\ Total(wire'[e], "bytesreaden") \in Nat
    BY <1>1, TotalType, Numbers
<1>3. Unreported(Peer(e)) \in Nat
    BY <1>1, Numbers DEF Unreported
<1>4. OnTheWay(e)' <= OnTheWay(e)
  <2>1. /\ OnTheWay(e) = Total(wire[Peer(e)], "data") + Total(dataBuffer[Peer(e)], "data")
                            + Unreported(Peer(e)) + Total(wire[e], "bytesreaden")
        /\ OnTheWay(e)' = Total(wire'[Peer(e)], "data") + Total(dataBuffer[Peer(e)], "data")
                            + Unreported(Peer(e)) + Total(wire'[e], "bytesreaden")
    BY DEF OnTheWay, Unreported
  <2>2. \A a, b, c, d, r, s \in Nat : r <= a /\ s <= d => r + b + c + s <= a + b + c + d
    OBVIOUS
  <2> QED
    BY <1>2, <1>3, <2>1, <2>2
<1>5. OnTheWay(Peer(e))' <= OnTheWay(Peer(e))
    BY <1>1 DEF OnTheWay, Unreported
<1> QED
    BY <1>1, <1>4, <1>5, WayAfter

\* processLine stops: it leaves an empty element.
LEMMA StopReadingCredit ==
    ASSUME TypeOK, Kinds, Phases, Credit, NEW e \in Ends, StopReading(e)
    PROVE  TypeOK' /\ Kinds' /\ Phases' /\ Credit'
<1> DEFINE q == dataBuffer[e]
<1>1. /\ up[e] \in {"reading", "sending"} /\ up' = [up EXCEPT ![e] = "joining"]
      /\ sock' = [sock EXCEPT ![e] = "shut"]
      /\ dataBuffer' = [dataBuffer EXCEPT ![e] = Append(q, Termination)]
      /\ localWindowUsedBuffer' = [localWindowUsedBuffer EXCEPT ![e] = @ + Termination.len]
      /\ down' = [down EXCEPT ![e] = IF @ = "asleep" THEN "getting" ELSE @]
      /\ UNCHANGED <<wire, link, avail, chunk, unread, sent, datab, delivered, mux, registered>>
      /\ UNCHANGED creditVars
    BY DEF StopReading, SendFails, Shutdown, AddBufferElement, PushBack, muxVars
<1>2. /\ q \in Seq(Messages)
      /\ Termination \in Messages /\ Termination.type = "data" /\ Termination.len = 0
    BY MessageTypes DEF TypeOK
<1>3. /\ Append(q, Termination) \in Seq(Messages)
      /\ Total(Append(q, Termination), "data") = Total(q, "data") + 0
      /\ \A i \in DOMAIN Append(q, Termination) :
            Append(q, Termination)[i].type = "data"
               \/ (i \in DOMAIN q /\ Append(q, Termination)[i] = q[i])
    BY <1>2, TotalAppend, AppendMembers
<1> HIDE DEF q
<1>4. Total(q, "data") \in Nat /\ localWindowUsedBuffer[e] \in Nat
    BY Numbers DEF q
<1>5. TypeOK'
    BY <1>1, <1>2, <1>3, <1>4 DEF TypeOK, creditVars
<1>6. Kinds'
  <2>1. ASSUME NEW f \in Ends
        PROVE  sent'[f] + unread'[f] + (IF up'[f] = "sending" THEN chunk'[f] ELSE 0) \in Bytes
    <3>1. CASE f = e
      <4>1. sent[e] + unread[e] + (IF up[e] = "sending" THEN chunk[e] ELSE 0) \in Bytes
        BY DEF Kinds
      <4>2. /\ sent[e] + unread[e] + 0 \in Nat
            /\ sent[e] + unread[e] + 0 <= sent[e] + unread[e] + (IF up[e] = "sending" THEN chunk[e] ELSE 0)
        BY Numbers
      <4>3. sent[e] + unread[e] + 0 \in Bytes
        BY <4>1, <4>2, BytesShape
      <4> QED
        BY <1>1, <3>1, <4>3 DEF TypeOK
    <3>2. CASE f # e
      BY <1>1, <3>2 DEF Kinds, TypeOK
    <3> QED
      BY <3>1, <3>2
  <2>2. ASSUME NEW f \in Ends, NEW i \in DOMAIN dataBuffer'[f]
        PROVE  dataBuffer'[f][i].type = "data"
    <3>1. CASE f = e
      BY <1>1, <1>3, <2>2, <3>1 DEF Kinds, TypeOK, q
    <3>2. CASE f # e
      BY <1>1, <2>2, <3>2 DEF Kinds, TypeOK
    <3> QED
      BY <3>1, <3>2
  <2> QED
    BY <1>1, <2>1, <2>2 DEF Kinds
<1>7. Phases'
    BY <1>1 DEF Phases, TypeOK, creditVars
<1>8. Credit'
  <2>1. /\ Total(dataBuffer'[e], "data") = Total(dataBuffer[e], "data")
        /\ Unreported(e)' = Unreported(e)
        /\ dataBuffer'[Peer(e)] = dataBuffer[Peer(e)]
        /\ Unreported(Peer(e))' = Unreported(Peer(e))
    BY <1>1, <1>3, <1>4, PeerFacts DEF Unreported, TypeOK, q
  <2>2. /\ Total(wire[e], "data") \in Nat /\ Total(wire[Peer(e)], "data") \in Nat
        /\ Total(wire[e], "bytesreaden") \in Nat /\ Total(wire[Peer(e)], "bytesreaden") \in Nat
        /\ Unreported(e) \in Nat
    BY Numbers, PeerFacts DEF Unreported
  <2>3. \A f \in Ends : OnTheWay(f)' \in Nat /\ OnTheWay(f)' <= OnTheWay(f)
    <3>1. wire' \in [Ends -> Seq(Messages)] /\ dataBuffer' \in [Ends -> Seq(Messages)] /\ datab' \in [Ends -> Messages]
      BY <1>5 DEF TypeOK
    <3>2. /\ Total(wire'[Peer(e)], "data") <= Total(wire[Peer(e)], "data")
          /\ Total(wire'[e], "bytesreaden") <= Total(wire[e], "bytesreaden")
      BY <1>1, <2>2
    <3>3. Total(wire'[e], "data") + Total(dataBuffer'[e], "data") + Unreported(e)'
                + Total(wire'[Peer(e)], "bytesreaden")
             <= Total(wire[e], "data") + Total(dataBuffer[e], "data") + Unreported(e)
                + Total(wire[Peer(e)], "bytesreaden")
      BY <1>1, <1>4, <2>1, <2>2 DEF q
    <3> QED
      BY <2>1, <3>1, <3>2, <3>3, MovesOnTheWay
  <2>4. \A f \in Ends : localWindowUsedBuffer'[f] = Total(dataBuffer'[f], "data")
    BY <1>1, <1>2, <1>3, <1>4 DEF Credit, TypeOK, q
  <2> QED
    BY <1>1, <2>3, <2>4, CreditKept DEF TypeOK
<1> QED
    BY <1>5, <1>6, <1>7, <1>8

\* A termination and a report: what is sent without data.
LEMMA SendTerminationCredit ==
    ASSUME TypeOK, Kinds, Phases, Credit, NEW e \in Ends, SendTermination(e)
    PROVE  TypeOK' /\ Kinds' /\ Phases' /\ Credit'
<1>1. /\ up[e] = "terminating" /\ up' = [up EXCEPT ![e] = "removing"]
      /\ UNCHANGED <<link, sock, avail, chunk, unread, sent, down, datab, delivered, dataBuffer,
                     localWindowUsedBuffer, mux, registered>>
      /\ UNCHANGED creditVars
    BY DEF SendTermination, downVars, heapVars, muxVars
<1>2. /\ wire' \in [Ends -> Seq(Messages)]
      /\ \A type : /\ Total(wire'[e], type) = Total(wire[e], type)
                   /\ Total(wire'[Peer(e)], type) <= Total(wire[Peer(e)], type)
  <2>1. Send(e, Termination) /\ Termination \in Messages /\ Termination.len = 0
    BY MessageTypes DEF SendTermination
  <2>2. /\ wire' \in [Ends -> Seq(Messages)]
        /\ \A type : /\ Total(wire'[e], type) = Total(wire[e], type)
                     /\ Total(wire'[Peer(e)], type)
                           <= Total(wire[Peer(e)], type) + (IF Termination.type = type THEN Termination.len ELSE 0)
    BY <2>1, SendEffect
  <2>3. \A type : Total(wire[Peer(e)], type) \in Nat
    BY Numbers, PeerFacts
  <2> QED
    BY <2>1, <2>2, <2>3
<1>3. TypeOK'
    BY <1>1, <1>2 DEF TypeOK, creditVars
<1>4. Kinds' /\ Phases'
    BY <1>1 DEF Kinds, Phases, TypeOK, creditVars
<1>5. Credit'
  <2>1. Unreported(e)' = Unreported(e) /\ Unreported(Peer(e))' = Unreported(Peer(e))
    BY <1>1 DEF Unreported
  <2>2. /\ \A type : Total(wire[e], type) \in Nat /\ Total(wire[Peer(e)], type) \in Nat
                     /\ Total(wire'[Peer(e)], type) \in Nat
        /\ Total(dataBuffer[e], "data") \in Nat
        /\ Unreported(e) \in Nat
    BY <1>2, Numbers, PeerFacts, TotalType DEF Unreported
  <2>3. \A f \in Ends : OnTheWay(f)' \in Nat /\ OnTheWay(f)' <= OnTheWay(f)
    <3>1. wire' \in [Ends -> Seq(Messages)] /\ dataBuffer' \in [Ends -> Seq(Messages)] /\ datab' \in [Ends -> Messages]
      BY <1>3 DEF TypeOK
    <3>2. /\ Total(wire'[Peer(e)], "data") <= Total(wire[Peer(e)], "data")
          /\ Total(wire'[e], "bytesreaden") = Total(wire[e], "bytesreaden")
          /\ Total(wire'[e], "data") = Total(wire[e], "data")
          /\ Total(wire'[Peer(e)], "bytesreaden") <= Total(wire[Peer(e)], "bytesreaden")
      BY <1>2
    <3>3. \A a, b, c, d, r \in Nat : r <= d => a + b + c + r <= a + b + c + d
      OBVIOUS
    <3>4. Total(wire'[e], "data") + Total(dataBuffer'[e], "data") + Unreported(e)'
                + Total(wire'[Peer(e)], "bytesreaden")
             <= Total(wire[e], "data") + Total(dataBuffer[e], "data") + Unreported(e)
                + Total(wire[Peer(e)], "bytesreaden")
      BY <1>1, <2>1, <2>2, <3>2, <3>3
    <3>5. Total(wire'[e], "bytesreaden") <= Total(wire[e], "bytesreaden")
      BY <2>2, <3>2
    <3> QED
      BY <1>1, <2>1, <3>1, <3>2, <3>4, <3>5, MovesOnTheWay
  <2>4. \A f \in Ends : localWindowUsedBuffer'[f] = Total(dataBuffer'[f], "data")
    BY <1>1 DEF Credit
  <2> QED
    BY <1>1, <2>3, <2>4, CreditKept DEF TypeOK
<1> QED
    BY <1>3, <1>4, <1>5

\* processLineThread reports what it holds before it writes it.
LEMMA SendReadenBytesCredit ==
    ASSUME TypeOK, Kinds, Phases, Credit, NEW e \in Ends, SendReadenBytes(e)
    PROVE  TypeOK' /\ Kinds' /\ Phases' /\ Credit'
<1> DEFINE m == Readen(datab[e].len)
<1>1. /\ down[e] = "acking" /\ down' = [down EXCEPT ![e] = "writing"]
      /\ UNCHANGED <<link, sock, up, avail, chunk, unread, sent, datab, delivered, dataBuffer,
                     localWindowUsedBuffer, mux, registered>>
      /\ UNCHANGED creditVars
    BY DEF SendReadenBytes, upVars, heapVars, muxVars
<1>2. Send(e, m) /\ m \in Messages /\ m.type = "bytesreaden" /\ m.len = datab[e].len
    BY MessageTypes, Numbers DEF SendReadenBytes
<1> HIDE DEF m
<1>3. /\ wire' \in [Ends -> Seq(Messages)]
      /\ Total(wire'[e], "data") = Total(wire[e], "data")
      /\ Total(wire'[e], "bytesreaden") = Total(wire[e], "bytesreaden")
      /\ Total(wire'[Peer(e)], "data") <= Total(wire[Peer(e)], "data")
      /\ Total(wire'[Peer(e)], "bytesreaden") <= Total(wire[Peer(e)], "bytesreaden") + datab[e].len
  <2>1. /\ wire' \in [Ends -> Seq(Messages)]
        /\ \A type : /\ Total(wire'[e], type) = Total(wire[e], type)
                     /\ Total(wire'[Peer(e)], type)
                           <= Total(wire[Peer(e)], type) + (IF m.type = type THEN m.len ELSE 0)
    BY <1>2, SendEffect
  <2>2. Total(wire[Peer(e)], "data") \in Nat /\ Total(wire[Peer(e)], "bytesreaden") \in Nat
    BY Numbers, PeerFacts
  <2>3. Total(wire'[Peer(e)], "data") <= Total(wire[Peer(e)], "data") + 0
    BY <1>2, <2>1
  <2> QED
    BY <1>2, <2>1, <2>2, <2>3
<1>4. TypeOK'
    BY <1>1, <1>3 DEF TypeOK, creditVars
<1>5. Kinds' /\ Phases'
    BY <1>1 DEF Kinds, Phases, TypeOK, creditVars
<1>6. Credit'
  <2>1. /\ Unreported(e) = datab[e].len /\ Unreported(e)' = 0
        /\ Unreported(Peer(e))' = Unreported(Peer(e))
    BY <1>1, PeerFacts DEF Unreported, TypeOK
  <2>2. /\ Total(wire[e], "data") \in Nat /\ Total(wire[Peer(e)], "bytesreaden") \in Nat
        /\ Total(wire'[Peer(e)], "bytesreaden") \in Nat
        /\ Total(wire[e], "bytesreaden") \in Nat
        /\ Total(dataBuffer[e], "data") \in Nat
        /\ datab[e].len \in Nat
    BY <1>3, Numbers, PeerFacts, TotalType
  <2>3. \A f \in Ends : OnTheWay(f)' \in Nat /\ OnTheWay(f)' <= OnTheWay(f)
    <3>1. wire' \in [Ends -> Seq(Messages)] /\ dataBuffer' \in [Ends -> Seq(Messages)] /\ datab' \in [Ends -> Messages]
      BY <1>4 DEF TypeOK
    <3>2. \A a, b, c, d, r \in Nat : r <= c + d => a + b + 0 + r <= a + b + d + c
      OBVIOUS
    <3>3. Total(wire'[e], "data") + Total(dataBuffer'[e], "data") + Unreported(e)'
                + Total(wire'[Peer(e)], "bytesreaden")
             <= Total(wire[e], "data") + Total(dataBuffer[e], "data") + Unreported(e)
                + Total(wire[Peer(e)], "bytesreaden")
      BY <1>1, <1>3, <2>1, <2>2, <3>2
    <3>4. Total(wire'[e], "bytesreaden") <= Total(wire[e], "bytesreaden")
      BY <1>3, <2>2
    <3> QED
      BY <1>1, <1>3, <2>1, <3>1, <3>3, <3>4, MovesOnTheWay
  <2>4. \A f \in Ends : localWindowUsedBuffer'[f] = Total(dataBuffer'[f], "data")
    BY <1>1 DEF Credit
  <2> QED
    BY <1>1, <2>3, <2>4, CreditKept DEF TypeOK
<1> QED
    BY <1>4, <1>5, <1>6

\* processLineThread takes the head of the heap.
LEMMA GetBufferElementCredit ==
    ASSUME TypeOK, Kinds, Phases, Credit, NEW e \in Ends, GetBufferElement(e)
    PROVE  TypeOK' /\ Kinds' /\ Phases' /\ Credit'
<1> DEFINE q == dataBuffer[e]
           m == Head(q)
<1>0. q \in Seq(Messages)
    BY DEF TypeOK
<1>1. CASE q = <<>>
  <2>1. /\ down[e] = "getting" /\ down' = [down EXCEPT ![e] = "asleep"]
        /\ UNCHANGED <<wire, link, sock, up, avail, chunk, unread, sent, datab, delivered, dataBuffer,
                       localWindowUsedBuffer, mux, registered>>
        /\ UNCHANGED creditVars
    BY <1>1 DEF GetBufferElement, upVars, heapVars, muxVars
  <2>2. TypeOK'
    BY <2>1 DEF TypeOK, creditVars
  <2>3. Kinds' /\ Phases'
    BY <2>1 DEF Kinds, Phases, TypeOK, creditVars
  <2>4. Credit'
    <3>1. \A f \in Ends : down'[f] = "acking" <=> down[f] = "acking"
      BY <2>1 DEF TypeOK
    <3>2. \A f \in Ends : OnTheWay(f)' \in Nat /\ OnTheWay(f)' <= OnTheWay(f)
      BY <2>1, <3>1, SameOnTheWay, Numbers
    <3>3. \A f \in Ends : localWindowUsedBuffer'[f] = Total(dataBuffer'[f], "data")
      BY <2>1 DEF Credit
    <3> QED
      BY <2>1, <3>2, <3>3, CreditKept
  <2> QED
    BY <2>2, <2>3, <2>4
<1>2. CASE q # <<>>
  <2>1. /\ m \in Messages /\ Tail(q) \in Seq(Messages)
        /\ \A i \in DOMAIN Tail(q) : i + 1 \in DOMAIN q /\ Tail(q)[i] = q[i + 1]
        /\ 1 \in DOMAIN q /\ q[1] = m
    BY <1>0, <1>2, TailMembers
  <2>2. m.type = "data" /\ m.len \in Nat /\ m.len \in 0 .. SendBuf
    BY <2>1, MessageFields DEF Kinds
  <2>3. Total(q, "data") = Total(Tail(q), "data") + m.len
    BY <1>0, <1>2, <2>2, TotalTail
  <2>4. /\ down[e] = "getting"
        /\ down' = [down EXCEPT ![e] = IF m.len = 0 THEN "closing" ELSE "acking"]
        /\ datab' = [datab EXCEPT ![e] = m]
        /\ dataBuffer' = [dataBuffer EXCEPT ![e] = Tail(q)]
        /\ localWindowUsedBuffer' = [localWindowUsedBuffer EXCEPT ![e] = @ - m.len]
        /\ UNCHANGED <<wire, link, sock, up, avail, chunk, unread, sent, delivered, mux, registered>>
        /\ UNCHANGED creditVars
    BY <1>2 DEF GetBufferElement, Release, upVars, muxVars
  <2> HIDE DEF q, m
  <2>5. /\ localWindowUsedBuffer[e] = Total(q, "data")
        /\ Total(q, "data") \in Nat /\ Total(Tail(q), "data") \in Nat
    BY <1>0, <2>1, TotalType DEF Credit, q
  <2>6. localWindowUsedBuffer[e] - m.len = Total(Tail(q), "data")
    BY <2>2, <2>3, <2>5
  <2>7. TypeOK'
    BY <2>1, <2>4, <2>5, <2>6 DEF TypeOK, creditVars
  <2>8. Kinds'
    <3>1. ASSUME NEW f \in Ends
          PROVE  datab'[f].type = "data" /\ \A i \in DOMAIN dataBuffer'[f] : dataBuffer'[f][i].type = "data"
      <4>1. CASE f = e
        BY <2>1, <2>2, <2>4, <4>1 DEF Kinds, TypeOK, q
      <4>2. CASE f # e
        BY <2>4, <4>2 DEF Kinds, TypeOK
      <4> QED
        BY <4>1, <4>2
    <3> QED
      BY <2>4, <3>1 DEF Kinds
  <2>9. Phases'
    BY <2>4 DEF Phases, TypeOK, creditVars
  <2>10. Credit'
    <3>1. /\ Unreported(e) = 0 /\ Unreported(e)' = m.len
          /\ Unreported(Peer(e))' = Unreported(Peer(e))
          /\ dataBuffer'[e] = Tail(q) /\ dataBuffer'[Peer(e)] = dataBuffer[Peer(e)]
      BY <2>2, <2>4, PeerFacts DEF Unreported, TypeOK
    <3>2. /\ Total(wire[e], "data") \in Nat /\ Total(wire[Peer(e)], "data") \in Nat
          /\ Total(wire[e], "bytesreaden") \in Nat /\ Total(wire[Peer(e)], "bytesreaden") \in Nat
      BY Numbers, PeerFacts
    <3>3. \A f \in Ends : OnTheWay(f)' \in Nat /\ OnTheWay(f)' <= OnTheWay(f)
      <4>1. wire' \in [Ends -> Seq(Messages)] /\ dataBuffer' \in [Ends -> Seq(Messages)] /\ datab' \in [Ends -> Messages]
        BY <2>7 DEF TypeOK
      <4>2. /\ Total(wire'[Peer(e)], "data") <= Total(wire[Peer(e)], "data")
            /\ Total(wire'[e], "bytesreaden") <= Total(wire[e], "bytesreaden")
        BY <2>4, <3>2
      <4>3. \A a, b, l, d \in Nat : a + b + l + d <= a + (b + l) + 0 + d
        OBVIOUS
      <4>4. Total(wire'[e], "data") + Total(dataBuffer'[e], "data") + Unreported(e)'
                  + Total(wire'[Peer(e)], "bytesreaden")
               <= Total(wire[e], "data") + Total(dataBuffer[e], "data") + Unreported(e)
                  + Total(wire[Peer(e)], "bytesreaden")
        BY <2>2, <2>3, <2>4, <2>5, <3>1, <3>2, <4>3 DEF q
      <4> QED
        BY <3>1, <4>1, <4>2, <4>4, MovesOnTheWay
    <3>4. ASSUME NEW f \in Ends
          PROVE  localWindowUsedBuffer'[f] = Total(dataBuffer'[f], "data")
      <4>1. CASE f = e
        BY <2>4, <2>6, <3>1, <4>1 DEF TypeOK
      <4>2. CASE f # e
        BY <2>4, <4>2 DEF Credit, TypeOK
      <4> QED
        BY <4>1, <4>2
    <3> QED
      BY <2>4, <3>3, <3>4, CreditKept
  <2> QED
    BY <2>7, <2>8, <2>9, <2>10
<1> QED
    BY <1>1, <1>2

\* What is written to the local socket was sent.
LEMMA WriteBlockCredit ==
    ASSUME TypeOK, Kinds, Phases, Credit, Chained', NEW e \in Ends, WriteBlock(e)
    PROVE  TypeOK' /\ Kinds' /\ Phases' /\ Credit'
<1>1. /\ down[e] = "writing"
      /\ \/ sock[e] = "open" /\ down' = [down EXCEPT ![e] = "getting"]
         \/ sock[e] # "open" /\ down' = [down EXCEPT ![e] = "ended"]
      /\ delivered' = [delivered EXCEPT ![e] = delivered'[e]]
      /\ delivered'[e] = delivered[e] + datab[e].len \/ delivered'[e] = delivered[e]
      /\ UNCHANGED <<wire, link, sock, up, avail, chunk, unread, sent, datab, dataBuffer,
                     localWindowUsedBuffer, mux, registered>>
      /\ UNCHANGED creditVars
    BY DEF WriteBlock, TypeOK, upVars, heapVars, muxVars
<1>2. delivered'[e] \in Bytes
  <2>1. delivered'[e] \in Nat
    BY <1>1, Numbers
  <2>2. sent[Peer(e)] \in Bytes /\ delivered'[e] <= sent[Peer(e)]
    BY <1>1, PeerFacts DEF TypeOK, Chained
  <2> QED
    BY <2>1, <2>2, BytesShape
<1>3. TypeOK'
  <2>1. delivered' \in [Ends -> Bytes]
    BY <1>1, <1>2 DEF TypeOK
  <2> QED
    BY <1>1, <2>1 DEF TypeOK, creditVars
<1>4. Kinds' /\ Phases'
    BY <1>1 DEF Kinds, Phases, TypeOK, creditVars
<1>5. Credit'
  <2>1. \A f \in Ends : down'[f] = "acking" <=> down[f] = "acking"
    BY <1>1 DEF TypeOK
  <2>2. \A f \in Ends : OnTheWay(f)' \in Nat /\ OnTheWay(f)' <= OnTheWay(f)
    BY <1>1, <2>1, SameOnTheWay, Numbers
  <2>3. \A f \in Ends : localWindowUsedBuffer'[f] = Total(dataBuffer'[f], "data")
    BY <1>1 DEF Credit
  <2> QED
    BY <1>1, <2>2, <2>3, CreditKept
<1> QED
    BY <1>3, <1>4, <1>5

\* The destructor of a line takes an element and reports it.
LEMMA DestroyLineCredit ==
    ASSUME TypeOK, Kinds, Phases, Credit, NEW e \in Ends, DestroyLine(e)
    PROVE  TypeOK' /\ Kinds' /\ Phases' /\ Credit'
<1> DEFINE q == dataBuffer[e]
           m == Head(q)
<1>0. q \in Seq(Messages)
    BY DEF TypeOK
<1>1. CASE q = <<>>
  <2>1. /\ up[e] = "destroying" /\ up' = [up EXCEPT ![e] = "ended"]
        /\ UNCHANGED <<wire, link, sock, down, avail, chunk, unread, sent, datab, delivered, dataBuffer,
                       localWindowUsedBuffer, mux, registered>>
        /\ UNCHANGED creditVars
    BY <1>1 DEF DestroyLine, downVars, heapVars, muxVars
  <2>2. TypeOK'
    BY <2>1 DEF TypeOK, creditVars
  <2>3. Kinds' /\ Phases'
    BY <2>1 DEF Kinds, Phases, TypeOK, creditVars
  <2>4. Credit'
    <3>1. \A f \in Ends : OnTheWay(f)' \in Nat /\ OnTheWay(f)' <= OnTheWay(f)
      BY <2>1, SameOnTheWay, Numbers
    <3>2. \A f \in Ends : localWindowUsedBuffer'[f] = Total(dataBuffer'[f], "data")
      BY <2>1 DEF Credit
    <3> QED
      BY <2>1, <3>1, <3>2, CreditKept DEF TypeOK
  <2> QED
    BY <2>2, <2>3, <2>4
<1>2. CASE q # <<>>
  <2>1. /\ m \in Messages /\ Tail(q) \in Seq(Messages)
        /\ \A i \in DOMAIN Tail(q) : i + 1 \in DOMAIN q /\ Tail(q)[i] = q[i + 1]
        /\ 1 \in DOMAIN q /\ q[1] = m
    BY <1>0, <1>2, TailMembers
  <2>2. m.type = "data" /\ m.len \in Nat /\ m.len \in 0 .. SendBuf
    BY <2>1, MessageFields DEF Kinds
  <2>3. Total(q, "data") = Total(Tail(q), "data") + m.len
    BY <1>0, <1>2, <2>2, TotalTail
  <2>4. /\ dataBuffer' = [dataBuffer EXCEPT ![e] = Tail(q)]
        /\ localWindowUsedBuffer' = [localWindowUsedBuffer EXCEPT ![e] = @ - m.len]
        /\ UNCHANGED <<up, link, sock, down, avail, chunk, unread, sent, datab, delivered, mux, registered>>
        /\ UNCHANGED creditVars
        /\ UNCHANGED wire \/ Send(e, Readen(m.len))
    BY <1>2 DEF DestroyLine, downVars, muxVars
  <2> HIDE DEF q, m
  <2>5. /\ localWindowUsedBuffer[e] = Total(q, "data")
        /\ Total(q, "data") \in Nat /\ Total(Tail(q), "data") \in Nat
    BY <1>0, <2>1, TotalType DEF Credit, q
  <2>6. localWindowUsedBuffer[e] - m.len = Total(Tail(q), "data")
    BY <2>2, <2>3, <2>5
  <2>7. /\ wire' \in [Ends -> Seq(Messages)]
        /\ Total(wire'[e], "data") = Total(wire[e], "data")
        /\ Total(wire'[e], "bytesreaden") = Total(wire[e], "bytesreaden")
        /\ Total(wire'[Peer(e)], "data") <= Total(wire[Peer(e)], "data")
        /\ Total(wire'[Peer(e)], "bytesreaden") <= Total(wire[Peer(e)], "bytesreaden") + m.len
    <3>1. Total(wire[Peer(e)], "data") \in Nat /\ Total(wire[Peer(e)], "bytesreaden") \in Nat
      BY Numbers, PeerFacts
    <3>2. CASE UNCHANGED wire
      BY <2>2, <3>1, <3>2 DEF TypeOK
    <3>3. CASE Send(e, Readen(m.len))
      <4>1. PICK r \in Messages : r = Readen(m.len) /\ r.type = "bytesreaden" /\ r.len = m.len
        BY <2>2, MessageTypes
      <4>2. /\ wire' \in [Ends -> Seq(Messages)]
            /\ \A type : /\ Total(wire'[e], type) = Total(wire[e], type)
                         /\ Total(wire'[Peer(e)], type)
                               <= Total(wire[Peer(e)], type) + (IF r.type = type THEN r.len ELSE 0)
        BY <3>3, <4>1, SendEffect
      <4>3. Total(wire'[Peer(e)], "data") <= Total(wire[Peer(e)], "data") + 0
        BY <4>1, <4>2
      <4> QED
        BY <3>1, <4>1, <4>2, <4>3
    <3> QED
      BY <2>4, <3>2, <3>3
  <2>8. TypeOK'
    BY <2>1, <2>4, <2>5, <2>6, <2>7 DEF TypeOK, creditVars
  <2>9. Kinds' /\ Phases'
    <3>1. ASSUME NEW f \in Ends, NEW i \in DOMAIN dataBuffer'[f]
          PROVE  dataBuffer'[f][i].type = "data"
      <4>1. CASE f = e
        BY <2>1, <2>4, <3>1, <4>1 DEF Kinds, TypeOK, q
      <4>2. CASE f # e
        BY <2>4, <3>1, <4>2 DEF Kinds, TypeOK
      <4> QED
        BY <4>1, <4>2
    <3> QED
      BY <2>4, <3>1 DEF Kinds, Phases, creditVars
  <2>10. Credit'
    <3>1. /\ Unreported(e)' = Unreported(e)
          /\ Unreported(Peer(e))' = Unreported(Peer(e))
          /\ dataBuffer'[e] = Tail(q) /\ dataBuffer'[Peer(e)] = dataBuffer[Peer(e)]
      BY <2>4, PeerFacts DEF Unreported, TypeOK
    <3>2. /\ Total(wire[e], "data") \in Nat
          /\ Total(wire[e], "bytesreaden") \in Nat /\ Total(wire[Peer(e)], "bytesreaden") \in Nat
          /\ Total(wire'[Peer(e)], "bytesreaden") \in Nat
          /\ Unreported(e) \in Nat
      BY <2>7, Numbers, PeerFacts, TotalType DEF Unreported
    <3>3. \A f \in Ends : OnTheWay(f)' \in Nat /\ OnTheWay(f)' <= OnTheWay(f)
      <4>1. wire' \in [Ends -> Seq(Messages)] /\ dataBuffer' \in [Ends -> Seq(Messages)] /\ datab' \in [Ends -> Messages]
        BY <2>8 DEF TypeOK
      <4>2. Total(wire'[e], "bytesreaden") <= Total(wire[e], "bytesreaden")
        BY <2>7, <3>2
      <4>3. \A a, b, c, d, l, r \in Nat : r <= d + l => a + b + c + r <= a + (b + l) + c + d
        OBVIOUS
      <4>4. Total(wire'[e], "data") + Total(dataBuffer'[e], "data") + Unreported(e)'
                  + Total(wire'[Peer(e)], "bytesreaden")
               <= Total(wire[e], "data") + Total(dataBuffer[e], "data") + Unreported(e)
                  + Total(wire[Peer(e)], "bytesreaden")
        BY <2>2, <2>3, <2>5, <2>7, <3>1, <3>2, <4>3 DEF q
      <4> QED
        BY <2>7, <3>1, <4>1, <4>2, <4>4, MovesOnTheWay
    <3>4. ASSUME NEW f \in Ends
          PROVE  localWindowUsedBuffer'[f] = Total(dataBuffer'[f], "data")
      <4>1. CASE f = e
        BY <2>4, <2>6, <3>1, <4>1 DEF TypeOK
      <4>2. CASE f # e
        BY <2>4, <4>2 DEF Credit, TypeOK
      <4> QED
        BY <4>1, <4>2
    <3> QED
      BY <2>4, <3>3, <3>4, CreditKept DEF TypeOK
  <2> QED
    BY <2>8, <2>9, <2>10
<1> QED
    BY <1>1, <1>2

\* The mux thread moves data from the wire to the heap, or drops it.
LEMMA ReceiveLineDataCredit ==
    ASSUME TypeOK, Kinds, Phases, Credit, NEW e \in Ends, ReceiveLineData(e)
    PROVE  TypeOK' /\ Kinds' /\ Phases' /\ Credit'
<1> DEFINE w == wire[e]
           m == Head(w)
           q == dataBuffer[e]
<1>1. /\ w \in Seq(Messages) /\ w # <<>> /\ q \in Seq(Messages)
      /\ m \in Messages /\ m.type = "data" /\ m.len \in Nat
      /\ UNCHANGED <<up, link, sock, avail, chunk, unread, sent, datab, delivered, mux, registered>>
      /\ UNCHANGED creditVars
    BY HeadTailProperties, MessageFields DEF ReceiveLineData, TypeOK, upVars, muxVars
<1>2. PICK reply \in {<<>>, <<Termination>>} : Receive(e, reply)
    BY DEF ReceiveLineData
<1>3. /\ wire' \in [Ends -> Seq(Messages)]
      /\ Total(wire[e], "data") = Total(wire'[e], "data") + m.len
      /\ Total(wire[e], "bytesreaden") = Total(wire'[e], "bytesreaden") + 0
      /\ Total(wire'[Peer(e)], "data") = Total(wire[Peer(e)], "data")
      /\ Total(wire'[Peer(e)], "bytesreaden") = Total(wire[Peer(e)], "bytesreaden")
    BY <1>1, <1>2, ReceiveEffect
<1>4. /\ Append(q, m) \in Seq(Messages)
      /\ Total(Append(q, m), "data") = Total(q, "data") + m.len
      /\ \A i \in DOMAIN Append(q, m) :
            Append(q, m)[i] = m \/ (i \in DOMAIN q /\ Append(q, m)[i] = q[i])
    BY <1>1, TotalAppend, AppendMembers
<1>5. \/ /\ dataBuffer' = [dataBuffer EXCEPT ![e] = Append(q, m)]
         /\ localWindowUsedBuffer' = [localWindowUsedBuffer EXCEPT ![e] = @ + m.len]
         /\ down' = [down EXCEPT ![e] = IF @ = "asleep" THEN "getting" ELSE @]
      \/ UNCHANGED <<dataBuffer, localWindowUsedBuffer, down>>
    BY DEF ReceiveLineData, AddBufferElement, PushBack, heapVars
<1> HIDE DEF w, m, q
<1>6. /\ localWindowUsedBuffer[e] = Total(q, "data") /\ Total(q, "data") \in Nat
      /\ Total(wire[e], "data") \in Nat /\ Total(wire'[e], "data") \in Nat
      /\ Total(wire[e], "bytesreaden") \in Nat /\ Total(wire'[e], "bytesreaden") \in Nat
      /\ Total(wire[Peer(e)], "bytesreaden") \in Nat /\ Total(wire[Peer(e)], "data") \in Nat
      /\ Unreported(e) \in Nat
    BY <1>3, Numbers, PeerFacts, TotalType DEF Credit, q, Unreported
<1>7. TypeOK'
  <2>1. localWindowUsedBuffer[e] + m.len \in Nat
    BY <1>1, <1>6
  <2>2. dataBuffer' \in [Ends -> Seq(Messages)]
    BY <1>4, <1>5 DEF TypeOK
  <2>3. localWindowUsedBuffer' \in [Ends -> Nat]
    BY <1>5, <2>1 DEF TypeOK
  <2>4. down' \in [Ends -> {"unstarted", "getting", "asleep", "acking", "writing",
                             "closing", "ended"}]
    <3>1. CASE UNCHANGED down
      BY <3>1 DEF TypeOK
    <3>2. CASE down' = [down EXCEPT ![e] = IF @ = "asleep" THEN "getting" ELSE @]
      <4>1. \A f \in Ends : down'[f] = down[f] \/ down'[f] = "getting"
        BY <3>2 DEF TypeOK
      <4> QED
        BY <3>2, <4>1 DEF TypeOK
    <3> QED
      BY <1>5, <3>1, <3>2
  <2> QED
    BY <1>1, <1>3, <2>2, <2>3, <2>4 DEF TypeOK, creditVars
<1>8. Kinds'
  <2>1. ASSUME NEW f \in Ends, NEW i \in DOMAIN dataBuffer'[f]
        PROVE  dataBuffer'[f][i].type = "data"
    <3>1. CASE f = e /\ dataBuffer' = [dataBuffer EXCEPT ![e] = Append(q, m)]
      <4>1. dataBuffer'[f] = Append(q, m)
        BY <3>1 DEF TypeOK
      <4>2. \A j \in DOMAIN q : q[j].type = "data"
        BY DEF Kinds, q
      <4>3. i \in DOMAIN Append(q, m)
        BY <2>1, <4>1
      <4>4. Append(q, m)[i] = m \/ (i \in DOMAIN q /\ Append(q, m)[i] = q[i])
        BY <1>4, <4>3
      <4> QED
        BY <1>1, <4>1, <4>2, <4>4
    <3>2. CASE f # e \/ UNCHANGED dataBuffer
      BY <1>5, <2>1, <3>2 DEF Kinds, TypeOK
    <3> QED
      BY <1>5, <3>1, <3>2
  <2> QED
    BY <1>1, <2>1 DEF Kinds
<1>9. Phases'
    BY <1>1, <1>5 DEF Phases, TypeOK, creditVars
<1>10. /\ Unreported(e)' = Unreported(e) /\ Unreported(Peer(e))' = Unreported(Peer(e))
       /\ dataBuffer'[Peer(e)] = dataBuffer[Peer(e)]
       /\ dataBuffer'[e] = q \/ dataBuffer'[e] = Append(q, m)
    BY <1>1, <1>5, PeerFacts DEF Unreported, TypeOK, q
<1>11. Credit'
  <2>1. \A f \in Ends : OnTheWay(f)' \in Nat /\ OnTheWay(f)' <= OnTheWay(f)
    <3>1. wire' \in [Ends -> Seq(Messages)] /\ dataBuffer' \in [Ends -> Seq(Messages)] /\ datab' \in [Ends -> Messages]
      BY <1>7 DEF TypeOK
    <3>2. /\ Total(wire'[e], "bytesreaden") <= Total(wire[e], "bytesreaden")
          /\ Total(wire'[Peer(e)], "data") <= Total(wire[Peer(e)], "data")
      BY <1>3, <1>6
    <3>3. \A a, b, c, d, l \in Nat : /\ a + (b + l) + c + d <= (a + l) + b + c + d
                                     /\ a + b + c + d <= (a + l) + b + c + d
      OBVIOUS
    <3>4. Total(wire'[e], "data") + Total(dataBuffer'[e], "data") + Unreported(e)'
                + Total(wire'[Peer(e)], "bytesreaden")
             <= Total(wire[e], "data") + Total(dataBuffer[e], "data") + Unreported(e)
                + Total(wire[Peer(e)], "bytesreaden")
      <4>1. CASE dataBuffer'[e] = q
        BY <1>1, <1>3, <1>6, <1>10, <3>3, <4>1 DEF q
      <4>2. CASE dataBuffer'[e] = Append(q, m)
        BY <1>1, <1>3, <1>4, <1>6, <1>10, <3>3, <4>2 DEF q
      <4> QED
        BY <1>10, <4>1, <4>2
    <3> QED
      BY <1>10, <3>1, <3>2, <3>4, MovesOnTheWay
  <2>2. ASSUME NEW f \in Ends
        PROVE  localWindowUsedBuffer'[f] = Total(dataBuffer'[f], "data")
    <3>1. CASE f = e /\ ~UNCHANGED dataBuffer
      <4>1. /\ dataBuffer' = [dataBuffer EXCEPT ![e] = Append(q, m)]
            /\ localWindowUsedBuffer' = [localWindowUsedBuffer EXCEPT ![e] = @ + m.len]
        BY <1>5, <3>1
      <4>2. /\ dataBuffer'[e] = Append(q, m)
            /\ localWindowUsedBuffer'[e] = localWindowUsedBuffer[e] + m.len
        BY <4>1 DEF TypeOK
      <4> QED
        BY <1>4, <1>6, <3>1, <4>2
    <3>2. CASE f = e /\ UNCHANGED dataBuffer
      <4>1. CASE UNCHANGED localWindowUsedBuffer
        BY <3>2, <4>1 DEF Credit
      <4>2. CASE /\ dataBuffer' = [dataBuffer EXCEPT ![e] = Append(q, m)]
                 /\ localWindowUsedBuffer' = [localWindowUsedBuffer EXCEPT ![e] = @ + m.len]
        BY <1>4, <1>6, <3>2, <4>2 DEF TypeOK
      <4> QED
        BY <1>5, <4>1, <4>2
    <3>3. CASE f # e
      BY <1>5, <3>3 DEF Credit, TypeOK
    <3> QED
      BY <3>1, <3>2, <3>3
  <2> QED
    BY <1>1, <2>1, <2>2, CreditKept DEF TypeOK
<1> QED
    BY <1>7, <1>8, <1>9, <1>11

\* A report gives back what it reports, or all that was counted.
LEMMA ReceiveReadenBytesCredit ==
    ASSUME TypeOK, Kinds, Phases, Credit, NEW e \in Ends, ReceiveReadenBytes(e)
    PROVE  TypeOK' /\ Kinds' /\ Phases' /\ Credit'
<1> DEFINE p == Peer(e)
           w == wire[e]
           m == Head(w)
<1>1. /\ p \in Ends /\ p # e /\ Peer(p) = e /\ \A f \in Ends : f = e \/ f = p
      /\ w \in Seq(Messages) /\ w # <<>>
      /\ m \in Messages /\ m.type = "bytesreaden" /\ m.len \in Nat
      /\ UNCHANGED <<link, sock, avail, chunk, unread, sent, down, datab, delivered, dataBuffer,
                     localWindowUsedBuffer, remoteUnprocessedFinished, mux, registered>>
    BY PeerFacts, HeadTailProperties, MessageFields DEF ReceiveReadenBytes, TypeOK, downVars, heapVars, muxVars
<1>2. PICK reply \in {<<>>, <<Termination>>} : Receive(e, reply)
    BY DEF ReceiveReadenBytes
<1>3. /\ wire' \in [Ends -> Seq(Messages)]
      /\ Total(wire[e], "bytesreaden") = Total(wire'[e], "bytesreaden") + m.len
      /\ Total(wire[e], "data") = Total(wire'[e], "data") + 0
      /\ Total(wire'[p], "data") = Total(wire[p], "data")
      /\ Total(wire'[p], "bytesreaden") = Total(wire[p], "bytesreaden")
    BY <1>1, <1>2, ReceiveEffect
<1>4. \/ /\ remoteUnprocessedBytes' = [remoteUnprocessedBytes EXCEPT ![e] = Unprocessed(e, m.len)]
         /\ up' = [up EXCEPT ![e] = IF @ = "asleep" THEN "window" ELSE @]
      \/ UNCHANGED <<remoteUnprocessedBytes, up>>
    BY DEF ReceiveReadenBytes, WakeUp
<1> HIDE DEF p, w, m
<1>5. /\ remoteUnprocessedBytes[e] \in 0 .. Window /\ Window \in Nat
      /\ Unprocessed(e, m.len) \in 0 .. remoteUnprocessedBytes[e]
      /\ Unprocessed(e, m.len) \in Nat
      /\ remoteUnprocessedFinished[e] \/ m.len > remoteUnprocessedBytes[e]
            \/ Unprocessed(e, m.len) = remoteUnprocessedBytes[e] - m.len
    BY <1>1, MuxLineAssumption DEF Unprocessed, TypeOK
<1>6. TypeOK'
  <2>1. remoteUnprocessedBytes' \in [Ends -> 0 .. Window]
    <3>1. Unprocessed(e, m.len) \in 0 .. Window
      BY <1>5
    <3> QED
      BY <1>4, <3>1 DEF TypeOK
  <2>2. up' \in [Ends -> {"starting", "window", "asleep", "reading", "sending",
                           "counting", "joining", "terminating", "removing",
                           "destroying", "ended"}]
    <3>1. CASE UNCHANGED up
      BY <3>1 DEF TypeOK
    <3>2. CASE up' = [up EXCEPT ![e] = IF @ = "asleep" THEN "window" ELSE @]
      <4>1. \A f \in Ends : up'[f] = up[f] \/ up'[f] = "window"
        BY <3>2 DEF TypeOK
      <4> QED
        BY <3>2, <4>1 DEF TypeOK
    <3> QED
      BY <1>4, <3>1, <3>2
  <2> QED
    BY <1>1, <1>3, <2>1, <2>2 DEF TypeOK
<1>7. Kinds' /\ Phases'
  <2>1. \A f \in Ends : /\ up'[f] = "sending" <=> up[f] = "sending"
                        /\ up'[f] = up[f] \/ (up[f] = "asleep" /\ up'[f] = "window")
    BY <1>4 DEF TypeOK
  <2> QED
    BY <1>1, <2>1 DEF Kinds, Phases
<1>8. Credit'
  <2>1. /\ OnTheWay(e) \in Nat /\ OnTheWay(e)' \in Nat /\ OnTheWay(p) \in Nat /\ OnTheWay(p)' \in Nat
    <3>1. OnTheWay(e)' \in Nat /\ OnTheWay(p)' \in Nat
      BY <1>1, <1>3, WayAfter DEF TypeOK
    <3> QED
      BY <1>1, <3>1, Numbers
  <2>2. OnTheWay(e) = OnTheWay(e)' + m.len
    <3>1. /\ OnTheWay(e) = Total(wire[p], "data") + Total(dataBuffer[p], "data")
                              + Unreported(p) + Total(wire[e], "bytesreaden")
          /\ OnTheWay(e)' = Total(wire[p], "data") + Total(dataBuffer[p], "data")
                              + Unreported(p) + Total(wire'[e], "bytesreaden")
      BY <1>1, <1>3 DEF OnTheWay, Unreported, p
    <3>2. /\ Total(wire[p], "data") \in Nat /\ Total(dataBuffer[p], "data") \in Nat
          /\ Unreported(p) \in Nat /\ Total(wire'[e], "bytesreaden") \in Nat
      BY <1>1, <1>3, Numbers, TotalType DEF Unreported
    <3> QED
      BY <1>1, <1>3, <3>1, <3>2
  <2>3. OnTheWay(p)' = OnTheWay(p)
    <3>1. Total(wire'[e], "data") = Total(wire[e], "data")
      <4>1. Total(wire'[e], "data") \in Nat
        BY <1>3, TotalType
      <4> QED
        BY <1>3, <4>1
    <3> QED
      BY <1>1, <1>3, <3>1 DEF OnTheWay
  <2>4. \A f \in Ends : /\ Counting(f)' = Counting(f)
                        /\ up'[f] \in {"reading", "sending", "counting"} => up'[f] = up[f]
                        /\ remoteUnprocessedBytes'[f] <= remoteUnprocessedBytes[f]
                        /\ remoteUnprocessedBytes'[f] \in Nat /\ remoteUnprocessedBytes[f] \in Nat
                        /\ Counting(f) \in Nat /\ chunk[f] \in Nat /\ avail[f] \in Nat
    <3>1. \A f \in Ends : Counting(f) \in Nat /\ chunk[f] \in Nat /\ avail[f] \in Nat /\ remoteUnprocessedBytes[f] \in Nat
      BY Numbers
    <3>2. \A f \in Ends : /\ up'[f] \in {"reading", "sending", "counting"} => up'[f] = up[f]
                          /\ up[f] = "counting" => up'[f] = "counting"
      BY <1>4 DEF TypeOK
    <3>3. \A f \in Ends : /\ remoteUnprocessedBytes'[f] <= remoteUnprocessedBytes[f]
                          /\ remoteUnprocessedBytes'[f] \in Nat
      <4>1. CASE UNCHANGED remoteUnprocessedBytes
        BY <3>1, <4>1
      <4>2. CASE remoteUnprocessedBytes' = [remoteUnprocessedBytes EXCEPT ![e] = Unprocessed(e, m.len)]
        <5>1. remoteUnprocessedBytes'[e] = Unprocessed(e, m.len)
          BY <4>2 DEF TypeOK
        <5>2. \A f \in Ends : f # e => remoteUnprocessedBytes'[f] = remoteUnprocessedBytes[f]
          BY <4>2 DEF TypeOK
        <5>3. Unprocessed(e, m.len) <= remoteUnprocessedBytes[e]
          BY <1>5
        <5> QED
          BY <1>5, <3>1, <5>1, <5>2, <5>3
      <4> QED
        BY <1>4, <4>1, <4>2
    <3> QED
      BY <1>1, <3>1, <3>2, <3>3 DEF Counting
  <2>5. \A f \in Ends :
           /\ localWindowUsedBuffer'[f] = Total(dataBuffer'[f], "data")
           /\ up'[f] = "reading" => remoteUnprocessedBytes'[f] + avail'[f] <= Window
           /\ up'[f] \in {"sending", "counting"} => remoteUnprocessedBytes'[f] + chunk'[f] <= Window
    <3> SUFFICES ASSUME NEW f \in Ends
                 PROVE  /\ localWindowUsedBuffer'[f] = Total(dataBuffer'[f], "data")
                        /\ up'[f] = "reading" => remoteUnprocessedBytes'[f] + avail'[f] <= Window
                        /\ up'[f] \in {"sending", "counting"} => remoteUnprocessedBytes'[f] + chunk'[f] <= Window
      OBVIOUS
    <3> QED
      BY <1>1, <1>5, <2>4 DEF Credit
  <2>6. OnTheWay(e)' <= Window /\ OnTheWay(p)' <= Window
    BY <1>1, <1>5, <2>1, <2>2, <2>3 DEF Credit
  <2>7. remoteUnprocessedFinished'[e] \/ OnTheWay(e)' <= remoteUnprocessedBytes'[e] + Counting(e)'
    <3>1. CASE remoteUnprocessedFinished[e]
      BY <1>1, <3>1
    <3>2. CASE ~remoteUnprocessedFinished[e]
      <4>1. OnTheWay(e) <= remoteUnprocessedBytes[e] + Counting(e)
        BY <3>2 DEF Credit
      <4>2. remoteUnprocessedBytes'[e] = remoteUnprocessedBytes[e]
               \/ remoteUnprocessedBytes'[e] = Unprocessed(e, m.len)
        BY <1>4 DEF TypeOK
      <4>3. /\ OnTheWay(e) \in Nat /\ OnTheWay(e)' \in Nat /\ m.len \in Nat
            /\ remoteUnprocessedBytes[e] \in Nat /\ Counting(e) \in Nat
            /\ Counting(e)' = Counting(e)
        BY <1>1, <2>1, <2>4
      <4>4. CASE remoteUnprocessedBytes'[e] = remoteUnprocessedBytes[e]
        BY <2>2, <4>1, <4>3, <4>4
      <4>5. CASE /\ remoteUnprocessedBytes'[e] = Unprocessed(e, m.len)
                 /\ m.len > remoteUnprocessedBytes[e]
        <5>1. Unprocessed(e, m.len) = 0
          BY <4>5 DEF Unprocessed
        <5> QED
          BY <2>2, <4>1, <4>3, <4>5, <5>1
      <4>6. CASE /\ remoteUnprocessedBytes'[e] = Unprocessed(e, m.len)
                 /\ ~(m.len > remoteUnprocessedBytes[e])
        <5>1. Unprocessed(e, m.len) = remoteUnprocessedBytes[e] - m.len
          BY <3>2, <4>6 DEF Unprocessed
        <5> QED
          BY <2>2, <4>1, <4>3, <4>6, <5>1
      <4> QED
        BY <4>2, <4>4, <4>5, <4>6
    <3> QED
      BY <3>1, <3>2
  <2>8. remoteUnprocessedFinished'[p] \/ OnTheWay(p)' <= remoteUnprocessedBytes'[p] + Counting(p)'
    <3>1. remoteUnprocessedBytes'[p] = remoteUnprocessedBytes[p]
      BY <1>1, <1>4 DEF TypeOK
    <3> QED
      BY <1>1, <2>3, <2>4, <3>1 DEF Credit
  <2> QED
    BY <1>1, <2>5, <2>6, <2>7, <2>8 DEF Credit
<1> QED
    BY <1>6, <1>7, <1>8

\* resetRemoteAvailableBytes gives all the credit back, to a sender that cannot send any more.
LEMMA CloseEveryLineCredit ==
    ASSUME TypeOK, Kinds, Phases, Credit, NEW e \in Ends, CloseEveryLine(e)
    PROVE  TypeOK' /\ Kinds' /\ Phases' /\ Credit'
<1>1. /\ mux[e] = "closing" /\ mux' = [mux EXCEPT ![e] = "waiting"]
      /\ UNCHANGED <<wire, link, avail, chunk, unread, sent, down, datab, delivered, dataBuffer,
                     localWindowUsedBuffer, registered>>
      /\ sock' = sock \/ sock' = [sock EXCEPT ![e] = "shut"]
      /\ \/ /\ remoteUnprocessedBytes' = [remoteUnprocessedBytes EXCEPT ![e] = 0]
            /\ remoteUnprocessedFinished' = [remoteUnprocessedFinished EXCEPT ![e] = TRUE]
            /\ up' = [up EXCEPT ![e] = IF @ = "asleep" THEN "window" ELSE @]
         \/ UNCHANGED <<remoteUnprocessedBytes, remoteUnprocessedFinished, up>>
    BY DEF CloseEveryLine, ResetRemoteAvailableBytes, WakeUp, Shutdown, downVars, heapVars, creditVars
<1>2. 0 \in 0 .. Window /\ Window \in Nat /\ SendBuf \in Nat /\ SendBuf <= Window
    BY MuxLineAssumption
<1>3. TypeOK'
  <2>1. sock' \in [Ends -> {"open", "shut"}]
    BY <1>1 DEF TypeOK
  <2>2. mux' \in [Ends -> {"running", "closing", "waiting", "stopped"}]
    BY <1>1 DEF TypeOK
  <2>3. /\ remoteUnprocessedBytes' \in [Ends -> 0 .. Window]
        /\ remoteUnprocessedFinished' \in [Ends -> BOOLEAN]
    <3>1. CASE UNCHANGED <<remoteUnprocessedBytes, remoteUnprocessedFinished>>
      BY <3>1 DEF TypeOK
    <3>2. CASE /\ remoteUnprocessedBytes' = [remoteUnprocessedBytes EXCEPT ![e] = 0]
               /\ remoteUnprocessedFinished' = [remoteUnprocessedFinished EXCEPT ![e] = TRUE]
      BY <1>2, <3>2 DEF TypeOK
    <3> QED
      BY <1>1, <3>1, <3>2
  <2>4. up' \in [Ends -> {"starting", "window", "asleep", "reading", "sending",
                           "counting", "joining", "terminating", "removing",
                           "destroying", "ended"}]
    <3>1. CASE UNCHANGED up
      BY <3>1 DEF TypeOK
    <3>2. CASE up' = [up EXCEPT ![e] = IF @ = "asleep" THEN "window" ELSE @]
      <4>1. \A f \in Ends : up'[f] = up[f] \/ up'[f] = "window"
        BY <3>2 DEF TypeOK
      <4> QED
        BY <3>2, <4>1 DEF TypeOK
    <3> QED
      BY <1>1, <3>1, <3>2
  <2> QED
    BY <1>1, <2>1, <2>2, <2>3, <2>4 DEF TypeOK
<1>4. \A f \in Ends : /\ up'[f] = up[f] \/ (up[f] = "asleep" /\ up'[f] = "window")
                      /\ sock[f] = "shut" => sock'[f] = "shut"
    BY <1>1 DEF TypeOK
<1>5. Kinds' /\ Phases'
  <2>1. \A f \in Ends : remoteUnprocessedFinished'[f] => mux'[f] # "running"
    BY <1>1 DEF TypeOK, Phases
  <2> QED
    BY <1>1, <1>4, <2>1 DEF Kinds, Phases
<1>6. Credit'
  <2>1. \A f \in Ends : OnTheWay(f)' = OnTheWay(f)
    BY <1>1, SameOnTheWay
  <2>2. \A f \in Ends : Counting(f)' = Counting(f)
    BY <1>1, <1>4 DEF Counting
  <2>3. \A f \in Ends : chunk[f] \in 0 .. SendBuf /\ avail[f] \in 0 .. SendBuf
    BY DEF TypeOK
  <2>4. \A f \in Ends : \/ /\ remoteUnprocessedBytes'[f] = 0 /\ remoteUnprocessedFinished'[f]
                        \/ /\ remoteUnprocessedBytes'[f] = remoteUnprocessedBytes[f]
                           /\ remoteUnprocessedFinished'[f] = remoteUnprocessedFinished[f]
    BY <1>1 DEF TypeOK
  <2>5. ASSUME NEW f \in Ends
        PROVE  /\ localWindowUsedBuffer'[f] = Total(dataBuffer'[f], "data")
               /\ OnTheWay(f)' <= Window
               /\ remoteUnprocessedFinished'[f] \/ OnTheWay(f)' <= remoteUnprocessedBytes'[f] + Counting(f)'
               /\ up'[f] = "reading" => remoteUnprocessedBytes'[f] + avail'[f] <= Window
               /\ up'[f] \in {"sending", "counting"} => remoteUnprocessedBytes'[f] + chunk'[f] <= Window
    <3>1. CASE remoteUnprocessedBytes'[f] = 0 /\ remoteUnprocessedFinished'[f]
      BY <1>1, <1>2, <2>1, <2>3, <3>1 DEF Credit
    <3>2. CASE /\ remoteUnprocessedBytes'[f] = remoteUnprocessedBytes[f]
               /\ remoteUnprocessedFinished'[f] = remoteUnprocessedFinished[f]
      BY <1>1, <1>4, <2>1, <2>2, <3>2 DEF Credit
    <3> QED
      BY <2>4, <3>1, <3>2
  <2> QED
    BY <2>5 DEF Credit
<1> QED
    BY <1>3, <1>5, <1>6

\* What a broken socket loses is not on the way any more.
LEMMA LinkBreaksCredit ==
    ASSUME TypeOK, Kinds, Phases, Credit, LinkBreaks
    PROVE  TypeOK' /\ Kinds' /\ Phases' /\ Credit'
<1>1. /\ link' = "broken" /\ wire' = [f \in Ends |-> <<>>]
      /\ UNCHANGED <<sock, up, avail, chunk, unread, sent, down, datab, delivered, dataBuffer,
                     localWindowUsedBuffer, mux, registered>>
      /\ UNCHANGED creditVars
    BY DEF LinkBreaks, upVars, downVars, heapVars, muxVars
<1>2. <<>> \in Seq(Messages)
    BY EmptySeq
<1>3. TypeOK'
    BY <1>1, <1>2 DEF TypeOK, creditVars
<1>4. Kinds' /\ Phases'
    BY <1>1 DEF Kinds, Phases, creditVars
<1>5. Credit'
  <2>1. ASSUME NEW f \in Ends
        PROVE  OnTheWay(f)' \in Nat /\ OnTheWay(f)' <= OnTheWay(f)
    <3>1. /\ Total(wire[Peer(f)], "data") \in Nat /\ Total(wire'[Peer(f)], "data") = 0
          /\ Total(wire[f], "bytesreaden") \in Nat /\ Total(wire'[f], "bytesreaden") = 0
          /\ Total(dataBuffer[Peer(f)], "data") \in Nat
          /\ Unreported(Peer(f)) \in Nat
      <4>1. wire'[f] = <<>> /\ wire'[Peer(f)] = <<>> /\ Peer(f) \in Ends
        BY <1>1, PeerFacts
      <4> QED
        BY <4>1, TotalEmpty, Numbers DEF Unreported
    <3>2. /\ OnTheWay(f) = Total(wire[Peer(f)], "data") + Total(dataBuffer[Peer(f)], "data")
                              + Unreported(Peer(f)) + Total(wire[f], "bytesreaden")
          /\ OnTheWay(f)' = Total(wire'[Peer(f)], "data") + Total(dataBuffer[Peer(f)], "data")
                              + Unreported(Peer(f)) + Total(wire'[f], "bytesreaden")
      BY <1>1 DEF OnTheWay, Unreported
    <3> QED
      BY <3>1, <3>2
  <2>2. \A f \in Ends : localWindowUsedBuffer'[f] = Total(dataBuffer'[f], "data")
    BY <1>1 DEF Credit
  <2> QED
    BY <1>1, <2>1, <2>2, CreditKept
<1> QED
    BY <1>3, <1>4, <1>5

-----------------------------------------------------------------------------

\* A line that has not begun satisfies the invariant.
LEMMA InitIInv == Init => IInv
<1> SUFFICES ASSUME Init PROVE IInv
    OBVIOUS
<1> USE DEF Init
<1>1. \A f \in Ends : Peer(f) \in Ends
    BY PeerFacts
<1>2. \A f \in Ends : unread[f] \in Bytes /\ unread[f] \in Nat
  <2>1. unread \in Inputs /\ unread \in [Ends -> Nat]
    BY MuxLineAssumption
  <2> SUFFICES ASSUME NEW f \in Ends PROVE unread[f] \in Bytes
    BY <2>1
  <2>2. unread[f] \in 0 .. unread[f]
    BY <2>1
  <2> QED
    BY <2>1, <2>2 DEF Bytes
<1>3. 0 \in Bytes
  <2>1. L \in Ends
    BY DEF Ends
  <2> QED
    BY <1>2, <2>1, BytesShape
<1>4. 0 \in 0 .. SendBuf /\ 0 \in 0 .. Window /\ Window \in Nat
    BY MuxLineAssumption
<1>5. Termination \in Messages /\ Termination.type = "data"
    BY <1>3, <1>4 DEF Termination, Data, Messages
<1>6. <<>> \in Seq(Messages) /\ DOMAIN <<>> = {}
    BY EmptySeq
<1>7. TypeOK
  <2>1. unread \in [Ends -> Bytes]
    BY <1>2, MuxLineAssumption
  <2> QED
    BY <1>3, <1>4, <1>5, <1>6, <2>1 DEF TypeOK
<1>8. Kinds
  <2>1. \A f \in Ends : sent[f] + unread[f] + 0 = unread[f]
    BY <1>2
  <2> QED
    BY <1>2, <1>5, <1>6, <2>1 DEF Kinds
<1>9. Phases
    BY DEF Phases
<1>10. Credit
  <2>1. \A f \in Ends : OnTheWay(f) = 0 /\ localWindowUsedBuffer[f] = Total(dataBuffer[f], "data")
    BY <1>1, TotalEmpty DEF OnTheWay
  <2> QED
    BY <1>4, <2>1 DEF Credit, Counting
<1>11. \A f \in Ends, m \in Messages : ~Holds(f, m) /\ ~Queued(f, m) /\ ~Flying(f, m) /\ ~Unwritten(f, m)
    BY <1>6 DEF Holds, Queued, Flying, InHand, Among, Unwritten
<1>12. Sorted
    BY <1>6, <1>11 DEF Sorted, Ascending, InHand
<1>13. Chained
    BY <1>1, <1>11 DEF Chained
<1> QED
    BY <1>7, <1>8, <1>9, <1>10, <1>12, <1>13 DEF IInv

\* The steps that move no data keep the order of the bytes.
LEMMA ControlOrder ==
    ASSUME TypeOK, Phases, Sorted, Chained, NEW e \in Ends,
           \/ StartLine(e) \/ GetRemoteAvailableBytes(e) \/ PartialRead(e) \/ CountUnprocessed(e)
           \/ StopReading(e) \/ JoinProcessLineThread(e) \/ SendTermination(e) \/ RemoveLine(e)
           \/ SendReadenBytes(e) \/ CloseLocalSocket(e)
           \/ StopMux(e) \/ CloseEveryLine(e) \/ WaitForEveryLine(e) \/ LocalSocketCloses(e)
    PROVE  Sorted' /\ Chained'
<1>1. Peer(e) \in Ends /\ \A f \in Ends : f = e \/ f = Peer(e)
    BY PeerFacts
<1>2. /\ Termination \in Messages /\ ~IsData(Termination)
      /\ Readen(datab[e].len) \in Messages /\ ~IsData(Readen(datab[e].len))
    BY MessageTypes, Numbers
<1>3. UNCHANGED <<datab, delivered>>
    BY DEF StartLine, GetRemoteAvailableBytes, PartialRead, CountUnprocessed, StopReading,
           JoinProcessLineThread, SendTermination, RemoveLine, SendReadenBytes, CloseLocalSocket,
           StopMux, CloseEveryLine, WaitForEveryLine, LocalSocketCloses, upVars, downVars, heapVars
<1>4. UNCHANGED <<sent, link>>
    BY DEF StartLine, GetRemoteAvailableBytes, PartialRead, CountUnprocessed, StopReading,
           JoinProcessLineThread, SendTermination, RemoveLine, SendReadenBytes, CloseLocalSocket,
           StopMux, CloseEveryLine, WaitForEveryLine, LocalSocketCloses, upVars, downVars, heapVars
<1>5. \A f \in Ends : InHand(f)' = InHand(f)
    BY DEF StartLine, GetRemoteAvailableBytes, PartialRead, CountUnprocessed, StopReading,
           JoinProcessLineThread, SendTermination, RemoveLine, SendReadenBytes, CloseLocalSocket,
           StopMux, CloseEveryLine, WaitForEveryLine, LocalSocketCloses, AddBufferElement,
           upVars, downVars, heapVars, InHand, TypeOK, Phases
<1>6. \A f \in Ends : sock'[f] = "open" => sock[f] = "open"
    BY DEF StartLine, GetRemoteAvailableBytes, PartialRead, CountUnprocessed, StopReading,
           JoinProcessLineThread, SendTermination, RemoveLine, SendReadenBytes, CloseLocalSocket,
           StopMux, CloseEveryLine, WaitForEveryLine, LocalSocketCloses, Shutdown, TypeOK
<1>7. \A f \in Ends : \/ wire'[f] = wire[f]
                      \/ \E m \in Messages : ~IsData(m) /\ wire'[f] = Append(wire[f], m)
  <2>1. CASE Send(e, Termination) \/ Send(e, Readen(datab[e].len))
    <3>1. PICK m \in Messages : ~IsData(m) /\ Send(e, m)
      BY <1>2, <2>1
    <3>2. /\ wire'[e] = wire[e]
          /\ wire'[Peer(e)] = wire[Peer(e)] \/ wire'[Peer(e)] = Append(wire[Peer(e)], m)
      BY <3>1, SendEffect
    <3> QED
      BY <1>1, <3>1, <3>2
  <2>2. CASE UNCHANGED wire
    BY <2>2
  <2> QED
    BY <2>1, <2>2
    DEF StartLine, GetRemoteAvailableBytes, PartialRead, CountUnprocessed, StopReading, SendFails,
        JoinProcessLineThread, SendTermination, RemoveLine, SendReadenBytes, CloseLocalSocket,
        StopMux, CloseEveryLine, WaitForEveryLine, LocalSocketCloses
<1>8. \A f \in Ends : \/ dataBuffer'[f] = dataBuffer[f]
                      \/ \E m \in Messages : ~IsData(m) /\ dataBuffer'[f] = Append(dataBuffer[f], m)
  <2>1. CASE StopReading(e)
    BY <1>2, <2>1 DEF StopReading, AddBufferElement, PushBack, TypeOK
  <2>2. CASE UNCHANGED dataBuffer
    BY <2>2
  <2> QED
    BY <2>1, <2>2
    DEF StartLine, GetRemoteAvailableBytes, PartialRead, CountUnprocessed,
        JoinProcessLineThread, SendTermination, RemoveLine, SendReadenBytes, CloseLocalSocket,
        StopMux, CloseEveryLine, WaitForEveryLine, LocalSocketCloses, heapVars
<1> QED
    BY <1>3, <1>4, <1>5, <1>6, <1>7, <1>8, QuietOrder

\* Every step of the line keeps the invariant.
LEMMA NextIInv ==
    ASSUME IInv, [Next]_vars
    PROVE  IInv'
<1> USE DEF IInv
<1>1. CASE UNCHANGED vars
  <2>1. UNCHANGED <<wire, link, sock, up, avail, chunk, unread, sent, down, datab, delivered, dataBuffer,
                    localWindowUsedBuffer, remoteUnprocessedBytes, remoteUnprocessedFinished, mux, registered>>
    BY <1>1 DEF vars, upVars, downVars, heapVars, creditVars, muxVars
  <2>2. TypeOK' /\ Kinds' /\ Phases'
    BY <2>1 DEF TypeOK, Kinds, Phases
  <2>3. Credit'
    BY <2>1 DEF Credit, OnTheWay, Counting
  <2>4. Sorted' /\ Chained'
    BY <2>1 DEF Sorted, Chained, Unwritten, Holds, Queued, Flying, InHand
  <2> QED
    BY <2>2, <2>3, <2>4
<1>2. ASSUME NEW e \in Ends, UpStep(e)
      PROVE  IInv'
  <2>1. CASE StartLine(e) \/ JoinProcessLineThread(e) \/ RemoveLine(e)
    BY <2>1, ControlCredit, ControlOrder
  <2>2. CASE GetRemoteAvailableBytes(e) \/ PartialRead(e)
    BY <2>2, ReadingCredit, ControlOrder
  <2>3. CASE SendLineData(e)
    BY <2>3, SendLineDataCredit, SendLineDataOrder
  <2>4. CASE CountUnprocessed(e)
    BY <2>4, CountUnprocessedCredit, ControlOrder
  <2>5. CASE StopReading(e)
    BY <2>5, StopReadingCredit, ControlOrder
  <2>6. CASE SendTermination(e)
    BY <2>6, SendTerminationCredit, ControlOrder
  <2>7. CASE DestroyLine(e)
    BY <2>7, DestroyLineCredit, DestroyLineOrder
  <2> QED
    BY <1>2, <2>1, <2>2, <2>3, <2>4, <2>5, <2>6, <2>7 DEF UpStep
<1>3. ASSUME NEW e \in Ends, DownStep(e)
      PROVE  IInv'
  <2>1. CASE GetBufferElement(e)
    BY <2>1, GetBufferElementCredit, GetBufferElementOrder
  <2>2. CASE SendReadenBytes(e)
    BY <2>2, SendReadenBytesCredit, ControlOrder
  <2>3. CASE WriteBlock(e)
    BY <2>3, WriteBlockCredit, WriteBlockOrder
  <2>4. CASE CloseLocalSocket(e)
    BY <2>4, ControlCredit, ControlOrder
  <2> QED
    BY <1>3, <2>1, <2>2, <2>3, <2>4 DEF DownStep
<1>4. ASSUME NEW e \in Ends, MuxStep(e)
      PROVE  IInv'
  <2>1. CASE ReceiveLineData(e)
    BY <2>1, ReceiveLineDataCredit, ReceiveLineDataOrder
  <2>2. CASE ReceiveReadenBytes(e)
    BY <2>2, ReceiveReadenBytesCredit, ReceiveReadenBytesOrder
  <2>3. CASE StopMux(e) \/ WaitForEveryLine(e)
    BY <2>3, ControlCredit, ControlOrder
  <2>4. CASE CloseEveryLine(e)
    BY <2>4, CloseEveryLineCredit, ControlOrder
  <2> QED
    BY <1>4, <2>1, <2>2, <2>3, <2>4 DEF MuxStep
<1>5. ASSUME NEW e \in Ends, LocalSocketCloses(e)
      PROVE  IInv'
    BY <1>5, ControlCredit, ControlOrder
<1>6. CASE LinkBreaks
    BY <1>6, LinkBreaksCredit, LinkBreaksOrder
<1> QED
    BY <1>1, <1>2, <1>3, <1>4, <1>5, <1>6 DEF Next

-----------------------------------------------------------------------------

\* The inductive invariant holds in every reachable state of a line.
THEOREM Invariance == SafeSpec => []IInv
BY InitIInv, NextIInv, PTL DEF SafeSpec

\* The bytes a line has in flight never exceed what their sender counts, and the heap of the
\* receiver has room for all of them, so the thread of the multiplexed socket does not wait for
\* one line (processLine, addProcessedBytes, addBufferElement).
THEOREM Safety == SafeSpec => []Safe
<1>1. IInv => Safe
  <2> SUFFICES ASSUME IInv PROVE Safe
    OBVIOUS
  <2>1. WindowNotOverstated
    BY DEF IInv, Credit, Counting, WindowNotOverstated
  <2>2. MuxNeverBlocked
    <3> SUFFICES ASSUME NEW e \in Ends
                 PROVE  localWindowUsedBuffer[e] <= Window
      BY DEF IInv, Credit, MuxNeverBlocked
    <3>1. /\ Peer(e) \in Ends /\ Peer(Peer(e)) = e
          /\ localWindowUsedBuffer[e] = Total(dataBuffer[e], "data")
          /\ OnTheWay(Peer(e)) <= Window
      BY PeerFacts DEF IInv, Credit
    <3>2. /\ Total(wire[e], "data") \in Nat /\ Total(dataBuffer[e], "data") \in Nat
          /\ Total(wire[Peer(e)], "bytesreaden") \in Nat
          /\ Unreported(e) \in Nat
      BY <3>1, Numbers DEF IInv, Unreported
    <3>3. OnTheWay(Peer(e)) = Total(wire[e], "data") + Total(dataBuffer[e], "data")
                                + Unreported(e) + Total(wire[Peer(e)], "bytesreaden")
      BY <3>1 DEF OnTheWay, Unreported
    <3>4. Window \in Nat
      BY MuxLineAssumption
    <3> QED
      BY <3>1, <3>2, <3>3, <3>4
  <2> QED
    BY <2>1, <2>2 DEF IInv, Safe
<1> QED
    BY <1>1, Invariance, PTL

\* An end writes to its local socket the bytes that the other end read from its own, in order and
\* without a gap (processLine, addBufferElement, processLineThread).
THEOREM BytesInOrder == SafeSpec => []InOrder
<1>1. IInv => InOrder
    BY HandIsNext DEF IInv, InOrder, InHand, Chained
<1> QED
    BY <1>1, Invariance, PTL
=============================================================================
