-------------------------- MODULE RpcServerProofs --------------------------
(***************************************************************************)
(* Proofs about RpcServer for any connections, workers, users, attributes, *)
(* messages and limits: the lines of two answers never mix and each answer *)
(* is there once, what runs had permission to, and no request to execute   *)
(* is forgotten.                                                           *)
(*                                                                         *)
(* LinesTogether is not inductive: who writes a last line must be who      *)
(* wrote the first one, and with the same answer, so mutex_send belongs to *)
(* whoever is between the two (Senders), and an answer is half written     *)
(* exactly while somebody has it (HalfWritten): IInv.                      *)
(*                                                                         *)
(* The rest follows a request from the client to its answer. free[c] is    *)
(* the request of c that is being read or acted on: a state has such       *)
(* counts, which the invariant says there are. The lines on their way are  *)
(* those of the messages from there on, and the parser holds what it has   *)
(* read of that one (Requests). A task is of an earlier request and is in  *)
(* one place, a request is answered once (Tracked), all that may run has a *)
(* permit (Permits), and an earlier request to execute is in the pool or   *)
(* answered (Accounted). Ledger is that, and LInv, with IInv, is           *)
(* inductive.                                                              *)
(***************************************************************************)
EXTENDS RpcServer, TLAPS, FiniteSetTheorems, SequenceTheorems

Conn(w) == worker[w].task.conn

IsASequence(s) == \E S : s \in Seq(S)

\* What the functions are defined on, and the records have.
Shapes ==
    /\ DOMAIN reader = Conns /\ DOMAIN sender = Conns /\ DOMAIN out = Conns
    /\ DOMAIN parser = Conns /\ DOMAIN session = Conns /\ DOMAIN worker = Workers
    /\ \A c \in Conns : IsASequence(out[c])
    /\ \A c \in Conns : reader[c].at \in {"sending", "sending last"} =>
          {"at", "answer", "minds"} \subseteq DOMAIN reader[c]
    /\ \A t \in tasks : t.conn \in Conns
    /\ \A w \in Workers : worker[w].at # "idle" =>
          {"at", "task"} \subseteq DOMAIN worker[w] /\ Conn(w) \in Conns
    /\ \A w \in Workers : worker[w].at \in {"sending", "sending last"} => "answer" \in DOMAIN worker[w]

\* A thread is between the two lines of an answer to c.
ReaderBetween(c) == reader[c].at = "sending last"
WorkerBetween(w, c) == worker[w].at = "sending last" /\ Conn(w) = c

\* mutex_send is held by the one thread that has written the first line of an answer and not the
\* last one.
Senders ==
    \A c \in Conns :
        /\ sender[c] \in Workers \cup {c, None}
        /\ sender[c] = c <=> ReaderBetween(c)
        /\ \A w \in Workers : sender[c] = w <=> WorkerBetween(w, c)

Held(c) == IF sender[c] = c THEN reader[c].answer ELSE worker[sender[c]].answer

\* To a client that is there, an answer is half written while somebody holds mutex_send.
HalfWritten ==
    \A c \in Conns \ gone :
        /\ sender[c] = None => Len(out[c]) % 2 = 0
        /\ sender[c] # None => Len(out[c]) % 2 = 1 /\ out[c][Len(out[c])].answer = Held(c)

IInv == Shapes /\ Senders /\ LinesTogether /\ HalfWritten

-----------------------------------------------------------------------------

\* One line more.
LEMMA AppendLine ==
    ASSUME NEW S, NEW s \in Seq(S), NEW x
    PROVE  /\ \E T : Append(s, x) \in Seq(T)
           /\ Len(s) \in Nat /\ Len(Append(s, x)) = Len(s) + 1
           /\ DOMAIN s = 1 .. Len(s) /\ DOMAIN Append(s, x) = DOMAIN s \cup {Len(s) + 1}
           /\ \A i \in DOMAIN s : Append(s, x)[i] = s[i]
           /\ Append(s, x)[Len(s) + 1] = x
<1> DEFINE T == S \cup {x}
<1>1. s \in Seq(T) /\ x \in T
  <2>1. \A i \in 1 .. Len(s) : s[i] \in T
    OBVIOUS
  <2>2. s = [i \in 1 .. Len(s) |-> s[i]] /\ Len(s) \in Nat
    OBVIOUS
  <2>3. s \in [1 .. Len(s) -> T]
    BY <2>1, <2>2
  <2> QED
    BY <2>2, <2>3
<1> HIDE DEF T
<1>2. Append(s, x) \in Seq(T)
    BY <1>1
<1>3. Len(s) \in Nat /\ Len(Append(s, x)) = Len(s) + 1 /\ DOMAIN s = 1 .. Len(s)
    BY <1>1
<1>4. DOMAIN Append(s, x) = 1 .. Len(s) + 1
    BY <1>2, <1>3
<1>5. \A i \in 1 .. Len(s) : Append(s, x)[i] = s[i]
    BY <1>1
<1>6. Append(s, x)[Len(s) + 1] = x
    BY <1>1
<1> QED
    BY <1>2, <1>3, <1>4, <1>5, <1>6

\* What a thread has that answers, or has a task.
LEMMA ThreadShapes ==
    ASSUME Shapes
    PROVE  /\ \A c \in Conns : reader[c].at \in {"sending", "sending last"} =>
                 {"at", "answer", "minds"} \subseteq DOMAIN reader[c]
           /\ \A w \in Workers : worker[w].at # "idle" => {"at", "task"} \subseteq DOMAIN worker[w]
           /\ \A w \in Workers : worker[w].at # "idle" => Conn(w) \in Conns
           /\ \A w \in Workers : worker[w].at \in {"sending", "sending last"} => "answer" \in DOMAIN worker[w]
BY DEF Shapes

\* The threads are told apart.
LEMMA Apart ==
    ASSUME RpcServerAssumption
    PROVE  None \notin Workers /\ None \notin Conns /\ \A c \in Conns : c \notin Workers
BY DEF RpcServerAssumption

\* A line more makes even odd.
LEMMA Parity ==
    ASSUME NEW n \in Nat
    PROVE  /\ n % 2 = 0 <=> (n + 1) % 2 = 1
           /\ n % 2 = 1 <=> (n + 1) % 2 = 0
           /\ n % 2 \in {0, 1}
OBVIOUS

\* The first line of an answer starts a pair.
LEMMA FirstLine ==
    ASSUME RpcServerAssumption, Shapes, LinesTogether, HalfWritten, NEW c \in Conns, NEW t, NEW answer,
           SendFirst(t, c, answer)
    PROVE  /\ DOMAIN out' = Conns /\ DOMAIN sender' = Conns
           /\ \A d \in Conns \ {c} : out'[d] = out[d] /\ sender'[d] = sender[d]
           /\ sender[c] = None /\ sender'[c] = t
           /\ IsASequence(out'[c])
           /\ LinesTogether'
           /\ c \notin gone => Len(out'[c]) % 2 = 1 /\ out'[c][Len(out'[c])].answer = answer
<1> DEFINE s == out[c]
           x == [answer |-> answer, part |-> "first"]
<1>1. PICK S : s \in Seq(S)
    BY DEF Shapes, IsASequence
<1>2. /\ \E T : Append(s, x) \in Seq(T)
      /\ Len(s) \in Nat /\ Len(Append(s, x)) = Len(s) + 1
      /\ DOMAIN s = 1 .. Len(s) /\ DOMAIN Append(s, x) = DOMAIN s \cup {Len(s) + 1}
      /\ \A i \in DOMAIN s : Append(s, x)[i] = s[i]
      /\ Append(s, x)[Len(s) + 1] = x
    BY <1>1, AppendLine
<1>3. /\ out' = [out EXCEPT ![c] = Written(c, answer, "first")]
      /\ sender' = [sender EXCEPT ![c] = t] /\ sender[c] = None
    BY DEF SendFirst
<1>4. /\ DOMAIN out' = Conns /\ DOMAIN sender' = Conns
      /\ \A d \in Conns \ {c} : out'[d] = out[d] /\ sender'[d] = sender[d]
      /\ sender'[c] = t
      /\ out'[c] = IF c \in gone THEN s ELSE Append(s, x)
    BY <1>3 DEF Shapes, Written
<1>5. c \notin gone => Len(s) % 2 = 0
    BY <1>3 DEF HalfWritten
<1> HIDE DEF s
<1>p. Len(s) + 1 \notin DOMAIN s /\ (Len(s) % 2 = 0 <=> (Len(s) + 1) % 2 = 1)
  <2>1. Len(s) \in Nat /\ DOMAIN s = 1 .. Len(s)
    BY <1>2
  <2> QED
    BY <2>1, Parity
<1>6. c \notin gone => (Len(s) + 1) % 2 = 1 /\ Len(s) + 1 \notin DOMAIN s
    BY <1>5, <1>p
<1>7. ASSUME NEW i \in DOMAIN out'[c]
      PROVE  /\ (out'[c][i].part = "last") <=> (i % 2 = 0)
             /\ i % 2 = 0 => out'[c][i].answer = out'[c][i - 1].answer
  <2>0. \A j \in DOMAIN s :
            ((s[j].part = "last") <=> (j % 2 = 0)) /\ (j % 2 = 0 => s[j].answer = s[j - 1].answer)
    BY DEF LinesTogether, s
  <2>1. CASE c \in gone
    BY <2>0, <2>1, <1>4
  <2>2. CASE c \notin gone /\ i \in DOMAIN s
    <3>1. i % 2 = 0 => i - 1 \in DOMAIN s
      BY <2>2, <1>2
    <3> QED
      BY <2>0, <2>2, <3>1, <1>2, <1>4
  <2>3. CASE c \notin gone /\ i = Len(s) + 1
    <3>1. out'[c][i] = x /\ i % 2 = 1
      BY <2>3, <1>2, <1>4, <1>6
    <3> QED
      BY <3>1
  <2> QED
    BY <2>1, <2>2, <2>3, <1>2, <1>4
<1>8. LinesTogether'
  <2>1. \A d \in Conns \ {c} : \A i \in DOMAIN out'[d] :
            /\ (out'[d][i].part = "last") <=> (i % 2 = 0)
            /\ i % 2 = 0 => out'[d][i].answer = out'[d][i - 1].answer
    BY <1>4 DEF LinesTogether
  <2> QED
    BY <1>7, <2>1 DEF LinesTogether
<1>9. c \notin gone => Len(out'[c]) % 2 = 1 /\ out'[c][Len(out'[c])].answer = answer
    BY <1>2, <1>4, <1>6
<1>10. IsASequence(out'[c])
    BY <1>1, <1>2, <1>4 DEF IsASequence
<1> QED
    BY <1>3, <1>4, <1>8, <1>9, <1>10

\* The last line closes it, when it is of the answer that was half written.
LEMMA LastLine ==
    ASSUME RpcServerAssumption, Shapes, LinesTogether, NEW c \in Conns, NEW t, NEW answer,
           SendLast(t, c, answer),
           c \notin gone => Len(out[c]) % 2 = 1 /\ out[c][Len(out[c])].answer = answer
    PROVE  /\ DOMAIN out' = Conns /\ DOMAIN sender' = Conns
           /\ \A d \in Conns \ {c} : out'[d] = out[d] /\ sender'[d] = sender[d]
           /\ sender'[c] = None
           /\ IsASequence(out'[c])
           /\ LinesTogether'
           /\ c \notin gone => Len(out'[c]) % 2 = 0
<1> DEFINE s == out[c]
           x == [answer |-> answer, part |-> "last"]
<1>1. PICK S : s \in Seq(S)
    BY DEF Shapes, IsASequence
<1>2. /\ \E T : Append(s, x) \in Seq(T)
      /\ Len(s) \in Nat /\ Len(Append(s, x)) = Len(s) + 1
      /\ DOMAIN s = 1 .. Len(s) /\ DOMAIN Append(s, x) = DOMAIN s \cup {Len(s) + 1}
      /\ \A i \in DOMAIN s : Append(s, x)[i] = s[i]
      /\ Append(s, x)[Len(s) + 1] = x
    BY <1>1, AppendLine
<1>3. /\ out' = [out EXCEPT ![c] = Written(c, answer, "last")]
      /\ sender' = [sender EXCEPT ![c] = None]
    BY DEF SendLast
<1>4. /\ DOMAIN out' = Conns /\ DOMAIN sender' = Conns
      /\ \A d \in Conns \ {c} : out'[d] = out[d] /\ sender'[d] = sender[d]
      /\ sender'[c] = None
      /\ out'[c] = IF c \in gone THEN s ELSE Append(s, x)
    BY <1>3 DEF Shapes, Written
<1>5. c \notin gone => Len(s) % 2 = 1 /\ s[Len(s)].answer = answer
    OBVIOUS
<1> HIDE DEF s
<1>p. /\ Len(s) + 1 \notin DOMAIN s /\ (Len(s) % 2 = 1 <=> (Len(s) + 1) % 2 = 0)
      /\ Len(s) % 2 = 1 => Len(s) \in DOMAIN s
  <2>1. Len(s) \in Nat /\ DOMAIN s = 1 .. Len(s)
    BY <1>2
  <2>2. Len(s) = 0 => Len(s) % 2 # 1
    OBVIOUS
  <2> QED
    BY <2>1, <2>2, Parity
<1>6. c \notin gone => (Len(s) + 1) % 2 = 0 /\ Len(s) + 1 \notin DOMAIN s /\ Len(s) \in DOMAIN s
    BY <1>5, <1>p
<1>7. ASSUME NEW i \in DOMAIN out'[c]
      PROVE  /\ (out'[c][i].part = "last") <=> (i % 2 = 0)
             /\ i % 2 = 0 => out'[c][i].answer = out'[c][i - 1].answer
  <2>0. \A j \in DOMAIN s :
            ((s[j].part = "last") <=> (j % 2 = 0)) /\ (j % 2 = 0 => s[j].answer = s[j - 1].answer)
    BY DEF LinesTogether, s
  <2>1. CASE c \in gone
    BY <2>0, <2>1, <1>4
  <2>2. CASE c \notin gone /\ i \in DOMAIN s
    <3>1. i % 2 = 0 => i - 1 \in DOMAIN s
      BY <2>2, <1>2
    <3> QED
      BY <2>0, <2>2, <3>1, <1>2, <1>4
  <2>3. CASE c \notin gone /\ i = Len(s) + 1
    <3>1. out'[c][i] = x /\ i % 2 = 0
      BY <2>3, <1>2, <1>4, <1>6
    <3>2. i - 1 = Len(s) /\ out'[c][i - 1] = s[Len(s)]
      BY <2>3, <1>2, <1>4, <1>6
    <3> QED
      BY <2>3, <3>1, <3>2, <1>5
  <2> QED
    BY <2>1, <2>2, <2>3, <1>2, <1>4
<1>8. LinesTogether'
  <2>1. \A d \in Conns \ {c} : \A i \in DOMAIN out'[d] :
            /\ (out'[d][i].part = "last") <=> (i % 2 = 0)
            /\ i % 2 = 0 => out'[d][i].answer = out'[d][i - 1].answer
    BY <1>4 DEF LinesTogether
  <2> QED
    BY <1>7, <2>1 DEF LinesTogether
<1>9. c \notin gone => Len(out'[c]) % 2 = 0
    BY <1>2, <1>4, <1>6
<1>10. IsASequence(out'[c])
    BY <1>1, <1>2, <1>4 DEF IsASequence
<1> QED
    BY <1>4, <1>8, <1>9, <1>10

-----------------------------------------------------------------------------
(* The steps *)

\* At first nothing was sent.
LEMMA InitIInv == RpcServerAssumption /\ Init => IInv
<1> SUFFICES ASSUME RpcServerAssumption, Init PROVE IInv
    OBVIOUS
<1>1. \A c \in Conns : out[c] \in Seq({}) /\ out[c] = <<>>
    BY DEF Init
<1>2. Shapes
  <2>1. \A c \in Conns : IsASequence(out[c])
    BY <1>1 DEF IsASequence
  <2> QED
    BY <2>1 DEF Init, Shapes, Reading
<1>3. Senders
    BY DEF Init, Senders, ReaderBetween, WorkerBetween, Reading, RpcServerAssumption
<1>4. LinesTogether /\ HalfWritten
  <2>1. \A c \in Conns : DOMAIN out[c] = {} /\ Len(out[c]) = 0 /\ sender[c] = None
    BY <1>1 DEF Init
  <2>2. 0 % 2 = 0
    OBVIOUS
  <2> QED
    BY <2>1, <2>2 DEF LinesTogether, HalfWritten
<1> QED
    BY <1>2, <1>3, <1>4 DEF IInv

\* A step that writes nothing, and in which nobody comes to hold mutex_send or lets it go.
LEMMA QuietStep ==
    ASSUME RpcServerAssumption, Senders, LinesTogether, HalfWritten,
           out' = out, sender' = sender, gone \subseteq gone',
           \A c \in Conns : reader[c].at = "sending last" => reader'[c] = reader[c],
           \A c \in Conns : reader'[c].at = "sending last" => reader[c].at = "sending last",
           \A w \in Workers : worker[w].at = "sending last" => worker'[w] = worker[w],
           \A w \in Workers : worker'[w].at = "sending last" => worker[w].at = "sending last"
    PROVE  Senders' /\ LinesTogether' /\ HalfWritten'
<1>1. LinesTogether'
    BY DEF LinesTogether
<1>2. Senders'
  <2>1. \A c \in Conns : ReaderBetween(c)' <=> ReaderBetween(c)
    BY DEF ReaderBetween
  <2>2. ASSUME NEW c \in Conns, NEW w \in Workers PROVE WorkerBetween(w, c)' <=> WorkerBetween(w, c)
    <3>1. worker[w].at = "sending last" => Conn(w)' = Conn(w)
      BY DEF Conn
    <3>2. worker[w].at = "sending last" <=> worker'[w].at = "sending last"
      OBVIOUS
    <3> QED
      BY <3>1, <3>2 DEF WorkerBetween
  <2> QED
    BY <2>1, <2>2 DEF Senders
<1>3. HalfWritten'
  <2> SUFFICES ASSUME NEW c \in Conns \ gone, sender[c] # None PROVE Held(c)' = Held(c)
    BY DEF HalfWritten
  <2>1. CASE sender[c] = c
    <3>1. reader[c].at = "sending last"
      BY <2>1 DEF Senders, ReaderBetween
    <3> QED
      BY <2>1, <3>1 DEF Held
  <2>2. CASE sender[c] # c
    <3>1. sender[c] \in Workers
      BY <2>2 DEF Senders
    <3>2. WorkerBetween(sender[c], c)
      BY <3>1 DEF Senders
    <3>3. worker[sender[c]].at = "sending last"
      BY <3>2 DEF WorkerBetween
    <3> QED
      BY <2>2, <3>1, <3>3 DEF Held
  <2> QED
    BY <2>1, <2>2
<1> QED
    BY <1>1, <1>2, <1>3

\* The thread of a connection while it reads, decides and pushes.
LEMMA ReaderStep ==
    ASSUME RpcServerAssumption, IInv, NEW c \in Conns,
           ReadLine(c) \/ ReadEnd(c) \/ ProcessRequest(c) \/ PushTask(c)
    PROVE  IInv'
<1> USE DEF IInv
<1>1. reader[c].at \in {"reading", "processing", "pushing"}
    BY DEF ReadLine, ReadEnd, ProcessRequest, PushTask
<1>2. UNCHANGED <<gone, sender, out, worker>>
    BY DEF ReadLine, ReadEnd, ProcessRequest, PushTask, ioVars
<1>3. \E r : /\ reader' = [reader EXCEPT ![c] = r] \/ reader' = reader
             /\ r.at # "sending last"
             /\ r.at = "sending" => {"at", "answer", "minds"} \subseteq DOMAIN r
  <2> DEFINE Good(r) == /\ reader' = [reader EXCEPT ![c] = r] \/ reader' = reader
                        /\ r.at # "sending last"
                        /\ r.at = "sending" => {"at", "answer", "minds"} \subseteq DOMAIN r
  <2> SUFFICES \E r : Good(r)
    OBVIOUS
  <2>1. CASE UNCHANGED reader
    BY <2>1, Good([at |-> "reading"])
  <2>2. ASSUME NEW x \in {"reading", "processing", "pushing", "over"},
               reader' = [reader EXCEPT ![c] = [at |-> x]]
        PROVE  \E r : Good(r)
    BY <2>2, Good([at |-> x])
  <2>3. ASSUME NEW answer, NEW minds, ToSend(c, answer, minds) PROVE \E r : Good(r)
    BY <2>3, Good([at |-> "sending", answer |-> answer, minds |-> minds]) DEF ToSend
  <2>4. CASE ReadLine(c) \/ ReadEnd(c)
    BY <2>1, <2>2, <2>4 DEF ReadLine, ReadEnd, Parsed, End
  <2>5. CASE ProcessRequest(c)
    <3> HIDE DEF Good
    <3>1. CASE End(c)
      BY <2>2, <3>1 DEF End
    <3>2. CASE persistentAuthentication(c)
      BY <2>3, <3>2 DEF persistentAuthentication
    <3>3. CASE Continue(c)
      BY <2>2, <3>3 DEF Continue, Reading
    <3>4. CASE \E answer, minds : ToSend(c, answer, minds)
      BY <2>3, <3>4
    <3>5. CASE reader' = [reader EXCEPT ![c] = [at |-> "pushing"]]
      BY <2>2, <3>5
    <3> QED
      BY <2>5, <3>1, <3>2, <3>3, <3>4, <3>5 DEF ProcessRequest
  <2>6. CASE PushTask(c)
    BY <2>2, <2>3, <2>6 DEF PushTask, Continue, Reading
  <2> QED
    BY <2>4, <2>5, <2>6
<1>4. PICK r : /\ reader' = [reader EXCEPT ![c] = r] \/ reader' = reader
               /\ r.at # "sending last"
               /\ r.at = "sending" => {"at", "answer", "minds"} \subseteq DOMAIN r
    BY <1>3
<1>5. Senders' /\ LinesTogether' /\ HalfWritten'
  <2>1. reader'[c].at # "sending last" /\ \A d \in Conns \ {c} : reader'[d] = reader[d]
    BY <1>1, <1>4 DEF Shapes
  <2>2. \A d \in Conns : reader[d].at = "sending last" => reader'[d] = reader[d]
    BY <2>1, <1>1
  <2>3. \A d \in Conns : reader'[d].at = "sending last" => reader[d].at = "sending last"
    BY <2>1
  <2> QED
    BY <1>2, <2>2, <2>3, QuietStep
<1>6. /\ DOMAIN reader' = Conns /\ DOMAIN parser' = Conns /\ DOMAIN session' = Conns
      /\ \A t \in tasks' : t.conn \in Conns
  <2>1. DOMAIN reader' = Conns
    BY <1>4 DEF Shapes
  <2>2. DOMAIN parser' = Conns
    BY DEF ReadLine, ReadEnd, ProcessRequest, PushTask, Parsed, End, Continue, Shapes
  <2>3. DOMAIN session' = Conns
    BY DEF ReadLine, ReadEnd, ProcessRequest, PushTask, persistentAuthentication, authenticate, Shapes
  <2>4. \A t \in tasks' : t.conn \in Conns
    <3>1. Task(c).conn = c
      BY DEF Task
    <3>2. tasks' \subseteq tasks \cup {Task(c)}
      BY DEF ReadLine, ReadEnd, ProcessRequest, PushTask
    <3> QED
      BY <3>1, <3>2 DEF Shapes
  <2> QED
    BY <2>1, <2>2, <2>3, <2>4
<1>7. \A d \in Conns : reader'[d].at \in {"sending", "sending last"} =>
            {"at", "answer", "minds"} \subseteq DOMAIN reader'[d]
  <2>1. \A d \in Conns \ {c} : reader'[d] = reader[d]
    BY <1>4 DEF Shapes
  <2>2. reader'[c] = r \/ reader'[c] = reader[c]
    <3>1. c \in DOMAIN reader
      BY DEF Shapes
    <3> QED
      BY <1>4, <3>1
  <2>3. reader'[c].at \in {"sending", "sending last"} =>
            {"at", "answer", "minds"} \subseteq DOMAIN reader'[c]
    BY <1>1, <1>4, <2>2
  <2> QED
    BY <2>1, <2>3, ThreadShapes
<1>8. Shapes'
    BY <1>2, <1>6, <1>7 DEF Shapes, Conn
<1> QED
    BY <1>5, <1>8

\* A thread t takes mutex_send for its first line.
LEMMA TakesSender ==
    ASSUME RpcServerAssumption, Senders, NEW c \in Conns, NEW t \in Workers \cup {c},
           sender[c] = None, sender'[c] = t, \A d \in Conns \ {c} : sender'[d] = sender[d],
           \A d \in Conns : ReaderBetween(d)' <=> ReaderBetween(d) \/ (d = c /\ t = c),
           \A d \in Conns : \A w \in Workers :
              WorkerBetween(w, d)' <=> WorkerBetween(w, d) \/ (d = c /\ t = w)
    PROVE  Senders'
<1> SUFFICES ASSUME NEW d \in Conns
             PROVE  /\ sender'[d] \in Workers \cup {d, None}
                    /\ sender'[d] = d <=> ReaderBetween(d)'
                    /\ \A w \in Workers : sender'[d] = w <=> WorkerBetween(w, d)'
    BY DEF Senders
<1>1. /\ sender[d] \in Workers \cup {d, None}
      /\ sender[d] = d <=> ReaderBetween(d)
      /\ \A w \in Workers : sender[d] = w <=> WorkerBetween(w, d)
    BY DEF Senders
<1>2. None \notin Workers /\ d # None
    BY Apart
<1>3. CASE d = c
    BY <1>1, <1>2, <1>3
<1>4. CASE d # c
    BY <1>1, <1>4
<1> QED
    BY <1>3, <1>4

\* And lets it go after its last one.
LEMMA LeavesSender ==
    ASSUME RpcServerAssumption, Senders, NEW c \in Conns, NEW t \in Workers \cup {c},
           sender[c] = t, sender'[c] = None, \A d \in Conns \ {c} : sender'[d] = sender[d],
           \A d \in Conns : ReaderBetween(d)' <=> ReaderBetween(d) /\ ~(d = c /\ t = c),
           \A d \in Conns : \A w \in Workers :
              WorkerBetween(w, d)' <=> WorkerBetween(w, d) /\ ~(d = c /\ t = w)
    PROVE  Senders'
<1> SUFFICES ASSUME NEW d \in Conns
             PROVE  /\ sender'[d] \in Workers \cup {d, None}
                    /\ sender'[d] = d <=> ReaderBetween(d)'
                    /\ \A w \in Workers : sender'[d] = w <=> WorkerBetween(w, d)'
    BY DEF Senders
<1>1. /\ sender[d] \in Workers \cup {d, None}
      /\ sender[d] = d <=> ReaderBetween(d)
      /\ \A w \in Workers : sender[d] = w <=> WorkerBetween(w, d)
    BY DEF Senders
<1>2. None \notin Workers /\ d # None
    BY Apart
<1>3. CASE d = c
    BY <1>1, <1>2, <1>3
<1>4. CASE d # c
    BY <1>1, <1>4
<1> QED
    BY <1>3, <1>4

\* What the others hold stays half written.
LEMMA OthersHalfWritten ==
    ASSUME Senders, HalfWritten, NEW c \in Conns, NEW d \in Conns \ {c}, d \notin gone,
           out'[d] = out[d], sender'[d] = sender[d],
           ReaderBetween(d) => reader'[d].answer = reader[d].answer,
           \A w \in Workers : WorkerBetween(w, d) => worker'[w].answer = worker[w].answer
    PROVE  /\ sender'[d] = None => Len(out'[d]) % 2 = 0
           /\ sender'[d] # None => Len(out'[d]) % 2 = 1 /\ out'[d][Len(out'[d])].answer = Held(d)'
<1>1. /\ sender[d] = None => Len(out[d]) % 2 = 0
      /\ sender[d] # None => Len(out[d]) % 2 = 1 /\ out[d][Len(out[d])].answer = Held(d)
    BY DEF HalfWritten
<1>2. sender[d] # None => Held(d)' = Held(d)
  <2> SUFFICES ASSUME sender[d] # None PROVE Held(d)' = Held(d)
    OBVIOUS
  <2>1. CASE sender[d] = d
    <3>1. ReaderBetween(d)
      BY <2>1 DEF Senders
    <3> QED
      BY <2>1, <3>1 DEF Held
  <2>2. CASE sender[d] # d
    <3>1. sender[d] \in Workers
      BY <2>2 DEF Senders
    <3>2. WorkerBetween(sender[d], d)
      BY <3>1 DEF Senders
    <3> QED
      BY <2>2, <3>1, <3>2 DEF Held
  <2> QED
    BY <2>1, <2>2
<1> QED
    BY <1>1, <1>2

\* The thread of a connection while it sends an answer.
LEMMA ReaderSendsOne ==
    ASSUME RpcServerAssumption, IInv, NEW c \in Conns, ReaderSendsFirst(c)
    PROVE  IInv'
<1>0. Shapes /\ Senders /\ LinesTogether /\ HalfWritten
    BY DEF IInv
<1> DEFINE a == reader[c].answer
<1>1. reader' = [reader EXCEPT ![c].at = "sending last"]
    BY DEF ReaderSendsFirst
<1>2. reader[c].at = "sending" /\ SendFirst(c, c, a) /\ UNCHANGED <<gone, worker, tasks, parser, session>>
    BY DEF ReaderSendsFirst, ioVars
<1>3. DOMAIN reader' = Conns /\ \A d \in Conns \ {c} : reader'[d] = reader[d]
    BY <1>0, <1>1 DEF Shapes
<1>4. {"at", "answer", "minds"} \subseteq DOMAIN reader[c] /\ c \in DOMAIN reader
    BY <1>0, <1>2 DEF Shapes
<1>5. /\ reader'[c].at = "sending last" /\ reader'[c].answer = a
      /\ {"at", "answer", "minds"} \subseteq DOMAIN reader'[c]
  <2>1. reader'[c] = [reader[c] EXCEPT !.at = "sending last"]
    BY <1>1, <1>4
  <2> QED
    BY <1>4, <2>1
<1> HIDE DEF a
<1>6. /\ DOMAIN out' = Conns /\ DOMAIN sender' = Conns
      /\ \A d \in Conns \ {c} : out'[d] = out[d] /\ sender'[d] = sender[d]
      /\ sender[c] = None /\ sender'[c] = c
      /\ IsASequence(out'[c])
      /\ LinesTogether'
      /\ c \notin gone => Len(out'[c]) % 2 = 1 /\ out'[c][Len(out'[c])].answer = a
  <2>1. SendFirst(c, c, a)
    BY <1>2
  <2> QED
    BY <1>0, <2>1, FirstLine, ZenonT(30)
<1>7. sender[c] = None /\ sender'[c] = c /\ \A d \in Conns \ {c} : sender'[d] = sender[d]
    BY <1>6
<1>8. \A d \in Conns \ {c} : out'[d] = out[d]
    BY <1>6
<1>9. c \notin gone => Len(out'[c]) % 2 = 1 /\ out'[c][Len(out'[c])].answer = a
    BY <1>6
<1>10. Senders'
  <2>1. \A d \in Conns : ReaderBetween(d)' <=> ReaderBetween(d) \/ d = c
    BY <1>3, <1>5 DEF ReaderBetween
  <2>2. \A d \in Conns : \A w \in Workers : WorkerBetween(w, d)' <=> WorkerBetween(w, d)
    BY <1>2 DEF WorkerBetween, Conn
  <2>3. \A w \in Workers : c # w
    BY Apart
  <2> QED
    BY <1>0, <1>7, <2>1, <2>2, <2>3, TakesSender
<1>11. HalfWritten'
  <2>1. Held(c)' = a /\ c # None
    BY <1>5, <1>7, Apart DEF Held
  <2>2. UNCHANGED <<gone, worker>>
    BY <1>2
  <2>3. ASSUME NEW d \in Conns \ {c}, d \notin gone
        PROVE  /\ sender'[d] = None => Len(out'[d]) % 2 = 0
               /\ sender'[d] # None => Len(out'[d]) % 2 = 1 /\ out'[d][Len(out'[d])].answer = Held(d)'
    BY <1>0, <1>3, <1>7, <1>8, <2>2, <2>3, OthersHalfWritten
  <2> QED
    BY <1>7, <1>9, <2>1, <2>2, <2>3 DEF HalfWritten
<1>12. Shapes'
  <2>1. \A d \in Conns : IsASequence(out'[d])
    BY <1>0, <1>6 DEF Shapes
  <2>2. \A d \in Conns : reader'[d].at \in {"sending", "sending last"} =>
            {"at", "answer", "minds"} \subseteq DOMAIN reader'[d]
    BY <1>0, <1>3, <1>5, ThreadShapes
  <2>3. DOMAIN out' = Conns /\ DOMAIN sender' = Conns
    BY <1>6
  <2> QED
    BY <1>0, <1>2, <1>3, <2>1, <2>2, <2>3 DEF Shapes, Conn
<1> QED
    BY <1>6, <1>10, <1>11, <1>12 DEF IInv

\* The thread of a connection sends the last line of its answer.
LEMMA ReaderSendsOther ==
    ASSUME RpcServerAssumption, IInv, NEW c \in Conns, ReaderSendsLast(c)
    PROVE  IInv'
<1>0. Shapes /\ Senders /\ LinesTogether /\ HalfWritten
    BY DEF IInv
<1> DEFINE a == reader[c].answer
<1>1. reader[c].at = "sending last" /\ SendLast(c, c, a) /\ UNCHANGED <<gone, worker, tasks, session>>
    BY DEF ReaderSendsLast, ioVars
<1>2. /\ DOMAIN reader' = Conns /\ DOMAIN parser' = Conns
      /\ \A d \in Conns \ {c} : reader'[d] = reader[d]
      /\ reader'[c].at \in {"reading", "over"}
  <2>1. reader' = [reader EXCEPT ![c] = [at |-> "over"]] \/ reader' = [reader EXCEPT ![c] = [at |-> "reading"]]
    BY DEF ReaderSendsLast, End, Continue, Reading
  <2>2. DOMAIN parser' = DOMAIN parser
    BY DEF ReaderSendsLast, End, Continue
  <2>3. DOMAIN reader = Conns /\ DOMAIN parser = Conns
    BY <1>0 DEF Shapes
  <2>4. DOMAIN reader' = Conns /\ \A d \in Conns \ {c} : reader'[d] = reader[d]
    BY <2>1, <2>3
  <2>5. reader'[c] \in {[at |-> "over"], [at |-> "reading"]}
    BY <2>1, <2>3
  <2> QED
    BY <2>2, <2>3, <2>4, <2>5
<1>3. sender[c] = c /\ c # None
    BY <1>0, <1>1, Apart DEF Senders, ReaderBetween
<1>4. Held(c) = a
    BY <1>3 DEF Held
<1> HIDE DEF a
<1>5. c \notin gone => Len(out[c]) % 2 = 1 /\ out[c][Len(out[c])].answer = a
    BY <1>0, <1>3, <1>4 DEF HalfWritten
<1>6. /\ DOMAIN out' = Conns /\ DOMAIN sender' = Conns
      /\ \A d \in Conns \ {c} : out'[d] = out[d] /\ sender'[d] = sender[d]
      /\ sender'[c] = None
      /\ IsASequence(out'[c])
      /\ LinesTogether'
      /\ c \notin gone => Len(out'[c]) % 2 = 0
    BY <1>0, <1>1, <1>5, LastLine
<1>7. sender'[c] = None /\ \A d \in Conns \ {c} : sender'[d] = sender[d]
    BY <1>6
<1>8. \A d \in Conns \ {c} : out'[d] = out[d]
    BY <1>6
<1>9. c \notin gone => Len(out'[c]) % 2 = 0
    BY <1>6
<1>10. Senders'
  <2>1. \A d \in Conns : ReaderBetween(d)' <=> ReaderBetween(d) /\ d # c
    BY <1>2 DEF ReaderBetween
  <2>2. \A d \in Conns : \A w \in Workers : WorkerBetween(w, d)' <=> WorkerBetween(w, d)
    BY <1>1 DEF WorkerBetween, Conn
  <2>3. \A w \in Workers : c # w
    BY Apart
  <2> QED
    BY <1>0, <1>3, <1>7, <2>1, <2>2, <2>3, LeavesSender
<1>11. HalfWritten'
  <2>1. UNCHANGED <<gone, worker>>
    BY <1>1
  <2>2. ASSUME NEW d \in Conns \ {c}, d \notin gone
        PROVE  /\ sender'[d] = None => Len(out'[d]) % 2 = 0
               /\ sender'[d] # None => Len(out'[d]) % 2 = 1 /\ out'[d][Len(out'[d])].answer = Held(d)'
    BY <1>0, <1>2, <1>7, <1>8, <2>1, <2>2, OthersHalfWritten
  <2> QED
    BY <1>7, <1>9, <2>1, <2>2 DEF HalfWritten
<1>12. Shapes'
  <2>1. \A d \in Conns : IsASequence(out'[d])
    BY <1>0, <1>6 DEF Shapes
  <2>2. \A d \in Conns : reader'[d].at \in {"sending", "sending last"} =>
            {"at", "answer", "minds"} \subseteq DOMAIN reader'[d]
    BY <1>0, <1>2, ThreadShapes
  <2>3. DOMAIN out' = Conns /\ DOMAIN sender' = Conns
    BY <1>6
  <2> QED
    BY <1>0, <1>1, <1>2, <2>1, <2>2, <2>3 DEF Shapes, Conn
<1> QED
    BY <1>6, <1>10, <1>11, <1>12 DEF IInv

\* A worker while it sends an answer.
LEMMA WorkerSendsOne ==
    ASSUME RpcServerAssumption, IInv, NEW w \in Workers, WorkerSendsFirst(w)
    PROVE  IInv'
<1>0. Shapes /\ Senders /\ LinesTogether /\ HalfWritten
    BY DEF IInv
<1> DEFINE a == worker[w].answer
<1>a. PICK c \in Conns : c = Conn(w)
    BY <1>0 DEF WorkerSendsFirst, Shapes
<1>1. worker' = [worker EXCEPT ![w].at = "sending last"]
    BY DEF WorkerSendsFirst
<1>2. worker[w].at = "sending" /\ SendFirst(w, c, a) /\ UNCHANGED <<gone, reader, tasks, parser, session>>
    BY <1>a DEF WorkerSendsFirst, ioVars, Conn
<1>3. DOMAIN worker' = Workers /\ \A v \in Workers \ {w} : worker'[v] = worker[v]
    BY <1>0, <1>1 DEF Shapes
<1>4. {"at", "task", "answer"} \subseteq DOMAIN worker[w] /\ w \in DOMAIN worker
    BY <1>0, <1>2 DEF Shapes
<1>5. /\ worker'[w].at = "sending last" /\ worker'[w].answer = a /\ worker'[w].task = worker[w].task
      /\ {"at", "task", "answer"} \subseteq DOMAIN worker'[w]
  <2>1. worker'[w] = [worker[w] EXCEPT !.at = "sending last"]
    BY <1>1, <1>4
  <2> QED
    BY <1>4, <2>1
<1>6. Conn(w)' = c /\ Conn(w) = c /\ \A v \in Workers \ {w} : Conn(v)' = Conn(v)
    BY <1>a, <1>3, <1>5 DEF Conn
<1> HIDE DEF a
<1>7. /\ DOMAIN out' = Conns /\ DOMAIN sender' = Conns
      /\ \A d \in Conns \ {c} : out'[d] = out[d] /\ sender'[d] = sender[d]
      /\ sender[c] = None /\ sender'[c] = w
      /\ IsASequence(out'[c])
      /\ LinesTogether'
      /\ c \notin gone => Len(out'[c]) % 2 = 1 /\ out'[c][Len(out'[c])].answer = a
  <2>1. SendFirst(w, c, a)
    BY <1>2
  <2> QED
    BY <1>0, <2>1, FirstLine, ZenonT(30)
<1>8. sender[c] = None /\ sender'[c] = w /\ \A d \in Conns \ {c} : sender'[d] = sender[d]
    BY <1>7
<1>9. \A d \in Conns \ {c} : out'[d] = out[d]
    BY <1>7
<1>10. c \notin gone => Len(out'[c]) % 2 = 1 /\ out'[c][Len(out'[c])].answer = a
    BY <1>7
<1>11. Senders'
  <2>1. \A d \in Conns : ReaderBetween(d)' <=> ReaderBetween(d)
    BY <1>2 DEF ReaderBetween
  <2>2. \A d \in Conns : \A v \in Workers : WorkerBetween(v, d)' <=> WorkerBetween(v, d) \/ (d = c /\ w = v)
    BY <1>2, <1>3, <1>5, <1>6 DEF WorkerBetween
  <2>3. c # w
    BY Apart
  <2> QED
    BY <1>0, <1>8, <2>1, <2>2, <2>3, TakesSender
<1>12. HalfWritten'
  <2>1. Held(c)' = a /\ w # None
    <3>1. c # w /\ w # None
      BY Apart
    <3> QED
      BY <1>5, <1>8, <3>1 DEF Held
  <2>2. UNCHANGED <<gone, reader>> /\ worker[w].at = "sending"
    BY <1>2
  <2>3. ASSUME NEW d \in Conns \ {c}, d \notin gone
        PROVE  /\ sender'[d] = None => Len(out'[d]) % 2 = 0
               /\ sender'[d] # None => Len(out'[d]) % 2 = 1 /\ out'[d][Len(out'[d])].answer = Held(d)'
    <3>1. \A v \in Workers : WorkerBetween(v, d) => worker'[v].answer = worker[v].answer
      BY <1>3, <2>2 DEF WorkerBetween
    <3> QED
      BY <1>0, <1>8, <1>9, <2>2, <2>3, <3>1, OthersHalfWritten
  <2> QED
    BY <1>8, <1>10, <2>1, <2>2, <2>3 DEF HalfWritten
<1>13. Shapes'
  <2>1. \A d \in Conns : IsASequence(out'[d])
    BY <1>0, <1>7 DEF Shapes
  <2>2. /\ \A v \in Workers : worker'[v].at # "idle" => {"at", "task"} \subseteq DOMAIN worker'[v]
        /\ \A v \in Workers : worker'[v].at # "idle" => Conn(v)' \in Conns
        /\ \A v \in Workers : worker'[v].at \in {"sending", "sending last"} => "answer" \in DOMAIN worker'[v]
    <3>1. /\ \A v \in Workers \ {w} : worker'[v].at # "idle" => {"at", "task"} \subseteq DOMAIN worker'[v]
          /\ \A v \in Workers \ {w} : worker'[v].at # "idle" => Conn(v)' \in Conns
          /\ \A v \in Workers \ {w} :
                worker'[v].at \in {"sending", "sending last"} => "answer" \in DOMAIN worker'[v]
      BY <1>0, <1>3, <1>6, ThreadShapes
    <3>2. {"at", "task"} \subseteq DOMAIN worker'[w] /\ "answer" \in DOMAIN worker'[w] /\ Conn(w)' \in Conns
      BY <1>5, <1>6
    <3> QED
      BY <3>1, <3>2
  <2>3. DOMAIN out' = Conns /\ DOMAIN sender' = Conns
    BY <1>7
  <2>4. UNCHANGED <<reader, tasks, parser, session>>
    BY <1>2
  <2>6. DOMAIN worker' = Workers
    BY <1>3
  <2> QED
    BY <1>0, <2>1, <2>3, <2>2, <2>4, <2>6 DEF Shapes
<1> QED
    BY <1>7, <1>11, <1>12, <1>13 DEF IInv

\* So does a worker of the pool.
LEMMA WorkerSendsOther ==
    ASSUME RpcServerAssumption, IInv, NEW w \in Workers, WorkerSendsLast(w)
    PROVE  IInv'
<1>0. Shapes /\ Senders /\ LinesTogether /\ HalfWritten
    BY DEF IInv
<1> DEFINE a == worker[w].answer
<1>a. PICK c \in Conns : c = Conn(w)
    BY <1>0 DEF WorkerSendsLast, Shapes
<1>1. /\ worker[w].at = "sending last" /\ SendLast(w, c, a)
      /\ worker' = [worker EXCEPT ![w] = [at |-> "idle"]]
      /\ UNCHANGED <<gone, reader, tasks, parser, session>>
    BY <1>a DEF WorkerSendsLast, ioVars, Conn
<1>2. /\ DOMAIN worker' = Workers /\ worker'[w].at = "idle" /\ \A v \in Workers \ {w} : worker'[v] = worker[v]
    BY <1>0, <1>1 DEF Shapes
<1>3. Conn(w) = c /\ \A v \in Workers \ {w} : Conn(v)' = Conn(v)
    BY <1>a, <1>2 DEF Conn
<1>4. sender[c] = w
  <2>1. WorkerBetween(w, c)
    BY <1>1, <1>3 DEF WorkerBetween
  <2> QED
    BY <1>0, <2>1 DEF Senders
<1>5. c # w /\ w # None
    BY Apart
<1>6. Held(c) = a
    BY <1>4, <1>5 DEF Held
<1> HIDE DEF a
<1>7. c \notin gone => Len(out[c]) % 2 = 1 /\ out[c][Len(out[c])].answer = a
    BY <1>0, <1>3, <1>4, <1>5, <1>6 DEF HalfWritten
<1>8. /\ DOMAIN out' = Conns /\ DOMAIN sender' = Conns
      /\ \A d \in Conns \ {c} : out'[d] = out[d] /\ sender'[d] = sender[d]
      /\ sender'[c] = None
      /\ IsASequence(out'[c])
      /\ LinesTogether'
      /\ c \notin gone => Len(out'[c]) % 2 = 0
  <2>1. SendLast(w, c, a)
    BY <1>1
  <2> QED
    BY <1>0, <1>7, <2>1, LastLine
<1>9. sender'[c] = None /\ \A d \in Conns \ {c} : sender'[d] = sender[d]
    BY <1>8
<1>10. \A d \in Conns \ {c} : out'[d] = out[d]
    BY <1>8
<1>11. c \notin gone => Len(out'[c]) % 2 = 0
    BY <1>8
<1>12. Senders'
  <2>1. \A d \in Conns : ReaderBetween(d)' <=> ReaderBetween(d)
    BY <1>1 DEF ReaderBetween
  <2>2. \A d \in Conns : \A v \in Workers : WorkerBetween(v, d)' <=> WorkerBetween(v, d) /\ ~(d = c /\ w = v)
    BY <1>2, <1>3 DEF WorkerBetween
  <2> QED
    BY <1>0, <1>3, <1>4, <1>5, <1>9, <2>1, <2>2, LeavesSender
<1>13. HalfWritten'
  <2>1. UNCHANGED <<gone, reader>>
    BY <1>1
  <2>2. ASSUME NEW d \in Conns \ {c}, d \notin gone
        PROVE  /\ sender'[d] = None => Len(out'[d]) % 2 = 0
               /\ sender'[d] # None => Len(out'[d]) % 2 = 1 /\ out'[d][Len(out'[d])].answer = Held(d)'
    <3>1. \A v \in Workers : WorkerBetween(v, d) => worker'[v].answer = worker[v].answer
      BY <1>2, <1>3, <2>2 DEF WorkerBetween
    <3> QED
      BY <1>0, <1>3, <1>9, <1>10, <2>1, <2>2, <3>1, OthersHalfWritten
  <2> QED
    BY <1>9, <1>11, <2>1, <2>2 DEF HalfWritten
<1>14. Shapes'
  <2>1. \A d \in Conns : IsASequence(out'[d])
    BY <1>0, <1>8 DEF Shapes
  <2>2. /\ \A v \in Workers : worker'[v].at # "idle" => {"at", "task"} \subseteq DOMAIN worker'[v]
        /\ \A v \in Workers : worker'[v].at # "idle" => Conn(v)' \in Conns
        /\ \A v \in Workers : worker'[v].at \in {"sending", "sending last"} => "answer" \in DOMAIN worker'[v]
    BY <1>0, <1>2, <1>3, ThreadShapes
  <2>3. DOMAIN out' = Conns /\ DOMAIN sender' = Conns
    BY <1>8
  <2>4. UNCHANGED <<reader, tasks, parser, session>>
    BY <1>1
  <2>6. DOMAIN worker' = Workers
    BY <1>2
  <2> QED
    BY <1>0, <2>1, <2>3, <2>2, <2>4, <2>6 DEF Shapes
<1> QED
    BY <1>8, <1>12, <1>13, <1>14 DEF IInv

\* A worker that takes a task and runs it.
LEMMA WorkerRuns ==
    ASSUME RpcServerAssumption, IInv, NEW w \in Workers, TakeTask(w) \/ RunRPCMethod(w)
    PROVE  IInv'
<1>0. Shapes /\ Senders /\ LinesTogether /\ HalfWritten
    BY DEF IInv
<1>1. UNCHANGED <<gone, parser, session, reader, sender, out>> /\ tasks' \subseteq tasks
    BY DEF TakeTask, RunRPCMethod, ioVars
<1>2. worker[w].at \in {"idle", "running"}
    BY DEF TakeTask, RunRPCMethod
<1>3. PICK r : /\ worker' = [worker EXCEPT ![w] = r]
               /\ r.at \in {"running", "sending"}
               /\ {"at", "task"} \subseteq DOMAIN r /\ r.task.conn \in Conns
               /\ r.at = "sending" => "answer" \in DOMAIN r
  <2>1. CASE TakeTask(w)
    <3>1. PICK t \in tasks : worker' = [worker EXCEPT ![w] = [at |-> "running", task |-> t]]
      BY <2>1 DEF TakeTask
    <3>2. t.conn \in Conns
      BY <1>0 DEF Shapes
    <3> DEFINE r == [at |-> "running", task |-> t]
    <3>3. r.at = "running" /\ r.task = t /\ {"at", "task"} \subseteq DOMAIN r
      OBVIOUS
    <3> HIDE DEF r
    <3>4. worker' = [worker EXCEPT ![w] = r]
      BY <3>1 DEF r
    <3> QED
      BY <3>2, <3>3, <3>4
  <2>2. CASE RunRPCMethod(w)
    <3> DEFINE t == worker[w].task
               r(code) == [at |-> "sending", task |-> t, answer |-> Answer("EXEC", t.id, code)]
    <3>1. \E code : worker' = [worker EXCEPT ![w] = r(code)]
      BY <2>2 DEF RunRPCMethod
    <3>2. t.conn \in Conns
      <4>1. worker[w].at # "idle"
        BY <2>2 DEF RunRPCMethod
      <4> QED
        BY <1>0, <4>1 DEF Shapes, Conn
    <3>3. \A code : r(code).at = "sending" /\ r(code).task = t /\ {"at", "task", "answer"} \subseteq DOMAIN r(code)
      OBVIOUS
    <3> HIDE DEF t, r
    <3> QED
      BY <3>1, <3>2, <3>3
  <2> QED
    BY <2>1, <2>2
<1>4. DOMAIN worker' = Workers /\ worker'[w] = r /\ \A v \in Workers \ {w} : worker'[v] = worker[v]
    BY <1>0, <1>3 DEF Shapes
<1>5. Senders' /\ LinesTogether' /\ HalfWritten'
  <2>1. \A v \in Workers : worker[v].at = "sending last" => worker'[v] = worker[v]
    BY <1>2, <1>4
  <2>2. \A v \in Workers : worker'[v].at = "sending last" => worker[v].at = "sending last"
    BY <1>3, <1>4
  <2>3. out' = out /\ sender' = sender /\ gone \subseteq gone' /\ reader' = reader
    BY <1>1
  <2> QED
    BY <1>0, <2>1, <2>2, <2>3, QuietStep
<1>6. Shapes'
  <2>1. /\ \A v \in Workers : worker'[v].at # "idle" => {"at", "task"} \subseteq DOMAIN worker'[v]
        /\ \A v \in Workers : worker'[v].at # "idle" => Conn(v)' \in Conns
        /\ \A v \in Workers : worker'[v].at \in {"sending", "sending last"} => "answer" \in DOMAIN worker'[v]
    BY <1>0, <1>3, <1>4 DEF Shapes, Conn
  <2>2. \A t \in tasks' : t.conn \in Conns
    BY <1>0, <1>1 DEF Shapes
  <2>3. UNCHANGED <<parser, session, reader, sender, out>> /\ DOMAIN worker' = Workers
    BY <1>1, <1>4
  <2> QED
    BY <1>0, <2>1, <2>2, <2>3 DEF Shapes
<1> QED
    BY <1>5, <1>6 DEF IInv

\* Clients, the application and the clock.
LEMMA Elsewhere ==
    ASSUME RpcServerAssumption, IInv,
           \/ \E c \in Conns : Client(c)
           \/ \E m \in DOMAIN Application : addRPCMethod(m, Application[m])
           \/ Tick
           \/ UNCHANGED vars
    PROVE  IInv'
<1>0. Shapes /\ Senders /\ LinesTogether /\ HalfWritten
    BY DEF IInv
<1>1. UNCHANGED <<parser, session, reader, sender, out, tasks, worker>> /\ gone \subseteq gone'
    BY DEF Client, Greet, SendMessage, Leave, addRPCMethod, Tick, vars, ioVars
<1>2. Senders' /\ LinesTogether' /\ HalfWritten'
    BY <1>0, <1>1, QuietStep
<1>3. Shapes'
    BY <1>0, <1>1 DEF Shapes, Conn
<1> QED
    BY <1>2, <1>3 DEF IInv

\* A step of anybody.
LEMMA StepIInv == RpcServerAssumption /\ IInv /\ [Next]_vars => IInv'
<1> SUFFICES ASSUME RpcServerAssumption, IInv, [Next]_vars PROVE IInv'
    OBVIOUS
<1>1. ASSUME NEW c \in Conns, Reader(c) PROVE IInv'
    BY <1>1, ReaderStep, ReaderSendsOne, ReaderSendsOther DEF Reader
<1>2. ASSUME NEW w \in Workers, Worker(w) PROVE IInv'
    BY <1>2, WorkerRuns, WorkerSendsOne, WorkerSendsOther DEF Worker
<1>3. CASE \/ \E c \in Conns : Client(c)
           \/ \E m \in DOMAIN Application : addRPCMethod(m, Application[m])
           \/ Tick
           \/ UNCHANGED vars
    BY <1>3, Elsewhere
<1> QED
    BY <1>1, <1>2, <1>3 DEF Next

\* What two threads write to one client is never mixed: an answer is there whole, its lines
\* together, or not at all, whoever writes it (sendAnswer, mutex_send), for any number of
\* connections, workers and messages.
THEOREM AnswersNeverMix == Spec => []LinesTogether
<1>1. Init => IInv
    BY RpcServerAssumption, InitIInv
<1>2. IInv /\ [Next]_vars => IInv'
    BY RpcServerAssumption, StepIInv
<1>3. IInv => LinesTogether
    BY DEF IInv
<1> QED
    BY <1>1, <1>2, <1>3, PTL DEF Spec

-----------------------------------------------------------------------------
(* Records, the lines of messages, and the requests that they make *)

ParserFields == {"at", "field", "version", "req"}
RequestFields == {"method", "mode", "payload", "ids", "extra", "auths"}

\* What the functions of the requests are defined on, and the records have.
Records ==
    /\ DOMAIN wire = Conns /\ DOMAIN sent = Conns /\ logins \in [Conns -> Nat]
    /\ \A c \in Conns : sent[c] \in Seq(Messages) /\ IsASequence(wire[c])
    /\ \A c \in Conns : DOMAIN parser[c] = ParserFields /\ DOMAIN parser[c].req = RequestFields
    /\ \A c \in Conns : DOMAIN session[c] = {"user", "matrix"}
    /\ DOMAIN rights = {"accounts", "disabled", "holds"}
    /\ IsFiniteSet(tasks)

\* The lines of the messages: the n-th of the k-th that c has sent.
Width(c, k) == Len(sent[c][k].auths) + 6
Line(c, k, n) == Stream(sent[c][k], k)[n]
IdxsOf(c, k) == {a.idx : a \in ToSet(sent[c][k].auths)}

\* Each line that is on its way is one of a message, of[i] and place[i] say which, and what
\* comes after it is the next one. The last is the one the client will send next.
Aligned(c, of, place) ==
    /\ of \in [1 .. Len(wire[c]) + 1 -> Nat] /\ place \in [1 .. Len(wire[c]) + 1 -> Nat]
    /\ \A i \in 1 .. Len(wire[c]) :
          /\ of[i] \in DOMAIN sent[c] /\ place[i] \in 1 .. Width(c, of[i])
          /\ wire[c][i] = Line(c, of[i], place[i])
          /\ place[i] = Width(c, of[i]) => of[i + 1] = of[i] + 1 /\ place[i + 1] = 1
          /\ place[i] # Width(c, of[i]) => of[i + 1] = of[i] /\ place[i + 1] = place[i] + 1
    /\ c \notin gone =>
          of[Len(wire[c]) + 1] = Len(sent[c]) + 1 /\ place[Len(wire[c]) + 1] = 1

\* The parser p has read the k-th message up to its n-th line.
Parsing(p, c, k, n) ==
    /\ n # 0 /\ p.field = (IF n <= 5 THEN n ELSE 6)
    /\ n > 1 => k \in DOMAIN sent[c]
    /\ n > 2 => p.req.mode = sent[c][k].mode
    /\ n > 4 => p.req.ids.reqId = k
    /\ n <= 6 => DOMAIN p.req.auths = {}
    /\ n > 6 => DOMAIN p.req.auths \subseteq IdxsOf(c, k)

\* It has read all of it, or, when the client left in the middle, not the last authentications.
Complete(p, c, k) ==
    /\ k \in DOMAIN sent[c] /\ p.field = 1
    /\ p.req.mode = sent[c][k].mode /\ p.req.ids.reqId = k
    /\ DOMAIN p.req.auths \subseteq IdxsOf(c, k)

\* Requests up to the k-th have been dealt with: its lines are on their way or being read, or
\* the thread of the connection acts on it.
Requests(c, k) ==
    /\ parser[c].at \in {"handshake", "request", "none"} /\ parser[c].field \in 1 .. 6 /\ k \in Nat
    /\ parser[c].at = "none" => reader[c].at = "over"
    /\ parser[c].at = "handshake" =>
          /\ reader[c].at = "reading" /\ sent[c] = <<>> /\ Len(wire[c]) <= 7 - parser[c].field
          /\ parser[c].req = NewRequest /\ k = 1
    /\ parser[c].at = "request" =>
          /\ reader[c].at # "over"
          /\ \E of, place :
                /\ Aligned(c, of, place)
                /\ reader[c].at = "reading" => of[1] = k /\ Parsing(parser[c], c, k, place[1])
                /\ reader[c].at # "reading" =>
                      of[1] = k + 1 /\ place[1] = 1 /\ Complete(parser[c], c, k)

-----------------------------------------------------------------------------
(* The lines of a message, and what the parser makes of each *)

\* Two sequences one after the other.
LEMMA Joined ==
    ASSUME NEW S, NEW s \in Seq(S), NEW t \in Seq(S)
    PROVE  /\ s \o t \in Seq(S) /\ Len(s) \in Nat /\ Len(t) \in Nat
           /\ Len(s \o t) = Len(s) + Len(t)
           /\ \A i \in 1 .. Len(s) : (s \o t)[i] = s[i]
           /\ \A i \in 1 .. Len(t) : (s \o t)[i + Len(s)] = t[i]
<1>1. s \o t \in Seq(S) /\ Len(s) \in Nat /\ Len(t) \in Nat /\ Len(s \o t) = Len(s) + Len(t)
    OBVIOUS
<1>2. \A i \in 1 .. Len(s) : (s \o t)[i] = s[i]
    OBVIOUS
<1>3. \A i \in 1 .. Len(t) : (s \o t)[i + Len(s)] = t[i]
    OBVIOUS
<1> QED
    BY <1>1, <1>2, <1>3

\* A message has a line for each field, one for each authentication and an empty one.
LEMMA StreamLines ==
    ASSUME RpcServerAssumption, NEW m \in Messages, NEW k
    PROVE  /\ IsASequence(Stream(m, k))
           /\ m.auths \in Seq(Authentications) /\ Len(m.auths) \in Nat
           /\ Len(Stream(m, k)) = Len(m.auths) + 6
           /\ Stream(m, k)[1] = Text(m.method) /\ Stream(m, k)[2] = Text(m.mode)
           /\ Stream(m, k)[3] = JSON(m.payload) /\ Stream(m, k)[4] = JSON([reqId |-> k])
           /\ Stream(m, k)[5] = JSON(m.extra)
           /\ \A i \in 1 .. Len(m.auths) : Stream(m, k)[i + 5] = JSON(m.auths[i])
           /\ Stream(m, k)[Len(m.auths) + 6] = Empty
<1> DEFINE fields == <<Text(m.method), Text(m.mode), JSON(m.payload), JSON([reqId |-> k]), JSON(m.extra)>>
           auths == [i \in DOMAIN m.auths |-> JSON(m.auths[i])]
           S == {Text(m.method), Text(m.mode), JSON(m.payload), JSON([reqId |-> k]), JSON(m.extra), Empty}
                   \cup {JSON(m.auths[i]) : i \in DOMAIN m.auths}
<1>1. m.auths \in Seq(Authentications)
    BY DEF RpcServerAssumption
<1>2. Len(m.auths) \in Nat /\ DOMAIN m.auths = 1 .. Len(m.auths)
    BY <1>1
<1>3. fields \in Seq(S) /\ Len(fields) = 5 /\ <<Empty>> \in Seq(S)
    OBVIOUS
<1>4. auths \in Seq(S) /\ Len(auths) = Len(m.auths)
  <2>1. auths \in [1 .. Len(m.auths) -> S]
    BY <1>2
  <2> QED
    BY <1>2, <2>1
<1>5. \A i \in 1 .. Len(m.auths) : auths[i] = JSON(m.auths[i])
    BY <1>2
<1>6. /\ fields[1] = Text(m.method) /\ fields[2] = Text(m.mode) /\ fields[3] = JSON(m.payload)
      /\ fields[4] = JSON([reqId |-> k]) /\ fields[5] = JSON(m.extra)
    OBVIOUS
<1>7. Stream(m, k) = fields \o auths \o <<Empty>>
    BY DEF Stream
<1> HIDE DEF fields, auths, S
<1>8. /\ fields \o auths \in Seq(S) /\ Len(fields \o auths) = 5 + Len(m.auths)
      /\ \A i \in 1 .. 5 : (fields \o auths)[i] = fields[i]
      /\ \A i \in 1 .. Len(m.auths) : (fields \o auths)[i + 5] = auths[i]
  <2>1. /\ fields \o auths \in Seq(S) /\ Len(fields \o auths) = Len(fields) + Len(auths)
        /\ \A i \in 1 .. Len(fields) : (fields \o auths)[i] = fields[i]
        /\ \A i \in 1 .. Len(auths) : (fields \o auths)[i + Len(fields)] = auths[i]
    <3>1. \A s, t \in Seq(S) :
             /\ s \o t \in Seq(S) /\ Len(s \o t) = Len(s) + Len(t)
             /\ \A i \in 1 .. Len(s) : (s \o t)[i] = s[i]
             /\ \A i \in 1 .. Len(t) : (s \o t)[i + Len(s)] = t[i]
      BY Joined
    <3>2. fields \in Seq(S) /\ auths \in Seq(S)
      BY <1>3, <1>4
    <3> QED
      BY <3>1, <3>2
  <2> QED
    BY <1>3, <1>4, <2>1
<1>9. /\ Stream(m, k) \in Seq(S) /\ Len(Stream(m, k)) = 5 + Len(m.auths) + 1
      /\ \A i \in 1 .. 5 + Len(m.auths) : Stream(m, k)[i] = (fields \o auths)[i]
      /\ Stream(m, k)[5 + Len(m.auths) + 1] = Empty
  <2> DEFINE first == fields \o auths
             last == <<Empty>>
  <2>1. last \in Seq(S) /\ Len(last) = 1 /\ last[1] = Empty
    BY <1>3
  <2>2. first \in Seq(S) /\ Len(first) = 5 + Len(m.auths)
    BY <1>8
  <2>4. Stream(m, k) = first \o last
    BY <1>7
  <2> HIDE DEF first, last
  <2>3. /\ first \o last \in Seq(S) /\ Len(first \o last) = Len(first) + Len(last)
        /\ \A i \in 1 .. Len(first) : (first \o last)[i] = first[i]
        /\ \A i \in 1 .. Len(last) : (first \o last)[i + Len(first)] = last[i]
    <3>1. \A s, t \in Seq(S) :
             /\ s \o t \in Seq(S) /\ Len(s \o t) = Len(s) + Len(t)
             /\ \A i \in 1 .. Len(s) : (s \o t)[i] = s[i]
             /\ \A i \in 1 .. Len(t) : (s \o t)[i + Len(s)] = t[i]
      BY Joined
    <3>2. first \in Seq(S) /\ last \in Seq(S)
      BY <2>1, <2>2
    <3> QED
      BY <3>1, <3>2
  <2>5. Stream(m, k) \in Seq(S) /\ Len(Stream(m, k)) = 5 + Len(m.auths) + 1
    BY <2>1, <2>2, <2>3, <2>4
  <2>6. \A i \in 1 .. 5 + Len(m.auths) : Stream(m, k)[i] = first[i]
    BY <2>2, <2>3, <2>4
  <2>7. Stream(m, k)[5 + Len(m.auths) + 1] = Empty
    <3>1. (first \o last)[1 + Len(first)] = last[1]
      BY <2>1, <2>3
    <3>2. 1 + Len(first) = 5 + Len(m.auths) + 1
      BY <1>2, <2>2
    <3> QED
      BY <2>1, <2>4, <3>1, <3>2
  <2> QED
    BY <2>5, <2>6, <2>7 DEF first
<1>10. ASSUME NEW i \in 1 .. Len(m.auths) PROVE Stream(m, k)[i + 5] = JSON(m.auths[i])
  <2>1. i + 5 \in 1 .. 5 + Len(m.auths)
    BY <1>2
  <2> QED
    BY <1>5, <1>8, <1>9, <2>1
<1>11. \A i \in 1 .. 5 : Stream(m, k)[i] = fields[i]
  <2>1. \A i \in 1 .. 5 : i \in 1 .. 5 + Len(m.auths)
    BY <1>2
  <2> QED
    BY <1>8, <1>9, <2>1
<1>12. 5 + Len(m.auths) + 1 = Len(m.auths) + 6
    BY <1>2
<1> QED
    BY <1>1, <1>2, <1>6, <1>9, <1>10, <1>11, <1>12 DEF IsASequence

\* What a line of a field holds, and an empty one.
LEMMA LineValues ==
    /\ \A x : Text(x) # Empty /\ Last(Text(x)) = x
    /\ \A x : JSON(x) # Empty /\ Last(JSON(x)) = x
BY DEF Text, JSON, Empty, Last

\* A line of a field goes to its field, and the parser to the next one.
LEMMA ParseField ==
    ASSUME NEW p, DOMAIN p = ParserFields, DOMAIN p.req = RequestFields, p.at = "request",
           p.field \in 1 .. 5, NEW line, line # Empty
    PROVE  LET got == Parse(p, line) IN
           /\ got.status = "more"
           /\ DOMAIN got.p = ParserFields /\ DOMAIN got.p.req = RequestFields
           /\ got.p.at = p.at /\ got.p.field = p.field + 1
           /\ got.p.req.mode = (IF p.field = 2 THEN Last(line) ELSE p.req.mode)
           /\ got.p.req.ids = (IF p.field = 4 THEN Last(line) ELSE p.req.ids)
           /\ got.p.req.auths = p.req.auths
<1>n. PICK n \in 1 .. 5 : n = p.field
    OBVIOUS
<1> DEFINE got == Parse(p, line)
<1>1. Len(Fields) = 5 /\ Fields[1] = "method" /\ Fields[2] = "mode" /\ Fields[3] = "payload"
      /\ Fields[4] = "ids" /\ Fields[5] = "extra"
    BY DEF Fields
<1>2. p.field <= Len(Fields) /\ ~(p.field > Len(Fields))
    BY <1>1, <1>n
<1>3. got = [status |-> "more",
             p |-> [p EXCEPT !.req[Fields[n]] = Last(line), !.field = n + 1]]
    BY <1>2, <1>n DEF Parse, ParseRequest
<1> HIDE DEF got
<1>4. got.status = "more" /\ got.p = [p EXCEPT !.req[Fields[n]] = Last(line), !.field = n + 1]
    BY <1>3
<1>5. /\ DOMAIN got.p = ParserFields /\ got.p.at = p.at /\ got.p.field = n + 1
      /\ got.p.req = [p.req EXCEPT ![Fields[n]] = Last(line)]
    BY <1>4 DEF ParserFields
<1>6. Fields[n] = "mode" <=> n = 2
    BY <1>1
<1>7. Fields[n] = "ids" <=> n = 4
    BY <1>1
<1>8. Fields[n] # "auths"
    BY <1>1
<1>9. /\ DOMAIN got.p.req = RequestFields
      /\ got.p.req.mode = (IF n = 2 THEN Last(line) ELSE p.req.mode)
      /\ got.p.req.ids = (IF n = 4 THEN Last(line) ELSE p.req.ids)
      /\ got.p.req.auths = p.req.auths
    BY <1>5, <1>6, <1>7, <1>8 DEF RequestFields
<1> QED
    BY <1>n, <1>4, <1>5, <1>9 DEF got

\* A line after the fields is an authentication more, or not one.
LEMMA ParseAuthentication ==
    ASSUME NEW p, DOMAIN p = ParserFields, DOMAIN p.req = RequestFields, p.at = "request",
           p.field = 6, NEW line, line # Empty
    PROVE  LET got == Parse(p, line) IN
           /\ got.status \in {"more", "error"}
           /\ DOMAIN got.p = ParserFields /\ DOMAIN got.p.req = RequestFields
           /\ got.p.at = p.at /\ got.p.field = 6
           /\ got.p.req.mode = p.req.mode /\ got.p.req.ids = p.req.ids
           /\ got.status = "more" => DOMAIN got.p.req.auths = DOMAIN p.req.auths \cup {Last(line).idx}
<1> DEFINE got == Parse(p, line)
           a == Last(line)
<1>1. Len(Fields) = 5
    BY DEF Fields
<1>2. ~(p.field <= Len(Fields)) /\ p.field > Len(Fields)
    BY <1>1
<1>3. got = IF fromJSON(a) THEN [status |-> "more", p |-> [p EXCEPT !.req = addAuthentication(@, a)]]
            ELSE [status |-> "error", p |-> p]
    BY <1>2 DEF Parse, ParseRequest
<1> HIDE DEF got, a
<1>4. CASE fromJSON(a)
  <2>1. got.status = "more" /\ got.p = [p EXCEPT !.req = addAuthentication(p.req, a)]
    BY <1>3, <1>4
  <2>2. DOMAIN got.p = ParserFields /\ got.p.at = p.at /\ got.p.field = 6 /\ got.p.req = addAuthentication(p.req, a)
    BY <2>1 DEF ParserFields
  <2>3. got.p.req = [p.req EXCEPT !.auths = Put(p.req.auths, a.idx, a)]
    BY <2>2 DEF addAuthentication
  <2>4. DOMAIN Put(p.req.auths, a.idx, a) = DOMAIN p.req.auths \cup {a.idx}
    BY DEF Put
  <2>5. /\ DOMAIN got.p.req = RequestFields
        /\ got.p.req.mode = p.req.mode /\ got.p.req.ids = p.req.ids
        /\ got.p.req.auths = Put(p.req.auths, a.idx, a)
    BY <2>3 DEF RequestFields
  <2> QED
    BY <2>1, <2>2, <2>4, <2>5 DEF got, a
<1>5. CASE ~fromJSON(a)
  <2>1. got.status = "error" /\ got.p = p
    BY <1>3, <1>5
  <2> QED
    BY <2>1 DEF got, a
<1> QED
    BY <1>4, <1>5

\* The empty line after them ends the request.
LEMMA ParseEnd ==
    ASSUME NEW p, DOMAIN p = ParserFields, DOMAIN p.req = RequestFields, p.at = "request",
           p.field = 6
    PROVE  LET got == Parse(p, Empty) IN
           /\ got.status = "next"
           /\ DOMAIN got.p = ParserFields /\ got.p.at = p.at /\ got.p.field = 1
           /\ got.p.req = p.req
<1> DEFINE got == Parse(p, Empty)
<1>1. Len(Fields) = 5
    BY DEF Fields
<1>2. ~(p.field <= Len(Fields)) /\ p.field > Len(Fields)
    BY <1>1
<1>3. got = [status |-> "next", p |-> [p EXCEPT !.field = 1]]
    BY <1>2 DEF Parse, ParseRequest
<1> HIDE DEF got
<1>4. got.status = "next" /\ got.p = [p EXCEPT !.field = 1]
    BY <1>3
<1> QED
    BY <1>4 DEF ParserFields, got

-----------------------------------------------------------------------------
(* The lines on their way *)

\* The first of them is taken off.
LEMMA AlignedTail ==
    ASSUME NEW c \in Conns, NEW of, NEW place, Aligned(c, of, place),
           IsASequence(wire[c]), wire[c] # <<>>,
           wire'[c] = Tail(wire[c]), sent'[c] = sent[c], c \notin gone' => c \notin gone
    PROVE  /\ IsASequence(wire'[c])
           /\ \E of2, place2 : Aligned(c, of2, place2)' /\ of2[1] = of[2] /\ place2[1] = place[2]
<1> DEFINE w == wire[c]
           v == wire'[c]
<1>1. PICK S : w \in Seq(S)
    BY DEF IsASequence
<1>2. /\ v \in Seq(S) /\ Len(w) \in Nat \ {0} /\ Len(v) \in Nat /\ Len(v) = Len(w) - 1
      /\ \A i \in 1 .. Len(v) : v[i] = w[i + 1]
    BY <1>1
<1>n. PICK n \in Nat : n = Len(v)
    BY <1>2
<1> DEFINE of2 == [i \in 1 .. n + 1 |-> of[i + 1]]
           place2 == [i \in 1 .. n + 1 |-> place[i + 1]]
<1> HIDE DEF w, v
<1>3. /\ of \in [1 .. Len(w) + 1 -> Nat] /\ place \in [1 .. Len(w) + 1 -> Nat]
      /\ \A i \in 1 .. Len(w) :
            /\ of[i] \in DOMAIN sent[c] /\ place[i] \in 1 .. Width(c, of[i])
            /\ w[i] = Line(c, of[i], place[i])
            /\ place[i] = Width(c, of[i]) => of[i + 1] = of[i] + 1 /\ place[i + 1] = 1
            /\ place[i] # Width(c, of[i]) => of[i + 1] = of[i] /\ place[i + 1] = place[i] + 1
      /\ c \notin gone =>
            of[Len(w) + 1] = Len(sent[c]) + 1 /\ place[Len(w) + 1] = 1
    BY DEF Aligned, w
<1>4. /\ \A i \in 1 .. n + 1 : i + 1 \in 1 .. Len(w) + 1
      /\ \A i \in 1 .. n : i + 1 \in 1 .. Len(w) /\ i \in 1 .. n + 1 /\ i + 1 \in 1 .. n + 1
      /\ 1 \in 1 .. n + 1 /\ n + 1 \in 1 .. n + 1 /\ (n + 1) + 1 = Len(w) + 1
      /\ 1 + 1 = 2
    BY <1>2, <1>n
<1>5. of2 \in [1 .. n + 1 -> Nat] /\ place2 \in [1 .. n + 1 -> Nat]
    BY <1>3, <1>4
<1>6. \A i \in 1 .. n + 1 : of2[i] = of[i + 1] /\ place2[i] = place[i + 1]
    OBVIOUS
<1> HIDE DEF of2, place2
<1>7. \A k, j : Width(c, k)' = Width(c, k) /\ Line(c, k, j)' = Line(c, k, j)
    BY DEF Width, Line
<1>8. ASSUME NEW i \in 1 .. n
      PROVE  /\ of2[i] \in DOMAIN sent'[c] /\ place2[i] \in 1 .. Width(c, of2[i])'
             /\ v[i] = Line(c, of2[i], place2[i])'
             /\ place2[i] = Width(c, of2[i])' => of2[i + 1] = of2[i] + 1 /\ place2[i + 1] = 1
             /\ place2[i] # Width(c, of2[i])' => of2[i + 1] = of2[i] /\ place2[i + 1] = place2[i] + 1
  <2> DEFINE j == i + 1
  <2>1. j \in 1 .. Len(w) /\ v[i] = w[j]
    BY <1>2, <1>4, <1>n
  <2>2. of2[i] = of[j] /\ place2[i] = place[j] /\ of2[i + 1] = of[j + 1] /\ place2[i + 1] = place[j + 1]
    BY <1>4, <1>6
  <2> HIDE DEF j
  <2>3. Width(c, of2[i])' = Width(c, of[j]) /\ Line(c, of2[i], place2[i])' = Line(c, of[j], place[j])
    BY <1>7, <2>2
  <2>4. /\ of[j] \in DOMAIN sent[c] /\ place[j] \in 1 .. Width(c, of[j])
        /\ w[j] = Line(c, of[j], place[j])
        /\ place[j] = Width(c, of[j]) => of[j + 1] = of[j] + 1 /\ place[j + 1] = 1
        /\ place[j] # Width(c, of[j]) => of[j + 1] = of[j] /\ place[j + 1] = place[j] + 1
    BY <1>3, <2>1
  <2> QED
    BY <2>1, <2>2, <2>3, <2>4
<1>9. c \notin gone' => of2[n + 1] = Len(sent'[c]) + 1 /\ place2[n + 1] = 1
    BY <1>3, <1>4, <1>6
<1>10. Aligned(c, of2, place2)'
  <2>1. n = Len(wire'[c]) /\ \A i : v[i] = wire'[c][i]
    BY <1>n DEF v
  <2> QED
    BY <1>5, <1>8, <1>9, <2>1 DEF Aligned
<1>11. of2[1] = of[2] /\ place2[1] = place[2]
    BY <1>4, <1>6
<1>12. IsASequence(wire'[c])
    BY <1>2 DEF IsASequence, v
<1> QED
    BY <1>10, <1>11, <1>12

\* Only some of them arrive, when the client leaves.
LEMMA AlignedPrefix ==
    ASSUME NEW c \in Conns, NEW of, NEW place, Aligned(c, of, place),
           IsASequence(wire[c]), NEW n \in 0 .. Len(wire[c]),
           wire'[c] = SubSeq(wire[c], 1, n), sent'[c] = sent[c], c \in gone'
    PROVE  /\ IsASequence(wire'[c])
           /\ \E of2, place2 : Aligned(c, of2, place2)' /\ of2[1] = of[1] /\ place2[1] = place[1]
<1> DEFINE w == wire[c]
           v == wire'[c]
<1>1. PICK S : w \in Seq(S)
    BY DEF IsASequence
<1>2. /\ v \in Seq(S) /\ Len(w) \in Nat /\ n \in Nat /\ n <= Len(w) /\ Len(v) = n
      /\ \A i \in 1 .. n : v[i] = w[i]
    BY <1>1
<1> DEFINE of2 == [i \in 1 .. n + 1 |-> of[i]]
           place2 == [i \in 1 .. n + 1 |-> place[i]]
<1> HIDE DEF w, v
<1>3. /\ of \in [1 .. Len(w) + 1 -> Nat] /\ place \in [1 .. Len(w) + 1 -> Nat]
      /\ \A i \in 1 .. Len(w) :
            /\ of[i] \in DOMAIN sent[c] /\ place[i] \in 1 .. Width(c, of[i])
            /\ w[i] = Line(c, of[i], place[i])
            /\ place[i] = Width(c, of[i]) => of[i + 1] = of[i] + 1 /\ place[i + 1] = 1
            /\ place[i] # Width(c, of[i]) => of[i + 1] = of[i] /\ place[i + 1] = place[i] + 1
    BY DEF Aligned, w
<1>4. /\ \A i \in 1 .. n + 1 : i \in 1 .. Len(w) + 1
      /\ \A i \in 1 .. n : i \in 1 .. Len(w) /\ i \in 1 .. n + 1 /\ i + 1 \in 1 .. n + 1
      /\ 1 \in 1 .. n + 1
    BY <1>2
<1>5. of2 \in [1 .. n + 1 -> Nat] /\ place2 \in [1 .. n + 1 -> Nat]
    BY <1>3, <1>4
<1>6. \A i \in 1 .. n + 1 : of2[i] = of[i] /\ place2[i] = place[i]
    OBVIOUS
<1> HIDE DEF of2, place2
<1>7. \A k, l : Width(c, k)' = Width(c, k) /\ Line(c, k, l)' = Line(c, k, l)
    BY DEF Width, Line
<1>8. ASSUME NEW i \in 1 .. n
      PROVE  /\ of2[i] \in DOMAIN sent'[c] /\ place2[i] \in 1 .. Width(c, of2[i])'
             /\ v[i] = Line(c, of2[i], place2[i])'
             /\ place2[i] = Width(c, of2[i])' => of2[i + 1] = of2[i] + 1 /\ place2[i + 1] = 1
             /\ place2[i] # Width(c, of2[i])' => of2[i + 1] = of2[i] /\ place2[i + 1] = place2[i] + 1
  <2>1. i \in 1 .. Len(w) /\ v[i] = w[i]
    BY <1>2, <1>4
  <2>2. of2[i] = of[i] /\ place2[i] = place[i] /\ of2[i + 1] = of[i + 1] /\ place2[i + 1] = place[i + 1]
    BY <1>4, <1>6
  <2>3. Width(c, of2[i])' = Width(c, of[i]) /\ Line(c, of2[i], place2[i])' = Line(c, of[i], place[i])
    BY <1>7, <2>2
  <2>4. /\ of[i] \in DOMAIN sent[c] /\ place[i] \in 1 .. Width(c, of[i])
        /\ w[i] = Line(c, of[i], place[i])
        /\ place[i] = Width(c, of[i]) => of[i + 1] = of[i] + 1 /\ place[i + 1] = 1
        /\ place[i] # Width(c, of[i]) => of[i + 1] = of[i] /\ place[i + 1] = place[i] + 1
    BY <1>3, <2>1
  <2> QED
    BY <2>1, <2>2, <2>3, <2>4
<1>9. Aligned(c, of2, place2)'
    BY <1>2, <1>5, <1>8 DEF Aligned, v
<1>10. of2[1] = of[1] /\ place2[1] = place[1]
    BY <1>4, <1>6
<1> QED
    BY <1>2, <1>9, <1>10 DEF IsASequence, v

\* The lines of one message more come after them.
LEMMA AlignedMore ==
    ASSUME RpcServerAssumption, NEW c \in Conns, NEW of, NEW place, Aligned(c, of, place),
           Records, NEW m \in Messages, SendMessage(c, m)
    PROVE  /\ IsASequence(wire'[c])
           /\ \E of2, place2 : Aligned(c, of2, place2)' /\ of2[1] = of[1] /\ place2[1] = place[1]
<1> DEFINE w == wire[c]
           v == wire'[c]
           q == Stream(m, Len(sent[c]) + 1)
<1>0. /\ IsASequence(wire[c]) /\ sent[c] \in Seq(Messages)
      /\ c \notin gone /\ v = w \o q /\ sent'[c] = Append(sent[c], m)
  <2>1. DOMAIN wire = Conns /\ DOMAIN sent = Conns
    BY DEF Records
  <2> QED
    BY <2>1 DEF SendMessage, Records
<1>n. PICK N \in Nat, K \in Nat, L \in Nat : N = Len(w) /\ K = Len(sent[c]) + 1 /\ L = Len(q)
  <2>1. IsASequence(w) /\ IsASequence(q)
    BY <1>0, StreamLines
  <2>2. Len(w) \in Nat /\ Len(q) \in Nat
    BY <2>1 DEF IsASequence
  <2>3. Len(sent[c]) + 1 \in Nat
    OBVIOUS
  <2> QED
    BY <2>2, <2>3
<1>1. /\ q = Stream(m, K) /\ IsASequence(q) /\ L = Len(m.auths) + 6 /\ Len(m.auths) \in Nat
    BY <1>n, StreamLines
<1>2. /\ IsASequence(v) /\ Len(v) = N + L
      /\ \A i \in 1 .. N : v[i] = w[i]
      /\ \A i \in 1 .. L : v[i + N] = q[i]
  <2>1. PICK S : w \in Seq(S)
    BY <1>0 DEF IsASequence
  <2>2. PICK T : q \in Seq(T)
    BY <1>1 DEF IsASequence
  <2>3. w \in Seq(S \cup T) /\ q \in Seq(S \cup T)
    <3>1. S \subseteq S \cup T /\ T \subseteq S \cup T
      OBVIOUS
    <3> QED
      BY <2>1, <2>2, <3>1, SeqMonotonic
  <2>4. \A s, t \in Seq(S \cup T) :
             /\ s \o t \in Seq(S \cup T) /\ Len(s \o t) = Len(s) + Len(t)
             /\ \A i \in 1 .. Len(s) : (s \o t)[i] = s[i]
             /\ \A i \in 1 .. Len(t) : (s \o t)[i + Len(s)] = t[i]
    BY Joined
  <2>5. v = w \o q
    BY <1>0
  <2> HIDE DEF w, v, q
  <2>6. /\ v \in Seq(S \cup T) /\ Len(v) = Len(w) + Len(q)
        /\ \A i \in 1 .. Len(w) : v[i] = w[i]
        /\ \A i \in 1 .. Len(q) : v[i + Len(w)] = q[i]
    BY <2>3, <2>4, <2>5
  <2> QED
    BY <1>n, <2>6 DEF IsASequence
<1>3. /\ of \in [1 .. N + 1 -> Nat] /\ place \in [1 .. N + 1 -> Nat]
      /\ \A i \in 1 .. N :
            /\ of[i] \in DOMAIN sent[c] /\ place[i] \in 1 .. Width(c, of[i])
            /\ w[i] = Line(c, of[i], place[i])
            /\ place[i] = Width(c, of[i]) => of[i + 1] = of[i] + 1 /\ place[i + 1] = 1
            /\ place[i] # Width(c, of[i]) => of[i + 1] = of[i] /\ place[i + 1] = place[i] + 1
      /\ of[N + 1] = K /\ place[N + 1] = 1
    BY <1>0, <1>n DEF Aligned
<1> DEFINE of2 == [i \in 1 .. (N + L) + 1 |-> IF i <= N + 1 THEN of[i] ELSE IF i = (N + L) + 1 THEN K + 1 ELSE K]
           place2 == [i \in 1 .. (N + L) + 1 |-> IF i <= N + 1 THEN place[i] ELSE IF i = (N + L) + 1 THEN 1 ELSE i - N]
<1> HIDE DEF w, v, q
<1>4. /\ \A i \in 1 .. N + 1 : of2[i] = of[i] /\ place2[i] = place[i]
      /\ \A i \in 1 .. L : of2[i + N] = K /\ place2[i + N] = i
      /\ of2[(N + L) + 1] = K + 1 /\ place2[(N + L) + 1] = 1
  <2>1. ASSUME NEW i \in 1 .. N + 1 PROVE of2[i] = of[i] /\ place2[i] = place[i]
    BY <1>1
  <2>2. ASSUME NEW i \in 1 .. L PROVE of2[i + N] = K /\ place2[i + N] = i
    <3>1. CASE i = 1
      BY <1>1, <1>3, <3>1
    <3>2. CASE i # 1
      <4>1. i + N \in 1 .. (N + L) + 1 /\ ~(i + N <= N + 1) /\ i + N # (N + L) + 1 /\ (i + N) - N = i
        BY <3>2
      <4> QED
        BY <4>1
    <3> QED
      BY <3>1, <3>2
  <2>3. (N + L) + 1 \in 1 .. (N + L) + 1 /\ ~((N + L) + 1 <= N + 1)
    BY <1>1
  <2> QED
    BY <2>1, <2>2, <2>3
<1>5. of2 \in [1 .. (N + L) + 1 -> Nat] /\ place2 \in [1 .. (N + L) + 1 -> Nat]
  <2>1. ASSUME NEW i \in 1 .. (N + L) + 1
        PROVE  /\ (IF i <= N + 1 THEN of[i] ELSE IF i = (N + L) + 1 THEN K + 1 ELSE K) \in Nat
               /\ (IF i <= N + 1 THEN place[i] ELSE IF i = (N + L) + 1 THEN 1 ELSE i - N) \in Nat
    BY <1>3
  <2> QED
    BY <2>1
<1> HIDE DEF of2, place2
<1>6. /\ DOMAIN sent'[c] = 1 .. K /\ Len(sent'[c]) = K /\ sent'[c][K] = m
      /\ DOMAIN sent[c] = 1 .. K - 1 /\ K \in DOMAIN sent'[c]
      /\ \A k \in DOMAIN sent[c] : k \in DOMAIN sent'[c] /\ sent'[c][k] = sent[c][k]
    BY <1>0, <1>n
<1>7. ASSUME NEW i \in 1 .. N
      PROVE  /\ of2[i] \in DOMAIN sent'[c] /\ place2[i] \in 1 .. Width(c, of2[i])'
             /\ v[i] = Line(c, of2[i], place2[i])'
             /\ place2[i] = Width(c, of2[i])' => of2[i + 1] = of2[i] + 1 /\ place2[i + 1] = 1
             /\ place2[i] # Width(c, of2[i])' => of2[i + 1] = of2[i] /\ place2[i + 1] = place2[i] + 1
  <2>1. i \in 1 .. N + 1 /\ i + 1 \in 1 .. N + 1
    OBVIOUS
  <2>2. of2[i] = of[i] /\ place2[i] = place[i] /\ of2[i + 1] = of[i + 1] /\ place2[i + 1] = place[i + 1]
    BY <1>4, <2>1
  <2>3. /\ of[i] \in DOMAIN sent[c] /\ place[i] \in 1 .. Width(c, of[i])
        /\ w[i] = Line(c, of[i], place[i])
        /\ place[i] = Width(c, of[i]) => of[i + 1] = of[i] + 1 /\ place[i + 1] = 1
        /\ place[i] # Width(c, of[i]) => of[i + 1] = of[i] /\ place[i + 1] = place[i] + 1
    BY <1>3
  <2>4. sent'[c][of[i]] = sent[c][of[i]] /\ of[i] \in DOMAIN sent'[c]
    BY <1>6, <2>3
  <2>5. Width(c, of2[i])' = Width(c, of[i]) /\ Line(c, of2[i], place2[i])' = Line(c, of[i], place[i])
    BY <2>2, <2>4 DEF Width, Line
  <2> QED
    BY <1>2, <2>2, <2>3, <2>4, <2>5
<1>8. ASSUME NEW i \in (N + 1) .. (N + L)
      PROVE  /\ of2[i] \in DOMAIN sent'[c] /\ place2[i] \in 1 .. Width(c, of2[i])'
             /\ v[i] = Line(c, of2[i], place2[i])'
             /\ place2[i] = Width(c, of2[i])' => of2[i + 1] = of2[i] + 1 /\ place2[i + 1] = 1
             /\ place2[i] # Width(c, of2[i])' => of2[i + 1] = of2[i] /\ place2[i + 1] = place2[i] + 1
  <2>1. PICK j \in 1 .. L : i = j + N
    <3>1. i - N \in 1 .. L /\ i = (i - N) + N
      OBVIOUS
    <3> QED
      BY <3>1
  <2>2. of2[i] = K /\ place2[i] = j
    BY <1>4, <2>1
  <2>3. v[i] = q[j]
    BY <1>2, <2>1
  <2>4. Width(c, of2[i])' = L /\ Line(c, of2[i], place2[i])' = q[j]
    BY <1>1, <1>6, <2>2 DEF Width, Line
  <2>5. j = L => of2[i + 1] = K + 1 /\ place2[i + 1] = 1
    <3>1. j = L => i + 1 = (N + L) + 1
      BY <2>1
    <3> QED
      BY <1>4, <3>1
  <2>6. j # L => of2[i + 1] = K /\ place2[i + 1] = j + 1
    <3>1. j # L => j + 1 \in 1 .. L /\ i + 1 = (j + 1) + N
      BY <2>1
    <3> QED
      BY <1>4, <3>1
  <2> QED
    BY <1>6, <2>2, <2>3, <2>4, <2>5, <2>6
<1>9. Aligned(c, of2, place2)'
  <2>1. Len(wire'[c]) = N + L /\ \A i : v[i] = wire'[c][i]
    BY <1>2 DEF v
  <2>2. \A i \in 1 .. N + L : i \in 1 .. N \/ i \in (N + 1) .. (N + L)
    OBVIOUS
  <2> QED
    BY <1>4, <1>5, <1>6, <1>7, <1>8, <2>1, <2>2 DEF Aligned
<1>10. of2[1] = of[1] /\ place2[1] = place[1]
  <2>1. 1 \in 1 .. N + 1
    OBVIOUS
  <2> QED
    BY <1>4, <2>1
<1> QED
  <2>1. IsASequence(wire'[c])
    BY <1>2 DEF v
  <2> QED
    BY <1>9, <1>10, <2>1

-----------------------------------------------------------------------------
(* The requests: each kind of step *)

\* Nothing happens to the lines, and the thread reads, acts or has ended as before.
LEMMA RequestsKept ==
    ASSUME NEW c \in Conns, NEW k, Requests(c, k),
           parser'[c] = parser[c], wire'[c] = wire[c], sent'[c] = sent[c],
           c \notin gone' => c \notin gone,
           reader'[c].at = "reading" <=> reader[c].at = "reading",
           reader'[c].at = "over" <=> reader[c].at = "over"
    PROVE  Requests(c, k)'
<1>1. ASSUME NEW of, NEW place, Aligned(c, of, place) PROVE Aligned(c, of, place)'
  <2>1. \A j, n : Width(c, j)' = Width(c, j) /\ Line(c, j, n)' = Line(c, j, n)
    BY DEF Width, Line
  <2> QED
    BY <1>1, <2>1 DEF Aligned
<1>2. ASSUME NEW n PROVE Parsing(parser[c], c, k, n) => Parsing(parser[c], c, k, n)'
    BY DEF Parsing, IdxsOf
<1>3. Complete(parser[c], c, k) => Complete(parser[c], c, k)'
    BY DEF Complete, IdxsOf
<1>4. CASE parser[c].at # "request"
    BY <1>4 DEF Requests
<1>5. CASE parser[c].at = "request"
  <2>1. PICK of, place :
                /\ Aligned(c, of, place)
                /\ reader[c].at = "reading" => of[1] = k /\ Parsing(parser[c], c, k, place[1])
                /\ reader[c].at # "reading" =>
                      of[1] = k + 1 /\ place[1] = 1 /\ Complete(parser[c], c, k)
    BY <1>5 DEF Requests
  <2>2. Aligned(c, of, place)'
    BY <1>1, <2>1
  <2>3. /\ reader'[c].at = "reading" => of[1] = k /\ Parsing(parser[c], c, k, place[1])'
        /\ reader'[c].at # "reading" => of[1] = k + 1 /\ place[1] = 1 /\ Complete(parser[c], c, k)'
    BY <1>2, <1>3, <2>1
  <2> QED
    BY <1>5, <2>2, <2>3 DEF Requests
<1> QED
    BY <1>4, <1>5

\* The connection has ended.
LEMMA RequestsEnd ==
    ASSUME Records, NEW c \in Conns, NEW k, Requests(c, k),
           DOMAIN reader = Conns, DOMAIN parser = Conns, End(c)
    PROVE  Requests(c, k)'
<1>1. parser'[c].at = "none" /\ parser'[c].field = parser[c].field
    BY DEF End, Records, ParserFields
<1>2. reader'[c].at = "over"
    BY DEF End
<1> QED
    BY <1>1, <1>2 DEF Requests

\* A request has been dealt with: the next one.
LEMMA RequestsNext ==
    ASSUME Records, NEW c \in Conns, NEW k, Requests(c, k), parser[c].at = "request",
           reader[c].at # "reading", DOMAIN reader = Conns, DOMAIN parser = Conns,
           Continue(c), wire' = wire, sent' = sent, gone' = gone
    PROVE  Requests(c, k + 1)'
<1>1. /\ parser'[c].at = "request" /\ parser'[c].field = 1 /\ parser'[c].req = NewRequest
      /\ reader'[c].at = "reading"
    BY DEF Continue, clear, Reading, Records, ParserFields
<1>2. PICK of, place : Aligned(c, of, place) /\ of[1] = k + 1 /\ place[1] = 1
    BY DEF Requests
<1>3. Aligned(c, of, place)'
  <2>1. \A j, n : Width(c, j)' = Width(c, j) /\ Line(c, j, n)' = Line(c, j, n)
    BY DEF Width, Line
  <2> QED
    BY <1>2, <2>1 DEF Aligned
<1>4. Parsing(parser[c], c, k + 1, 1)'
  <2>1. DOMAIN NewRequest.auths = {}
    BY DEF NewRequest
  <2> QED
    BY <1>1, <2>1 DEF Parsing
<1>5. k + 1 \in Nat
    BY DEF Requests
<1> QED
    BY <1>1, <1>2, <1>3, <1>4, <1>5 DEF Requests

\* A line of a request is read.
LEMMA RequestsRead ==
    ASSUME RpcServerAssumption, Records, NEW c \in Conns, NEW k, Requests(c, k),
           DOMAIN reader = Conns, DOMAIN parser = Conns,
           parser[c].at = "request", ReadLine(c)
    PROVE  /\ Requests(c, k)'
           /\ DOMAIN parser'[c] = ParserFields /\ DOMAIN parser'[c].req = RequestFields
           /\ IsASequence(wire'[c])
<1> DEFINE p == parser[c]
           line == Head(wire[c])
           got == Parse(p, line)
<1>1. /\ reader[c].at = "reading" /\ wire[c] # <<>> /\ wire' = [wire EXCEPT ![c] = Tail(@)]
      /\ UNCHANGED <<sent, gone>>
    BY DEF ReadLine
<1>2. wire'[c] = Tail(wire[c]) /\ sent'[c] = sent[c]
    BY <1>1 DEF Records
<1>3. PICK of, place : Aligned(c, of, place) /\ of[1] = k /\ Parsing(p, c, k, place[1])
    BY <1>1 DEF Requests
<1>4. /\ IsASequence(wire'[c])
      /\ \E of2, place2 : Aligned(c, of2, place2)' /\ of2[1] = of[2] /\ place2[1] = place[2]
  <2>1. IsASequence(wire[c]) /\ (c \notin gone' => c \notin gone)
    BY <1>1 DEF Records
  <2> QED
    BY <1>1, <1>2, <1>3, <2>1, AlignedTail
<1>5. PICK of2, place2 : Aligned(c, of2, place2)' /\ of2[1] = of[2] /\ place2[1] = place[2]
    BY <1>4
<1>6. Len(wire[c]) \in Nat \ {0} /\ line = wire[c][1]
  <2>1. PICK S : wire[c] \in Seq(S)
    BY DEF Records, IsASequence
  <2> QED
    BY <1>1, <2>1
<1>7. PICK n : /\ n = place[1] /\ k \in DOMAIN sent[c] /\ n \in 1 .. Width(c, k)
               /\ line = Line(c, k, n)
               /\ n = Width(c, k) => of[2] = k + 1 /\ place[2] = 1
               /\ n # Width(c, k) => of[2] = k /\ place[2] = n + 1
  <2>1. 1 \in 1 .. Len(wire[c]) /\ 1 + 1 = 2
    BY <1>6
  <2> QED
    BY <1>3, <1>6, <2>1 DEF Aligned
<1>8. PICK m \in Messages : m = sent[c][k]
    BY <1>7 DEF Records
<1>9. /\ m.auths \in Seq(Authentications) /\ Len(m.auths) \in Nat
      /\ Stream(m, k)[2] = Text(m.mode) /\ Stream(m, k)[4] = JSON([reqId |-> k])
      /\ Stream(m, k)[1] = Text(m.method) /\ Stream(m, k)[3] = JSON(m.payload)
      /\ Stream(m, k)[5] = JSON(m.extra)
      /\ \A i \in 1 .. Len(m.auths) : Stream(m, k)[i + 5] = JSON(m.auths[i])
      /\ Stream(m, k)[Len(m.auths) + 6] = Empty
    BY StreamLines
<1>10. Width(c, k) = Len(m.auths) + 6 /\ line = Stream(m, k)[n]
    BY <1>7, <1>8 DEF Width, Line
<1>11. DOMAIN p = ParserFields /\ DOMAIN p.req = RequestFields /\ p.at = "request"
    BY DEF Records
<1>12. n \in Nat /\ n # 0 /\ p.field = (IF n <= 5 THEN n ELSE 6)
    BY <1>3, <1>7, <1>9, <1>10 DEF Parsing
<1>13. /\ k \in Nat /\ IdxsOf(c, k)' = IdxsOf(c, k) /\ sent'[c][k] = m /\ k \in DOMAIN sent'[c]
    BY <1>1, <1>7, <1>8 DEF Requests, IdxsOf
<1>14. Parsed(c, line)
    BY DEF ReadLine
<1>15. parser'[c] = got.p /\ reader'[c] = reader[c] =>
          /\ parser'[c].req = got.p.req /\ parser'[c].field = got.p.field /\ parser'[c].at = got.p.at
    OBVIOUS
<1> HIDE DEF p, line, got
<1>16. CASE n <= 5
  <2>1. line # Empty /\ (n = 2 => Last(line) = m.mode) /\ (n = 4 => Last(line) = [reqId |-> k])
    <3>1. n \in {1, 2, 3, 4, 5}
      BY <1>12, <1>16
    <3> QED
      BY <1>9, <1>10, <3>1, LineValues
  <2>2. /\ got.status = "more"
        /\ DOMAIN got.p = ParserFields /\ DOMAIN got.p.req = RequestFields
        /\ got.p.at = p.at /\ got.p.field = n + 1
        /\ got.p.req.mode = (IF n = 2 THEN Last(line) ELSE p.req.mode)
        /\ got.p.req.ids = (IF n = 4 THEN Last(line) ELSE p.req.ids)
        /\ got.p.req.auths = p.req.auths
    <3>1. p.field \in 1 .. 5 /\ p.field = n
      BY <1>12, <1>16
    <3> QED
      BY <1>11, <2>1, <3>1, ParseField DEF got
  <2>3. parser'[c] = got.p /\ reader'[c] = reader[c]
    BY <1>14, <2>2 DEF Parsed, got, p
  <2>4. of2[1] = k /\ place2[1] = n + 1
    BY <1>5, <1>7, <1>9, <1>10, <1>16
  <2>5. Parsing(parser[c], c, k, n + 1)'
    <3>1. /\ n + 1 # 0 /\ got.p.field = (IF n + 1 <= 5 THEN n + 1 ELSE 6)
      BY <1>12, <1>16, <2>2
    <3>2. n + 1 > 2 => got.p.req.mode = m.mode
      BY <1>3, <1>7, <1>8, <1>12, <2>1, <2>2 DEF Parsing, p
    <3>3. n + 1 > 4 => got.p.req.ids.reqId = k
      BY <1>3, <1>7, <1>12, <1>16, <2>1, <2>2 DEF Parsing
    <3>4. n + 1 <= 6 /\ DOMAIN got.p.req.auths = {}
      BY <1>3, <1>7, <1>12, <1>16, <2>2 DEF Parsing
    <3> QED
      BY <1>12, <1>13, <2>3, <3>1, <3>2, <3>3, <3>4 DEF Parsing
  <2>6. parser'[c].at = "request" /\ parser'[c].field \in 1 .. 6 /\ reader'[c].at = "reading"
    BY <1>1, <1>11, <1>12, <1>16, <2>2, <2>3
  <2> QED
    BY <1>4, <1>5, <1>13, <2>2, <2>3, <2>4, <2>5, <2>6 DEF Requests
<1>17. CASE n > 5 /\ n # Width(c, k)
  <2>1. PICK i \in 1 .. Len(m.auths) : n = i + 5
    <3>1. n - 5 \in 1 .. Len(m.auths) /\ n = (n - 5) + 5
      BY <1>7, <1>9, <1>10, <1>12, <1>17
    <3> QED
      BY <3>1
  <2>2. line # Empty /\ Last(line) = m.auths[i]
    BY <1>9, <1>10, <2>1, LineValues
  <2>3. p.field = 6
    BY <1>12, <1>17
  <2>4. /\ got.status \in {"more", "error"}
        /\ DOMAIN got.p = ParserFields /\ DOMAIN got.p.req = RequestFields
        /\ got.p.at = p.at /\ got.p.field = 6
        /\ got.p.req.mode = p.req.mode /\ got.p.req.ids = p.req.ids
        /\ got.status = "more" => DOMAIN got.p.req.auths = DOMAIN p.req.auths \cup {Last(line).idx}
    BY <1>11, <2>2, <2>3, ParseAuthentication DEF got
  <2>5. m.auths[i].idx \in IdxsOf(c, k)
    BY <1>8, <1>9, <2>1 DEF IdxsOf, ToSet
  <2>6. CASE got.status = "more"
    <3>1. parser'[c] = got.p /\ reader'[c] = reader[c]
      BY <1>14, <2>6 DEF Parsed, got, p
    <3>2. of2[1] = k /\ place2[1] = n + 1
      BY <1>5, <1>7, <1>17
    <3>3. DOMAIN p.req.auths \subseteq IdxsOf(c, k)
      BY <1>3, <1>7, <1>12, <1>17 DEF Parsing
    <3>4. n > 2 /\ n > 4 /\ ~(n + 1 <= 6) /\ ~(n + 1 <= 5) /\ n + 1 # 0
      BY <1>12, <1>17
    <3>5. got.p.req.mode = m.mode /\ got.p.req.ids.reqId = k
      BY <1>3, <1>7, <1>8, <2>4, <3>4 DEF Parsing
    <3>6. DOMAIN got.p.req.auths \subseteq IdxsOf(c, k)
      BY <2>2, <2>4, <2>5, <2>6, <3>3
    <3>7. Parsing(parser[c], c, k, n + 1)'
      BY <1>13, <2>4, <3>1, <3>4, <3>5, <3>6 DEF Parsing
    <3>8. parser'[c].at = "request" /\ parser'[c].field \in 1 .. 6 /\ reader'[c].at = "reading"
      BY <1>1, <1>11, <2>4, <3>1
    <3> QED
      BY <1>4, <1>5, <1>13, <2>4, <3>1, <3>2, <3>7, <3>8 DEF Requests
  <2>7. CASE got.status = "error"
    <3>1. End(c)
      BY <1>14, <2>7 DEF Parsed, got, p
    <3>2. Requests(c, k)'
      BY <3>1, RequestsEnd
    <3>3. DOMAIN parser'[c] = ParserFields /\ DOMAIN parser'[c].req = RequestFields
      BY <3>1 DEF End, Records, ParserFields
    <3> QED
      BY <1>4, <3>2, <3>3
  <2> QED
    BY <2>4, <2>6, <2>7
<1>18. CASE n > 5 /\ n = Width(c, k)
  <2>1. line = Empty /\ p.field = 6
    BY <1>9, <1>10, <1>12, <1>18
  <2>2. /\ got.status = "next"
        /\ DOMAIN got.p = ParserFields /\ got.p.at = p.at /\ got.p.field = 1
        /\ got.p.req = p.req
    BY <1>11, <2>1, ParseEnd DEF got
  <2>3. parser'[c] = got.p /\ reader'[c] = [at |-> "processing"]
    BY <1>11, <1>14, <2>2 DEF Parsed, got, p
  <2>4. of2[1] = k + 1 /\ place2[1] = 1
    BY <1>5, <1>7, <1>18
  <2>5. n > 2 /\ n > 4
    BY <1>12, <1>18
  <2>6. DOMAIN p.req.auths \subseteq IdxsOf(c, k)
    BY <1>3, <1>7, <1>12, <1>18 DEF Parsing
  <2>7. Complete(parser[c], c, k)'
    BY <1>3, <1>7, <1>8, <1>13, <2>2, <2>3, <2>5, <2>6 DEF Parsing, Complete
  <2>8. parser'[c].at = "request" /\ parser'[c].field \in 1 .. 6 /\ reader'[c].at = "processing"
    BY <1>11, <2>2, <2>3
  <2> QED
    BY <1>4, <1>5, <1>11, <1>13, <2>2, <2>3, <2>4, <2>7, <2>8 DEF Requests
<1> QED
  <2>1. n <= 5 \/ n > 5
    BY <1>12
  <2> QED
    BY <1>16, <1>17, <1>18, <2>1

\* A line of the handshake is read.
LEMMA RequestsGreeted ==
    ASSUME RpcServerAssumption, Records, NEW c \in Conns, NEW k, Requests(c, k),
           DOMAIN reader = Conns, DOMAIN parser = Conns,
           parser[c].at = "handshake", ReadLine(c)
    PROVE  /\ Requests(c, k)'
           /\ DOMAIN parser'[c] = ParserFields /\ DOMAIN parser'[c].req = RequestFields
           /\ IsASequence(wire'[c])
<1> DEFINE p == parser[c]
           line == Head(wire[c])
           got == Parse(p, line)
<1>1. /\ reader[c].at = "reading" /\ wire[c] # <<>> /\ wire' = [wire EXCEPT ![c] = Tail(@)]
      /\ UNCHANGED <<sent, gone>> /\ Parsed(c, line)
    BY DEF ReadLine
<1>2. wire'[c] = Tail(wire[c]) /\ sent'[c] = sent[c]
    BY <1>1 DEF Records
<1>3. /\ sent[c] = <<>> /\ p.field \in 1 .. 6 /\ Len(wire[c]) <= 7 - p.field /\ p.req = NewRequest
      /\ k = 1 /\ DOMAIN p = ParserFields /\ DOMAIN p.req = RequestFields
    BY DEF Requests, Records
<1>4. IsASequence(wire'[c]) /\ Len(wire[c]) \in Nat \ {0} /\ Len(wire'[c]) = Len(wire[c]) - 1
  <2>1. PICK S : wire[c] \in Seq(S)
    BY DEF Records, IsASequence
  <2>2. Tail(wire[c]) \in Seq(S) /\ Len(wire[c]) \in Nat \ {0} /\ Len(Tail(wire[c])) = Len(wire[c]) - 1
    BY <1>1, <2>1
  <2> QED
    BY <1>2, <2>2 DEF IsASequence
<1>5. got = ParseHandshake(p, line)
    BY DEF Parse
<1>n. PICK n \in 1 .. 6 : n = p.field
    BY <1>3
<1>v. PICK v : got = [status |-> IF n = 6 THEN "next" ELSE "more",
                      p |-> [p EXCEPT !.version = v, !.field = IF n = 6 THEN 1 ELSE n + 1]]
    BY <1>5, <1>n DEF ParseHandshake, HandshakeLines
<1>a. p.at = "handshake"
    OBVIOUS
<1> HIDE DEF p, line, got
<1>6. /\ got.status = (IF n = 6 THEN "next" ELSE "more")
      /\ DOMAIN got.p = ParserFields /\ got.p.at = "handshake" /\ got.p.req = p.req
      /\ got.p.field = (IF n = 6 THEN 1 ELSE n + 1)
    BY <1>3, <1>a, <1>v DEF ParserFields
<1>l. PICK L \in Nat \ {0} : L <= 7 - n /\ Len(wire'[c]) = L - 1
    BY <1>3, <1>4, <1>n
<1>7. CASE n # 6
  <2>1. parser'[c] = got.p /\ reader'[c] = reader[c]
    BY <1>1, <1>6, <1>7 DEF Parsed, got, p
  <2>2. got.p.field \in 1 .. 6 /\ Len(wire'[c]) <= 7 - got.p.field
    BY <1>6, <1>7, <1>l
  <2> QED
    BY <1>1, <1>2, <1>3, <1>4, <1>6, <2>1, <2>2 DEF Requests
<1>8. CASE n = 6
  <2>1. \/ End(c)
        \/ parser'[c] = [got.p EXCEPT !.at = "request"] /\ reader'[c] = reader[c]
    BY <1>1, <1>6, <1>8 DEF Parsed, got, p
  <2>2. CASE End(c)
    <3>1. Requests(c, k)'
      BY <2>2, RequestsEnd
    <3>2. DOMAIN parser'[c] = ParserFields /\ DOMAIN parser'[c].req = RequestFields
      BY <2>2 DEF End, Records, ParserFields
    <3> QED
      BY <1>4, <3>1, <3>2
  <2>3. CASE parser'[c] = [got.p EXCEPT !.at = "request"] /\ reader'[c] = reader[c]
    <3>1. /\ DOMAIN parser'[c] = ParserFields /\ parser'[c].at = "request" /\ parser'[c].field = 1
          /\ parser'[c].req = NewRequest /\ reader'[c].at = "reading"
      BY <1>1, <1>3, <1>6, <1>8, <2>3 DEF ParserFields
    <3>2. Len(wire'[c]) = 0
      BY <1>8, <1>l
    <3> DEFINE ones == [i \in 1 .. 1 |-> 1]
    <3>3. Aligned(c, ones, ones)'
      <4>1. Len(sent'[c]) = 0 /\ Len(wire'[c]) + 1 = 1 /\ 1 .. Len(wire'[c]) = {}
        <5>1. Len(sent'[c]) = 0
          BY <1>2, <1>3
        <5>2. Len(wire'[c]) + 1 = 1 /\ 1 .. Len(wire'[c]) = {}
          BY <3>2
        <5> QED
          BY <5>1, <5>2
      <4>2. ones \in [1 .. 1 -> Nat] /\ ones[1] = 1
        OBVIOUS
      <4> HIDE DEF ones
      <4> QED
        BY <4>1, <4>2 DEF Aligned
    <3>4. Parsing(parser[c], c, k, 1)'
      <4>1. DOMAIN NewRequest.auths = {}
        BY DEF NewRequest
      <4> QED
        BY <3>1, <4>1 DEF Parsing
    <3>5. ones[1] = 1
      OBVIOUS
    <3> HIDE DEF ones
    <3>6. Requests(c, k)'
      BY <1>3, <3>1, <3>3, <3>4, <3>5 DEF Requests
    <3> QED
      BY <1>3, <1>4, <3>1, <3>6
  <2> QED
    BY <2>1, <2>2, <2>3
<1> QED
    BY <1>7, <1>8

\* The end of the stream ends a request that was read up to its authentications, or the thread.
LEMMA RequestsReadEnd ==
    ASSUME RpcServerAssumption, Records, NEW c \in Conns, NEW k, Requests(c, k),
           DOMAIN reader = Conns, DOMAIN parser = Conns, ReadEnd(c)
    PROVE  /\ Requests(c, k)'
           /\ DOMAIN parser'[c] = ParserFields /\ DOMAIN parser'[c].req = RequestFields
<1> DEFINE p == parser[c]
           got == Parse(p, Empty)
<1>1. /\ reader[c].at = "reading" /\ wire[c] = <<>> /\ c \in gone
      /\ UNCHANGED <<wire, sent, gone>>
    BY DEF ReadEnd, ioVars
<1>2. \/ End(c)
      \/ /\ got.status = "next" /\ p.at = "request"
         /\ parser' = [parser EXCEPT ![c] = got.p]
         /\ reader' = [reader EXCEPT ![c] = [at |-> "processing"]]
    BY DEF ReadEnd
<1>3. CASE End(c)
  <2>1. Requests(c, k)'
    BY <1>3, RequestsEnd
  <2>2. DOMAIN parser'[c] = ParserFields /\ DOMAIN parser'[c].req = RequestFields
    BY <1>3 DEF End, Records, ParserFields
  <2> QED
    BY <2>1, <2>2
<1>4. CASE /\ got.status = "next" /\ p.at = "request"
           /\ parser' = [parser EXCEPT ![c] = got.p]
           /\ reader' = [reader EXCEPT ![c] = [at |-> "processing"]]
  <2>1. PICK of, place : Aligned(c, of, place) /\ of[1] = k /\ Parsing(p, c, k, place[1])
    BY <1>1, <1>4 DEF Requests
  <2>2. PICK n \in Nat : n = place[1]
    <3>1. 1 \in 1 .. Len(wire[c]) + 1
      BY <1>1
    <3> QED
      BY <2>1, <3>1 DEF Aligned
  <2>3. DOMAIN p = ParserFields /\ DOMAIN p.req = RequestFields
    BY DEF Records
  <2>4. n > 5
    <3>1. SUFFICES ASSUME n <= 5 PROVE FALSE
      BY <2>2
    <3>2. p.field = n /\ n # 0
      BY <2>1, <2>2, <3>1 DEF Parsing
    <3>3. p.field <= Len(Fields) /\ ~(p.field > Len(Fields))
      <4>1. Len(Fields) = 5
        BY DEF Fields
      <4> QED
        BY <2>2, <3>1, <3>2, <4>1
    <3>4. got.status = "more"
      BY <1>4, <3>3 DEF Parse, ParseRequest
    <3> QED
      BY <1>4, <3>4
  <2>5. p.field = 6
    BY <2>1, <2>2, <2>4 DEF Parsing
  <2>6. DOMAIN got.p = ParserFields /\ got.p.at = p.at /\ got.p.field = 1 /\ got.p.req = p.req
    BY <1>4, <2>3, <2>5, ParseEnd
  <2> HIDE DEF p, got
  <2>7. parser'[c] = got.p /\ reader'[c].at = "processing"
    BY <1>4
  <2>8. k \in Nat /\ IdxsOf(c, k)' = IdxsOf(c, k) /\ sent' = sent
    BY <1>1 DEF Requests, IdxsOf
  <2>9. n > 1 /\ n > 2 /\ n > 4
    BY <2>4
  <2>10. DOMAIN p.req.auths \subseteq IdxsOf(c, k)
    BY <2>1, <2>2, <2>4 DEF Parsing
  <2>11. Complete(parser[c], c, k)'
    BY <2>1, <2>2, <2>6, <2>7, <2>8, <2>9, <2>10 DEF Parsing, Complete
  <2> DEFINE next == [i \in 1 .. 1 |-> k + 1]
             one == [i \in 1 .. 1 |-> 1]
  <2>12. next \in [1 .. 1 -> Nat] /\ one \in [1 .. 1 -> Nat] /\ next[1] = k + 1 /\ one[1] = 1
    BY <2>8
  <2> HIDE DEF next, one
  <2>13. Aligned(c, next, one)'
    <3>1. Len(wire'[c]) + 1 = 1 /\ 1 .. Len(wire'[c]) = {} /\ c \in gone'
      BY <1>1
    <3> QED
      BY <2>12, <3>1 DEF Aligned
  <2>14. parser'[c].at = "request" /\ parser'[c].field \in 1 .. 6
    BY <1>4, <2>6, <2>7 DEF p
  <2> QED
    BY <2>3, <2>6, <2>7, <2>8, <2>11, <2>12, <2>13, <2>14 DEF Requests
<1> QED
    BY <1>2, <1>3, <1>4

-----------------------------------------------------------------------------
(* The ledger: what became of each request *)

Busy(w) == worker[w].at # "idle"
Same(s, t) == s.conn = t.conn /\ s.id = t.id

\* The first lines of the answers to c, and whether one was begun to its request id.
Begun(c, i) == i \in DOMAIN out[c] /\ out[c][i].part # "last"
Told(c, id) == \E i \in DOMAIN out[c] : Begun(c, i) /\ out[c][i].answer.mode = "EXEC" /\ out[c][i].answer.id = id

\* free[c]: the request of c that is being read or acted on. Tasks are of earlier ones.
Known(t, free) == t.id \in Nat \ {0} /\ t.id < free[t.conn]

TasksOnce(free) ==
    \A t \in tasks :
        /\ Known(t, free)
        /\ \A u \in tasks : Same(u, t) => u = t
        /\ \A w \in Workers : Busy(w) => ~Same(worker[w].task, t)
        /\ \A r \in ran : ~Same(r, t)
        /\ ~Told(t.conn, t.id)

WorkersOnce(free) ==
    \A w \in Workers : Busy(w) =>
        /\ Known(worker[w].task, free)
        /\ \A v \in Workers : Busy(v) /\ Same(worker[v].task, worker[w].task) => v = w
        /\ worker[w].at = "running" => \A r \in ran : ~Same(r, worker[w].task)
        /\ worker[w].at # "sending last" => ~Told(Conn(w), worker[w].task.id)
        /\ worker[w].at # "running" => worker[w].answer.mode = "EXEC" /\ worker[w].answer.id = worker[w].task.id

RanOnce(free) ==
    \A r \in ran : r.conn \in Conns /\ Known(r, free) /\ \A s \in ran : Same(s, r) => s = r

\* Answers are to requests up to the k-th, to that one only once it is being answered.
AnswersTo(c, k) ==
    /\ \A i \in DOMAIN out[c] : Begun(c, i) =>
          /\ out[c][i].answer.mode = "EXEC" => out[c][i].answer.id \in Nat \ {0} /\ out[c][i].answer.id <= k
          /\ out[c][i].answer.mode = "EXEC" /\ reader[c].at \notin {"sending last", "over"} =>
                out[c][i].answer.id < k
          /\ out[c][i].answer.mode # "EXEC" => out[c][i].answer.id = 0
    /\ \A i, j \in DOMAIN out[c] :
          Begun(c, i) /\ Begun(c, j) /\ i # j /\ out[c][i].answer.mode = "EXEC" =>
              out[c][i].answer.id # out[c][j].answer.id
    /\ reader[c].at \in {"sending", "sending last"} =>
          /\ reader[c].answer.mode = parser[c].req.mode
          /\ reader[c].answer.mode = "EXEC" => reader[c].answer.id = k
          /\ reader[c].answer.mode # "EXEC" => reader[c].answer.id = 0

Covers(p, c, id, m) ==
    /\ p.conn = c /\ p.id = id /\ id \in DOMAIN sent[c]
    /\ getMethodAttribs(m) \subseteq p.held
    /\ getMethodPassIndexes(m) \subseteq p.indexes \cup IdxsOf(c, id)

Permitted(c, id, m) == \E p \in permits : Covers(p, c, id, m)

Permits ==
    /\ \A p \in permits :
          /\ p.conn \in Conns /\ p.logins \in Nat /\ p.logins <= logins[p.conn]
          /\ p.logins = logins[p.conn] => p.user = session[p.conn].user
    /\ \A t \in tasks : Permitted(t.conn, t.id, t.method)
    /\ \A w \in Workers : worker[w].at = "running" =>
          Permitted(Conn(w), worker[w].task.id, worker[w].task.method)
    /\ \A c \in Conns : reader[c].at = "pushing" =>
          parser[c].req.mode = "EXEC" /\ Permitted(c, parser[c].req.ids.reqId, parser[c].req.method)
    /\ \A r \in ran : \E p \in permits :
          Covers(p, r.conn, r.id, r.method) /\ (p.user = r.user \/ p.logins # r.logins)

\* Each request to execute that was dealt with is in the pool, or has been answered.
InPool(c, id) ==
    \/ \E t \in tasks : t.conn = c /\ t.id = id
    \/ \E w \in Workers : Busy(w) /\ Conn(w) = c /\ worker[w].task.id = id

Accounted(free) ==
    \A c \in Conns \ gone : parser[c].at = "request" =>
        \A id \in DOMAIN sent[c] : id < free[c] /\ sent[c][id].mode = "EXEC" =>
            InPool(c, id) \/ Answered(c, id)

Types ==
    /\ \A c \in Conns : reader[c].at \in {"reading", "processing", "pushing", "sending", "sending last", "over"}
    /\ \A c \in Conns : session[c].user \in Users \cup {""}
    /\ \A w \in Workers : worker[w].at \in {"idle", "running", "sending", "sending last"}
    /\ Cardinality(tasks) <= QueueLimit + 1
    /\ DOMAIN rights.accounts \subseteq Users /\ rights.disabled \subseteq DOMAIN rights.accounts
    /\ rights.holds \subseteq Attribs \X DOMAIN rights.accounts

-----------------------------------------------------------------------------
(* Records and requests, through every step *)

\* The requests of the other connections stay as they are.
LEMMA RequestsElsewhere ==
    ASSUME NEW free \in [Conns -> Nat], \A d \in Conns : Requests(d, free[d]), NEW c \in Conns,
           NEW k \in Nat, Requests(c, k)',
           \A d \in Conns \ {c} :
              /\ parser'[d] = parser[d] /\ reader'[d] = reader[d] /\ wire'[d] = wire[d]
              /\ sent'[d] = sent[d] /\ (d \notin gone' => d \notin gone)
    PROVE  \A d \in Conns : Requests(d, [free EXCEPT ![c] = k][d])'
<1>1. ASSUME NEW d \in Conns \ {c} PROVE Requests(d, free[d])'
  <2>1. Requests(d, free[d])
    OBVIOUS
  <2> QED
    BY <2>1, RequestsKept
<1> DEFINE free2 == [free EXCEPT ![c] = k]
<1>2. free2[c] = k /\ \A d \in Conns \ {c} : free2[d] = free[d]
    OBVIOUS
<1> HIDE DEF free2
<1>3. \A d \in Conns : Requests(d, free2[d])'
    BY <1>1, <1>2
<1> QED
    BY <1>3 DEF free2

\* The thread of a connection does not touch the others.
LEMMA ReaderAlone ==
    ASSUME Shapes, Records, NEW c \in Conns, Reader(c)
    PROVE  /\ DOMAIN parser' = Conns /\ DOMAIN reader' = Conns /\ DOMAIN wire' = Conns /\ DOMAIN session' = Conns
           /\ sent' = sent /\ gone' = gone /\ rights' = rights /\ worker' = worker
           /\ \A d \in Conns \ {c} :
                 parser'[d] = parser[d] /\ reader'[d] = reader[d] /\ wire'[d] = wire[d] /\ session'[d] = session[d]
<1> USE DEF Shapes, Records
<1>1. CASE ReadLine(c)
    BY <1>1 DEF ReadLine, Parsed, End
<1>2. CASE ReadEnd(c)
    BY <1>2 DEF ReadEnd, End, ioVars
<1>3. CASE ProcessRequest(c)
  <2>1. UNCHANGED <<wire, sent, gone, rights, worker>>
    BY <1>3 DEF ProcessRequest, ioVars
  <2>2. /\ parser' = parser \/ End(c) \/ Continue(c)
        /\ session' = session \/ persistentAuthentication(c)
        /\ \E r : reader' = [reader EXCEPT ![c] = r]
    <3>1. \A answer, minds : ToSend(c, answer, minds) => \E r : reader' = [reader EXCEPT ![c] = r]
      BY DEF ToSend
    <3>2. End(c) \/ Continue(c) => \E r : reader' = [reader EXCEPT ![c] = r]
      BY DEF End, Continue
    <3>3. persistentAuthentication(c) => \E r : reader' = [reader EXCEPT ![c] = r]
      BY <3>1 DEF persistentAuthentication
    <3> QED
      BY <1>3, <3>1, <3>2, <3>3 DEF ProcessRequest
  <2>3. DOMAIN parser' = Conns /\ \A d \in Conns \ {c} : parser'[d] = parser[d]
    BY <2>2 DEF End, Continue
  <2>4. DOMAIN session' = Conns /\ \A d \in Conns \ {c} : session'[d] = session[d]
    BY <2>2 DEF persistentAuthentication, authenticate
  <2>5. DOMAIN reader' = Conns /\ \A d \in Conns \ {c} : reader'[d] = reader[d]
    BY <2>2
  <2> QED
    BY <2>1, <2>3, <2>4, <2>5
<1>4. CASE PushTask(c)
    BY <1>4 DEF PushTask, Continue, ToSend, ioVars
<1>5. CASE ReaderSendsFirst(c)
    BY <1>5 DEF ReaderSendsFirst, ioVars
<1>6. CASE ReaderSendsLast(c)
    BY <1>6 DEF ReaderSendsLast, Continue, End, ioVars
<1> QED
    BY <1>1, <1>2, <1>3, <1>4, <1>5, <1>6 DEF Reader

\* What is left of the records for a step of one of them.
LEMMA ReaderRecords ==
    ASSUME Shapes, Records, NEW c \in Conns, Reader(c),
           IsASequence(wire'[c]), DOMAIN parser'[c] = ParserFields, DOMAIN parser'[c].req = RequestFields,
           DOMAIN session'[c] = {"user", "matrix"}, logins' \in [Conns -> Nat], IsFiniteSet(tasks')
    PROVE  Records'
<1>1. /\ DOMAIN wire' = Conns
      /\ sent' = sent /\ rights' = rights
      /\ \A d \in Conns \ {c} : parser'[d] = parser[d] /\ wire'[d] = wire[d] /\ session'[d] = session[d]
    BY ReaderAlone
<1>2. /\ \A d \in Conns : IsASequence(wire'[d])
      /\ \A d \in Conns : DOMAIN parser'[d] = ParserFields /\ DOMAIN parser'[d].req = RequestFields
      /\ \A d \in Conns : DOMAIN session'[d] = {"user", "matrix"}
    BY <1>1 DEF Records
<1> QED
  <2>1. DOMAIN sent = Conns /\ (\A d \in Conns : sent[d] \in Seq(Messages)) /\ DOMAIN rights = {"accounts", "disabled", "holds"}
    BY DEF Records
  <2> QED
    BY <1>1, <1>2, <2>1 DEF Records

\* The parser after a request or at the end.
LEMMA ParserRecords ==
    ASSUME Shapes, Records, NEW c \in Conns, End(c) \/ Continue(c) \/ parser' = parser
    PROVE  DOMAIN parser'[c] = ParserFields /\ DOMAIN parser'[c].req = RequestFields
<1>1. DOMAIN parser = Conns /\ DOMAIN parser[c] = ParserFields /\ DOMAIN parser[c].req = RequestFields
    BY DEF Shapes, Records
<1>2. CASE End(c)
    BY <1>1, <1>2 DEF End, ParserFields
<1>3. CASE Continue(c)
    BY <1>1, <1>3 DEF Continue, clear, NewRequest, ParserFields, RequestFields
<1> QED
    BY <1>1, <1>2, <1>3

\* The thread of a connection reads.
LEMMA ReadsRequests ==
    ASSUME RpcServerAssumption, Shapes, Records,
           NEW free \in [Conns -> Nat], \A d \in Conns : Requests(d, free[d]),
           NEW c \in Conns, ReadLine(c) \/ ReadEnd(c)
    PROVE  Records' /\ \A d \in Conns : Requests(d, free[d])'
<1>1. UNCHANGED <<session, logins, tasks>> /\ Reader(c)
    BY DEF ReadLine, ReadEnd, Reader, history
<1>2. DOMAIN reader = Conns /\ DOMAIN parser = Conns /\ Requests(c, free[c])
    BY DEF Shapes
<1>3. Requests(c, free[c])' /\ DOMAIN parser'[c] = ParserFields /\ DOMAIN parser'[c].req = RequestFields
  <2>1. CASE ReadEnd(c)
    BY <1>2, <2>1, RequestsReadEnd
  <2>2. CASE ReadLine(c) /\ parser[c].at = "request"
    BY <1>2, <2>2, RequestsRead
  <2>3. CASE ReadLine(c) /\ parser[c].at = "handshake"
    BY <1>2, <2>3, RequestsGreeted
  <2>4. ReadLine(c) => parser[c].at \in {"handshake", "request"}
    BY <1>2 DEF ReadLine, Requests
  <2> QED
    BY <2>1, <2>2, <2>3, <2>4
<1>4. IsASequence(wire'[c])
  <2>1. CASE ReadEnd(c)
    BY <2>1 DEF ReadEnd, ioVars, Records
  <2>2. CASE ReadLine(c)
    <3>1. PICK S : wire[c] \in Seq(S)
      BY DEF Records, IsASequence
    <3>2. wire'[c] = Tail(wire[c]) /\ wire[c] # <<>>
      BY <2>2 DEF ReadLine, Records
    <3>3. Tail(wire[c]) \in Seq(S)
      BY <3>1, <3>2
    <3> QED
      BY <3>2, <3>3 DEF IsASequence
  <2> QED
    BY <2>1, <2>2
<1>5. Records'
  <2>1. DOMAIN session'[c] = {"user", "matrix"} /\ logins' \in [Conns -> Nat] /\ IsFiniteSet(tasks')
    BY <1>1 DEF Records
  <2> QED
    BY <1>1, <1>3, <1>4, <2>1, ReaderRecords
<1>6. \A d \in Conns \ {c} :
              /\ parser'[d] = parser[d] /\ reader'[d] = reader[d] /\ wire'[d] = wire[d]
              /\ sent'[d] = sent[d] /\ (d \notin gone' => d \notin gone)
    BY <1>1, ReaderAlone
<1>7. \A d \in Conns : Requests(d, [free EXCEPT ![c] = free[c]][d])'
  <2>1. free[c] \in Nat
    OBVIOUS
  <2> QED
    BY <1>3, <1>6, <2>1, RequestsElsewhere
<1>8. [free EXCEPT ![c] = free[c]] = free
    OBVIOUS
<1> QED
    BY <1>5, <1>7, <1>8

\* A login keeps its outcome, and its user when it is the one of the main password and right.
LEMMA LoginRecords ==
    ASSUME Shapes, Records, NEW c \in Conns, NEW user, NEW pass, NEW i, authenticate(c, user, pass, i)
    PROVE  /\ DOMAIN session'[c] = {"user", "matrix"}
           /\ session'[c].user \in {session[c].user, user}
           /\ session'[c].user # session[c].user => Authenticate(user, pass, i) = "AUTHENTICATED"
<1> DEFINE reason == Authenticate(user, pass, i)
           value == [reason |-> reason, time |-> now]
           m(f) == Put(f, i, value)
           u(old) == IF i = 0 /\ reason = "AUTHENTICATED" THEN user ELSE old
<1>1. session' = [session EXCEPT ![c].matrix = m(@), ![c].user = u(@)]
    BY DEF authenticate
<1>2. u(session[c].user) \in {session[c].user, user}
    OBVIOUS
<1>3. u(session[c].user) # session[c].user => reason = "AUTHENTICATED"
    OBVIOUS
<1>4. DOMAIN session = Conns /\ DOMAIN session[c] = {"user", "matrix"}
    BY DEF Shapes, Records
<1> HIDE DEF m, u, reason
<1>5. session'[c] = [session[c] EXCEPT !.matrix = m(@), !.user = u(@)]
    BY <1>1, <1>4
<1>6. DOMAIN session'[c] = {"user", "matrix"} /\ session'[c].user = u(session[c].user)
    BY <1>4, <1>5
<1> QED
    BY <1>2, <1>3, <1>6 DEF reason

\* It acts: the request has been dealt with, or not yet, or the connection ends.
LEMMA ActsRequests ==
    ASSUME RpcServerAssumption, Shapes, Records,
           NEW free \in [Conns -> Nat], \A d \in Conns : Requests(d, free[d]),
           NEW c \in Conns, ProcessRequest(c) \/ PushTask(c) \/ ReaderSendsFirst(c) \/ ReaderSendsLast(c)
    PROVE  /\ Records'
           /\ parser[c].at = "request" /\ reader[c].at \notin {"reading", "over"}
           /\ End(c) \/ Continue(c) \/ (parser' = parser /\ reader'[c].at \notin {"reading", "over"})
           /\ ~Continue(c) => \A d \in Conns : Requests(d, free[d])'
           /\ Continue(c) => \A d \in Conns : Requests(d, [free EXCEPT ![c] = free[c] + 1][d])'
<1>1. Reader(c) /\ UNCHANGED <<wire, sent, gone>>
    BY DEF ProcessRequest, PushTask, ReaderSendsFirst, ReaderSendsLast, Reader, ioVars
<1>2. DOMAIN reader = Conns /\ DOMAIN parser = Conns /\ Requests(c, free[c])
    BY DEF Shapes
<1>3. reader[c].at \notin {"reading", "over"}
    BY DEF ProcessRequest, PushTask, ReaderSendsFirst, ReaderSendsLast
<1>4. parser[c].at = "request"
    BY <1>2, <1>3 DEF Requests
<1>5. End(c) \/ Continue(c) \/ (parser' = parser /\ reader'[c].at \notin {"reading", "over"})
  <2>0. \A answer, minds : ToSend(c, answer, minds) => reader'[c].at = "sending"
    BY <1>2 DEF ToSend
  <2>1. CASE ProcessRequest(c)
    <3>1. CASE persistentAuthentication(c) /\ parser' = parser
      BY <2>0, <3>1 DEF persistentAuthentication
    <3>2. CASE reader' = [reader EXCEPT ![c] = [at |-> "pushing"]] /\ parser' = parser
      BY <1>2, <3>2
    <3>3. CASE (\E answer, minds : ToSend(c, answer, minds)) /\ parser' = parser
      BY <2>0, <3>3
    <3> QED
      BY <2>1, <3>1, <3>2, <3>3 DEF ProcessRequest
  <2>2. CASE PushTask(c)
    BY <2>0, <2>2 DEF PushTask
  <2>3. CASE ReaderSendsFirst(c)
    <3>1. {"at", "answer", "minds"} \subseteq DOMAIN reader[c]
      BY <2>3 DEF ReaderSendsFirst, Shapes
    <3>2. reader'[c].at = "sending last" /\ parser' = parser
      BY <1>2, <2>3, <3>1 DEF ReaderSendsFirst
    <3> QED
      BY <3>2
  <2>4. CASE ReaderSendsLast(c)
    BY <2>4 DEF ReaderSendsLast
  <2> QED
    BY <2>1, <2>2, <2>3, <2>4
<1>6. Records'
  <2>1. wire'[c] = wire[c] /\ IsASequence(wire[c]) /\ DOMAIN session[c] = {"user", "matrix"} /\ DOMAIN session = Conns
    BY <1>1 DEF Records, Shapes
  <2>2. DOMAIN parser'[c] = ParserFields /\ DOMAIN parser'[c].req = RequestFields
    BY <1>5, ParserRecords
  <2>3. /\ session' = session \/ persistentAuthentication(c)
        /\ logins' = logins \/ persistentAuthentication(c)
        /\ tasks' = tasks \/ tasks' = tasks \cup {Task(c)}
    BY DEF ProcessRequest, PushTask, ReaderSendsFirst, ReaderSendsLast, history
  <2>4. DOMAIN session'[c] = {"user", "matrix"}
    <3>1. persistentAuthentication(c) => \E user, pass, i : authenticate(c, user, pass, i)
      BY DEF persistentAuthentication
    <3> QED
      BY <2>1, <2>3, <3>1, LoginRecords
  <2>5. logins' \in [Conns -> Nat]
    <3>1. logins \in [Conns -> Nat]
      BY DEF Records
    <3>2. persistentAuthentication(c) => \E n \in {logins[c], logins[c] + 1} : logins' = [logins EXCEPT ![c] = n]
      BY DEF persistentAuthentication
    <3> QED
      BY <2>3, <3>1, <3>2
  <2>6. IsFiniteSet(tasks')
    <3>1. IsFiniteSet(tasks)
      BY DEF Records
    <3>2. IsFiniteSet(tasks \cup {Task(c)})
      BY <3>1, FS_AddElement
    <3> QED
      BY <2>3, <3>1, <3>2
  <2> QED
    BY <1>1, <2>1, <2>2, <2>4, <2>5, <2>6, ReaderRecords
<1>7. \A d \in Conns \ {c} :
              /\ parser'[d] = parser[d] /\ reader'[d] = reader[d] /\ wire'[d] = wire[d]
              /\ sent'[d] = sent[d] /\ (d \notin gone' => d \notin gone)
    BY <1>1, ReaderAlone
<1>8. ASSUME ~Continue(c) PROVE \A d \in Conns : Requests(d, free[d])'
  <2>1. Requests(c, free[c])'
    <3>1. CASE End(c)
      BY <1>2, <3>1, RequestsEnd
    <3>2. CASE parser' = parser /\ reader'[c].at \notin {"reading", "over"}
      BY <1>1, <1>2, <1>3, <3>2, RequestsKept
    <3> QED
      BY <1>5, <1>8, <3>1, <3>2
  <2>2. free[c] \in Nat
    OBVIOUS
  <2>3. \A d \in Conns : Requests(d, [free EXCEPT ![c] = free[c]][d])'
    BY <1>7, <2>1, <2>2, RequestsElsewhere
  <2>4. [free EXCEPT ![c] = free[c]] = free
    OBVIOUS
  <2> QED
    BY <2>3, <2>4
<1>9. ASSUME Continue(c) PROVE \A d \in Conns : Requests(d, [free EXCEPT ![c] = free[c] + 1][d])'
  <2>1. Requests(c, free[c] + 1)'
    BY <1>1, <1>2, <1>3, <1>4, <1>9, RequestsNext
  <2>2. free[c] + 1 \in Nat
    OBVIOUS
  <2> QED
    BY <1>7, <2>1, <2>2, RequestsElsewhere
<1> QED
    BY <1>3, <1>4, <1>5, <1>6, <1>8, <1>9

\* What is left of the records for a step that changes neither parsers nor sessions.
LEMMA ClientRecords ==
    ASSUME Records, parser' = parser, session' = session, logins' = logins, tasks' = tasks,
           DOMAIN rights' = DOMAIN rights,
           DOMAIN wire' = Conns, DOMAIN sent' = Conns,
           \A d \in Conns : sent'[d] \in Seq(Messages) /\ IsASequence(wire'[d])
    PROVE  Records'
BY DEF Records

\* What has been parsed of the messages that a client sent is of them when it sends one more.
LEMMA ParsedStays ==
    ASSUME NEW c \in Conns, NEW k, parser'[c] = parser[c],
           \A j \in DOMAIN sent[c] : j \in DOMAIN sent'[c] /\ sent'[c][j] = sent[c][j]
    PROVE  /\ \A n : Parsing(parser[c], c, k, n) /\ n \in Nat => Parsing(parser[c], c, k, n)'
           /\ Complete(parser[c], c, k) => Complete(parser[c], c, k)'
<1>1. k \in DOMAIN sent[c] => IdxsOf(c, k)' = IdxsOf(c, k)
    BY DEF IdxsOf
<1>2. ASSUME NEW n \in Nat, Parsing(parser[c], c, k, n) PROVE Parsing(parser[c], c, k, n)'
  <2>1. n > 2 => n > 1
    OBVIOUS
  <2>2. n > 6 => n > 1
    OBVIOUS
  <2> QED
    BY <1>1, <1>2, <2>1, <2>2 DEF Parsing
<1>3. ASSUME Complete(parser[c], c, k) PROVE Complete(parser[c], c, k)'
    BY <1>1, <1>3 DEF Complete
<1> QED
    BY <1>2, <1>3

\* The lines of a handshake.
LEMMA HandshakeLength ==
    ASSUME NEW v
    PROVE  IsASequence(HandshakeStream(v)) /\ Len(HandshakeStream(v)) = 6
<1> DEFINE S == {Text(v), Empty}
           first == <<Text(v)>>
           rest == [i \in 1 .. 5 |-> Empty]
<1>1. first \in Seq(S) /\ Len(first) = 1
    OBVIOUS
<1>2. rest \in Seq(S) /\ Len(rest) = 5
    OBVIOUS
<1>3. HandshakeStream(v) = first \o rest
    BY DEF HandshakeStream, HandshakeLines
<1> HIDE DEF first, rest, S
<1>4. first \o rest \in Seq(S) /\ Len(first \o rest) = 6
  <2>1. \A s, t \in Seq(S) : s \o t \in Seq(S) /\ Len(s \o t) = Len(s) + Len(t)
    BY Joined
  <2>2. first \o rest \in Seq(S) /\ Len(first \o rest) = Len(first) + Len(rest)
    BY <1>1, <1>2, <2>1
  <2> QED
    BY <1>1, <1>2, <2>2
<1> QED
    BY <1>3, <1>4 DEF IsASequence

\* The steps of a client.
LEMMA ClientRequests ==
    ASSUME RpcServerAssumption, Shapes, Records,
           NEW free \in [Conns -> Nat], \A d \in Conns : Requests(d, free[d]),
           NEW c \in Conns, Client(c)
    PROVE  Records' /\ \A d \in Conns : Requests(d, free[d])'
<1>1. UNCHANGED <<parser, session, reader, logins, tasks, rights>>
    BY DEF Client, Greet, SendMessage, Leave, history
<1>2. /\ DOMAIN wire = Conns /\ DOMAIN sent = Conns /\ \A d \in Conns : sent[d] \in Seq(Messages) /\ IsASequence(wire[d])
    BY DEF Records
<1>3. /\ DOMAIN wire' = Conns /\ DOMAIN sent' = Conns
      /\ \A d \in Conns \ {c} : wire'[d] = wire[d] /\ sent'[d] = sent[d] /\ (d \notin gone' => d \notin gone)
    BY <1>2 DEF Client, Greet, SendMessage, Leave
<1>4. Requests(c, free[c]) /\ free[c] \in Nat
    OBVIOUS
<1>5. IsASequence(wire'[c]) /\ sent'[c] \in Seq(Messages) /\ Requests(c, free[c])'
  <2>1. CASE Greet(c)
    <3>1. PICK v : wire' = [wire EXCEPT ![c] = HandshakeStream(v)]
      BY <2>1 DEF Greet
    <3>2. IsASequence(wire'[c]) /\ Len(wire'[c]) = 6
      BY <1>2, <3>1, HandshakeLength
    <3>3. parser[c] = NewParser /\ sent' = sent /\ gone' = gone
      BY <2>1 DEF Greet
    <3>4. parser[c].at = "handshake" /\ 7 - parser[c].field = 6 /\ parser[c].field \in 1 .. 6
      <4>1. NewParser.at = "handshake" /\ NewParser.field = 1
        BY DEF NewParser
      <4>2. parser[c].at = "handshake" /\ parser[c].field = 1
        BY <3>3, <4>1
      <4> QED
        BY <4>2
    <3>5. Requests(c, free[c])'
      <4>1. reader[c].at = "reading" /\ sent[c] = <<>> /\ parser[c].req = NewRequest /\ free[c] = 1
        BY <1>4, <3>4 DEF Requests
      <4>2. Len(wire'[c]) <= 7 - parser'[c].field
        BY <1>1, <3>2, <3>4
      <4> QED
        BY <1>1, <3>3, <3>4, <4>1, <4>2 DEF Requests
    <3> QED
      BY <1>2, <3>2, <3>3, <3>5
  <2>2. ASSUME NEW m \in Messages, SendMessage(c, m) PROVE IsASequence(wire'[c]) /\ sent'[c] \in Seq(Messages) /\ Requests(c, free[c])'
    <3>1. /\ c \notin gone /\ gone' = gone /\ parser[c].at = "request"
          /\ wire'[c] = wire[c] \o Stream(m, Len(sent[c]) + 1) /\ sent'[c] = Append(sent[c], m)
      BY <1>2, <2>2 DEF SendMessage
    <3>2. sent'[c] \in Seq(Messages)
      BY <1>2, <3>1
    <3>3. PICK of, place :
                /\ Aligned(c, of, place)
                /\ reader[c].at = "reading" => of[1] = free[c] /\ Parsing(parser[c], c, free[c], place[1])
                /\ reader[c].at # "reading" =>
                      of[1] = free[c] + 1 /\ place[1] = 1 /\ Complete(parser[c], c, free[c])
      BY <1>4, <3>1 DEF Requests
    <3>4. /\ IsASequence(wire'[c])
          /\ \E of2, place2 : Aligned(c, of2, place2)' /\ of2[1] = of[1] /\ place2[1] = place[1]
      BY <2>2, <3>3, AlignedMore
    <3>5. PICK of2, place2 : Aligned(c, of2, place2)' /\ of2[1] = of[1] /\ place2[1] = place[1]
      BY <3>4
    <3>6. \A j \in DOMAIN sent[c] : j \in DOMAIN sent'[c] /\ sent'[c][j] = sent[c][j]
      BY <1>2, <3>1
    <3>7. place[1] \in Nat
      <4>1. 1 \in 1 .. Len(wire[c]) + 1
        <5>1. PICK S : wire[c] \in Seq(S)
          BY <1>2 DEF IsASequence
        <5>2. Len(wire[c]) \in Nat
          BY <5>1
        <5> QED
          BY <5>2
      <4> QED
        BY <3>3, <4>1 DEF Aligned
    <3>8. /\ Parsing(parser[c], c, free[c], place[1]) => Parsing(parser[c], c, free[c], place2[1])'
          /\ Complete(parser[c], c, free[c]) => Complete(parser[c], c, free[c])'
      <4>1. parser'[c] = parser[c]
        BY <1>1
      <4> QED
        BY <3>5, <3>6, <3>7, <4>1, ParsedStays
    <3>9. Requests(c, free[c])'
      <4>1. parser'[c].at = "request" /\ reader'[c].at = reader[c].at /\ parser'[c].field \in 1 .. 6 /\ reader[c].at # "over"
        BY <1>1, <1>4, <3>1 DEF Requests
      <4> QED
        BY <1>4, <3>3, <3>5, <3>8, <4>1 DEF Requests
    <3> QED
      BY <3>2, <3>4, <3>9
  <2>3. ASSUME NEW n \in 0 .. Len(wire[c]), Leave(c, n) PROVE IsASequence(wire'[c]) /\ sent'[c] \in Seq(Messages) /\ Requests(c, free[c])'
    <3>1. /\ c \in gone' /\ sent' = sent /\ wire'[c] = SubSeq(wire[c], 1, n)
      BY <1>2, <2>3 DEF Leave
    <3>2. IsASequence(wire'[c]) /\ Len(wire'[c]) = n /\ n \in Nat /\ n <= Len(wire[c]) /\ Len(wire[c]) \in Nat
      <4>1. PICK S : wire[c] \in Seq(S)
        BY <1>2 DEF IsASequence
      <4>2. Len(wire[c]) \in Nat /\ SubSeq(wire[c], 1, n) \in Seq(S) /\ Len(SubSeq(wire[c], 1, n)) = n
        BY <4>1
      <4> QED
        <5>1. IsASequence(wire'[c]) /\ Len(wire'[c]) = n
          BY <3>1, <4>2 DEF IsASequence
        <5>2. n \in Nat /\ n <= Len(wire[c])
          BY <4>2
        <5> QED
          BY <4>2, <5>1, <5>2
    <3>3. CASE parser[c].at = "request"
      <4>1. PICK of, place :
                /\ Aligned(c, of, place)
                /\ reader[c].at = "reading" => of[1] = free[c] /\ Parsing(parser[c], c, free[c], place[1])
                /\ reader[c].at # "reading" =>
                      of[1] = free[c] + 1 /\ place[1] = 1 /\ Complete(parser[c], c, free[c])
        BY <1>4, <3>3 DEF Requests
      <4>2. sent'[c] = sent[c]
        BY <3>1
      <4>3. \E of2, place2 : Aligned(c, of2, place2)' /\ of2[1] = of[1] /\ place2[1] = place[1]
        BY <1>2, <3>1, <4>1, <4>2, AlignedPrefix
      <4>4. PICK of2, place2 : Aligned(c, of2, place2)' /\ of2[1] = of[1] /\ place2[1] = place[1]
        BY <4>3
      <4>5. /\ Parsing(parser[c], c, free[c], place[1]) => Parsing(parser[c], c, free[c], place2[1])'
            /\ Complete(parser[c], c, free[c]) => Complete(parser[c], c, free[c])'
        BY <1>1, <3>1, <4>4 DEF Parsing, Complete, IdxsOf
      <4>6. parser'[c].at = "request" /\ reader'[c].at = reader[c].at /\ parser'[c].field \in 1 .. 6 /\ reader[c].at # "over"
        BY <1>1, <1>4, <3>3 DEF Requests
      <4>7. Requests(c, free[c])'
        BY <1>4, <4>1, <4>4, <4>5, <4>6 DEF Requests
      <4> QED
        BY <1>2, <3>1, <3>2, <4>7
    <3>4. CASE parser[c].at # "request"
      <4>1. parser[c].at = "handshake" => Len(wire'[c]) <= 7 - parser'[c].field
        <5>1. parser[c].at = "handshake" => Len(wire[c]) <= 7 - parser[c].field /\ parser[c].field \in 1 .. 6
          BY <1>4 DEF Requests
        <5> QED
          BY <1>1, <3>2, <5>1
      <4>2. Requests(c, free[c])'
        BY <1>1, <1>4, <3>1, <3>4, <4>1 DEF Requests
      <4> QED
        BY <1>2, <3>1, <3>2, <4>2
    <3> QED
      BY <3>3, <3>4
  <2> QED
    BY <2>1, <2>2, <2>3 DEF Client
<1>6. Records'
  <2>1. \A d \in Conns : sent'[d] \in Seq(Messages) /\ IsASequence(wire'[d])
    BY <1>2, <1>3, <1>5
  <2> QED
    BY <1>1, <1>3, <2>1, ClientRecords
<1>7. \A d \in Conns : Requests(d, [free EXCEPT ![c] = free[c]][d])'
  <2>1. \A d \in Conns \ {c} :
              /\ parser'[d] = parser[d] /\ reader'[d] = reader[d] /\ wire'[d] = wire[d]
              /\ sent'[d] = sent[d] /\ (d \notin gone' => d \notin gone)
    BY <1>1, <1>3
  <2> QED
    BY <1>4, <1>5, <2>1, RequestsElsewhere
<1>8. [free EXCEPT ![c] = free[c]] = free
    OBVIOUS
<1> QED
    BY <1>6, <1>7, <1>8

\* Steps of the pool, the application and the clock.
LEMMA OthersRequests ==
    ASSUME Records, NEW free \in [Conns -> Nat], \A d \in Conns : Requests(d, free[d]),
           UNCHANGED <<wire, sent, gone, parser, session, reader, logins>>,
           DOMAIN rights' = DOMAIN rights, IsFiniteSet(tasks')
    PROVE  Records' /\ \A d \in Conns : Requests(d, free[d])'
<1>1. Records'
    BY DEF Records
<1>2. ASSUME NEW d \in Conns PROVE Requests(d, free[d])'
  <2>1. Requests(d, free[d])
    OBVIOUS
  <2>2. parser'[d] = parser[d] /\ wire'[d] = wire[d] /\ sent'[d] = sent[d] /\ reader'[d] = reader[d] /\ gone' = gone
    OBVIOUS
  <2> QED
    BY <2>1, <2>2, RequestsKept
<1> QED
    BY <1>1, <1>2

-----------------------------------------------------------------------------
(* Lines that are written *)

-----------------------------------------------------------------------------
(* One answer and one run for each request *)

\* When nothing is pushed, run or written, later requests change nothing.
LEMMA LedgerKept ==
    ASSUME Shapes, NEW free \in [Conns -> Nat], NEW free2 \in [Conns -> Nat],
           TasksOnce(free), WorkersOnce(free), RanOnce(free),
           \A c \in Conns : free[c] <= free2[c], UNCHANGED <<tasks, worker, ran, out>>
    PROVE  TasksOnce(free2)' /\ WorkersOnce(free2)' /\ RanOnce(free2)'
<1>1. \A c, id : Told(c, id)' <=> Told(c, id)
    BY DEF Told, Begun
<1>2. \A w : (Busy(w)' <=> Busy(w)) /\ Conn(w)' = Conn(w)
    BY DEF Busy, Conn
<1>3. ASSUME NEW t, t.conn \in Conns, Known(t, free) PROVE Known(t, free2)
  <2>1. t.id \in Nat \ {0} /\ t.id < free[t.conn]
    BY <1>3 DEF Known
  <2>2. free[t.conn] \in Nat /\ free2[t.conn] \in Nat /\ free[t.conn] <= free2[t.conn]
    BY <1>3
  <2> QED
    BY <2>1, <2>2 DEF Known
<1>4. TasksOnce(free2)'
  <2>1. \A t \in tasks : Known(t, free2)
    BY <1>3 DEF TasksOnce, Shapes
  <2> QED
    BY <1>1, <1>2, <2>1 DEF TasksOnce
<1>5. WorkersOnce(free2)'
  <2>1. \A w \in Workers : Busy(w) => Known(worker[w].task, free2)
    <3> SUFFICES ASSUME NEW w \in Workers, Busy(w) PROVE Known(worker[w].task, free2)
      OBVIOUS
    <3>1. worker[w].task.conn \in Conns
      BY DEF Shapes, Busy, Conn
    <3>2. Known(worker[w].task, free)
      BY DEF WorkersOnce
    <3> QED
      BY <1>3, <3>1, <3>2
  <2> QED
    BY <1>1, <1>2, <2>1 DEF WorkersOnce
<1>6. RanOnce(free2)'
  <2>1. \A r \in ran : Known(r, free2)
    BY <1>3 DEF RanOnce
  <2> QED
    BY <2>1 DEF RanOnce
<1> QED
    BY <1>4, <1>5, <1>6

\* A line that is written comes last, or nowhere.
LEMMA LineWritten ==
    ASSUME Shapes, NEW c \in Conns, NEW answer, NEW part,
           out' = [out EXCEPT ![c] = Written(c, answer, part)]
    PROVE  /\ \A d \in Conns \ {c} : out'[d] = out[d]
           /\ \/ c \in gone /\ out'[c] = out[c]
              \/ /\ c \notin gone
                 /\ \E n : /\ n \notin DOMAIN out[c] /\ DOMAIN out'[c] = DOMAIN out[c] \cup {n}
                           /\ out'[c][n].answer = answer /\ out'[c][n].part = part
                           /\ \A i \in DOMAIN out[c] : out'[c][i] = out[c][i]
<1> DEFINE x == [answer |-> answer, part |-> part]
<1>1. PICK S : out[c] \in Seq(S)
    BY DEF Shapes, IsASequence
<1>2. /\ Len(out[c]) \in Nat /\ DOMAIN out[c] = 1 .. Len(out[c])
      /\ DOMAIN Append(out[c], x) = DOMAIN out[c] \cup {Len(out[c]) + 1}
      /\ \A i \in DOMAIN out[c] : Append(out[c], x)[i] = out[c][i]
      /\ Append(out[c], x)[Len(out[c]) + 1] = x
    BY <1>1, AppendLine
<1>3. Len(out[c]) + 1 \notin DOMAIN out[c]
    BY <1>2
<1>4. /\ \A d \in Conns \ {c} : out'[d] = out[d]
      /\ out'[c] = IF c \in gone THEN out[c] ELSE Append(out[c], x)
    BY DEF Shapes, Written
<1>5. CASE c \in gone
    BY <1>4, <1>5
<1>6. CASE c \notin gone
  <2>1. out'[c] = Append(out[c], x)
    BY <1>4, <1>6
  <2> QED
    BY <1>2, <1>3, <1>4, <1>6, <2>1
<1> QED
    BY <1>5, <1>6

\* What has been answered after a first line, and after a last one.
LEMMA ToldFirst ==
    ASSUME Shapes, NEW c \in Conns, NEW t, NEW answer, SendFirst(t, c, answer)
    PROVE  /\ \A d \in Conns : \A id :
                 Told(d, id)' => Told(d, id) \/ (d = c /\ answer.mode = "EXEC" /\ answer.id = id)
           /\ \A d \in Conns \ {c} : out'[d] = out[d]
<1>1. out' = [out EXCEPT ![c] = Written(c, answer, "first")]
    BY DEF SendFirst
<1>2. /\ \A d \in Conns \ {c} : out'[d] = out[d]
      /\ \/ c \in gone /\ out'[c] = out[c]
         \/ /\ c \notin gone
            /\ \E n : /\ n \notin DOMAIN out[c] /\ DOMAIN out'[c] = DOMAIN out[c] \cup {n}
                      /\ out'[c][n].answer = answer /\ out'[c][n].part = "first"
                      /\ \A i \in DOMAIN out[c] : out'[c][i] = out[c][i]
    BY <1>1, LineWritten
<1>3. ASSUME NEW d \in Conns, NEW id, Told(d, id)'
      PROVE  Told(d, id) \/ (d = c /\ answer.mode = "EXEC" /\ answer.id = id)
  <2>1. PICK i \in DOMAIN out'[d] :
            out'[d][i].part # "last" /\ out'[d][i].answer.mode = "EXEC" /\ out'[d][i].answer.id = id
    BY <1>3 DEF Told, Begun
  <2>2. CASE d # c
    BY <1>2, <2>1, <2>2 DEF Told, Begun
  <2>3. CASE d = c /\ i \in DOMAIN out[c]
    BY <1>2, <2>1, <2>3 DEF Told, Begun
  <2>4. CASE d = c /\ i \notin DOMAIN out[c]
    BY <1>2, <2>1, <2>4
  <2> QED
    BY <2>2, <2>3, <2>4
<1> QED
    BY <1>2, <1>3

\* The last line of an answer changes nothing of this.
LEMMA ToldLast ==
    ASSUME Shapes, NEW c \in Conns, NEW t, NEW answer, SendLast(t, c, answer)
    PROVE  /\ \A d \in Conns : \A id : Told(d, id)' <=> Told(d, id)
           /\ \A d \in Conns \ {c} : out'[d] = out[d]
           /\ \A i \in DOMAIN out'[c] : Begun(c, i)' => Begun(c, i) /\ out'[c][i] = out[c][i]
           /\ c \notin gone => \E i \in DOMAIN out'[c] : out'[c][i].answer = answer /\ out'[c][i].part = "last"
<1>1. out' = [out EXCEPT ![c] = Written(c, answer, "last")]
    BY DEF SendLast
<1>2. /\ \A d \in Conns \ {c} : out'[d] = out[d]
      /\ \/ c \in gone /\ out'[c] = out[c]
         \/ /\ c \notin gone
            /\ \E n : /\ n \notin DOMAIN out[c] /\ DOMAIN out'[c] = DOMAIN out[c] \cup {n}
                      /\ out'[c][n].answer = answer /\ out'[c][n].part = "last"
                      /\ \A i \in DOMAIN out[c] : out'[c][i] = out[c][i]
    BY <1>1, LineWritten
<1>3. \A i \in DOMAIN out'[c] : Begun(c, i)' => Begun(c, i) /\ out'[c][i] = out[c][i]
    BY <1>2 DEF Begun
<1>4. \A i \in DOMAIN out[c] : Begun(c, i) => Begun(c, i)' /\ out'[c][i] = out[c][i]
    BY <1>2 DEF Begun
<1>5. ASSUME NEW d \in Conns, NEW id PROVE Told(d, id)' <=> Told(d, id)
  <2>1. CASE d # c
    BY <1>2, <2>1 DEF Told, Begun
  <2>2. CASE d = c
    <3>1. Told(c, id)' => Told(c, id)
      BY <1>3 DEF Told, Begun
    <3>2. Told(c, id) => Told(c, id)'
      BY <1>4 DEF Told, Begun
    <3> QED
      BY <2>2, <3>1, <3>2
  <2> QED
    BY <2>1, <2>2
<1> QED
    BY <1>2, <1>3, <1>5

\* What is of a request is of a later one.
LEMMA LaterToo ==
    \A k, k2, n \in Nat : k <= k2 /\ n <= k => n <= k2 /\ (k2 # k => n < k2)
OBVIOUS

\* Nothing is written to a client: its thread answers the request that it acts on, and none
\* while it is in another.
LEMMA AnswersStay ==
    ASSUME NEW c \in Conns, NEW k \in Nat, NEW k2 \in Nat, AnswersTo(c, k), k <= k2,
           \A i \in DOMAIN out'[c] : Begun(c, i)' => Begun(c, i) /\ out'[c][i] = out[c][i],
           k2 = k => (reader[c].at \in {"sending last", "over"} => reader'[c].at \in {"sending last", "over"}),
           reader'[c].at \in {"sending", "sending last"} =>
              /\ reader'[c].answer.mode = parser'[c].req.mode
              /\ reader'[c].answer.mode = "EXEC" => reader'[c].answer.id = k2
              /\ reader'[c].answer.mode # "EXEC" => reader'[c].answer.id = 0
    PROVE  AnswersTo(c, k2)'
<1>0. \A i \in DOMAIN out'[c] : Begun(c, i)' => i \in DOMAIN out[c] /\ Begun(c, i) /\ out'[c][i] = out[c][i]
    BY DEF Begun
<1>3. \A n \in Nat : n <= k => n <= k2 /\ (k2 # k => n < k2)
    BY LaterToo
<1>1. ASSUME NEW i \in DOMAIN out'[c], Begun(c, i)'
      PROVE  /\ out'[c][i].answer.mode = "EXEC" => out'[c][i].answer.id \in Nat \ {0} /\ out'[c][i].answer.id <= k2
             /\ out'[c][i].answer.mode = "EXEC" /\ reader'[c].at \notin {"sending last", "over"} =>
                   out'[c][i].answer.id < k2
             /\ out'[c][i].answer.mode # "EXEC" => out'[c][i].answer.id = 0
  <2>1. i \in DOMAIN out[c] /\ Begun(c, i) /\ out'[c][i] = out[c][i]
    BY <1>0, <1>1
  <2>2. PICK a : a = out[c][i].answer
    OBVIOUS
  <2>3. /\ a.mode = "EXEC" => a.id \in Nat \ {0} /\ a.id <= k
        /\ a.mode = "EXEC" /\ reader[c].at \notin {"sending last", "over"} => a.id < k
        /\ a.mode # "EXEC" => a.id = 0
    BY <2>1, <2>2 DEF AnswersTo
  <2>n. PICK n : n = a.id
    OBVIOUS
  <2>4. a.mode = "EXEC" => a.id \in Nat \ {0} /\ a.id <= k2
    <3> SUFFICES ASSUME a.mode = "EXEC" PROVE n \in Nat \ {0} /\ n <= k2
      BY <2>n
    <3>1. n \in Nat \ {0} /\ n <= k
      BY <2>3, <2>n
    <3> QED
      BY <1>3, <3>1
  <2>5. a.mode = "EXEC" /\ reader'[c].at \notin {"sending last", "over"} => a.id < k2
    <3> SUFFICES ASSUME a.mode = "EXEC", reader'[c].at \notin {"sending last", "over"} PROVE n < k2
      BY <2>n
    <3>1. n \in Nat \ {0} /\ n <= k
      BY <2>3, <2>n
    <3>2. CASE k2 = k
      <4>1. reader[c].at \notin {"sending last", "over"}
        BY <3>2
      <4>2. n < k
        BY <2>3, <2>n, <4>1
      <4> QED
        BY <3>2, <4>2
    <3>3. CASE k2 # k
      BY <1>3, <3>1, <3>3
    <3> QED
      BY <3>2, <3>3
  <2> QED
    BY <2>1, <2>2, <2>3, <2>4, <2>5
<1>2. \A i, j \in DOMAIN out'[c] :
          Begun(c, i)' /\ Begun(c, j)' /\ i # j /\ out'[c][i].answer.mode = "EXEC" =>
              out'[c][i].answer.id # out'[c][j].answer.id
    BY <1>0 DEF AnswersTo
<1> QED
    BY <1>1, <1>2 DEF AnswersTo

\* An answer is begun, to a request that none was begun to.
LEMMA AnswersBegin ==
    ASSUME Shapes, NEW c \in Conns, NEW k \in Nat, AnswersTo(c, k), NEW t, NEW answer, SendFirst(t, c, answer),
           answer.mode = "EXEC" => /\ answer.id \in Nat \ {0} /\ answer.id <= k /\ ~Told(c, answer.id)
                                   /\ reader'[c].at \notin {"sending last", "over"} => answer.id < k,
           answer.mode # "EXEC" => answer.id = 0,
           reader[c].at \in {"sending last", "over"} => reader'[c].at \in {"sending last", "over"},
           reader'[c].at \in {"sending", "sending last"} =>
              /\ reader'[c].answer.mode = parser'[c].req.mode
              /\ reader'[c].answer.mode = "EXEC" => reader'[c].answer.id = k
              /\ reader'[c].answer.mode # "EXEC" => reader'[c].answer.id = 0
    PROVE  AnswersTo(c, k)'
<1>1. out' = [out EXCEPT ![c] = Written(c, answer, "first")]
    BY DEF SendFirst
<1>2. \/ c \in gone /\ out'[c] = out[c]
      \/ /\ c \notin gone
         /\ \E n : /\ n \notin DOMAIN out[c] /\ DOMAIN out'[c] = DOMAIN out[c] \cup {n}
                   /\ out'[c][n].answer = answer /\ out'[c][n].part = "first"
                   /\ \A i \in DOMAIN out[c] : out'[c][i] = out[c][i]
    BY <1>1, LineWritten
<1>3. ASSUME NEW i \in DOMAIN out'[c], Begun(c, i)'
      PROVE  \/ i \in DOMAIN out[c] /\ Begun(c, i) /\ out'[c][i] = out[c][i]
             \/ i \notin DOMAIN out[c] /\ out'[c][i].answer = answer
  <2>1. CASE c \in gone /\ out'[c] = out[c]
    BY <1>3, <2>1 DEF Begun
  <2>2. CASE ~(c \in gone /\ out'[c] = out[c])
    <3>1. PICK n : /\ n \notin DOMAIN out[c] /\ DOMAIN out'[c] = DOMAIN out[c] \cup {n}
                   /\ out'[c][n].answer = answer /\ out'[c][n].part = "first"
                   /\ \A j \in DOMAIN out[c] : out'[c][j] = out[c][j]
      BY <1>2, <2>2
    <3>2. CASE i = n
      BY <3>1, <3>2
    <3>3. CASE i # n
      BY <1>3, <3>1, <3>3 DEF Begun
    <3> QED
      BY <3>2, <3>3
  <2> QED
    BY <2>1, <2>2
<1>4. ASSUME NEW i \in DOMAIN out'[c], NEW j \in DOMAIN out'[c], i \notin DOMAIN out[c], j \notin DOMAIN out[c]
      PROVE  i = j
  <2>1. PICK n : DOMAIN out'[c] = DOMAIN out[c] \cup {n}
    BY <1>2, <1>4
  <2> QED
    BY <1>4, <2>1
<1>5. ASSUME NEW i \in DOMAIN out'[c], Begun(c, i)'
      PROVE  /\ out'[c][i].answer.mode = "EXEC" => out'[c][i].answer.id \in Nat \ {0} /\ out'[c][i].answer.id <= k
             /\ out'[c][i].answer.mode = "EXEC" /\ reader'[c].at \notin {"sending last", "over"} =>
                   out'[c][i].answer.id < k
             /\ out'[c][i].answer.mode # "EXEC" => out'[c][i].answer.id = 0
  <2>1. CASE i \in DOMAIN out[c] /\ Begun(c, i) /\ out'[c][i] = out[c][i]
    BY <2>1 DEF AnswersTo
  <2>2. CASE i \notin DOMAIN out[c] /\ out'[c][i].answer = answer
    BY <2>2
  <2> QED
    BY <1>3, <1>5, <2>1, <2>2
<1>6. ASSUME NEW i \in DOMAIN out'[c], NEW j \in DOMAIN out'[c], Begun(c, i)', Begun(c, j)', i # j,
             out'[c][i].answer.mode = "EXEC"
      PROVE  out'[c][i].answer.id # out'[c][j].answer.id
  <2>1. CASE i \in DOMAIN out[c] /\ j \in DOMAIN out[c]
    <3>1. Begun(c, i) /\ out'[c][i] = out[c][i] /\ Begun(c, j) /\ out'[c][j] = out[c][j]
      BY <1>3, <1>6, <2>1
    <3> QED
      BY <1>6, <2>1, <3>1 DEF AnswersTo
  <2>2. CASE i \in DOMAIN out[c] /\ j \notin DOMAIN out[c]
    <3>1. Begun(c, i) /\ out'[c][i] = out[c][i] /\ out'[c][j].answer = answer
      BY <1>3, <1>6, <2>2
    <3>2. Told(c, out[c][i].answer.id)
      BY <1>6, <2>2, <3>1 DEF Told
    <3>3. out[c][i].answer.id # 0
      BY <1>6, <2>2, <3>1 DEF AnswersTo
    <3> QED
      BY <3>1, <3>2, <3>3
  <2>3. CASE i \notin DOMAIN out[c] /\ j \in DOMAIN out[c]
    <3>1. Begun(c, j) /\ out'[c][j] = out[c][j] /\ out'[c][i].answer = answer
      BY <1>3, <1>6, <2>3
    <3>2. answer.mode = "EXEC" /\ ~Told(c, answer.id) /\ answer.id # 0
      BY <1>6, <3>1
    <3>3. out[c][j].answer.mode = "EXEC" => Told(c, out[c][j].answer.id)
      BY <2>3, <3>1 DEF Told
    <3>4. out[c][j].answer.mode # "EXEC" => out[c][j].answer.id = 0
      BY <2>3, <3>1 DEF AnswersTo
    <3> QED
      BY <3>1, <3>2, <3>3, <3>4
  <2>4. i \in DOMAIN out[c] \/ j \in DOMAIN out[c]
    BY <1>4, <1>6
  <2> QED
    BY <2>1, <2>2, <2>3, <2>4
<1> QED
    BY <1>5, <1>6 DEF AnswersTo

-----------------------------------------------------------------------------
(* What becomes of a request when a thread reads and decides *)

Tracked(free) ==
    TasksOnce(free) /\ WorkersOnce(free) /\ RanOnce(free) /\ \A c \in Conns : AnswersTo(c, free[c])

Later(free, c) == [free EXCEPT ![c] = free[c] + 1]

\* What is less is another.
LEMMA LessDiffers == \A n, k \in Nat : n < k => n # k
OBVIOUS

\* The counts go up.
LEMMA LaterCounts ==
    ASSUME NEW free \in [Conns -> Nat], NEW c \in Conns
    PROVE  /\ Later(free, c) \in [Conns -> Nat] /\ Later(free, c)[c] = free[c] + 1
           /\ \A d \in Conns \ {c} : Later(free, c)[d] = free[d]
           /\ \A d \in Conns : free[d] <= Later(free, c)[d] /\ free[d] <= free[d]
BY DEF Later

\* An answer to a connection in which nothing happens.
LEMMA AnswersElsewhere ==
    ASSUME NEW d \in Conns, NEW k, AnswersTo(d, k),
           out'[d] = out[d], reader'[d] = reader[d], parser'[d] = parser[d]
    PROVE  AnswersTo(d, k)'
BY DEF AnswersTo, Begun

\* The request that a thread acts on is nowhere else until it has an answer.
LEMMA Fresh ==
    ASSUME Shapes, NEW free \in [Conns -> Nat], Tracked(free), NEW c \in Conns,
           reader[c].at \notin {"sending last", "over"}
    PROVE  /\ \A t \in tasks : t.conn = c => t.id # free[c]
           /\ \A w \in Workers : Busy(w) /\ Conn(w) = c => worker[w].task.id # free[c]
           /\ \A r \in ran : r.conn = c => r.id # free[c]
           /\ ~Told(c, free[c])
<1>1. ASSUME NEW t, t.conn = c, Known(t, free) PROVE t.id # free[c]
  <2>1. t.id \in Nat /\ t.id < free[c] /\ free[c] \in Nat
    BY <1>1 DEF Known
  <2> QED
    BY <2>1, LessDiffers
<1>2. \A t \in tasks : t.conn = c => t.id # free[c]
    BY <1>1 DEF Tracked, TasksOnce
<1>3. \A w \in Workers : Busy(w) /\ Conn(w) = c => worker[w].task.id # free[c]
    BY <1>1 DEF Tracked, WorkersOnce, Conn
<1>4. \A r \in ran : r.conn = c => r.id # free[c]
    BY <1>1 DEF Tracked, RanOnce
<1>5. ~Told(c, free[c])
  <2> SUFFICES ASSUME NEW i \in DOMAIN out[c], Begun(c, i), out[c][i].answer.mode = "EXEC" PROVE out[c][i].answer.id # free[c]
    BY DEF Told
  <2>1. out[c][i].answer.id \in Nat /\ out[c][i].answer.id < free[c] /\ free[c] \in Nat
    BY DEF Tracked, AnswersTo
  <2> QED
    BY <2>1, LessDiffers
<1> QED
    BY <1>2, <1>3, <1>4, <1>5

\* A step of a connection's thread that pushes, runs and writes nothing.
LEMMA TrackedQuiet ==
    ASSUME Shapes, Records, NEW free \in [Conns -> Nat], Tracked(free), NEW c \in Conns, Reader(c),
           UNCHANGED <<tasks, worker, ran, out>>,
           reader[c].at \notin {"sending last", "over"}, NEW free2 \in {free, Later(free, c)},
           reader'[c].at # "sending last",
           reader'[c].at = "sending" =>
              /\ reader'[c].answer.mode = parser'[c].req.mode
              /\ reader'[c].answer.mode = "EXEC" => reader'[c].answer.id = free2[c]
              /\ reader'[c].answer.mode # "EXEC" => reader'[c].answer.id = 0
    PROVE  Tracked(free2)'
<1>1. /\ free2 \in [Conns -> Nat] /\ \A d \in Conns : free[d] <= free2[d]
      /\ \A d \in Conns \ {c} : free2[d] = free[d]
  <2>1. CASE free2 = free
    BY <2>1, LaterCounts
  <2>2. CASE free2 = Later(free, c)
    BY <2>2, LaterCounts
  <2> QED
    BY <2>1, <2>2
<1>2. TasksOnce(free2)' /\ WorkersOnce(free2)' /\ RanOnce(free2)'
    BY <1>1, LedgerKept DEF Tracked
<1>3. ASSUME NEW d \in Conns \ {c} PROVE AnswersTo(d, free2[d])'
  <2>1. out'[d] = out[d] /\ reader'[d] = reader[d] /\ parser'[d] = parser[d]
    BY ReaderAlone
  <2>2. AnswersTo(d, free2[d])
    BY <1>1 DEF Tracked
  <2> QED
    BY <2>1, <2>2, AnswersElsewhere
<1>4. AnswersTo(c, free2[c])'
  <2>1. \A i \in DOMAIN out'[c] : Begun(c, i)' => Begun(c, i) /\ out'[c][i] = out[c][i]
    BY DEF Begun
  <2>2. free[c] \in Nat /\ free2[c] \in Nat /\ free[c] <= free2[c] /\ AnswersTo(c, free[c])
    BY <1>1 DEF Tracked
  <2>3. reader'[c].at \in {"sending", "sending last"} =>
              /\ reader'[c].answer.mode = parser'[c].req.mode
              /\ reader'[c].answer.mode = "EXEC" => reader'[c].answer.id = free2[c]
              /\ reader'[c].answer.mode # "EXEC" => reader'[c].answer.id = 0
    OBVIOUS
  <2> QED
    BY <2>1, <2>2, <2>3, AnswersStay
<1> QED
    BY <1>2, <1>3, <1>4 DEF Tracked

\* The thread of a connection reads.
LEMMA ReadsTracked ==
    ASSUME Shapes, Records, NEW free \in [Conns -> Nat], Tracked(free), NEW c \in Conns,
           ReadLine(c) \/ ReadEnd(c)
    PROVE  Tracked(free)'
<1>1. Reader(c) /\ UNCHANGED <<tasks, worker, ran, out>> /\ reader[c].at = "reading"
    BY DEF Reader, ReadLine, ReadEnd, history
<1>2. reader'[c].at \notin {"sending", "sending last"}
  <2>1. reader' = reader \/ reader' = [reader EXCEPT ![c] = [at |-> "processing"]]
            \/ reader' = [reader EXCEPT ![c] = [at |-> "over"]]
    BY DEF ReadLine, ReadEnd, Parsed, End
  <2>2. DOMAIN reader = Conns
    BY DEF Shapes
  <2>3. reader'[c].at \in {"reading", "processing", "over"}
    BY <1>1, <2>1, <2>2
  <2> QED
    BY <2>3
<1>3. reader[c].at \notin {"sending last", "over"} /\ reader'[c].at # "sending last" /\ reader'[c].at # "sending"
    BY <1>1, <1>2
<1> QED
    BY <1>1, <1>3, TrackedQuiet

\* It sends the answer to a request.
LEMMA ToSendReader ==
    ASSUME Shapes, NEW c \in Conns, NEW mode, NEW id, NEW code, NEW minds,
           ToSend(c, Answer(mode, id, code), minds)
    PROVE  /\ reader'[c].at = "sending" /\ reader'[c].answer.mode = mode /\ reader'[c].answer.id = id
           /\ DOMAIN reader' = Conns
<1> DEFINE a == Answer(mode, id, code)
           r == [at |-> "sending", answer |-> a, minds |-> minds]
<1>1. a.mode = mode /\ a.id = id
    BY DEF Answer
<1> HIDE DEF a
<1>2. r.at = "sending" /\ r.answer = a
    OBVIOUS
<1>3. reader' = [reader EXCEPT ![c] = r]
    BY DEF ToSend, a
<1> HIDE DEF r
<1>4. DOMAIN reader' = Conns /\ reader'[c] = r
    BY <1>3 DEF Shapes
<1> QED
    BY <1>1, <1>2, <1>4

\* What it decides on, and how it goes on.
LEMMA DecidesReader ==
    ASSUME RpcServerAssumption, Shapes, Records, NEW free \in [Conns -> Nat], NEW c \in Conns,
           Requests(c, free[c]), ProcessRequest(c)
    PROVE  /\ reader'[c].at \in {"over", "reading", "sending", "pushing"}
           /\ reader'[c].at = "sending" =>
                 /\ reader'[c].answer.mode = parser'[c].req.mode
                 /\ reader'[c].answer.mode = "EXEC" => reader'[c].answer.id = free[c]
                 /\ reader'[c].answer.mode # "EXEC" => reader'[c].answer.id = 0
           /\ parser[c].req.mode = "EXEC" => reader'[c].at \in {"sending", "pushing"}
<1> DEFINE r == parser[c].req
           Good == /\ reader'[c].at \in {"over", "reading", "sending", "pushing"}
                   /\ reader'[c].at = "sending" =>
                         /\ reader'[c].answer.mode = parser'[c].req.mode
                         /\ reader'[c].answer.mode = "EXEC" => reader'[c].answer.id = free[c]
                         /\ reader'[c].answer.mode # "EXEC" => reader'[c].answer.id = 0
                   /\ parser[c].req.mode = "EXEC" => reader'[c].at \in {"sending", "pushing"}
<1>0. DOMAIN reader = Conns
    BY DEF Shapes
<1>1. r.ids.reqId = free[c]
  <2>1. parser[c].at = "request" /\ reader[c].at # "reading"
    BY DEF Requests, ProcessRequest
  <2> QED
    BY <2>1 DEF Requests, Complete
<1>2. CASE r.mode = "QUIT" /\ End(c)
  <2>1. reader'[c].at = "over"
    BY <1>0, <1>2 DEF End
  <2> QED
    BY <1>2, <2>1
<1>3. CASE r.mode = "AUTH" /\ persistentAuthentication(c) /\ parser' = parser
  <2>1. \E code : ToSend(c, Answer("AUTH", 0, code), FALSE)
    BY <1>3 DEF persistentAuthentication
  <2>2. reader'[c].at = "sending" /\ reader'[c].answer.mode = "AUTH" /\ reader'[c].answer.id = 0
    BY <2>1, ToSendReader
  <2> QED
    BY <1>3, <2>2
<1>4. CASE r.mode \notin {"QUIT", "EXEC"} /\ Continue(c)
  <2>1. reader'[c].at = "reading"
    BY <1>0, <1>4 DEF Continue, Reading
  <2> QED
    BY <1>4, <2>1
<1>5. CASE r.mode = "EXEC" /\ parser' = parser /\ \E code, minds : ToSend(c, Answer("EXEC", r.ids.reqId, code), minds)
  <2>1. reader'[c].at = "sending" /\ reader'[c].answer.mode = "EXEC" /\ reader'[c].answer.id = r.ids.reqId
    BY <1>5, ToSendReader
  <2> QED
    BY <1>1, <1>5, <2>1
<1>6. CASE reader' = [reader EXCEPT ![c] = [at |-> "pushing"]]
    BY <1>0, <1>6
<1> QED
  <2> HIDE DEF Good
  <2>1. Good
    <3>1. Good \/ ~Good
      OBVIOUS
    <3> QED
      BY <1>2, <1>3, <1>4, <1>5, <1>6 DEF ProcessRequest, Good
  <2> QED
    BY <2>1 DEF Good

\* It decides on a request.
LEMMA DecidesTracked ==
    ASSUME RpcServerAssumption, Shapes, Records, NEW free \in [Conns -> Nat], Tracked(free),
           \A d \in Conns : Requests(d, free[d]), NEW c \in Conns, ProcessRequest(c)
    PROVE  /\ ~Continue(c) => Tracked(free)'
           /\ Continue(c) => Tracked(Later(free, c))'
<1>1. Reader(c) /\ UNCHANGED <<tasks, worker, out>> /\ reader[c].at = "processing"
    BY DEF Reader, ProcessRequest
<1>2. ran' = ran
    BY DEF ProcessRequest, history
<1>3. /\ reader'[c].at \in {"over", "reading", "sending", "pushing"}
      /\ reader'[c].at = "sending" =>
            /\ reader'[c].answer.mode = parser'[c].req.mode
            /\ reader'[c].answer.mode = "EXEC" => reader'[c].answer.id = free[c]
            /\ reader'[c].answer.mode # "EXEC" => reader'[c].answer.id = 0
    BY DecidesReader
<1>4. ASSUME ~Continue(c) PROVE Tracked(free)'
  <2>1. free \in {free, Later(free, c)}
    OBVIOUS
  <2>2. UNCHANGED <<tasks, worker, ran, out>> /\ reader[c].at \notin {"sending last", "over"} /\ reader'[c].at # "sending last"
    BY <1>1, <1>2, <1>3
  <2> QED
    BY <1>1, <1>3, <2>1, <2>2, TrackedQuiet
<1>5. ASSUME Continue(c) PROVE Tracked(Later(free, c))'
  <2>1. Later(free, c) \in {free, Later(free, c)}
    OBVIOUS
  <2>2. reader'[c].at = "reading"
    BY <1>5 DEF Continue, Reading, Shapes
  <2>3. UNCHANGED <<tasks, worker, ran, out>> /\ reader[c].at \notin {"sending last", "over"}
        /\ reader'[c].at # "sending last" /\ reader'[c].at # "sending"
    BY <1>1, <1>2, <2>2
  <2> QED
    BY <1>1, <2>1, <2>3, TrackedQuiet
<1> QED
    BY <1>4, <1>5

-----------------------------------------------------------------------------
(* When it pushes and answers *)

\* The request that a thread acts on.
LEMMA ActsOn ==
    ASSUME NEW c \in Conns, NEW k, Requests(c, k), reader[c].at \notin {"reading", "over"}
    PROVE  /\ parser[c].at = "request" /\ k \in Nat /\ Complete(parser[c], c, k)
           /\ parser[c].req.ids.reqId = k /\ k \in DOMAIN sent[c] /\ parser[c].req.mode = sent[c][k].mode
           /\ DOMAIN parser[c].req.auths \subseteq IdxsOf(c, k)
<1>1. parser[c].at = "request"
    BY DEF Requests
<1>2. Complete(parser[c], c, k) /\ k \in Nat
    BY <1>1 DEF Requests
<1> QED
    BY <1>1, <1>2 DEF Complete

\* It pushes a task.
LEMMA PushesTracked ==
    ASSUME RpcServerAssumption, Shapes, Records, NEW free \in [Conns -> Nat], Tracked(free),
           \A d \in Conns : Requests(d, free[d]), NEW c \in Conns, PushTask(c), parser[c].req.mode = "EXEC"
    PROVE  /\ ~Continue(c) => Tracked(free)'
           /\ Continue(c) => Tracked(Later(free, c))'
<1>1. Reader(c) /\ UNCHANGED <<worker, out, ran>> /\ reader[c].at = "pushing"
    BY DEF Reader, PushTask, history
<1>2. parser[c].req.ids.reqId = free[c] /\ free[c] \in DOMAIN sent[c] /\ sent[c] \in Seq(Messages)
  <2>1. Requests(c, free[c])
    OBVIOUS
  <2> QED
    BY <1>1, <2>1, ActsOn DEF Records
<1>3. ASSUME ~Continue(c) PROVE Tracked(free)'
  <2>1. tasks' = tasks /\ parser' = parser /\ ToSend(c, Answer("EXEC", parser[c].req.ids.reqId, "TIMEDOUT"), TRUE)
    BY <1>3 DEF PushTask
  <2>2. reader'[c].at = "sending" /\ reader'[c].answer.mode = "EXEC" /\ reader'[c].answer.id = free[c]
    BY <1>2, <2>1, ToSendReader
  <2>3. free \in {free, Later(free, c)} /\ UNCHANGED <<tasks, worker, ran, out>>
        /\ reader[c].at \notin {"sending last", "over"} /\ reader'[c].at # "sending last"
    BY <1>1, <2>1, <2>2
  <2>4. reader'[c].at = "sending" =>
              /\ reader'[c].answer.mode = parser'[c].req.mode
              /\ reader'[c].answer.mode = "EXEC" => reader'[c].answer.id = free[c]
              /\ reader'[c].answer.mode # "EXEC" => reader'[c].answer.id = 0
    BY <2>1, <2>2
  <2> QED
    BY <1>1, <2>3, <2>4, TrackedQuiet
<1>4. ASSUME Continue(c) PROVE Tracked(Later(free, c))'
  <2> DEFINE x == Task(c)
  <2>1. reader'[c].at = "reading"
    BY <1>4 DEF Continue, Reading, Shapes
  <2>2. tasks' \subseteq tasks \cup {x}
    BY DEF PushTask
  <2>3. x.conn = c /\ x.id = free[c]
    BY <1>2 DEF Task
  <2> HIDE DEF x
  <2>4. PICK free2 : free2 = Later(free, c)
    OBVIOUS
  <2>5. /\ free2 \in [Conns -> Nat] /\ free2[c] = free[c] + 1
        /\ \A d \in Conns \ {c} : free2[d] = free[d]
        /\ \A d \in Conns : free[d] <= free2[d]
    BY <2>4, LaterCounts
  <2>6. /\ \A t \in tasks : ~Same(t, x)
        /\ \A w \in Workers : Busy(w) => ~Same(worker[w].task, x)
        /\ \A r \in ran : ~Same(r, x)
        /\ ~Told(c, free[c])
    <3>1. reader[c].at \notin {"sending last", "over"}
      BY <1>1
    <3>2. /\ \A t \in tasks : t.conn = c => t.id # free[c]
          /\ \A w \in Workers : Busy(w) /\ Conn(w) = c => worker[w].task.id # free[c]
          /\ \A r \in ran : r.conn = c => r.id # free[c]
          /\ ~Told(c, free[c])
      BY <3>1, Fresh
    <3>3. \A w \in Workers : Busy(w) => ~Same(worker[w].task, x)
      BY <2>3, <3>2 DEF Same, Conn
    <3> QED
      BY <2>3, <3>2, <3>3 DEF Same
  <2>7. Known(x, free2)
    <3>1. free[c] \in Nat \ {0}
      BY <1>2
    <3> QED
      BY <2>3, <2>5, <3>1 DEF Known
  <2>8. /\ \A t \in tasks : Known(t, free2)
        /\ \A w \in Workers : Busy(w) => Known(worker[w].task, free2)
        /\ \A r \in ran : Known(r, free2)
    <3>1. ASSUME NEW t, t.conn \in Conns, Known(t, free) PROVE Known(t, free2)
      <4>1. t.id \in Nat \ {0} /\ t.id < free[t.conn]
        BY <3>1 DEF Known
      <4>2. free[t.conn] \in Nat /\ free2[t.conn] \in Nat /\ free[t.conn] <= free2[t.conn]
        BY <2>5, <3>1
      <4> QED
        BY <4>1, <4>2 DEF Known
    <3>2. \A w \in Workers : Busy(w) => worker[w].task.conn \in Conns
      BY DEF Shapes, Busy, Conn
    <3>3. \A t \in tasks : t.conn \in Conns
      BY DEF Shapes
    <3> QED
      BY <3>1, <3>2, <3>3 DEF Tracked, TasksOnce, WorkersOnce, RanOnce
  <2>9. /\ \A d, id : Told(d, id)' <=> Told(d, id)
        /\ \A w : (Busy(w)' <=> Busy(w)) /\ Conn(w)' = Conn(w)
    BY <1>1 DEF Told, Begun, Busy, Conn
  <2>10. TasksOnce(free2)'
    <3>1. ASSUME NEW t \in tasks
          PROVE  /\ Known(t, free2) /\ \A u \in tasks \cup {x} : Same(u, t) => u = t
                 /\ \A w \in Workers : Busy(w) => ~Same(worker[w].task, t)
                 /\ \A r \in ran : ~Same(r, t)
                 /\ ~Told(t.conn, t.id)
      <4>1. Same(x, t) => Same(t, x)
        BY DEF Same
      <4> QED
        BY <2>6, <2>8, <4>1 DEF Tracked, TasksOnce
    <3>2. /\ Known(x, free2) /\ \A u \in tasks \cup {x} : Same(u, x) => u = x
          /\ \A w \in Workers : Busy(w) => ~Same(worker[w].task, x)
          /\ \A r \in ran : ~Same(r, x)
          /\ ~Told(x.conn, x.id)
      BY <2>3, <2>6, <2>7
    <3> QED
      BY <1>1, <2>2, <2>9, <3>1, <3>2 DEF TasksOnce
  <2>11. WorkersOnce(free2)'
    BY <1>1, <2>8, <2>9 DEF Tracked, WorkersOnce
  <2>12. RanOnce(free2)'
    BY <1>1, <2>8 DEF Tracked, RanOnce
  <2>13. ASSUME NEW d \in Conns \ {c} PROVE AnswersTo(d, free2[d])'
    <3>1. out'[d] = out[d] /\ reader'[d] = reader[d] /\ parser'[d] = parser[d]
      BY <1>1, ReaderAlone
    <3>2. AnswersTo(d, free2[d])
      BY <2>5 DEF Tracked
    <3> QED
      BY <3>1, <3>2, AnswersElsewhere
  <2>14. AnswersTo(c, free2[c])'
    <3>1. \A i \in DOMAIN out'[c] : Begun(c, i)' => Begun(c, i) /\ out'[c][i] = out[c][i]
      BY <1>1 DEF Begun
    <3>2. free[c] \in Nat /\ free2[c] \in Nat /\ free[c] <= free2[c] /\ AnswersTo(c, free[c])
      BY <2>5 DEF Tracked
    <3>3. reader'[c].at \notin {"sending", "sending last"} /\ reader[c].at \notin {"sending last", "over"}
      BY <1>1, <2>1
    <3> QED
      BY <3>1, <3>2, <3>3, AnswersStay
  <2> QED
    BY <2>4, <2>10, <2>11, <2>12, <2>13, <2>14 DEF Tracked
<1> QED
    BY <1>3, <1>4

\* Lines are written: nothing of this is of the tasks that were let run, but for one.
LEMMA LedgerTold ==
    ASSUME Shapes, NEW free \in [Conns -> Nat], TasksOnce(free), RanOnce(free),
           UNCHANGED <<tasks, ran>>,
           \A w \in Workers : Busy(w)' => Busy(w) /\ worker'[w].task = worker[w].task,
           \A t \in tasks : ~Told(t.conn, t.id)'
    PROVE  TasksOnce(free)' /\ RanOnce(free)'
<1>1. RanOnce(free)'
    BY DEF RanOnce
<1>2. TasksOnce(free)'
    BY DEF TasksOnce
<1> QED
    BY <1>1, <1>2

\* The first line of an answer of the thread of a connection.
LEMMA ReaderFirstTracked ==
    ASSUME RpcServerAssumption, Shapes, Records, NEW free \in [Conns -> Nat], Tracked(free),
           NEW c \in Conns, Requests(c, free[c]), ReaderSendsFirst(c)
    PROVE  Tracked(free)'
<1>1. /\ Reader(c) /\ UNCHANGED <<tasks, worker, ran, parser>> /\ reader[c].at = "sending"
      /\ reader' = [reader EXCEPT ![c].at = "sending last"]
    BY DEF Reader, ReaderSendsFirst, history
<1>2. PICK a : a = reader[c].answer /\ SendFirst(c, c, a)
    BY DEF ReaderSendsFirst
<1>3. {"at", "answer", "minds"} \subseteq DOMAIN reader[c] /\ DOMAIN reader = Conns
    BY <1>1 DEF Shapes
<1>4. reader'[c].at = "sending last" /\ reader'[c].answer = a
    BY <1>1, <1>2, <1>3
<1>5. /\ a.mode = parser[c].req.mode
      /\ a.mode = "EXEC" => a.id = free[c]
      /\ a.mode # "EXEC" => a.id = 0
    BY <1>1, <1>2 DEF Tracked, AnswersTo
<1>6. free[c] \in Nat \ {0}
  <2>1. free[c] \in DOMAIN sent[c] /\ sent[c] \in Seq(Messages)
    BY <1>1, ActsOn DEF Records
  <2> QED
    BY <2>1
<1>7. /\ \A t \in tasks : t.conn = c => t.id # free[c]
      /\ \A w \in Workers : Busy(w) /\ Conn(w) = c => worker[w].task.id # free[c]
      /\ ~Told(c, free[c])
  <2>1. reader[c].at \notin {"sending last", "over"}
    BY <1>1
  <2> QED
    BY <2>1, Fresh
<1>8. \A d \in Conns : \A id : Told(d, id)' => Told(d, id) \/ (d = c /\ a.mode = "EXEC" /\ a.id = id)
    BY <1>2, ToldFirst
<1>9. \A d \in Conns : \A id : Told(d, id)' => Told(d, id) \/ (d = c /\ id = free[c])
    BY <1>5, <1>8
<1>10. \A w : (Busy(w)' <=> Busy(w)) /\ Conn(w)' = Conn(w)
    BY <1>1 DEF Busy, Conn
<1>11. TasksOnce(free)' /\ RanOnce(free)'
  <2>1. \A t \in tasks : ~Told(t.conn, t.id)'
    BY <1>7, <1>9 DEF Tracked, TasksOnce, Shapes
  <2>2. \A w \in Workers : Busy(w)' => Busy(w) /\ worker'[w].task = worker[w].task
    BY <1>1, <1>10
  <2> QED
    BY <1>1, <2>1, <2>2, LedgerTold DEF Tracked
<1>12. WorkersOnce(free)'
  <2>1. ASSUME NEW w \in Workers, Busy(w), worker[w].at # "sending last" PROVE ~Told(Conn(w), worker[w].task.id)'
    <3>1. Conn(w) \in Conns
      BY <2>1 DEF Shapes, Busy
    <3>2. ~Told(Conn(w), worker[w].task.id)
      BY <2>1 DEF Tracked, WorkersOnce
    <3> QED
      BY <1>1, <1>7, <1>9, <1>10, <2>1, <3>1, <3>2
  <2> QED
    BY <1>1, <1>10, <2>1 DEF Tracked, WorkersOnce
<1>13. ASSUME NEW d \in Conns \ {c} PROVE AnswersTo(d, free[d])'
  <2>1. out'[d] = out[d] /\ reader'[d] = reader[d] /\ parser'[d] = parser[d]
    BY <1>1, <1>2, ReaderAlone, ToldFirst
  <2>2. AnswersTo(d, free[d])
    BY DEF Tracked
  <2> QED
    BY <2>1, <2>2, AnswersElsewhere
<1>14. AnswersTo(c, free[c])'
  <2>1. free[c] \in Nat /\ AnswersTo(c, free[c]) /\ free[c] <= free[c]
    BY DEF Tracked
  <2>2. a.mode = "EXEC" => /\ a.id \in Nat \ {0} /\ a.id <= free[c] /\ ~Told(c, a.id)
                           /\ reader'[c].at \notin {"sending last", "over"} => a.id < free[c]
    BY <1>4, <1>5, <1>6, <1>7, <2>1
  <2>3. /\ reader'[c].at \in {"sending last", "over"}
        /\ reader'[c].answer.mode = parser'[c].req.mode
        /\ reader'[c].answer.mode = "EXEC" => reader'[c].answer.id = free[c]
        /\ reader'[c].answer.mode # "EXEC" => reader'[c].answer.id = 0
    BY <1>1, <1>4, <1>5
  <2> QED
    BY <1>2, <1>5, <2>1, <2>2, <2>3, AnswersBegin
<1> QED
    BY <1>11, <1>12, <1>13, <1>14 DEF Tracked

\* Its last one: the next request, or the end.
LEMMA ReaderLastTracked ==
    ASSUME RpcServerAssumption, Shapes, Records, NEW free \in [Conns -> Nat], Tracked(free),
           NEW c \in Conns, ReaderSendsLast(c)
    PROVE  /\ ~Continue(c) => Tracked(free)'
           /\ Continue(c) => Tracked(Later(free, c))'
<1>1. Reader(c) /\ UNCHANGED <<tasks, worker, ran>> /\ reader[c].at = "sending last"
    BY DEF Reader, ReaderSendsLast, history
<1>2. PICK a : SendLast(c, c, a)
    BY DEF ReaderSendsLast
<1>3. /\ \A d \in Conns : \A id : Told(d, id)' <=> Told(d, id)
      /\ \A d \in Conns \ {c} : out'[d] = out[d]
      /\ \A i \in DOMAIN out'[c] : Begun(c, i)' => Begun(c, i) /\ out'[c][i] = out[c][i]
    BY <1>2, ToldLast
<1>4. ASSUME NEW free2 \in {free, Later(free, c)}, reader'[c].at \in {"reading", "over"},
             reader'[c].at = "reading" => free2 = Later(free, c)
      PROVE  Tracked(free2)'
  <2>1. /\ free2 \in [Conns -> Nat] /\ \A d \in Conns : free[d] <= free2[d]
        /\ \A d \in Conns \ {c} : free2[d] = free[d]
        /\ free2 = Later(free, c) => free2[c] = free[c] + 1
    <3>1. CASE free2 = free
      <4>1. free2 = Later(free, c) => free2[c] = free[c] + 1
        BY LaterCounts
      <4> QED
        BY <3>1, <4>1, LaterCounts
    <3>2. CASE free2 = Later(free, c)
      BY <3>2, LaterCounts
    <3> QED
      BY <3>1, <3>2
  <2>2. /\ \A t \in tasks : Known(t, free2)
        /\ \A w \in Workers : Busy(w) => Known(worker[w].task, free2)
        /\ \A r \in ran : Known(r, free2)
    <3>1. ASSUME NEW t, t.conn \in Conns, Known(t, free) PROVE Known(t, free2)
      <4>1. t.id \in Nat \ {0} /\ t.id < free[t.conn]
        BY <3>1 DEF Known
      <4>2. free[t.conn] \in Nat /\ free2[t.conn] \in Nat /\ free[t.conn] <= free2[t.conn]
        BY <2>1, <3>1
      <4> QED
        BY <4>1, <4>2 DEF Known
    <3>2. \A w \in Workers : Busy(w) => worker[w].task.conn \in Conns
      BY DEF Shapes, Busy, Conn
    <3>3. \A t \in tasks : t.conn \in Conns
      BY DEF Shapes
    <3> QED
      BY <3>1, <3>2, <3>3 DEF Tracked, TasksOnce, WorkersOnce, RanOnce
  <2>3. \A w : (Busy(w)' <=> Busy(w)) /\ Conn(w)' = Conn(w)
    BY <1>1 DEF Busy, Conn
  <2>4. TasksOnce(free2)'
    <3>1. \A t \in tasks : ~Told(t.conn, t.id)'
      BY <1>3 DEF Tracked, TasksOnce, Shapes
    <3> QED
      BY <1>1, <2>2, <2>3, <3>1 DEF Tracked, TasksOnce
  <2>5. WorkersOnce(free2)'
    <3>1. \A w \in Workers : Busy(w) /\ worker[w].at # "sending last" => ~Told(Conn(w), worker[w].task.id)'
      BY <1>1, <1>3, <2>3 DEF Tracked, WorkersOnce, Shapes, Busy
    <3> QED
      BY <1>1, <2>2, <2>3, <3>1 DEF Tracked, WorkersOnce
  <2>6. RanOnce(free2)'
    BY <1>1, <2>2 DEF Tracked, RanOnce
  <2>7. ASSUME NEW d \in Conns \ {c} PROVE AnswersTo(d, free2[d])'
    <3>1. out'[d] = out[d] /\ reader'[d] = reader[d] /\ parser'[d] = parser[d]
      BY <1>1, <1>3, ReaderAlone
    <3>2. AnswersTo(d, free2[d])
      BY <2>1 DEF Tracked
    <3> QED
      BY <3>1, <3>2, AnswersElsewhere
  <2>8. AnswersTo(c, free2[c])'
    <3>1. free[c] \in Nat /\ free2[c] \in Nat /\ free[c] <= free2[c] /\ AnswersTo(c, free[c])
      BY <2>1 DEF Tracked
    <3>2. free2[c] = free[c] => reader'[c].at \in {"sending last", "over"}
      <4>1. free[c] + 1 # free[c]
        BY <3>1
      <4> QED
        BY <1>4, <2>1, <4>1
    <3>3. reader'[c].at \notin {"sending", "sending last"}
      BY <1>4
    <3> QED
      BY <1>3, <3>1, <3>2, <3>3, AnswersStay
  <2> QED
    BY <2>4, <2>5, <2>6, <2>7, <2>8 DEF Tracked
<1>5. DOMAIN reader = Conns
    BY DEF Shapes
<1>6. ASSUME ~Continue(c) PROVE Tracked(free)'
  <2>1. reader'[c].at = "over"
    <3>1. End(c)
      BY <1>6 DEF ReaderSendsLast
    <3> QED
      BY <1>5, <3>1 DEF End
  <2> QED
    BY <1>4, <2>1
<1>7. ASSUME Continue(c) PROVE Tracked(Later(free, c))'
  <2>1. reader'[c].at = "reading"
    BY <1>5, <1>7 DEF Continue, Reading
  <2> QED
    BY <1>4, <2>1
<1> QED
    BY <1>6, <1>7

-----------------------------------------------------------------------------
(* When a worker has it *)

\* A worker takes a task.
LEMMA TakesTracked ==
    ASSUME RpcServerAssumption, Shapes, NEW free \in [Conns -> Nat], Tracked(free),
           NEW w \in Workers, TakeTask(w)
    PROVE  Tracked(free)'
<1>1. PICK t \in tasks : tasks' = tasks \ {t} /\ worker' = [worker EXCEPT ![w] = [at |-> "running", task |-> t]]
    BY DEF TakeTask
<1>2. UNCHANGED <<ran, out, reader, parser>> /\ ~Busy(w)
    BY DEF TakeTask, history, Busy
<1>3. /\ DOMAIN worker' = Workers /\ worker'[w].at = "running" /\ worker'[w].task = t
      /\ \A v \in Workers \ {w} : worker'[v] = worker[v]
    BY <1>1 DEF Shapes
<1>4. /\ Conn(w)' = t.conn /\ Busy(w)'
      /\ \A v \in Workers \ {w} : Conn(v)' = Conn(v) /\ (Busy(v)' <=> Busy(v))
    BY <1>3 DEF Conn, Busy
<1>5. \A c, id : Told(c, id)' <=> Told(c, id)
    BY <1>2 DEF Told, Begun
<1>6. /\ Known(t, free)
      /\ \A u \in tasks : (Same(u, t) => u = t) /\ (Same(t, u) => u = t)
      /\ \A v \in Workers : Busy(v) => ~Same(worker[v].task, t)
      /\ \A r \in ran : ~Same(r, t)
      /\ ~Told(t.conn, t.id)
    BY DEF Tracked, TasksOnce, Same
<1>7. TasksOnce(free)'
  <2>1. ASSUME NEW u \in tasks \ {t}
        PROVE  /\ Known(u, free) /\ \A s \in tasks : Same(s, u) => s = u
               /\ \A v \in Workers : Busy(v)' => ~Same(worker'[v].task, u)
               /\ \A r \in ran : ~Same(r, u)
               /\ ~Told(u.conn, u.id)
    <3>1. ~Same(worker'[w].task, u)
      BY <1>3, <1>6
    <3>2. \A v \in Workers \ {w} : Busy(v)' => ~Same(worker'[v].task, u)
      BY <1>3, <1>4 DEF Tracked, TasksOnce
    <3> QED
      BY <3>1, <3>2 DEF Tracked, TasksOnce
  <2> QED
    BY <1>1, <1>2, <1>5, <2>1 DEF TasksOnce
<1>8. WorkersOnce(free)'
  <2>1. ASSUME NEW v \in Workers \ {w}, Busy(v)'
        PROVE  /\ Known(worker'[v].task, free)
               /\ \A u \in Workers : Busy(u)' /\ Same(worker'[u].task, worker'[v].task) => u = v
               /\ worker'[v].at = "running" => \A r \in ran' : ~Same(r, worker'[v].task)
               /\ worker'[v].at # "sending last" => ~Told(Conn(v), worker[v].task.id)'
               /\ worker'[v].at # "running" =>
                     worker'[v].answer.mode = "EXEC" /\ worker'[v].answer.id = worker'[v].task.id
    <3>1. Busy(v) /\ worker'[v] = worker[v] /\ Conn(v)' = Conn(v)
      BY <1>3, <1>4, <2>1
    <3>2. ~Same(worker'[w].task, worker'[v].task)
      BY <1>3, <1>6, <3>1 DEF Same
    <3>3. \A u \in Workers \ {w} : Busy(u)' /\ Same(worker'[u].task, worker'[v].task) => u = v
      BY <1>3, <1>4, <3>1 DEF Tracked, WorkersOnce
    <3> QED
      BY <1>2, <1>5, <3>1, <3>2, <3>3 DEF Tracked, WorkersOnce
  <2>2. /\ Known(worker'[w].task, free)
        /\ \A u \in Workers : Busy(u)' /\ Same(worker'[u].task, worker'[w].task) => u = w
        /\ worker'[w].at = "running" => \A r \in ran' : ~Same(r, worker'[w].task)
        /\ worker'[w].at # "sending last" => ~Told(Conn(w), worker[w].task.id)'
        /\ worker'[w].at = "running"
    BY <1>2, <1>3, <1>4, <1>5, <1>6
  <2> QED
    BY <2>1, <2>2 DEF WorkersOnce
<1>9. RanOnce(free)'
    BY <1>2 DEF Tracked, RanOnce
<1>10. \A d \in Conns : AnswersTo(d, free[d])'
    BY <1>2, AnswersElsewhere DEF Tracked
<1> QED
    BY <1>7, <1>8, <1>9, <1>10 DEF Tracked

\* What a worker has after a method ran, or could not.
LEMMA RunsWorker ==
    ASSUME Shapes, NEW w \in Workers, RunRPCMethod(w)
    PROVE  /\ worker'[w].at = "sending" /\ worker'[w].task = worker[w].task
           /\ worker'[w].answer.mode = "EXEC" /\ worker'[w].answer.id = worker[w].task.id
           /\ DOMAIN worker' = Workers /\ \A v \in Workers \ {w} : worker'[v] = worker[v]
<1> DEFINE t == worker[w].task
           a(code) == Answer("EXEC", t.id, code)
           r(code) == [at |-> "sending", task |-> t, answer |-> a(code)]
<1>1. PICK code : worker' = [worker EXCEPT ![w] = r(code)]
    BY DEF RunRPCMethod
<1>2. a(code).mode = "EXEC" /\ a(code).id = t.id
    BY DEF Answer
<1> HIDE DEF t, a
<1>3. r(code).at = "sending" /\ r(code).task = t /\ r(code).answer = a(code)
    OBVIOUS
<1> HIDE DEF r
<1>4. DOMAIN worker' = Workers /\ worker'[w] = r(code) /\ \A v \in Workers \ {w} : worker'[v] = worker[v]
    BY <1>1 DEF Shapes
<1> QED
    BY <1>2, <1>3, <1>4 DEF t

\* It runs a method, or cannot.
LEMMA RunsTracked ==
    ASSUME RpcServerAssumption, Shapes, NEW free \in [Conns -> Nat], Tracked(free),
           NEW w \in Workers, RunRPCMethod(w)
    PROVE  Tracked(free)'
<1>1. UNCHANGED <<tasks, out, reader, parser>> /\ worker[w].at = "running" /\ Busy(w)
    BY DEF RunRPCMethod, Busy
<1>2. PICK x : ran' \subseteq ran \cup {x} /\ ran \subseteq ran' /\ Same(x, worker[w].task)
  <2> DEFINE y == [conn |-> worker[w].task.conn, id |-> worker[w].task.id, method |-> worker[w].task.method,
                   user |-> session[worker[w].task.conn].user, logins |-> logins[worker[w].task.conn],
                   now |-> now, accepted |-> accepted[worker[w].task.conn]]
  <2>1. Same(y, worker[w].task)
    BY DEF Same
  <2>2. ran' \subseteq ran \cup {y} /\ ran \subseteq ran'
    BY DEF RunRPCMethod
  <2> HIDE DEF y
  <2> QED
    BY <2>1, <2>2
<1>3. /\ worker'[w].at = "sending" /\ worker'[w].task = worker[w].task
      /\ worker'[w].answer.mode = "EXEC" /\ worker'[w].answer.id = worker[w].task.id
      /\ \A v \in Workers \ {w} : worker'[v] = worker[v]
    BY RunsWorker
<1>4. \A v \in Workers : (Busy(v)' <=> Busy(v)) /\ worker'[v].task = worker[v].task /\ Conn(v)' = Conn(v)
    BY <1>1, <1>3 DEF Busy, Conn
<1>5. \A c, id : Told(c, id)' <=> Told(c, id)
    BY <1>1 DEF Told, Begun
<1>6. x.conn = Conn(w) /\ x.id = worker[w].task.id /\ Conn(w) \in Conns
    BY <1>1, <1>2 DEF Same, Conn, Shapes, Busy
<1>7. TasksOnce(free)'
  <2>1. \A t \in tasks : ~Same(x, t)
    BY <1>1, <1>2 DEF Tracked, TasksOnce, Same
  <2> QED
    BY <1>1, <1>2, <1>4, <1>5, <2>1 DEF Tracked, TasksOnce
<1>8. WorkersOnce(free)'
  <2>1. \A v \in Workers \ {w} : Busy(v) => ~Same(x, worker[v].task)
    BY <1>1, <1>2 DEF Tracked, WorkersOnce, Same
  <2>2. \A v \in Workers : Busy(v) =>
           /\ Known(worker[v].task, free)
           /\ \A u \in Workers : Busy(u) /\ Same(worker[u].task, worker[v].task) => u = v
           /\ worker[v].at = "running" => \A r \in ran : ~Same(r, worker[v].task)
           /\ worker[v].at # "sending last" => ~Told(Conn(v), worker[v].task.id)
           /\ worker[v].at # "running" => worker[v].answer.mode = "EXEC" /\ worker[v].answer.id = worker[v].task.id
    BY DEF Tracked, WorkersOnce
  <2>3. ASSUME NEW v \in Workers, Busy(v)'
        PROVE  /\ Known(worker'[v].task, free)
               /\ \A u \in Workers : Busy(u)' /\ Same(worker'[u].task, worker'[v].task) => u = v
               /\ worker'[v].at # "sending last" => ~Told(Conn(v), worker[v].task.id)'
    <3>1. (Busy(v) /\ worker[v].at # "sending last") \/ (worker[v].at = "sending last" /\ Busy(v))
      BY <1>4, <2>3
    <3>2. worker'[v].at # "sending last" => worker[v].at # "sending last"
      BY <1>1, <1>3
    <3> QED
      BY <1>4, <1>5, <2>2, <3>1, <3>2
  <2>4. ASSUME NEW v \in Workers, Busy(v)'
        PROVE  /\ worker'[v].at = "running" => \A r \in ran' : ~Same(r, worker'[v].task)
               /\ worker'[v].at # "running" =>
                     worker'[v].answer.mode = "EXEC" /\ worker'[v].answer.id = worker'[v].task.id
    <3>1. CASE v = w
      BY <1>3, <3>1
    <3>2. CASE v # w
      BY <1>2, <1>3, <1>4, <2>1, <2>2, <2>4, <3>2
    <3> QED
      BY <3>1, <3>2
  <2> QED
    BY <2>3, <2>4 DEF WorkersOnce
<1>9. RanOnce(free)'
  <2>1. Known(x, free)
    BY <1>1, <1>6 DEF Tracked, WorkersOnce, Known, Conn
  <2>2. \A r \in ran : ~Same(r, x) /\ ~Same(x, r)
    BY <1>1, <1>2 DEF Tracked, WorkersOnce, Same
  <2> QED
    BY <1>2, <1>6, <2>1, <2>2 DEF Tracked, RanOnce
<1>10. \A d \in Conns : AnswersTo(d, free[d])'
    BY <1>1, AnswersElsewhere DEF Tracked
<1> QED
    BY <1>7, <1>8, <1>9, <1>10 DEF Tracked

\* It writes the first line of its answer.
LEMMA WorkerFirstTracked ==
    ASSUME RpcServerAssumption, Shapes, NEW free \in [Conns -> Nat], Tracked(free),
           NEW w \in Workers, WorkerSendsFirst(w)
    PROVE  Tracked(free)'
<1>1. /\ UNCHANGED <<tasks, ran, reader, parser>> /\ worker[w].at = "sending" /\ Busy(w)
      /\ worker' = [worker EXCEPT ![w].at = "sending last"]
    BY DEF WorkerSendsFirst, history, Busy
<1>2. PICK c \in Conns : c = Conn(w) /\ \E a : a = worker[w].answer /\ SendFirst(w, c, a)
    BY <1>1 DEF WorkerSendsFirst, Conn, Shapes
<1>a. PICK a : a = worker[w].answer /\ SendFirst(w, c, a)
    BY <1>2
<1>3. {"at", "task"} \subseteq DOMAIN worker[w] /\ "answer" \in DOMAIN worker[w] /\ DOMAIN worker = Workers
    BY <1>1 DEF Shapes
<1>4. /\ worker'[w].at = "sending last" /\ worker'[w].task = worker[w].task /\ worker'[w].answer = worker[w].answer
      /\ \A v \in Workers \ {w} : worker'[v] = worker[v]
    BY <1>1, <1>3
<1>5. \A v \in Workers : /\ (Busy(v)' <=> Busy(v)) /\ worker'[v].task = worker[v].task /\ Conn(v)' = Conn(v)
                         /\ worker'[v].answer = worker[v].answer
    BY <1>1, <1>4 DEF Busy, Conn
<1>6. /\ Known(worker[w].task, free) /\ ~Told(c, a.id) /\ a.mode = "EXEC" /\ a.id = worker[w].task.id
    BY <1>1, <1>2, <1>a DEF Tracked, WorkersOnce
<1>7. a.id \in Nat \ {0} /\ a.id < free[c]
    BY <1>2, <1>a, <1>6 DEF Known, Conn
<1>8. \A d \in Conns : \A id : Told(d, id)' => Told(d, id) \/ (d = c /\ a.mode = "EXEC" /\ a.id = id)
    BY <1>2, <1>a, ToldFirst
<1>9. TasksOnce(free)' /\ RanOnce(free)'
  <2>1. ASSUME NEW t \in tasks PROVE ~Told(t.conn, t.id)'
    <3>1. ~(t.conn = c /\ t.id = a.id)
      BY <1>1, <1>2, <1>a, <1>6 DEF Tracked, TasksOnce, Same, Conn
    <3>2. t.conn \in Conns /\ ~Told(t.conn, t.id)
      BY DEF Tracked, TasksOnce, Shapes
    <3> QED
      BY <1>8, <3>1, <3>2
  <2> QED
    BY <1>1, <1>5, <2>1, LedgerTold DEF Tracked
<1>10. WorkersOnce(free)'
  <2>1. ASSUME NEW v \in Workers, Busy(v)', worker'[v].at # "sending last" PROVE ~Told(Conn(v), worker[v].task.id)'
    <3>1. v # w /\ Busy(v) /\ worker[v].at # "sending last"
      BY <1>4, <1>5, <2>1
    <3>2. ~(Conn(v) = c /\ worker[v].task.id = a.id)
      BY <1>1, <1>2, <1>a, <1>6, <3>1 DEF Tracked, WorkersOnce, Same, Conn
    <3>3. Conn(v) \in Conns /\ ~Told(Conn(v), worker[v].task.id)
      BY <3>1 DEF Tracked, WorkersOnce, Shapes, Busy
    <3> QED
      BY <1>5, <1>8, <3>2, <3>3
  <2>2. ASSUME NEW v \in Workers, Busy(v)'
        PROVE  /\ Known(worker'[v].task, free)
               /\ \A u \in Workers : Busy(u)' /\ Same(worker'[u].task, worker'[v].task) => u = v
               /\ worker'[v].at = "running" => \A r \in ran' : ~Same(r, worker'[v].task)
               /\ worker'[v].at # "running" =>
                     worker'[v].answer.mode = "EXEC" /\ worker'[v].answer.id = worker'[v].task.id
    <3>1. worker'[v].at = "running" <=> worker[v].at = "running"
      BY <1>1, <1>4
    <3> QED
      BY <1>1, <1>5, <2>2, <3>1 DEF Tracked, WorkersOnce
  <2> QED
    BY <2>1, <2>2 DEF WorkersOnce
<1>11. ASSUME NEW d \in Conns \ {c} PROVE AnswersTo(d, free[d])'
  <2>1. out'[d] = out[d] /\ reader'[d] = reader[d] /\ parser'[d] = parser[d]
    BY <1>1, <1>2, <1>a, ToldFirst
  <2>2. AnswersTo(d, free[d])
    BY DEF Tracked
  <2> QED
    BY <2>1, <2>2, AnswersElsewhere
<1>12. AnswersTo(c, free[c])'
  <2>1. free[c] \in Nat /\ AnswersTo(c, free[c])
    BY DEF Tracked
  <2>2. a.mode = "EXEC" => /\ a.id \in Nat \ {0} /\ a.id <= free[c] /\ ~Told(c, a.id)
                           /\ reader'[c].at \notin {"sending last", "over"} => a.id < free[c]
    <3>1. PICK n \in Nat \ {0}, k \in Nat : n = a.id /\ k = free[c] /\ n < k
      BY <1>7, <2>1
    <3>2. n <= k
      BY <3>1
    <3> QED
      BY <1>6, <1>7, <3>1, <3>2
  <2>3. /\ reader'[c] = reader[c] /\ parser'[c] = parser[c]
        /\ a.mode # "EXEC" => a.id = 0
    BY <1>1, <1>6
  <2>4. reader'[c].at \in {"sending", "sending last"} =>
              /\ reader'[c].answer.mode = parser'[c].req.mode
              /\ reader'[c].answer.mode = "EXEC" => reader'[c].answer.id = free[c]
              /\ reader'[c].answer.mode # "EXEC" => reader'[c].answer.id = 0
    BY <2>1, <2>3 DEF AnswersTo
  <2> QED
    BY <1>2, <1>a, <2>1, <2>2, <2>3, <2>4, AnswersBegin
<1> QED
    BY <1>9, <1>10, <1>11, <1>12 DEF Tracked

\* It writes the last line, and has no task.
LEMMA WorkerLastTracked ==
    ASSUME RpcServerAssumption, Shapes, NEW free \in [Conns -> Nat], Tracked(free),
           NEW w \in Workers, WorkerSendsLast(w)
    PROVE  Tracked(free)'
<1>1. /\ UNCHANGED <<tasks, ran, reader, parser>> /\ Busy(w)
      /\ worker' = [worker EXCEPT ![w] = [at |-> "idle"]]
    BY DEF WorkerSendsLast, history, Busy
<1>2. PICK c \in Conns : \E a : SendLast(w, c, a)
    BY <1>1 DEF WorkerSendsLast, Conn, Shapes, Busy
<1>3. /\ \A d \in Conns : \A id : Told(d, id)' <=> Told(d, id)
      /\ \A d \in Conns \ {c} : out'[d] = out[d]
      /\ \A i \in DOMAIN out'[c] : Begun(c, i)' => Begun(c, i) /\ out'[c][i] = out[c][i]
    BY <1>2, ToldLast
<1>4. ~Busy(w)' /\ \A v \in Workers \ {w} : worker'[v] = worker[v] /\ (Busy(v)' <=> Busy(v)) /\ Conn(v)' = Conn(v)
    BY <1>1 DEF Shapes, Busy, Conn
<1>5. TasksOnce(free)' /\ RanOnce(free)'
  <2>1. \A t \in tasks : ~Told(t.conn, t.id)'
    BY <1>3 DEF Tracked, TasksOnce, Shapes
  <2>2. \A v \in Workers : Busy(v)' => Busy(v) /\ worker'[v].task = worker[v].task
    BY <1>4
  <2> QED
    BY <1>1, <2>1, <2>2, LedgerTold DEF Tracked
<1>6. WorkersOnce(free)'
  <2>1. ASSUME NEW v \in Workers \ {w}, Busy(v)
        PROVE  /\ Known(worker[v].task, free)
               /\ \A u \in Workers : Busy(u)' /\ Same(worker'[u].task, worker[v].task) => u = v
               /\ worker[v].at = "running" => \A r \in ran' : ~Same(r, worker[v].task)
               /\ worker[v].at # "sending last" => ~Told(Conn(v), worker[v].task.id)'
               /\ worker[v].at # "running" =>
                     worker[v].answer.mode = "EXEC" /\ worker[v].answer.id = worker[v].task.id
    <3>1. Conn(v)' = Conn(v) /\ worker'[v] = worker[v] /\ Conn(v) \in Conns
      BY <1>4, <2>1 DEF Shapes, Busy
    <3>2. worker[v].at # "sending last" => ~Told(Conn(v), worker[v].task.id)'
      BY <1>3, <2>1, <3>1 DEF Tracked, WorkersOnce
    <3> QED
      BY <1>1, <1>4, <2>1, <3>2 DEF Tracked, WorkersOnce
  <2> QED
    BY <1>4, <2>1 DEF WorkersOnce
<1>7. ASSUME NEW d \in Conns \ {c} PROVE AnswersTo(d, free[d])'
  <2>1. out'[d] = out[d] /\ reader'[d] = reader[d] /\ parser'[d] = parser[d]
    BY <1>1, <1>3
  <2>2. AnswersTo(d, free[d])
    BY DEF Tracked
  <2> QED
    BY <2>1, <2>2, AnswersElsewhere
<1>8. AnswersTo(c, free[c])'
  <2>1. free[c] \in Nat /\ AnswersTo(c, free[c]) /\ free[c] <= free[c]
    BY DEF Tracked
  <2>2. reader'[c] = reader[c] /\ parser'[c] = parser[c]
    BY <1>1
  <2>3. reader'[c].at \in {"sending", "sending last"} =>
              /\ reader'[c].answer.mode = parser'[c].req.mode
              /\ reader'[c].answer.mode = "EXEC" => reader'[c].answer.id = free[c]
              /\ reader'[c].answer.mode # "EXEC" => reader'[c].answer.id = 0
    BY <2>1, <2>2 DEF AnswersTo
  <2> QED
    BY <1>3, <2>1, <2>2, <2>3, AnswersStay
<1> QED
    BY <1>5, <1>6, <1>7, <1>8 DEF Tracked

\* Clients, the application and the clock.
LEMMA ElsewhereTracked ==
    ASSUME Shapes, NEW free \in [Conns -> Nat], Tracked(free),
           UNCHANGED <<tasks, worker, ran, out, reader, parser>>
    PROVE  Tracked(free)'
<1>1. \A d \in Conns : free[d] <= free[d]
    OBVIOUS
<1>2. TasksOnce(free)' /\ WorkersOnce(free)' /\ RanOnce(free)'
    BY <1>1, LedgerKept DEF Tracked
<1>3. \A d \in Conns : AnswersTo(d, free[d])'
    BY AnswersElsewhere DEF Tracked
<1> QED
    BY <1>2, <1>3 DEF Tracked

-----------------------------------------------------------------------------
(* Types *)

\* Who may do what, in the accounts and attributes that there are.
RightsType(r) ==
    /\ DOMAIN r = {"accounts", "disabled", "holds"}
    /\ DOMAIN r.accounts \subseteq Users /\ r.disabled \subseteq DOMAIN r.accounts
    /\ r.holds \subseteq Attribs \X DOMAIN r.accounts

\* A function of the authenticator leaves it so.
LEMMA AppliedRights ==
    ASSUME RightsType(rights), NEW function, NEW a
    PROVE  RightsType(Apply(function, a))
<1> DEFINE accounts == rights.accounts
           disabled == rights.disabled
           holds == rights.holds
           new == Apply(function, a)
<1>0. /\ DOMAIN rights = {"accounts", "disabled", "holds"}
      /\ DOMAIN accounts \subseteq Users /\ disabled \subseteq DOMAIN accounts
      /\ holds \subseteq Attribs \X DOMAIN accounts
    BY DEF RightsType
<1>1. CASE function = "accountRemove"
  <2>1. new = [rights EXCEPT !.accounts = [u \in DOMAIN accounts \ {a[1]} |-> accounts[u]],
                             !.disabled = disabled \ {a[1]}, !.holds = {h \in holds : h[2] # a[1]}]
    BY <1>1 DEF Apply
  <2>2. /\ DOMAIN new = DOMAIN rights
        /\ new.accounts = [u \in DOMAIN accounts \ {a[1]} |-> accounts[u]]
        /\ new.disabled = disabled \ {a[1]} /\ new.holds = {h \in holds : h[2] # a[1]}
    BY <1>0, <2>1
  <2>3. DOMAIN new.accounts = DOMAIN accounts \ {a[1]}
    BY <2>2
  <2>4. new.holds \subseteq Attribs \X (DOMAIN accounts \ {a[1]})
    BY <1>0, <2>2
  <2> HIDE DEF new
  <2>5. DOMAIN new.accounts \subseteq Users /\ new.disabled \subseteq DOMAIN new.accounts
    BY <1>0, <2>2, <2>3
  <2> QED
    BY <1>0, <2>2, <2>3, <2>4, <2>5 DEF RightsType, new
<1>2. CASE function = "accountDisable"
  <2>1. PICK e : /\ new = [rights EXCEPT !.disabled = e]
                 /\ e \in {disabled \cup ({a[1]} \cap DOMAIN accounts), disabled \ {a[1]}}
    BY <1>2 DEF Apply
  <2>2. DOMAIN new = DOMAIN rights /\ new.accounts = accounts /\ new.disabled = e /\ new.holds = holds
    BY <1>0, <2>1
  <2>3. e \subseteq DOMAIN accounts
    BY <1>0, <2>1
  <2> HIDE DEF new
  <2> QED
    BY <1>0, <2>2, <2>3 DEF RightsType, new
<1>3. CASE function = "accountChangePassword" /\ a[1] \in DOMAIN accounts
  <2>1. PICK p : new = [rights EXCEPT !.accounts = [accounts EXCEPT ![a[1]] = p]]
    BY <1>3 DEF Apply
  <2>2. DOMAIN new = DOMAIN rights /\ new.accounts = [accounts EXCEPT ![a[1]] = p]
        /\ new.disabled = disabled /\ new.holds = holds
    BY <1>0, <2>1
  <2>3. DOMAIN new.accounts = DOMAIN accounts
    BY <2>2
  <2> HIDE DEF new
  <2> QED
    BY <1>0, <2>2, <2>3 DEF RightsType, new
<1>4. CASE function = "attribRemove" \/ function = "attribAccountRemove"
  <2>1. PICK e : new = [rights EXCEPT !.holds = e] /\ e \subseteq holds
    BY <1>4 DEF Apply
  <2>2. DOMAIN new = DOMAIN rights /\ new.accounts = accounts /\ new.disabled = disabled /\ new.holds = e
    BY <1>0, <2>1
  <2> HIDE DEF new
  <2> QED
    BY <1>0, <2>1, <2>2 DEF RightsType, new
<1>5. CASE function = "attribAccountAdd" /\ a[1] \in Attribs /\ a[2] \in DOMAIN accounts
  <2>1. new = [rights EXCEPT !.holds = holds \cup {<<a[1], a[2]>>}]
    BY <1>5 DEF Apply
  <2>2. DOMAIN new = DOMAIN rights /\ new.accounts = accounts /\ new.disabled = disabled
        /\ new.holds = holds \cup {<<a[1], a[2]>>}
    BY <1>0, <2>1
  <2> HIDE DEF new
  <2> QED
    BY <1>0, <1>5, <2>2 DEF RightsType, new
<1>6. CASE new = rights
    BY <1>6
<1>7. \/ function \in {"accountRemove", "accountDisable", "attribRemove", "attribAccountRemove"}
      \/ function = "accountChangePassword" /\ a[1] \in DOMAIN accounts
      \/ function = "attribAccountAdd" /\ a[1] \in Attribs /\ a[2] \in DOMAIN accounts
      \/ new = rights
    BY DEF Apply
<1> QED
    BY <1>1, <1>2, <1>3, <1>4, <1>5, <1>6, <1>7

\* A method that runs leaves them so.
LEMMA RunsRights ==
    ASSUME Records, Types, NEW w \in Workers, RunRPCMethod(w)
    PROVE  RightsType(rights')
<1>1. RightsType(rights)
    BY DEF Records, Types, RightsType
<1>2. rights' = rights \/ \E function, a : rights' = Apply(function, a)
    BY DEF RunRPCMethod
<1> QED
    BY <1>1, <1>2, AppliedRights

\* A task more, a task less.
LEMMA TasksCounted ==
    ASSUME RpcServerAssumption, Records, Types
    PROVE  /\ Cardinality(tasks) \in Nat
           /\ \A t : Cardinality(tasks) <= QueueLimit =>
                 IsFiniteSet(tasks \cup {t}) /\ Cardinality(tasks \cup {t}) <= QueueLimit + 1
           /\ \A t \in tasks : IsFiniteSet(tasks \ {t}) /\ Cardinality(tasks \ {t}) <= QueueLimit + 1
<1>1. IsFiniteSet(tasks) /\ QueueLimit \in Nat /\ Cardinality(tasks) <= QueueLimit + 1
    BY DEF Records, Types, RpcServerAssumption
<1>2. Cardinality(tasks) \in Nat
    BY <1>1, FS_CardinalityType
<1>3. ASSUME NEW t, Cardinality(tasks) <= QueueLimit
      PROVE  IsFiniteSet(tasks \cup {t}) /\ Cardinality(tasks \cup {t}) <= QueueLimit + 1
  <2>1. /\ IsFiniteSet(tasks \cup {t})
        /\ Cardinality(tasks \cup {t}) \in {Cardinality(tasks), Cardinality(tasks) + 1}
    BY <1>1, FS_AddElement
  <2> QED
    BY <1>1, <1>2, <1>3, <2>1
<1>4. ASSUME NEW t \in tasks
      PROVE  IsFiniteSet(tasks \ {t}) /\ Cardinality(tasks \ {t}) <= QueueLimit + 1
  <2>1. IsFiniteSet(tasks \ {t}) /\ Cardinality(tasks \ {t}) = Cardinality(tasks) - 1
    BY <1>1, FS_RemoveElement
  <2> QED
    BY <1>1, <1>2, <2>1
<1> QED
    BY <1>2, <1>3, <1>4

\* Where a connection's thread is after a step.
LEMMA ReaderAt ==
    ASSUME RpcServerAssumption, Shapes, Records, Types, NEW free \in [Conns -> Nat], NEW c \in Conns,
           Requests(c, free[c]), Reader(c)
    PROVE  reader'[c].at \in {"reading", "processing", "pushing", "sending", "sending last", "over"}
<1>0. DOMAIN reader = Conns
    BY DEF Shapes
<1>1. End(c) => reader'[c].at = "over"
    BY <1>0 DEF End
<1>2. Continue(c) => reader'[c].at = "reading"
    BY <1>0 DEF Continue, Reading
<1>3. \A mode, id, code, minds : ToSend(c, Answer(mode, id, code), minds) => reader'[c].at = "sending"
    BY ToSendReader
<1>a. reader' = [reader EXCEPT ![c] = [at |-> "processing"]] => reader'[c].at = "processing"
    BY <1>0
<1>4. CASE ReadLine(c)
  <2>1. reader' = reader \/ End(c) \/ reader' = [reader EXCEPT ![c] = [at |-> "processing"]]
    BY <1>4 DEF ReadLine, Parsed
  <2>2. reader'[c].at \in {reader[c].at, "over", "processing"}
    BY <1>1, <1>a, <2>1
  <2> QED
    BY <2>2 DEF Types
<1>5. CASE ReadEnd(c)
  <2>1. End(c) \/ reader' = [reader EXCEPT ![c] = [at |-> "processing"]]
    BY <1>5 DEF ReadEnd
  <2> QED
    BY <1>1, <1>a, <2>1
<1>6. CASE ProcessRequest(c)
    BY <1>6, DecidesReader
<1>7. CASE PushTask(c)
    BY <1>2, <1>3, <1>7 DEF PushTask
<1>8. CASE ReaderSendsFirst(c)
  <2>1. {"at", "answer", "minds"} \subseteq DOMAIN reader[c]
    BY <1>8 DEF ReaderSendsFirst, Shapes
  <2> QED
    BY <1>0, <1>8, <2>1 DEF ReaderSendsFirst
<1>9. CASE ReaderSendsLast(c)
    BY <1>1, <1>2, <1>9 DEF ReaderSendsLast
<1> QED
    BY <1>4, <1>5, <1>6, <1>7, <1>8, <1>9 DEF Reader

\* Whom a session is of after a step.
LEMMA ReaderUser ==
    ASSUME Shapes, Records, Types, NEW c \in Conns, Reader(c)
    PROVE  session'[c].user \in Users \cup {""}
<1>1. session' = session \/ persistentAuthentication(c)
    BY DEF Reader, ReadLine, ReadEnd, ProcessRequest, PushTask, ReaderSendsFirst, ReaderSendsLast
<1>2. CASE session' = session
    BY <1>2 DEF Types
<1>3. CASE persistentAuthentication(c)
  <2>1. PICK user : \E pass, i : authenticate(c, user, pass, i)
    BY <1>3 DEF persistentAuthentication
  <2>2. PICK pass, i : authenticate(c, user, pass, i)
    BY <2>1
  <2>3. session'[c].user # session[c].user => session'[c].user = user /\ Authenticate(user, pass, i) = "AUTHENTICATED"
    BY <2>2, LoginRecords
  <2>4. Authenticate(user, pass, i) = "AUTHENTICATED" => user \in DOMAIN rights.accounts
    BY DEF Authenticate
  <2> QED
    BY <2>3, <2>4 DEF Types
<1> QED
    BY <1>1, <1>2, <1>3

\* The thread of a connection.
LEMMA ReaderTypes ==
    ASSUME RpcServerAssumption, Shapes, Records, Types, NEW free \in [Conns -> Nat], NEW c \in Conns,
           Requests(c, free[c]), Reader(c)
    PROVE  Types'
<1>1. /\ rights' = rights /\ worker' = worker
      /\ \A d \in Conns \ {c} : reader'[d] = reader[d] /\ session'[d] = session[d]
    BY ReaderAlone
<1>2. Cardinality(tasks') <= QueueLimit + 1
  <2>1. tasks' = tasks \/ (Cardinality(tasks) <= QueueLimit /\ tasks' = tasks \cup {Task(c)})
    BY DEF Reader, ReadLine, ReadEnd, ProcessRequest, PushTask, ReaderSendsFirst, ReaderSendsLast
  <2>2. Cardinality(tasks) <= QueueLimit + 1
    BY DEF Types
  <2> QED
    BY <2>1, <2>2, TasksCounted
<1>3. reader'[c].at \in {"reading", "processing", "pushing", "sending", "sending last", "over"}
    BY ReaderAt
<1>4. session'[c].user \in Users \cup {""}
    BY ReaderUser
<1> QED
    BY <1>1, <1>2, <1>3, <1>4 DEF Types

\* A worker.
LEMMA WorkerTypes ==
    ASSUME RpcServerAssumption, Shapes, Records, Types, NEW w \in Workers, Worker(w)
    PROVE  Types' /\ IsFiniteSet(tasks') /\ DOMAIN rights' = DOMAIN rights
<1>1. UNCHANGED <<reader, session>> /\ DOMAIN worker = Workers
    BY DEF Worker, TakeTask, RunRPCMethod, WorkerSendsFirst, WorkerSendsLast, Shapes
<1>2. IsFiniteSet(tasks') /\ Cardinality(tasks') <= QueueLimit + 1
  <2>1. tasks' = tasks \/ \E t \in tasks : tasks' = tasks \ {t}
    BY DEF Worker, TakeTask, RunRPCMethod, WorkerSendsFirst, WorkerSendsLast
  <2>2. IsFiniteSet(tasks) /\ Cardinality(tasks) <= QueueLimit + 1
    BY DEF Types, Records
  <2> QED
    BY <2>1, <2>2, TasksCounted
<1>3. /\ \A v \in Workers \ {w} : worker'[v] = worker[v]
      /\ worker'[w].at \in {"idle", "running", "sending", "sending last"}
  <2>1. CASE TakeTask(w)
    BY <1>1, <2>1 DEF TakeTask
  <2>2. CASE RunRPCMethod(w)
    BY <2>2, RunsWorker
  <2>3. CASE WorkerSendsFirst(w)
    <3>1. {"at", "task"} \subseteq DOMAIN worker[w]
      BY <2>3 DEF WorkerSendsFirst, Shapes
    <3> QED
      BY <1>1, <2>3, <3>1 DEF WorkerSendsFirst
  <2>4. CASE WorkerSendsLast(w)
    BY <1>1, <2>4 DEF WorkerSendsLast
  <2> QED
    BY <2>1, <2>2, <2>3, <2>4 DEF Worker
<1>4. RightsType(rights')
  <2>1. RightsType(rights)
    BY DEF Types, Records, RightsType
  <2>2. RunRPCMethod(w) \/ rights' = rights
    BY DEF Worker, TakeTask, WorkerSendsFirst, WorkerSendsLast
  <2> QED
    BY <2>1, <2>2, RunsRights
<1>5. Types'
    BY <1>1, <1>2, <1>3, <1>4 DEF Types, RightsType
<1> QED
    BY <1>2, <1>4, <1>5 DEF Records, RightsType

-----------------------------------------------------------------------------
(* Permits *)

SentStays == \A d \in Conns : \A j \in DOMAIN sent[d] : j \in DOMAIN sent'[d] /\ sent'[d][j] = sent[d][j]

\* What a task was let run for, it stays let run for.
LEMMA CoversStays ==
    ASSUME SentStays, NEW p, NEW c \in Conns, NEW id, NEW m, Covers(p, c, id, m)
    PROVE  Covers(p, c, id, m)'
<1>1. id \in DOMAIN sent[c] /\ id \in DOMAIN sent'[c] /\ sent'[c][id] = sent[c][id]
    BY DEF Covers, SentStays
<1>2. IdxsOf(c, id)' = IdxsOf(c, id)
    BY <1>1 DEF IdxsOf
<1> QED
    BY <1>1, <1>2 DEF Covers

\* So with what may run.
LEMMA PermittedStays ==
    ASSUME SentStays, permits \subseteq permits', NEW c \in Conns, NEW id, NEW m, Permitted(c, id, m)
    PROVE  Permitted(c, id, m)'
BY CoversStays DEF Permitted

\* A step after which each permit, and all that was let run, is as before or as it must be.
LEMMA PermitsStep ==
    ASSUME Shapes, Permits, SentStays, permits \subseteq permits',
           \A r \in ran : r.conn \in Conns,
           \A d \in Conns : /\ logins[d] \in Nat /\ logins'[d] \in Nat /\ logins[d] <= logins'[d]
                            /\ logins'[d] = logins[d] => session'[d].user = session[d].user,
           \A p \in permits' : p \in permits \/
              /\ p.conn \in Conns /\ p.logins \in Nat /\ p.logins <= logins'[p.conn]
              /\ p.logins = logins'[p.conn] => p.user = session'[p.conn].user,
           \A t \in tasks' : t \in tasks \/ Permitted(t.conn, t.id, t.method)',
           \A w \in Workers : worker'[w].at = "running" =>
              \/ worker[w].at = "running" /\ worker'[w].task = worker[w].task
              \/ Permitted(Conn(w), worker[w].task.id, worker[w].task.method)',
           \A d \in Conns : reader'[d].at = "pushing" =>
              \/ reader[d].at = "pushing" /\ parser'[d] = parser[d]
              \/ /\ parser'[d].req.mode = "EXEC"
                 /\ Permitted(d, parser[d].req.ids.reqId, parser[d].req.method)',
           \A r \in ran' : r \in ran \/ \E p \in permits' :
              Covers(p, r.conn, r.id, r.method)' /\ (p.user = r.user \/ p.logins # r.logins)
    PROVE  Permits'
<1>1. ASSUME NEW p \in permits'
      PROVE  /\ p.conn \in Conns /\ p.logins \in Nat /\ p.logins <= logins'[p.conn]
             /\ p.logins = logins'[p.conn] => p.user = session'[p.conn].user
  <2>1. CASE p \in permits
    <3>1. /\ p.conn \in Conns /\ p.logins \in Nat /\ p.logins <= logins[p.conn]
          /\ p.logins = logins[p.conn] => p.user = session[p.conn].user
      BY <2>1 DEF Permits
    <3>2. PICK n \in Nat, k \in Nat, k2 \in Nat :
             n = p.logins /\ k = logins[p.conn] /\ k2 = logins'[p.conn] /\ n <= k /\ k <= k2
      BY <3>1
    <3>3. n <= k2 /\ (n = k2 => n = k /\ k2 = k)
      BY <3>2
    <3> QED
      BY <3>1, <3>2, <3>3
  <2> QED
    BY <2>1
<1>2. ASSUME NEW t \in tasks' PROVE Permitted(t.conn, t.id, t.method)'
  <2>1. CASE t \in tasks
    BY <2>1, PermittedStays DEF Permits, Shapes
  <2> QED
    BY <2>1
<1>3. ASSUME NEW w \in Workers, worker'[w].at = "running"
      PROVE  Permitted(Conn(w), worker[w].task.id, worker[w].task.method)'
  <2>1. CASE worker[w].at = "running" /\ worker'[w].task = worker[w].task
    <3>1. Conn(w) \in Conns /\ Permitted(Conn(w), worker[w].task.id, worker[w].task.method)
      BY <2>1 DEF Shapes, Permits
    <3>2. Conn(w)' = Conn(w)
      BY <2>1 DEF Conn
    <3>3. PICK c \in Conns : c = Conn(w)
      BY <3>1
    <3>4. Permitted(c, worker[w].task.id, worker[w].task.method)
      BY <3>1, <3>3
    <3>5. PICK id, m : id = worker[w].task.id /\ m = worker[w].task.method
      OBVIOUS
    <3>6. Permitted(c, id, m)'
      BY <3>4, <3>5, PermittedStays
    <3>7. Conn(w)' = c /\ worker'[w].task.id = id /\ worker'[w].task.method = m
      BY <2>1, <3>2, <3>3, <3>5
    <3> QED
      BY <3>6, <3>7
  <2> QED
    BY <1>3, <2>1
<1>4. ASSUME NEW d \in Conns, reader'[d].at = "pushing"
      PROVE  parser'[d].req.mode = "EXEC" /\ Permitted(d, parser[d].req.ids.reqId, parser[d].req.method)'
  <2>1. CASE reader[d].at = "pushing" /\ parser'[d] = parser[d]
    <3>1. parser[d].req.mode = "EXEC" /\ Permitted(d, parser[d].req.ids.reqId, parser[d].req.method)
      BY <2>1 DEF Permits
    <3>2. PICK id, m : id = parser[d].req.ids.reqId /\ m = parser[d].req.method
      OBVIOUS
    <3>3. Permitted(d, id, m)'
      BY <3>1, <3>2, PermittedStays
    <3>4. parser'[d].req.ids.reqId = id /\ parser'[d].req.method = m /\ parser'[d].req.mode = "EXEC"
      BY <2>1, <3>1, <3>2
    <3> QED
      BY <3>3, <3>4
  <2> QED
    BY <1>4, <2>1
<1>5. ASSUME NEW r \in ran'
      PROVE  \E p \in permits' : Covers(p, r.conn, r.id, r.method)' /\ (p.user = r.user \/ p.logins # r.logins)
  <2>1. CASE r \in ran
    <3>1. PICK p \in permits : Covers(p, r.conn, r.id, r.method) /\ (p.user = r.user \/ p.logins # r.logins)
      BY <2>1 DEF Permits
    <3>2. Covers(p, r.conn, r.id, r.method)'
      BY <2>1, <3>1, CoversStays
    <3> QED
      BY <3>1, <3>2
  <2> QED
    BY <2>1
<1> QED
    BY <1>1, <1>2, <1>3, <1>4, <1>5 DEF Permits

\* A step that lets nothing run, pushes nothing and takes nothing.
LEMMA PermitsQuiet ==
    ASSUME Shapes, Records, Permits, SentStays, NEW free, RanOnce(free),
           UNCHANGED <<permits, ran, tasks>>,
           \A d \in Conns : /\ logins'[d] \in Nat /\ logins[d] <= logins'[d]
                            /\ logins'[d] = logins[d] => session'[d].user = session[d].user,
           \A w \in Workers : worker'[w].at = "running" => worker'[w] = worker[w],
           \A d \in Conns : reader'[d].at = "pushing" => reader[d].at = "pushing" /\ parser'[d] = parser[d]
    PROVE  Permits'
<1>1. \A r \in ran : r.conn \in Conns
    BY DEF RanOnce
<1>2. \A d \in Conns : logins[d] \in Nat
    BY DEF Records
<1>3. permits \subseteq permits'
    OBVIOUS
<1>4. /\ \A p \in permits' : p \in permits
      /\ \A t \in tasks' : t \in tasks
      /\ \A r \in ran' : r \in ran
      /\ \A w \in Workers : worker'[w].at = "running" => worker[w].at = "running" /\ worker'[w].task = worker[w].task
    OBVIOUS
<1> QED
    BY <1>1, <1>2, <1>3, <1>4, PermitsStep

\* Nobody logs in.
LEMMA LoginsKept ==
    ASSUME Records, UNCHANGED <<logins, session>>
    PROVE  \A d \in Conns : /\ logins'[d] \in Nat /\ logins[d] <= logins'[d]
                            /\ logins'[d] = logins[d] => session'[d].user = session[d].user
<1>1. \A d \in Conns : logins[d] \in Nat
    BY DEF Records
<1>2. \A n \in Nat : n <= n
    OBVIOUS
<1> QED
    BY <1>1, <1>2

\* Somebody does, or tries to: the user is another only after one login more.
LEMMA LoginsCounted ==
    ASSUME Shapes, Records, NEW c \in Conns, persistentAuthentication(c),
           \A d \in Conns \ {c} : session'[d] = session[d]
    PROVE  \A d \in Conns : /\ logins'[d] \in Nat /\ logins[d] <= logins'[d]
                            /\ logins'[d] = logins[d] => session'[d].user = session[d].user
<1>1. PICK user, pass, i :
         /\ authenticate(c, user, pass, i)
         /\ logins' = [logins EXCEPT ![c] = IF Authenticate(user, pass, i) = "AUTHENTICATED" THEN @ + 1 ELSE @]
  <2> DEFINE auths == parser[c].req.auths
             a == IF 0 \in DOMAIN auths THEN auths[0] ELSE [user |-> "", pass |-> "", idx |-> 0]
  <2>1. /\ authenticate(c, a.user, a.pass, a.idx)
        /\ logins' = [logins EXCEPT ![c] = IF Authenticate(a.user, a.pass, a.idx) = "AUTHENTICATED" THEN @ + 1 ELSE @]
    BY DEF persistentAuthentication
  <2> HIDE DEF a
  <2>2. PICK user, pass, i : user = a.user /\ pass = a.pass /\ i = a.idx
    OBVIOUS
  <2> QED
    BY <2>1, <2>2
<1>2. session'[c].user # session[c].user => Authenticate(user, pass, i) = "AUTHENTICATED"
    BY <1>1, LoginRecords
<1>3. /\ \A d \in Conns : logins[d] \in Nat
      /\ \A d \in Conns \ {c} : logins'[d] = logins[d]
      /\ Authenticate(user, pass, i) = "AUTHENTICATED" => logins'[c] = logins[c] + 1
      /\ Authenticate(user, pass, i) # "AUTHENTICATED" => logins'[c] = logins[c]
    BY <1>1 DEF Records
<1>4. \A n \in Nat : n <= n /\ n <= n + 1 /\ n + 1 \in Nat /\ n + 1 # n
    OBVIOUS
<1>5. ASSUME NEW d \in Conns \ {c}
      PROVE  /\ logins'[d] \in Nat /\ logins[d] <= logins'[d]
             /\ logins'[d] = logins[d] => session'[d].user = session[d].user
    BY <1>3, <1>4
<1>6. /\ logins'[c] \in Nat /\ logins[c] <= logins'[c]
      /\ logins'[c] = logins[c] => session'[c].user = session[c].user
  <2>1. CASE Authenticate(user, pass, i) = "AUTHENTICATED"
    BY <1>3, <1>4, <2>1
  <2>2. CASE Authenticate(user, pass, i) # "AUTHENTICATED"
    BY <1>2, <1>3, <1>4, <2>2
  <2> QED
    BY <2>1, <2>2
<1> QED
    BY <1>5, <1>6

\* What a thread lets run, it lets run for the account of the session, which holds each attribute
\* the method needs, and by passwords the session or the request itself has.
LEMMA LetRun ==
    ASSUME RpcServerAssumption, Shapes, Records, NEW c \in Conns, NEW k, Requests(c, k),
           reader[c].at = "processing", parser[c].req.mode = "EXEC",
           validateRPCMethodPerms(c, parser[c].req.method, DOMAIN parser[c].req.auths) = "OK",
           NEW p, p.conn = c, p.id = parser[c].req.ids.reqId,
           p.held = {x \in Attribs : <<x, session[c].user>> \in rights.holds},
           p.indexes = {i \in DOMAIN session[c].matrix : isAuthenticated(c, i) = "AUTHENTICATED"}
    PROVE  Covers(p, c, parser[c].req.ids.reqId, parser[c].req.method)
<1> DEFINE m == parser[c].req.method
           tmp == DOMAIN parser[c].req.auths
<1>1. /\ parser[c].req.ids.reqId = k /\ k \in DOMAIN sent[c] /\ tmp \subseteq IdxsOf(c, k)
    BY ActsOn
<1>2. validateMethod(c, m, tmp)
    BY DEF validateRPCMethodPerms
<1>3. getMethodAttribs(m) \subseteq p.held
    BY <1>2 DEF validateMethod, getMethodAttribs, accountValidateAttribute
<1>4. ASSUME NEW i \in getMethodPassIndexes(m) PROVE i \in p.indexes \cup IdxsOf(c, k)
  <2>1. isAuthenticated(c, i) = "AUTHENTICATED" \/ i \in tmp
    BY <1>2, <1>4 DEF validateMethod
  <2>2. isAuthenticated(c, i) = "AUTHENTICATED" => i \in DOMAIN session[c].matrix
    BY DEF isAuthenticated
  <2> QED
    BY <1>1, <2>1, <2>2
<1> QED
    BY <1>1, <1>3, <1>4 DEF Covers

\* A connection's thread decides.
LEMMA DecidesPermits ==
    ASSUME RpcServerAssumption, Shapes, Records, Permits, NEW free, RanOnce(free),
           NEW c \in Conns, NEW k, Requests(c, k), ProcessRequest(c)
    PROVE  Permits'
<1>1. /\ UNCHANGED <<tasks, worker, sent, ran>> /\ reader[c].at = "processing" /\ Reader(c) /\ SentStays
    BY DEF ProcessRequest, Reader, ioVars, history, SentStays
<1>2. /\ DOMAIN reader = Conns
      /\ \A d \in Conns \ {c} : parser'[d] = parser[d] /\ reader'[d] = reader[d] /\ session'[d] = session[d]
    BY <1>1, ReaderAlone DEF Shapes
<1>3. CASE permits' = permits /\ reader'[c].at # "pushing"
  <2>1. (session' = session /\ logins' = logins) \/ persistentAuthentication(c)
    BY DEF ProcessRequest, history
  <2>2. \A d \in Conns : /\ logins'[d] \in Nat /\ logins[d] <= logins'[d]
                         /\ logins'[d] = logins[d] => session'[d].user = session[d].user
    BY <1>2, <2>1, LoginsKept, LoginsCounted
  <2>3. \A d \in Conns : reader'[d].at = "pushing" => reader[d].at = "pushing" /\ parser'[d] = parser[d]
    BY <1>2, <1>3
  <2>4. \A w \in Workers : worker'[w].at = "running" => worker'[w] = worker[w]
    BY <1>1
  <2> QED
    BY <1>1, <1>3, <2>2, <2>3, <2>4, PermitsQuiet
<1>4. CASE ~(permits' = permits /\ reader'[c].at # "pushing")
  <2> DEFINE r == [conn |-> c, id |-> parser[c].req.ids.reqId, user |-> session[c].user, logins |-> logins[c],
                   held |-> {y \in Attribs : <<y, session[c].user>> \in rights.holds},
                   indexes |-> {i \in DOMAIN session[c].matrix : isAuthenticated(c, i) = "AUTHENTICATED"}]
           allowed == validateRPCMethodPerms(c, parser[c].req.method, DOMAIN parser[c].req.auths)
  <2>0. /\ End(c) => reader'[c].at # "pushing"
        /\ Continue(c) => reader'[c].at # "pushing"
        /\ \A mode, id, code, minds : ToSend(c, Answer(mode, id, code), minds) => reader'[c].at # "pushing"
    BY <1>2, ToSendReader DEF End, Continue, Reading
  <2>1. /\ parser[c].req.mode = "EXEC" /\ allowed = "OK" /\ permits' = permits \cup {r}
        /\ parser' = parser /\ session' = session /\ logins' = logins
    <3>1. persistentAuthentication(c) => reader'[c].at # "pushing"
      BY <2>0 DEF persistentAuthentication
    <3> HIDE DEF r, allowed
    <3>2. \/ permits' = permits /\ End(c)
          \/ permits' = permits /\ persistentAuthentication(c)
          \/ permits' = permits /\ Continue(c)
          \/ permits' = permits /\ \E code, minds : ToSend(c, Answer("EXEC", parser[c].req.ids.reqId, code), minds)
          \/ /\ parser[c].req.mode = "EXEC" /\ allowed = "OK" /\ permits' = permits \cup {r}
             /\ parser' = parser /\ session' = session /\ logins' = logins
      BY DEF ProcessRequest, history, r, allowed
    <3> QED
      BY <1>4, <2>0, <3>1, <3>2
  <2>r. PICK x : x = r
    OBVIOUS
  <2>2. /\ x.conn = c /\ x.id = parser[c].req.ids.reqId /\ x.user = session[c].user /\ x.logins = logins[c]
        /\ x.held = {y \in Attribs : <<y, session[c].user>> \in rights.holds}
        /\ x.indexes = {i \in DOMAIN session[c].matrix : isAuthenticated(c, i) = "AUTHENTICATED"}
    BY <2>r
  <2> HIDE DEF r
  <2>3. Covers(x, c, parser[c].req.ids.reqId, parser[c].req.method)
    BY <1>1, <2>1, <2>2, LetRun DEF allowed
  <2>4. Permitted(c, parser[c].req.ids.reqId, parser[c].req.method)'
    <3>1. PICK id, m : id = parser[c].req.ids.reqId /\ m = parser[c].req.method
      OBVIOUS
    <3>2. Covers(x, c, id, m)'
      BY <1>1, <2>3, <3>1, CoversStays
    <3>3. Permitted(c, id, m)'
      BY <2>1, <2>r, <3>2 DEF Permitted
    <3> QED
      BY <2>1, <3>1, <3>3
  <2>5. \A d \in Conns : reader'[d].at = "pushing" =>
              \/ reader[d].at = "pushing" /\ parser'[d] = parser[d]
              \/ /\ parser'[d].req.mode = "EXEC"
                 /\ Permitted(d, parser[d].req.ids.reqId, parser[d].req.method)'
    BY <1>2, <2>1, <2>4
  <2>6. \A p \in permits' : p \in permits \/
              /\ p.conn \in Conns /\ p.logins \in Nat /\ p.logins <= logins'[p.conn]
              /\ p.logins = logins'[p.conn] => p.user = session'[p.conn].user
    <3>1. logins[c] \in Nat /\ logins[c] <= logins[c]
      BY DEF Records
    <3> QED
      BY <2>1, <2>r, <2>2, <3>1
  <2>7. \A d \in Conns : /\ logins[d] \in Nat /\ logins'[d] \in Nat /\ logins[d] <= logins'[d]
                         /\ logins'[d] = logins[d] => session'[d].user = session[d].user
    BY <2>1, LoginsKept DEF Records
  <2>8. permits \subseteq permits' /\ (\A s \in ran : s.conn \in Conns)
    BY <2>1 DEF RanOnce
  <2>9. /\ \A t \in tasks' : t \in tasks
        /\ \A s \in ran' : s \in ran
        /\ \A w \in Workers : worker'[w].at = "running" => worker[w].at = "running" /\ worker'[w].task = worker[w].task
    BY <1>1
  <2> QED
    BY <1>1, <2>5, <2>6, <2>7, <2>8, <2>9, PermitsStep
<1> QED
    BY <1>3, <1>4

\* It does anything else.
LEMMA ReaderPermits ==
    ASSUME RpcServerAssumption, Shapes, Records, Permits, NEW free, RanOnce(free), NEW c \in Conns,
           \/ ReadLine(c) \/ ReadEnd(c) \/ PushTask(c) \/ ReaderSendsFirst(c) \/ ReaderSendsLast(c)
    PROVE  Permits'
<1>1. UNCHANGED <<sent, logins, session, permits, ran, worker>> /\ Reader(c)
    BY DEF Reader, ReadLine, ReadEnd, PushTask, ReaderSendsFirst, ReaderSendsLast, ioVars, history
<1>2. /\ SentStays
      /\ \A d \in Conns : /\ logins'[d] \in Nat /\ logins[d] <= logins'[d]
                          /\ logins'[d] = logins[d] => session'[d].user = session[d].user
    BY <1>1, LoginsKept DEF SentStays
<1>3. /\ DOMAIN reader = Conns
      /\ \A d \in Conns \ {c} : parser'[d] = parser[d] /\ reader'[d] = reader[d]
    BY <1>1, ReaderAlone DEF Shapes
<1>4. reader'[c].at = "pushing" => reader[c].at = "pushing" /\ parser'[c] = parser[c]
  <2>1. /\ End(c) => reader'[c].at # "pushing"
        /\ Continue(c) => reader'[c].at # "pushing"
        /\ reader' = [reader EXCEPT ![c] = [at |-> "processing"]] => reader'[c].at # "pushing"
        /\ \A mode, id, code, minds : ToSend(c, Answer(mode, id, code), minds) => reader'[c].at # "pushing"
    BY <1>3, ToSendReader DEF End, Continue, Reading
  <2>2. CASE ReadLine(c)
    <3>1. reader[c].at # "pushing"
      BY <2>2 DEF ReadLine
    <3>2. reader' = reader \/ End(c) \/ reader' = [reader EXCEPT ![c] = [at |-> "processing"]]
      BY <2>2 DEF ReadLine, Parsed
    <3> QED
      BY <2>1, <3>1, <3>2
  <2>3. CASE ReadEnd(c)
    BY <2>1, <2>3 DEF ReadEnd
  <2>4. CASE PushTask(c)
    BY <2>1, <2>4 DEF PushTask
  <2>5. CASE ReaderSendsFirst(c)
    <3>1. {"at", "answer", "minds"} \subseteq DOMAIN reader[c]
      BY <2>5 DEF ReaderSendsFirst, Shapes
    <3>2. reader'[c].at = "sending last"
      BY <1>3, <2>5, <3>1 DEF ReaderSendsFirst
    <3> QED
      BY <3>2
  <2>6. CASE ReaderSendsLast(c)
    BY <2>1, <2>6 DEF ReaderSendsLast
  <2> QED
    BY <2>2, <2>3, <2>4, <2>5, <2>6
<1>5. \A d \in Conns : reader'[d].at = "pushing" => reader[d].at = "pushing" /\ parser'[d] = parser[d]
    BY <1>3, <1>4
<1>6. \A w \in Workers : worker'[w].at = "running" => worker'[w] = worker[w]
    BY <1>1
<1>7. CASE tasks' = tasks
    BY <1>1, <1>2, <1>5, <1>6, <1>7, PermitsQuiet
<1>8. CASE tasks' # tasks
  <2> DEFINE x == Task(c)
  <2>1. PushTask(c) /\ tasks' = tasks \cup {x} /\ reader[c].at = "pushing"
    BY <1>8 DEF ReadLine, ReadEnd, PushTask, ReaderSendsFirst, ReaderSendsLast
  <2>2. x.conn = c /\ x.id = parser[c].req.ids.reqId /\ x.method = parser[c].req.method
    BY DEF Task
  <2> HIDE DEF x
  <2>3. Permitted(x.conn, x.id, x.method)
    BY <2>1, <2>2 DEF Permits
  <2>4. PICK d, id, m : d \in Conns /\ d = c /\ x.conn = c /\ id = x.id /\ m = x.method
    BY <2>2
  <2>5. Permitted(d, id, m)
    BY <2>3, <2>4
  <2>6. Permitted(d, id, m)'
    BY <1>1, <1>2, <2>4, <2>5, PermittedStays
  <2>7. \A t \in tasks' : t \in tasks \/ Permitted(t.conn, t.id, t.method)'
    <3>1. ASSUME NEW t, t = x PROVE Permitted(t.conn, t.id, t.method)'
      <4>1. t.conn = d /\ t.id = id /\ t.method = m
        BY <2>4, <3>1
      <4> QED
        BY <2>6, <4>1
    <3> QED
      BY <2>1, <3>1
  <2>8. /\ permits \subseteq permits' /\ (\A p \in permits' : p \in permits) /\ (\A r \in ran' : r \in ran)
        /\ \A r \in ran : r.conn \in Conns
        /\ \A d2 \in Conns : logins[d2] \in Nat
        /\ \A w \in Workers : worker'[w].at = "running" => worker[w].at = "running" /\ worker'[w].task = worker[w].task
    BY <1>1 DEF RanOnce, Records
  <2> QED
    BY <1>2, <1>5, <2>7, <2>8, PermitsStep
<1> QED
    BY <1>7, <1>8

\* A worker.
LEMMA WorkerPermits ==
    ASSUME RpcServerAssumption, Shapes, Records, Permits, NEW free, RanOnce(free), NEW w \in Workers, Worker(w)
    PROVE  Permits'
<1>1. /\ UNCHANGED <<sent, logins, session, permits, reader, parser>> /\ SentStays /\ DOMAIN worker = Workers
    BY DEF Worker, TakeTask, RunRPCMethod, WorkerSendsFirst, WorkerSendsLast, ioVars, history, SentStays, Shapes
<1>2. \A d \in Conns : /\ logins'[d] \in Nat /\ logins[d] <= logins'[d] /\ logins[d] \in Nat
                       /\ logins'[d] = logins[d] => session'[d].user = session[d].user
    BY <1>1, LoginsKept DEF Records
<1>3. \A d \in Conns : reader'[d].at = "pushing" => reader[d].at = "pushing" /\ parser'[d] = parser[d]
    BY <1>1
<1>4. /\ permits \subseteq permits' /\ (\A p \in permits' : p \in permits)
      /\ \A r \in ran : r.conn \in Conns
    BY <1>1 DEF RanOnce
<1>5. CASE TakeTask(w)
  <2>1. PICK t \in tasks : tasks' = tasks \ {t} /\ worker' = [worker EXCEPT ![w] = [at |-> "running", task |-> t]]
    BY <1>5 DEF TakeTask
  <2>2. /\ worker'[w].at = "running" /\ worker'[w].task = t
        /\ \A v \in Workers \ {w} : worker'[v] = worker[v]
    BY <1>1, <2>1
  <2>3. Permitted(t.conn, t.id, t.method)'
    BY <1>1, <1>4, PermittedStays DEF Permits, Shapes
  <2>4. Permitted(Conn(w), worker[w].task.id, worker[w].task.method)'
    <3>1. Conn(w)' = t.conn /\ worker'[w].task.id = t.id /\ worker'[w].task.method = t.method
      BY <2>2 DEF Conn
    <3> QED
      BY <2>3, <3>1
  <2>5. \A v \in Workers : worker'[v].at = "running" =>
              \/ worker[v].at = "running" /\ worker'[v].task = worker[v].task
              \/ Permitted(Conn(v), worker[v].task.id, worker[v].task.method)'
    BY <2>2, <2>4
  <2>6. (\A u \in tasks' : u \in tasks) /\ (\A r \in ran' : r \in ran)
    BY <1>5, <2>1 DEF TakeTask, history
  <2> QED
    BY <1>1, <1>2, <1>3, <1>4, <2>5, <2>6, PermitsStep
<1>6. CASE RunRPCMethod(w)
  <2>1. /\ worker'[w].at = "sending" /\ \A v \in Workers \ {w} : worker'[v] = worker[v]
    BY <1>6, RunsWorker
  <2>2. tasks' = tasks /\ worker[w].at = "running"
    BY <1>6 DEF RunRPCMethod
  <2> DEFINE r == [conn |-> Conn(w), id |-> worker[w].task.id, method |-> worker[w].task.method,
                   user |-> session[Conn(w)].user, logins |-> logins[Conn(w)],
                   now |-> now, accepted |-> accepted[Conn(w)]]
  <2>3. ran' = ran \/ ran' = ran \cup {r}
    BY <1>6 DEF RunRPCMethod, Conn
  <2>r. PICK x : x = r
    OBVIOUS
  <2>4. /\ x.conn = Conn(w) /\ x.id = worker[w].task.id /\ x.method = worker[w].task.method
        /\ x.user = session[Conn(w)].user /\ x.logins = logins[Conn(w)]
    BY <2>r
  <2> HIDE DEF r
  <2>5. \E p \in permits' : Covers(p, x.conn, x.id, x.method)' /\ (p.user = x.user \/ p.logins # x.logins)
    <3>1. Conn(w) \in Conns /\ Permitted(Conn(w), worker[w].task.id, worker[w].task.method)
      BY <2>2 DEF Permits, Shapes
    <3>2. PICK p \in permits : Covers(p, Conn(w), worker[w].task.id, worker[w].task.method)
      BY <3>1 DEF Permitted
    <3>4. x.conn \in Conns /\ Covers(p, x.conn, x.id, x.method)
      BY <2>4, <3>1, <3>2
    <3>5. Covers(p, x.conn, x.id, x.method)'
      BY <1>1, <3>4, CoversStays
    <3>6. p.conn = x.conn /\ (p.logins = logins[p.conn] => p.user = session[p.conn].user)
      BY <3>4 DEF Covers, Permits
    <3>7. p.user = x.user \/ p.logins # x.logins
      BY <2>4, <3>6
    <3>8. \E q \in permits' : Covers(q, x.conn, x.id, x.method)' /\ (q.user = x.user \/ q.logins # x.logins)
      BY <1>1, <3>5, <3>7
    <3> QED
      BY <3>8
  <2>6. \A s \in ran' : s \in ran \/ \E p \in permits' :
              Covers(p, s.conn, s.id, s.method)' /\ (p.user = s.user \/ p.logins # s.logins)
    <3>1. ASSUME NEW s, s = x
          PROVE  \E p \in permits' : Covers(p, s.conn, s.id, s.method)' /\ (p.user = s.user \/ p.logins # s.logins)
      BY <2>5, <3>1
    <3>2. ran' \subseteq ran \cup {x}
      BY <2>3, <2>r
    <3> QED
      BY <3>1, <3>2
  <2>7. \A v \in Workers : worker'[v].at = "running" => worker[v].at = "running" /\ worker'[v].task = worker[v].task
    BY <2>1
  <2>8. \A u \in tasks' : u \in tasks
    BY <2>2
  <2> QED
    BY <1>1, <1>2, <1>3, <1>4, <2>6, <2>7, <2>8, PermitsStep
<1>7. CASE WorkerSendsFirst(w) \/ WorkerSendsLast(w)
  <2>1. UNCHANGED <<tasks, ran>>
    BY <1>7 DEF WorkerSendsFirst, WorkerSendsLast, history
  <2>2. \A v \in Workers : worker'[v].at = "running" => worker'[v] = worker[v]
    <3>1. WorkerSendsFirst(w) => {"at", "task"} \subseteq DOMAIN worker[w]
      BY DEF WorkerSendsFirst, Shapes
    <3>2. \A v \in Workers \ {w} : worker'[v] = worker[v]
      BY <1>1, <1>7 DEF WorkerSendsFirst, WorkerSendsLast
    <3>3. CASE WorkerSendsFirst(w)
      <4>1. worker' = [worker EXCEPT ![w].at = "sending last"]
        BY <3>3 DEF WorkerSendsFirst
      <4>2. worker'[w].at = "sending last"
        BY <1>1, <3>1, <3>3, <4>1
      <4> QED
        BY <3>2, <4>2
    <3>4. CASE WorkerSendsLast(w)
      <4>1. worker'[w].at = "idle"
        BY <1>1, <3>4 DEF WorkerSendsLast
      <4> QED
        BY <3>2, <4>1
    <3> QED
      BY <1>7, <3>3, <3>4
  <2> QED
    BY <1>1, <1>2, <1>3, <2>1, <2>2, PermitsQuiet
<1> QED
    BY <1>5, <1>6, <1>7 DEF Worker

\* Clients, the application and the clock.
LEMMA ElsewherePermits ==
    ASSUME Shapes, Records, Permits, NEW free, RanOnce(free),
           UNCHANGED <<permits, ran, tasks, logins, session, worker, reader, parser>>, SentStays
    PROVE  Permits'
<1>1. \A d \in Conns : /\ logins'[d] \in Nat /\ logins[d] <= logins'[d]
                       /\ logins'[d] = logins[d] => session'[d].user = session[d].user
    BY LoginsKept
<1>2. \A w \in Workers : worker'[w].at = "running" => worker'[w] = worker[w]
    OBVIOUS
<1>3. \A d \in Conns : reader'[d].at = "pushing" => reader[d].at = "pushing" /\ parser'[d] = parser[d]
    OBVIOUS
<1> QED
    BY <1>1, <1>2, <1>3, PermitsQuiet

-----------------------------------------------------------------------------
(* Requests are served *)

Served(c, id) == InPool(c, id) \/ Answered(c, id)

\* What was answered stays answered.
LEMMA AnsweredStays ==
    ASSUME Shapes, NEW c \in Conns, NEW t, NEW answer, SendFirst(t, c, answer) \/ SendLast(t, c, answer)
    PROVE  \A d \in Conns : \A id : Answered(d, id) => Answered(d, id)'
<1>1. PICK part : out' = [out EXCEPT ![c] = Written(c, answer, part)]
    BY DEF SendFirst, SendLast
<1>2. /\ \A d \in Conns \ {c} : out'[d] = out[d]
      /\ \/ out'[c] = out[c]
         \/ \E n : DOMAIN out'[c] = DOMAIN out[c] \cup {n} /\ \A i \in DOMAIN out[c] : out'[c][i] = out[c][i]
    BY <1>1, LineWritten
<1>3. \A i \in DOMAIN out[c] : i \in DOMAIN out'[c] /\ out'[c][i] = out[c][i]
    BY <1>2
<1>4. \A id : Answered(c, id) => Answered(c, id)'
    BY <1>3 DEF Answered
<1>5. \A d \in Conns \ {c} : \A id : Answered(d, id) => Answered(d, id)'
    BY <1>2 DEF Answered
<1> QED
    BY <1>4, <1>5

\* A step after which what was served is, and what it deals with too.
LEMMA AccountedStep ==
    ASSUME NEW free, NEW free2, Accounted(free), gone \subseteq gone',
           \A d \in Conns \ gone' : \A id :
              /\ parser'[d].at = "request" /\ id \in DOMAIN sent'[d] /\ id < free2[d] /\ sent'[d][id].mode = "EXEC"
              => \/ Served(d, id)'
                 \/ /\ parser[d].at = "request" /\ id \in DOMAIN sent[d] /\ id < free[d]
                    /\ sent[d][id].mode = "EXEC",
           \A d \in Conns \ gone' : \A id : Served(d, id) => Served(d, id)'
    PROVE  Accounted(free2)'
<1> SUFFICES ASSUME NEW d \in Conns \ gone', parser'[d].at = "request", NEW id \in DOMAIN sent'[d],
                    id < free2[d], sent'[d][id].mode = "EXEC"
             PROVE  Served(d, id)'
    BY DEF Accounted, Served
<1>1. CASE /\ parser[d].at = "request" /\ id \in DOMAIN sent[d] /\ id < free[d]
           /\ sent[d][id].mode = "EXEC"
  <2>1. Served(d, id)
    BY <1>1 DEF Accounted, Served
  <2> QED
    BY <2>1
<1> QED
    BY <1>1

\* Nothing is dealt with, and nothing forgotten.
LEMMA AccountedQuiet ==
    ASSUME NEW free, Accounted(free), gone \subseteq gone', sent' = sent,
           \A d \in Conns : parser'[d].at = "request" => parser[d].at = "request" \/ sent[d] = <<>>,
           \A d \in Conns \ gone' : \A id : Served(d, id) => Served(d, id)'
    PROVE  Accounted(free)'
<1>1. DOMAIN <<>> = {}
    OBVIOUS
<1>2. \A d \in Conns \ gone' : \A id :
              /\ parser'[d].at = "request" /\ id \in DOMAIN sent'[d] /\ id < free[d] /\ sent'[d][id].mode = "EXEC"
              => \/ Served(d, id)'
                 \/ /\ parser[d].at = "request" /\ id \in DOMAIN sent[d] /\ id < free[d]
                    /\ sent[d][id].mode = "EXEC"
    BY <1>1
<1> QED
    BY <1>2, AccountedStep

\* The next request: the one before has been served, when it was one to execute.
LEMMA AccountedNext ==
    ASSUME NEW free \in [Conns -> Nat], Accounted(free), gone' = gone, sent' = sent, NEW c \in Conns,
           parser[c].at = "request", free[c] \in Nat, DOMAIN sent[c] \subseteq Nat,
           \A d \in Conns \ {c} : parser'[d] = parser[d],
           c \notin gone /\ sent[c][free[c]].mode = "EXEC" => Served(c, free[c])',
           \A d \in Conns \ gone : \A id : Served(d, id) => Served(d, id)'
    PROVE  Accounted(Later(free, c))'
<1>1. PICK free2 : free2 = Later(free, c)
    OBVIOUS
<1>2. free2[c] = free[c] + 1 /\ \A d \in Conns \ {c} : free2[d] = free[d]
    BY <1>1, LaterCounts
<1>3. \A n, k \in Nat : n < k + 1 => n < k \/ n = k
    OBVIOUS
<1>4. ASSUME NEW d \in Conns \ gone', NEW id,
             parser'[d].at = "request", id \in DOMAIN sent'[d], id < free2[d], sent'[d][id].mode = "EXEC"
      PROVE  \/ Served(d, id)'
             \/ /\ parser[d].at = "request" /\ id \in DOMAIN sent[d] /\ id < free[d]
                /\ sent[d][id].mode = "EXEC"
  <2>1. CASE d # c
    BY <1>2, <1>4, <2>1
  <2>2. CASE d = c
    <3>1. id < free[c] \/ id = free[c]
      BY <1>2, <1>3, <1>4, <2>2
    <3> QED
      BY <1>4, <2>2, <3>1
  <2> QED
    BY <2>1, <2>2
<1>5. gone \subseteq gone' /\ \A d \in Conns \ gone' : \A id : Served(d, id) => Served(d, id)'
    OBVIOUS
<1>6. Accounted(free2)'
    BY <1>4, <1>5, AccountedStep
<1> QED
    BY <1>1, <1>6

-----------------------------------------------------------------------------

\* A connection's thread reads.
LEMMA ReadsAccounted ==
    ASSUME Shapes, Records, NEW free \in [Conns -> Nat], Accounted(free),
           NEW c \in Conns, Requests(c, free[c]), ReadLine(c) \/ ReadEnd(c)
    PROVE  Accounted(free)'
<1>1. UNCHANGED <<sent, gone, tasks, worker, out>> /\ Reader(c)
    BY DEF ReadLine, ReadEnd, Reader, ioVars
<1>2. \A d \in Conns \ {c} : parser'[d] = parser[d]
    BY <1>1, ReaderAlone
<1>3. parser[c].at = "request" \/ sent[c] = <<>>
  <2>1. parser[c].at \in {"handshake", "request"}
    BY DEF ReadLine, ReadEnd, Requests
  <2> QED
    BY <2>1 DEF Requests
<1>4. \A d, id : Served(d, id)' <=> Served(d, id)
    BY <1>1 DEF Served, InPool, Answered, Busy, Conn
<1> QED
    BY <1>1, <1>2, <1>3, <1>4, AccountedQuiet

\* It acts: what is served after it.
LEMMA ActsAccounted ==
    ASSUME RpcServerAssumption, Shapes, Records, NEW free \in [Conns -> Nat], Accounted(free), Tracked(free),
           \A d \in Conns : Requests(d, free[d]),
           NEW c \in Conns, ProcessRequest(c) \/ PushTask(c) \/ ReaderSendsFirst(c) \/ ReaderSendsLast(c)
    PROVE  /\ ~Continue(c) => Accounted(free)'
           /\ Continue(c) => Accounted(Later(free, c))'
<1>1. /\ Reader(c) /\ UNCHANGED <<sent, gone, worker>>
      /\ reader[c].at \notin {"reading", "over"} /\ Requests(c, free[c])
    BY DEF ProcessRequest, PushTask, ReaderSendsFirst, ReaderSendsLast, Reader, ioVars
<1>2. \A d \in Conns \ {c} : parser'[d] = parser[d]
    BY <1>1, ReaderAlone
<1>3. /\ parser[c].at = "request" /\ parser[c].req.ids.reqId = free[c] /\ free[c] \in DOMAIN sent[c]
      /\ parser[c].req.mode = sent[c][free[c]].mode
    BY <1>1, ActsOn
<1>4. \A d \in Conns : \A id : Served(d, id) => Served(d, id)'
  <2>1. \A d \in Conns : \A id : Answered(d, id) => Answered(d, id)'
    <3>1. CASE out' = out
      BY <3>1 DEF Answered
    <3>2. CASE \E answer : SendFirst(c, c, answer) \/ SendLast(c, c, answer)
      BY <3>2, AnsweredStays
    <3> QED
      BY <3>1, <3>2 DEF ProcessRequest, PushTask, ReaderSendsFirst, ReaderSendsLast
  <2>2. tasks \subseteq tasks'
    BY DEF ProcessRequest, PushTask, ReaderSendsFirst, ReaderSendsLast
  <2>3. \A d, id : InPool(d, id) => InPool(d, id)'
    BY <1>1, <2>2 DEF InPool, Busy, Conn
  <2> QED
    BY <2>1, <2>3 DEF Served
<1>5. ASSUME ~Continue(c) PROVE Accounted(free)'
  <2>1. \A d \in Conns : parser'[d].at = "request" => parser[d].at = "request" \/ sent[d] = <<>>
    BY <1>2, <1>3
  <2> QED
    BY <1>1, <1>4, <2>1, AccountedQuiet
<1>6. ASSUME Continue(c) PROVE Accounted(Later(free, c))'
  <2>1. reader'[c].at = "reading"
    BY <1>6 DEF Continue, Reading, Shapes
  <2>2. ASSUME c \notin gone, sent[c][free[c]].mode = "EXEC" PROVE Served(c, free[c])'
    <3>1. CASE ProcessRequest(c)
      <4>1. reader'[c].at \in {"sending", "pushing"}
        BY <1>1, <1>3, <2>2, <3>1, DecidesReader
      <4> QED
        BY <2>1, <4>1
    <3>2. CASE PushTask(c)
      <4>1. \A a, minds : ~ToSend(c, Answer("EXEC", a, "TIMEDOUT"), minds)
        BY <2>1, ToSendReader
      <4>2. tasks' = tasks \cup {Task(c)}
        BY <3>2, <4>1 DEF PushTask
      <4>3. PICK x : x = Task(c)
        OBVIOUS
      <4>4. x \in tasks' /\ x.conn = c /\ x.id = free[c]
        BY <1>3, <4>2, <4>3 DEF Task
      <4> QED
        BY <4>4 DEF Served, InPool
    <3>3. CASE ReaderSendsFirst(c)
      <4>1. {"at", "answer", "minds"} \subseteq DOMAIN reader[c] /\ DOMAIN reader = Conns
        BY <3>3 DEF ReaderSendsFirst, Shapes
      <4>2. reader'[c].at = "sending last"
        BY <3>3, <4>1 DEF ReaderSendsFirst
      <4> QED
        BY <2>1, <4>2
    <3>4. CASE ReaderSendsLast(c)
      <4>1. PICK a : a = reader[c].answer /\ SendLast(c, c, a)
        BY <3>4 DEF ReaderSendsLast
      <4>2. a.mode = "EXEC" /\ a.id = free[c]
        <5>1. AnswersTo(c, free[c]) /\ reader[c].at = "sending last"
          BY <3>4 DEF Tracked, ReaderSendsLast
        <5> QED
          BY <1>3, <2>2, <4>1, <5>1 DEF AnswersTo
      <4>3. PICK i \in DOMAIN out'[c] : out'[c][i].answer = a /\ out'[c][i].part = "last"
        BY <2>2, <4>1, ToldLast
      <4>4. Answered(c, free[c])'
        BY <4>2, <4>3 DEF Answered
      <4> QED
        BY <4>4 DEF Served
    <3> QED
      BY <3>1, <3>2, <3>3, <3>4
  <2>3. DOMAIN sent[c] \subseteq Nat
    <3>1. sent[c] \in Seq(Messages)
      BY DEF Records
    <3> QED
      BY <3>1
  <2> QED
    BY <1>1, <1>2, <1>3, <1>4, <2>2, <2>3, AccountedNext
<1> QED
    BY <1>5, <1>6

\* A worker.
LEMMA WorkerAccounted ==
    ASSUME RpcServerAssumption, Shapes, Records, NEW free \in [Conns -> Nat], Accounted(free), Tracked(free),
           NEW w \in Workers, Worker(w)
    PROVE  Accounted(free)'
<1>1. UNCHANGED <<sent, gone, parser>> /\ DOMAIN worker = Workers
    BY DEF Worker, TakeTask, RunRPCMethod, WorkerSendsFirst, WorkerSendsLast, ioVars, Shapes
<1>2. \A d \in Conns \ gone' : \A id : Served(d, id) => Served(d, id)'
  <2>1. CASE TakeTask(w)
    <3>1. PICK t \in tasks : tasks' = tasks \ {t} /\ worker' = [worker EXCEPT ![w] = [at |-> "running", task |-> t]]
      BY <2>1 DEF TakeTask
    <3>2. /\ out' = out /\ ~Busy(w)
          /\ worker'[w].at = "running" /\ worker'[w].task = t
          /\ \A v \in Workers \ {w} : worker'[v] = worker[v]
      BY <1>1, <2>1, <3>1 DEF TakeTask, Busy
    <3>3. \A d, id : Answered(d, id) => Answered(d, id)'
      BY <3>2 DEF Answered
    <3>4. ASSUME NEW d, NEW id, InPool(d, id) PROVE InPool(d, id)'
      <4>1. CASE \E u \in tasks \ {t} : u.conn = d /\ u.id = id
        BY <3>1, <4>1 DEF InPool
      <4>2. CASE t.conn = d /\ t.id = id
        <5>1. Busy(w)' /\ Conn(w)' = d /\ worker'[w].task.id = id
          BY <3>2, <4>2 DEF Busy, Conn
        <5> QED
          BY <5>1 DEF InPool
      <4>3. CASE \E v \in Workers : Busy(v) /\ Conn(v) = d /\ worker[v].task.id = id
        <5>1. PICK v \in Workers \ {w} : Busy(v) /\ Conn(v) = d /\ worker[v].task.id = id
          BY <3>2, <4>3
        <5>2. Busy(v)' /\ Conn(v)' = d /\ worker'[v].task.id = id
          BY <3>2, <5>1 DEF Busy, Conn
        <5> QED
          BY <5>2 DEF InPool
      <4> QED
        BY <3>4, <4>1, <4>2, <4>3 DEF InPool
    <3> QED
      BY <3>3, <3>4 DEF Served
  <2>2. CASE RunRPCMethod(w)
    <3>1. /\ tasks' = tasks /\ out' = out /\ Busy(w) /\ Busy(w)' /\ worker'[w].task = worker[w].task
          /\ \A v \in Workers \ {w} : worker'[v] = worker[v]
      BY <2>2, RunsWorker DEF RunRPCMethod, Busy
    <3>2. \A v \in Workers : (Busy(v) => Busy(v)') /\ Conn(v)' = Conn(v) /\ worker'[v].task = worker[v].task
      BY <3>1 DEF Busy, Conn
    <3>3. \A d, id : (InPool(d, id) => InPool(d, id)') /\ (Answered(d, id) => Answered(d, id)')
      BY <3>1, <3>2 DEF InPool, Answered
    <3> QED
      BY <3>3 DEF Served
  <2>3. CASE WorkerSendsFirst(w)
    <3>1. {"at", "task"} \subseteq DOMAIN worker[w] /\ Conn(w) \in Conns
      BY <2>3 DEF WorkerSendsFirst, Shapes
    <3>2. worker' = [worker EXCEPT ![w].at = "sending last"] /\ tasks' = tasks
      BY <2>3 DEF WorkerSendsFirst
    <3>3. /\ worker'[w].at = "sending last" /\ worker'[w].task = worker[w].task
          /\ \A v \in Workers \ {w} : worker'[v] = worker[v]
      BY <1>1, <3>1, <3>2
    <3>4. \A v \in Workers : (Busy(v) => Busy(v)') /\ Conn(v)' = Conn(v) /\ worker'[v].task = worker[v].task
      BY <3>3 DEF Busy, Conn
    <3>5. \A d, id : InPool(d, id) => InPool(d, id)'
      BY <3>2, <3>4 DEF InPool
    <3>6. PICK c \in Conns : \E a : SendFirst(w, c, a)
      BY <2>3, <3>1 DEF WorkerSendsFirst, Conn
    <3>7. \A d \in Conns : \A id : Answered(d, id) => Answered(d, id)'
      BY <3>6, AnsweredStays
    <3> QED
      BY <3>5, <3>7 DEF Served
  <2>4. CASE WorkerSendsLast(w)
    <3>1. worker' = [worker EXCEPT ![w] = [at |-> "idle"]] /\ tasks' = tasks /\ Busy(w) /\ worker[w].at = "sending last"
      BY <2>4 DEF WorkerSendsLast, Busy
    <3>2. PICK c \in Conns : c = Conn(w) /\ \E a : a = worker[w].answer /\ SendLast(w, c, a)
      BY <2>4, <3>1 DEF WorkerSendsLast, Conn, Shapes, Busy
    <3>3. PICK a : a = worker[w].answer /\ SendLast(w, c, a)
      BY <3>2
    <3>4. a.mode = "EXEC" /\ a.id = worker[w].task.id
      BY <3>1, <3>3 DEF Tracked, WorkersOnce
    <3>5. \A v \in Workers \ {w} : worker'[v] = worker[v]
      BY <1>1, <3>1
    <3>6. \A d \in Conns : \A id : Answered(d, id) => Answered(d, id)'
      BY <3>3, AnsweredStays
    <3>k. PICK k : k = worker[w].task.id
      OBVIOUS
    <3>7. c \notin gone => Answered(c, k)'
      <4>1. ASSUME c \notin gone PROVE \E i \in DOMAIN out'[c] : out'[c][i].answer = a /\ out'[c][i].part = "last"
        BY <3>3, <4>1, ToldLast
      <4> QED
        BY <3>4, <3>k, <4>1 DEF Answered
    <3>8. ASSUME NEW d \in Conns \ gone', NEW id, InPool(d, id) PROVE Served(d, id)'
      <4>1. CASE \E u \in tasks : u.conn = d /\ u.id = id
        BY <3>1, <4>1 DEF InPool, Served
      <4>2. CASE Conn(w) = d /\ worker[w].task.id = id
        BY <1>1, <3>2, <3>7, <3>8, <3>k, <4>2 DEF Served
      <4>3. CASE \E v \in Workers \ {w} : Busy(v) /\ Conn(v) = d /\ worker[v].task.id = id
        <5>1. PICK v \in Workers \ {w} : Busy(v) /\ Conn(v) = d /\ worker[v].task.id = id
          BY <4>3
        <5>2. Busy(v)' /\ Conn(v)' = d /\ worker'[v].task.id = id
          BY <3>5, <5>1 DEF Busy, Conn
        <5> QED
          BY <5>2 DEF InPool, Served
      <4> QED
        BY <3>8, <4>1, <4>2, <4>3 DEF InPool
    <3> QED
      BY <3>6, <3>8 DEF Served
  <2> QED
    BY <2>1, <2>2, <2>3, <2>4 DEF Worker
<1> QED
    BY <1>1, <1>2, AccountedQuiet

\* A message is sent: it comes after all that were dealt with.
LEMMA SentAfter ==
    ASSUME Records, NEW c \in Conns, NEW k, Requests(c, k), c \notin gone, parser[c].at = "request"
    PROVE  k \in Nat /\ Len(sent[c]) \in Nat /\ k <= Len(sent[c]) + 1
<1>1. PICK of, place :
                /\ Aligned(c, of, place)
                /\ reader[c].at = "reading" => of[1] = k
                /\ reader[c].at # "reading" => Complete(parser[c], c, k)
    BY DEF Requests
<1>2. PICK L \in Nat : L = Len(sent[c]) /\ DOMAIN sent[c] = 1 .. L
  <2>1. sent[c] \in Seq(Messages)
    BY DEF Records
  <2> QED
    BY <2>1
<1>3. PICK n \in Nat : n = Len(wire[c])
  <2>1. IsASequence(wire[c])
    BY DEF Records
  <2> QED
    BY <2>1 DEF IsASequence
<1>4. k \in Nat
    BY DEF Requests
<1>5. k = L + 1 \/ k \in 1 .. L
  <2>1. CASE reader[c].at = "reading" /\ n = 0
    BY <1>1, <1>2, <1>3, <2>1 DEF Aligned
  <2>2. CASE reader[c].at = "reading" /\ n # 0
    <3>1. 1 \in 1 .. n
      BY <2>2
    <3> QED
      BY <1>1, <1>2, <1>3, <2>2, <3>1 DEF Aligned
  <2>3. CASE reader[c].at # "reading"
    BY <1>1, <1>2, <2>3 DEF Complete
  <2> QED
    BY <2>1, <2>2, <2>3
<1>6. k <= L + 1
    BY <1>5, <1>4
<1> QED
    BY <1>2, <1>4, <1>6

\* Clients, the application and the clock.
LEMMA ElsewhereAccounted ==
    ASSUME Shapes, Records, NEW free \in [Conns -> Nat], Accounted(free),
           \A d \in Conns : Requests(d, free[d]),
           UNCHANGED <<tasks, worker, out, parser>>, gone \subseteq gone',
           sent' = sent \/ \E c \in Conns, m \in Messages : SendMessage(c, m)
    PROVE  Accounted(free)'
<1>1. \A d, id : Served(d, id) => Served(d, id)'
    BY DEF Served, InPool, Answered, Busy, Conn
<1>2. CASE sent' = sent
    BY <1>1, <1>2, AccountedQuiet
<1>3. CASE \E c \in Conns, m \in Messages : SendMessage(c, m)
  <2>1. PICK c \in Conns : \E m \in Messages : SendMessage(c, m)
    BY <1>3
  <2>2. PICK m \in Messages : SendMessage(c, m)
    BY <2>1
  <2>3. /\ sent' = [sent EXCEPT ![c] = Append(@, m)]
        /\ c \notin gone /\ parser[c].at = "request"
    BY <2>2 DEF SendMessage
  <2>4. sent[c] \in Seq(Messages) /\ DOMAIN sent = Conns
    BY DEF Records
  <2>s. PICK s \in Seq(Messages) : s = sent[c]
    BY <2>4
  <2>5. PICK L \in Nat : s = sent[c] /\ L = Len(s) /\ DOMAIN s = 1 .. L
    BY <2>s
  <2>6. /\ Len(Append(s, m)) = L + 1 /\ DOMAIN Append(s, m) = DOMAIN s \cup {L + 1}
        /\ \A i \in DOMAIN s : Append(s, m)[i] = s[i]
    BY <2>5, <2>s, AppendLine
  <2>7. sent'[c] = Append(s, m) /\ \A d \in Conns \ {c} : sent'[d] = sent[d]
    BY <2>3, <2>4, <2>5
  <2>8. free[c] \in Nat /\ free[c] <= L + 1
    BY <2>3, <2>5, SentAfter
  <2>9. \A n \in Nat : n <= L + 1 => ~(L + 1 < n)
    BY <2>5
  <2>10. ASSUME NEW d \in Conns \ gone', NEW id,
             parser'[d].at = "request", id \in DOMAIN sent'[d], id < free[d], sent'[d][id].mode = "EXEC"
        PROVE  \/ Served(d, id)'
               \/ /\ parser[d].at = "request" /\ id \in DOMAIN sent[d] /\ id < free[d]
                  /\ sent[d][id].mode = "EXEC"
    <3>1. CASE d # c
      BY <2>7, <2>10, <3>1
    <3>2. CASE d = c
      <4>1. id # L + 1
        BY <2>8, <2>9, <2>10, <3>2
      <4>2. id \in DOMAIN s /\ sent'[c][id] = s[id]
        BY <2>6, <2>7, <2>10, <3>2, <4>1
      <4> QED
        BY <2>5, <2>10, <3>2, <4>2
    <3> QED
      BY <3>1, <3>2
  <2> QED
    BY <1>1, <2>10, AccountedStep
<1> QED
    BY <1>2, <1>3

-----------------------------------------------------------------------------
(* All of it *)

\* All of it, for the counts of the requests that were dealt with.
Ledger(free) ==
    /\ free \in [Conns -> Nat]
    /\ \A c \in Conns : Requests(c, free[c])
    /\ Tracked(free)
    /\ Accounted(free)

LInv == IInv /\ Records /\ Types /\ Permits /\ \E free : Ledger(free)

\* At first no request was read.
LEMMA InitLInv == RpcServerAssumption /\ Init => LInv
<1> SUFFICES ASSUME RpcServerAssumption, Init PROVE LInv
    OBVIOUS
<1>1. IInv
    BY InitIInv
<1>2. Records
  <2>1. \A c \in Conns : sent[c] \in Seq(Messages) /\ wire[c] = <<>>
    BY DEF Init
  <2>2. IsASequence(<<>>)
    <3>1. <<>> \in Seq({})
      OBVIOUS
    <3> QED
      BY <3>1 DEF IsASequence
  <2>3. /\ DOMAIN NewParser = ParserFields /\ DOMAIN NewParser.req = RequestFields
        /\ DOMAIN NewSession = {"user", "matrix"}
    BY DEF NewParser, NewRequest, NewSession, ParserFields, RequestFields
  <2>4. IsFiniteSet({})
    BY FS_EmptySet
  <2>5. DOMAIN InitialRights = {"accounts", "disabled", "holds"}
    BY DEF RpcServerAssumption
  <2>6. /\ DOMAIN wire = Conns /\ DOMAIN sent = Conns /\ logins \in [Conns -> Nat]
        /\ \A c \in Conns : parser[c] = NewParser /\ session[c] = NewSession
        /\ rights = InitialRights /\ tasks = {}
    BY DEF Init
  <2> QED
    BY <2>1, <2>2, <2>3, <2>4, <2>5, <2>6 DEF Records
<1>3. Types
  <2>1. Cardinality({}) = 0 /\ QueueLimit \in Nat
    BY FS_EmptySet DEF RpcServerAssumption
  <2>2. \A c \in Conns : reader[c].at = "reading" /\ session[c].user = ""
    BY DEF Init, Reading, NewSession
  <2>3. tasks = {} /\ rights = InitialRights /\ \A w \in Workers : worker[w].at = "idle"
    BY DEF Init
  <2>4. Cardinality(tasks) <= QueueLimit + 1
    BY <2>1, <2>3
  <2> QED
    BY <2>2, <2>3, <2>4 DEF Types, RpcServerAssumption
<1>4. Permits
    BY DEF Init, Permits, Reading
<1> DEFINE free == [c \in Conns |-> 1]
<1>5. free \in [Conns -> Nat] /\ \A c \in Conns : free[c] = 1
    OBVIOUS
<1>6. \A c \in Conns : DOMAIN out[c] = {}
    BY DEF Init
<1>7. \A c \in Conns : /\ parser[c].at = "handshake" /\ parser[c].field = 1 /\ parser[c].req = NewRequest
                       /\ reader[c].at = "reading" /\ sent[c] = <<>> /\ Len(wire[c]) = 0
    BY DEF Init, NewParser, Reading
<1>8. \A c \in Conns : Requests(c, free[c])
    BY <1>5, <1>7 DEF Requests
<1>9. Tracked(free)
  <2>1. tasks = {} /\ ran = {} /\ \A w \in Workers : ~Busy(w)
    BY DEF Init, Busy
  <2> QED
    BY <1>6, <1>7, <2>1 DEF Tracked, TasksOnce, WorkersOnce, RanOnce, AnswersTo
<1>10. Accounted(free)
    BY <1>7 DEF Accounted
<1> HIDE DEF free
<1>11. Ledger(free)
    BY <1>5, <1>8, <1>9, <1>10 DEF Ledger
<1> QED
    BY <1>1, <1>2, <1>3, <1>4, <1>11 DEF LInv

\* A step of a connection's thread.
LEMMA ReaderLedger ==
    ASSUME RpcServerAssumption, Shapes, Records, Types, Permits, NEW free, Ledger(free), NEW c \in Conns, Reader(c)
    PROVE  Records' /\ Types' /\ Permits' /\ \E free2 : Ledger(free2)'
<1>1. /\ free \in [Conns -> Nat] /\ (\A d \in Conns : Requests(d, free[d]))
      /\ Tracked(free) /\ Accounted(free) /\ RanOnce(free)
    BY DEF Ledger, Tracked
<1>2. Types'
    BY <1>1, ReaderTypes
<1>3. Permits'
    BY <1>1, ReaderPermits, DecidesPermits DEF Reader
<1>4. CASE ReadLine(c) \/ ReadEnd(c)
  <2>1. Records' /\ \A d \in Conns : Requests(d, free[d])'
    BY <1>1, <1>4, ReadsRequests
  <2>2. Tracked(free)' /\ Accounted(free)'
    BY <1>1, <1>4, ReadsTracked, ReadsAccounted
  <2>3. Ledger(free)'
    BY <1>1, <2>1, <2>2 DEF Ledger
  <2> QED
    BY <1>2, <1>3, <2>1, <2>3
<1>5. CASE ProcessRequest(c) \/ PushTask(c) \/ ReaderSendsFirst(c) \/ ReaderSendsLast(c)
  <2>1. /\ Records'
        /\ ~Continue(c) => \A d \in Conns : Requests(d, free[d])'
        /\ Continue(c) => \A d \in Conns : Requests(d, [free EXCEPT ![c] = free[c] + 1][d])'
    BY <1>1, <1>5, ActsRequests
  <2>2. /\ ~Continue(c) => Accounted(free)'
        /\ Continue(c) => Accounted(Later(free, c))'
    BY <1>1, <1>5, ActsAccounted
  <2>3. /\ ~Continue(c) => Tracked(free)'
        /\ Continue(c) => Tracked(Later(free, c))'
    <3>1. CASE ProcessRequest(c)
      BY <1>1, <3>1, DecidesTracked
    <3>2. CASE PushTask(c)
      <4>1. parser[c].req.mode = "EXEC"
        BY <3>2 DEF PushTask, Permits
      <4> QED
        BY <1>1, <3>2, <4>1, PushesTracked
    <3>3. CASE ReaderSendsFirst(c)
      <4>1. Tracked(free)'
        BY <1>1, <3>3, ReaderFirstTracked
      <4>2. ~Continue(c)
        <5>1. {"at", "answer", "minds"} \subseteq DOMAIN reader[c] /\ DOMAIN reader = Conns
          BY <3>3 DEF ReaderSendsFirst, Shapes
        <5>2. reader'[c].at = "sending last"
          BY <3>3, <5>1 DEF ReaderSendsFirst
        <5>3. Continue(c) => reader'[c].at = "reading"
          BY <5>1 DEF Continue, Reading
        <5> QED
          BY <5>2, <5>3
      <4> QED
        BY <4>1, <4>2
    <3>4. CASE ReaderSendsLast(c)
      BY <1>1, <3>4, ReaderLastTracked
    <3> QED
      BY <1>5, <3>1, <3>2, <3>3, <3>4
  <2>4. CASE ~Continue(c)
    <3>1. Ledger(free)'
      BY <1>1, <2>1, <2>2, <2>3, <2>4 DEF Ledger
    <3> QED
      BY <1>2, <1>3, <2>1, <3>1
  <2>5. CASE Continue(c)
    <3>1. PICK free2 : free2 = Later(free, c)
      OBVIOUS
    <3>2. free2 \in [Conns -> Nat]
      BY <1>1, <3>1, LaterCounts
    <3>3. \A d \in Conns : Requests(d, free2[d])'
      BY <2>1, <2>5, <3>1 DEF Later
    <3>4. Tracked(free2)' /\ Accounted(free2)'
      BY <2>2, <2>3, <2>5, <3>1
    <3>5. Ledger(free2)'
      BY <3>2, <3>3, <3>4 DEF Ledger
    <3> QED
      BY <1>2, <1>3, <2>1, <3>5
  <2> QED
    BY <2>4, <2>5
<1> QED
    BY <1>4, <1>5 DEF Reader

\* A step of a worker.
LEMMA WorkerLedger ==
    ASSUME RpcServerAssumption, Shapes, Records, Types, Permits, NEW free, Ledger(free), NEW w \in Workers, Worker(w)
    PROVE  Records' /\ Types' /\ Permits' /\ Ledger(free)'
<1>1. /\ free \in [Conns -> Nat] /\ (\A d \in Conns : Requests(d, free[d]))
      /\ Tracked(free) /\ Accounted(free) /\ RanOnce(free)
    BY DEF Ledger, Tracked
<1>2. Types' /\ IsFiniteSet(tasks') /\ DOMAIN rights' = DOMAIN rights
    BY WorkerTypes
<1>3. Permits'
    BY <1>1, WorkerPermits
<1>4. UNCHANGED <<wire, sent, gone, parser, session, reader, logins>>
    BY DEF Worker, TakeTask, RunRPCMethod, WorkerSendsFirst, WorkerSendsLast, ioVars, history
<1>5. Records' /\ \A d \in Conns : Requests(d, free[d])'
    BY <1>1, <1>2, <1>4, OthersRequests
<1>6. Tracked(free)'
    BY <1>1, TakesTracked, RunsTracked, WorkerFirstTracked, WorkerLastTracked DEF Worker
<1>7. Accounted(free)'
    BY <1>1, WorkerAccounted
<1> QED
    BY <1>1, <1>2, <1>3, <1>5, <1>6, <1>7 DEF Ledger

\* A step of anybody else.
LEMMA ElsewhereLedger ==
    ASSUME RpcServerAssumption, Shapes, Records, Types, Permits, NEW free, Ledger(free),
           \/ \E c \in Conns : Client(c)
           \/ \E m \in DOMAIN Application : addRPCMethod(m, Application[m])
           \/ Tick
           \/ UNCHANGED vars
    PROVE  Records' /\ Types' /\ Permits' /\ Ledger(free)'
<1>1. /\ free \in [Conns -> Nat] /\ (\A d \in Conns : Requests(d, free[d]))
      /\ Tracked(free) /\ Accounted(free) /\ RanOnce(free)
    BY DEF Ledger, Tracked
<1>2. /\ UNCHANGED <<parser, session, reader, logins, worker, tasks, out, rights, permits, ran>>
      /\ gone \subseteq gone'
    BY DEF Client, Greet, SendMessage, Leave, addRPCMethod, Tick, vars, ioVars, history
<1>3. sent' = sent \/ \E c \in Conns, m \in Messages : SendMessage(c, m)
    BY DEF Client, Greet, Leave, addRPCMethod, Tick, vars, ioVars
<1>4. Types'
    BY <1>2 DEF Types
<1>5. Records' /\ \A d \in Conns : Requests(d, free[d])'
  <2>1. CASE \E c \in Conns : Client(c)
    BY <1>1, <2>1, ClientRequests
  <2>2. CASE ~\E c \in Conns : Client(c)
    <3>1. UNCHANGED <<wire, sent, gone>>
      BY <2>2 DEF addRPCMethod, Tick, vars, ioVars
    <3>2. IsFiniteSet(tasks') /\ DOMAIN rights' = DOMAIN rights
      BY <1>2 DEF Records
    <3> QED
      BY <1>1, <1>2, <3>1, <3>2, OthersRequests
  <2> QED
    BY <2>1, <2>2
<1>6. Tracked(free)'
    BY <1>1, <1>2, ElsewhereTracked
<1>7. Accounted(free)'
    BY <1>1, <1>2, <1>3, ElsewhereAccounted
<1>8. SentStays
  <2>1. CASE sent' = sent
    BY <2>1 DEF SentStays
  <2>2. ASSUME NEW c \in Conns, NEW m \in Messages, SendMessage(c, m) PROVE SentStays
    <3>1. sent' = [sent EXCEPT ![c] = Append(@, m)]
      BY <2>2 DEF SendMessage
    <3>2. sent[c] \in Seq(Messages) /\ DOMAIN sent = Conns
      BY DEF Records
    <3>3. PICK s \in Seq(Messages) : s = sent[c]
      BY <3>2
    <3>4. DOMAIN Append(s, m) = DOMAIN s \cup {Len(s) + 1} /\ \A i \in DOMAIN s : Append(s, m)[i] = s[i]
      BY <3>3, AppendLine
    <3>5. sent'[c] = Append(s, m) /\ \A d \in Conns \ {c} : sent'[d] = sent[d]
      BY <3>1, <3>2, <3>3
    <3> QED
      BY <3>3, <3>4, <3>5 DEF SentStays
  <2> QED
    BY <1>3, <2>1, <2>2
<1>9. Permits'
    BY <1>1, <1>2, <1>8, ElsewherePermits
<1> QED
    BY <1>1, <1>4, <1>5, <1>6, <1>7, <1>9 DEF Ledger

\* A step keeps who holds mutex_send, and the ledger.
LEMMA StepLInv == RpcServerAssumption /\ LInv /\ [Next]_vars => LInv'
<1> SUFFICES ASSUME RpcServerAssumption, LInv, [Next]_vars PROVE LInv'
    OBVIOUS
<1>1. IInv /\ Shapes /\ Records /\ Types /\ Permits
    BY DEF LInv, IInv
<1>2. PICK free : Ledger(free)
    BY DEF LInv
<1>3. IInv'
    BY <1>1, StepIInv
<1>4. Records' /\ Types' /\ Permits' /\ \E free2 : Ledger(free2)'
  <2>1. ASSUME NEW c \in Conns, Reader(c) PROVE Records' /\ Types' /\ Permits' /\ \E free2 : Ledger(free2)'
    BY <1>1, <1>2, <2>1, ReaderLedger
  <2>2. ASSUME NEW w \in Workers, Worker(w) PROVE Records' /\ Types' /\ Permits' /\ Ledger(free)'
    BY <1>1, <1>2, <2>2, WorkerLedger
  <2>3. CASE \/ \E c \in Conns : Client(c)
             \/ \E m \in DOMAIN Application : addRPCMethod(m, Application[m])
             \/ Tick
             \/ UNCHANGED vars
    <3>1. Records' /\ Types' /\ Permits' /\ Ledger(free)'
      BY <1>1, <1>2, <2>3, ElsewhereLedger
    <3> QED
      BY <3>1
  <2>4. CASE \E w \in Workers : Worker(w)
    BY <2>2, <2>4
  <2>5. CASE \E c \in Conns : Reader(c)
    BY <2>1, <2>5
  <2> QED
    BY <2>3, <2>4, <2>5 DEF Next
<1> QED
    BY <1>3, <1>4 DEF LInv

\* There are such counts in every state.
LEMMA Ledgers == Spec => []LInv
<1>1. Init => LInv
    BY RpcServerAssumption, InitLInv
<1>2. LInv /\ [Next]_vars => LInv'
    BY RpcServerAssumption, StepLInv
<1> QED
    BY <1>1, <1>2, PTL DEF Spec

-----------------------------------------------------------------------------
(* Logins *)

\* While the last login of a session is an accepted one, its time is the one noted for it.
LoginsNoted ==
    /\ DOMAIN accepted = Conns
    /\ \A c \in Conns : 0 \in DOMAIN session[c].matrix /\ session[c].matrix[0].reason = "AUTHENTICATED" =>
          session[c].matrix[0].time \in accepted[c]

\* A login that is tried is noted when it is accepted, and takes away the note before it when not.
LEMMA LoginNoted ==
    ASSUME Shapes, Records, LoginsNoted, NEW c \in Conns, persistentAuthentication(c),
           \A d \in Conns \ {c} : session'[d] = session[d]
    PROVE  LoginsNoted'
<1>1. PICK user, pass, i :
         /\ authenticate(c, user, pass, i)
         /\ accepted' = [accepted EXCEPT ![c] = IF i # 0 THEN @
                             ELSE IF Authenticate(user, pass, i) = "AUTHENTICATED" THEN {now} ELSE {}]
  <2> DEFINE auths == parser[c].req.auths
             a == IF 0 \in DOMAIN auths THEN auths[0] ELSE [user |-> "", pass |-> "", idx |-> 0]
  <2>1. /\ authenticate(c, a.user, a.pass, a.idx)
        /\ accepted' = [accepted EXCEPT ![c] = IF a.idx # 0 THEN @
                            ELSE IF Authenticate(a.user, a.pass, a.idx) = "AUTHENTICATED" THEN {now} ELSE {}]
    BY DEF persistentAuthentication
  <2> HIDE DEF a
  <2>2. PICK user, pass, i : user = a.user /\ pass = a.pass /\ i = a.idx
    OBVIOUS
  <2> QED
    BY <2>1, <2>2
<1> DEFINE reason == Authenticate(user, pass, i)
           value == [reason |-> reason, time |-> now]
           m(f) == Put(f, i, value)
           u(old) == IF i = 0 /\ reason = "AUTHENTICATED" THEN user ELSE old
<1>2. session' = [session EXCEPT ![c].matrix = m(@), ![c].user = u(@)]
    BY <1>1 DEF authenticate
<1>3. accepted' = [accepted EXCEPT ![c] = IF i # 0 THEN @ ELSE IF reason = "AUTHENTICATED" THEN {now} ELSE {}]
    BY <1>1
<1>4. value.reason = reason /\ value.time = now
    OBVIOUS
<1>5. DOMAIN session = Conns /\ DOMAIN session[c] = {"user", "matrix"} /\ DOMAIN accepted = Conns
    BY DEF Shapes, Records, LoginsNoted
<1> HIDE DEF u, reason, value, m
<1>6. session'[c].matrix = m(session[c].matrix)
    BY <1>2, <1>5
<1>7. ASSUME 0 \in DOMAIN session'[c].matrix, session'[c].matrix[0].reason = "AUTHENTICATED"
      PROVE  session'[c].matrix[0].time \in accepted'[c]
  <2>1. CASE i = 0
    <3>1. session'[c].matrix[0] = value
      BY <1>6, <2>1 DEF m, Put
    <3>2. accepted'[c] = {now}
      BY <1>3, <1>4, <1>5, <1>7, <2>1, <3>1
    <3> QED
      BY <1>4, <3>1, <3>2
  <2>2. CASE i # 0
    <3>1. 0 \in DOMAIN session[c].matrix /\ session'[c].matrix[0] = session[c].matrix[0]
      BY <1>6, <1>7, <2>2 DEF m, Put
    <3>2. accepted'[c] = accepted[c]
      BY <1>3, <1>5, <2>2
    <3> QED
      BY <1>7, <3>1, <3>2 DEF LoginsNoted
  <2> QED
    BY <2>1, <2>2
<1>8. DOMAIN accepted' = Conns /\ \A d \in Conns \ {c} : accepted'[d] = accepted[d]
    BY <1>3, <1>5
<1> QED
    BY <1>7, <1>8 DEF LoginsNoted

\* What runs, runs after the login that its session was noted to have, and before that is too old.
LEMMA RunsLoggedIn ==
    ASSUME Shapes, LoginsNoted, RanLoggedIn, NEW w \in Workers, RunRPCMethod(w)
    PROVE  RanLoggedIn'
<1> DEFINE c == worker[w].task.conn
           r == [conn |-> c, id |-> worker[w].task.id, method |-> worker[w].task.method,
                 user |-> session[c].user, logins |-> logins[c], now |-> now, accepted |-> accepted[c]]
           old(t) == 0 \in DOMAIN authPolicies /\ authPolicies[0] > 0 /\ t + authPolicies[0] < now
<1>1. worker[w].at = "running" /\ (ran' = ran \/ (isAuthenticated(c, 0) = "AUTHENTICATED" /\ ran' = ran \cup {r}))
    BY DEF RunRPCMethod
<1>2. c \in Conns
    BY <1>1 DEF Shapes, Conn
<1>3. r.now = now /\ r.accepted = accepted[c]
    OBVIOUS
<1>4. isAuthenticated(c, 0) = "AUTHENTICATED" =>
         /\ 0 \in DOMAIN session[c].matrix /\ session[c].matrix[0].reason = "AUTHENTICATED"
         /\ ~old(session[c].matrix[0].time)
    BY DEF isAuthenticated
<1>5. isAuthenticated(c, 0) = "AUTHENTICATED" => \E t \in accepted[c] : ~old(t)
    BY <1>2, <1>4 DEF LoginsNoted
<1>r. PICK x : x = r
    OBVIOUS
<1>6. x.now = now /\ x.accepted = accepted[c] /\ (ran' = ran \/ (isAuthenticated(c, 0) = "AUTHENTICATED" /\ ran' = ran \cup {x}))
    BY <1>1, <1>3, <1>r
<1> HIDE DEF r, c
<1> QED
    BY <1>5, <1>6 DEF RanLoggedIn

\* A step of anybody.
LEMMA StepLoggedIn == LInv /\ LoginsNoted /\ RanLoggedIn /\ [Next]_vars => LoginsNoted' /\ RanLoggedIn'
<1> SUFFICES ASSUME LInv, LoginsNoted, RanLoggedIn, [Next]_vars PROVE LoginsNoted' /\ RanLoggedIn'
    OBVIOUS
<1>1. Shapes /\ Records
    BY DEF LInv, IInv
<1>2. UNCHANGED <<session, accepted>> => LoginsNoted'
    BY DEF LoginsNoted
<1>3. ran' = ran => RanLoggedIn'
    BY DEF RanLoggedIn
<1>4. ASSUME NEW c \in Conns, Reader(c) PROVE LoginsNoted' /\ RanLoggedIn'
  <2>1. ran' = ran /\ (UNCHANGED <<session, accepted>> \/ persistentAuthentication(c))
    BY <1>4 DEF Reader, ReadLine, ReadEnd, ProcessRequest, PushTask, ReaderSendsFirst, ReaderSendsLast, history
  <2>2. \A d \in Conns \ {c} : session'[d] = session[d]
    BY <1>1, <1>4, ReaderAlone
  <2> QED
    BY <1>1, <1>2, <1>3, <2>1, <2>2, LoginNoted
<1>5. ASSUME NEW w \in Workers, Worker(w) PROVE LoginsNoted' /\ RanLoggedIn'
  <2>1. UNCHANGED <<session, accepted>> /\ (ran' = ran \/ RunRPCMethod(w))
    BY <1>5 DEF Worker, TakeTask, RunRPCMethod, WorkerSendsFirst, WorkerSendsLast, history
  <2> QED
    BY <1>1, <1>2, <1>3, <2>1, RunsLoggedIn
<1>6. CASE \/ \E c \in Conns : Client(c)
           \/ \E m \in DOMAIN Application : addRPCMethod(m, Application[m])
           \/ Tick
           \/ UNCHANGED vars
  <2>1. UNCHANGED <<session, accepted, ran>>
    BY <1>6 DEF Client, Greet, SendMessage, Leave, addRPCMethod, Tick, vars, history
  <2> QED
    BY <1>2, <1>3, <2>1
<1> QED
    BY <1>4, <1>5, <1>6 DEF Next

\* Whatever runs does so within a login that was accepted.
LEMMA LoggedIn == Spec => []RanLoggedIn
<1>1. Init => LoginsNoted /\ RanLoggedIn
  <2> SUFFICES ASSUME Init PROVE LoginsNoted /\ RanLoggedIn
    OBVIOUS
  <2>1. DOMAIN accepted = Conns /\ ran = {} /\ \A c \in Conns : session[c].matrix = <<>>
    BY DEF Init, NewSession
  <2> QED
    BY <2>1 DEF LoginsNoted, RanLoggedIn
<1>2. LInv /\ LoginsNoted /\ RanLoggedIn /\ [Next]_vars => LoginsNoted' /\ RanLoggedIn'
    BY StepLoggedIn
<1> QED
    BY <1>1, <1>2, Ledgers, PTL DEF Spec

-----------------------------------------------------------------------------

\* Types, and answers: whatever the threads of connections and pool do, the lines of an answer are
\* together and no request to execute is answered twice (sendAnswer, executeRPC), in any number of
\* connections, workers and messages.
THEOREM Safety == Spec => []Safe
<1>1. LInv => Safe
  <2> SUFFICES ASSUME LInv PROVE Safe
    OBVIOUS
  <2>1. /\ Types /\ Senders /\ LinesTogether
    BY DEF LInv, IInv
  <2>2. PICK free : Ledger(free)
    BY DEF LInv
  <2>3. \A c \in Conns : Requests(c, free[c]) /\ AnswersTo(c, free[c])
    BY <2>2 DEF Ledger, Tracked
  <2>4. \A c \in Conns : parser[c].at \in {"handshake", "request", "none"} /\ parser[c].field \in 1 .. HandshakeLines
    BY <2>3 DEF Requests, HandshakeLines
  <2>5. TypeOK
    BY <2>1, <2>4 DEF TypeOK, Types, Senders
  <2>6. ASSUME NEW c \in Conns, NEW i \in DOMAIN out[c], NEW j \in DOMAIN out[c],
               i % 2 = 1, j % 2 = 1, i # j, out[c][i].answer.mode = "EXEC"
        PROVE  out[c][i].answer.id # out[c][j].answer.id
    <3>1. i % 2 # 0 /\ j % 2 # 0
      BY <2>6
    <3>2. Begun(c, i) /\ Begun(c, j)
      BY <2>1, <3>1 DEF LinesTogether, Begun
    <3> QED
      BY <2>3, <2>6, <3>2 DEF AnswersTo
  <2> QED
    BY <2>1, <2>5, <2>6 DEF Safe, AnswersAreWhole
<1> QED
    BY <1>1, Ledgers, PTL

\* A method runs once, only after processRequest let it run for an account with every attribute
\* that IAuth_Methods_Attributes has for it and each of their passwords (validateRPCMethodPerms,
\* validateMethod), for the account of the session then unless a login came between, and in a
\* session whose last login was accepted and not too old (pushRPCMethodIntoQueue, executeRPC). The
\* attributes that addRPCMethod takes are stored and play no part.
THEOREM OnlyAsPermitted == Spec => []PermissionsKept
<1>1. LInv => RanAsPermitted /\ RanForItsUser
  <2> SUFFICES ASSUME LInv, NEW r \in ran
               PROVE  /\ Cardinality({s \in ran : s.conn = r.conn /\ s.id = r.id}) = 1
                      /\ \E p \in permits :
                            /\ p.conn = r.conn /\ p.id = r.id
                            /\ getMethodAttribs(r.method) \subseteq p.held
                            /\ getMethodPassIndexes(r.method) \subseteq
                                  p.indexes \cup {a.idx : a \in ToSet(sent[r.conn][r.id].auths)}
                      /\ \E p \in permits : p.conn = r.conn /\ p.id = r.id /\ (p.user = r.user \/ p.logins # r.logins)
    BY DEF RanAsPermitted, RanForItsUser
  <2>1. PICK free : RanOnce(free)
    BY DEF LInv, Ledger, Tracked
  <2>2. {s \in ran : s.conn = r.conn /\ s.id = r.id} = {r}
    BY <2>1 DEF RanOnce, Same
  <2>3. Cardinality({r}) = 1
    BY FS_Singleton
  <2>4. PICK p \in permits : Covers(p, r.conn, r.id, r.method) /\ (p.user = r.user \/ p.logins # r.logins)
    BY DEF LInv, Permits
  <2> QED
    BY <2>2, <2>3, <2>4 DEF Covers, IdxsOf
<1> QED
    BY <1>1, Ledgers, LoggedIn, PTL DEF PermissionsKept

\* When no thread of the server has anything that it can do, none is waiting for mutex_send.
LEMMA NobodySends ==
    ASSUME RpcServerAssumption, Shapes, Senders, Stalled
    PROVE  /\ \A c \in Conns : reader[c].at = "over" \/ (reader[c].at = "reading" /\ wire[c] = <<>>)
           /\ \A w \in Workers : worker[w].at = "idle" /\ tasks = {}
<1>1. ASSUME NEW c \in Conns PROVE sender[c] = None
  <2>1. sender[c] \in Workers \cup {c, None}
    BY DEF Senders
  <2>2. sender[c] # c
    BY DEF Senders, ReaderBetween, Stalled
  <2>3. \A w \in Workers : sender[c] # w
    BY DEF Senders, WorkerBetween, Stalled
  <2> QED
    BY <2>1, <2>2, <2>3
<1> QED
  <2>1. ASSUME NEW c \in Conns PROVE reader[c].at = "over" \/ (reader[c].at = "reading" /\ wire[c] = <<>>)
    BY <1>1 DEF Stalled
  <2>2. ASSUME NEW w \in Workers PROVE worker[w].at = "idle" /\ tasks = {}
    <3>1. \/ worker[w].at = "idle" /\ tasks = {}
          \/ worker[w].at = "sending" /\ sender[Conn(w)] # None
      BY DEF Stalled, Conn
    <3>2. worker[w].at = "sending" => Conn(w) \in Conns
      BY ThreadShapes
    <3> QED
      BY <1>1, <3>1, <3>2
  <2> QED
    BY <2>1, <2>2

\* When no thread of the server can do anything, each request to execute that came in has been
\* answered, whatever became of it: run, refused, timed out at a full queue (processRequest,
\* pushRPCMethodIntoQueue, executeRPC), and nobody waits for mutex_send.
THEOREM NothingForgotten == Spec => []NoneIsForgotten
<1>1. RpcServerAssumption /\ LInv => NoneIsForgotten
  <2> SUFFICES ASSUME RpcServerAssumption, LInv, Stalled, NEW c \in Conns \ gone, NEW id \in DOMAIN sent[c],
                      parser[c].at = "request", sent[c][id].mode = "EXEC"
               PROVE  Answered(c, id)
    BY DEF NoneIsForgotten
  <2>1. Senders /\ Shapes /\ Records
    BY DEF LInv, IInv
  <2>2. PICK free : Ledger(free)
    BY DEF LInv
  <2>3. /\ reader[c].at = "over" \/ (reader[c].at = "reading" /\ wire[c] = <<>>)
        /\ \A w \in Workers : worker[w].at = "idle" /\ tasks = {}
    BY <2>1, NobodySends
  <2>4. \A d, k : ~InPool(d, k)
    <3>1. tasks = {} /\ \A w \in Workers : ~Busy(w)
      BY <2>3 DEF RpcServerAssumption, Busy
    <3> QED
      BY <3>1 DEF InPool
  <2>5. Requests(c, free[c]) /\ Accounted(free)
    BY <2>2 DEF Ledger
  <2>6. reader[c].at = "reading" /\ wire[c] = <<>>
    BY <2>3, <2>5 DEF Requests
  <2>7. free[c] = Len(sent[c]) + 1
    <3>1. PICK of, place : Aligned(c, of, place) /\ of[1] = free[c]
      BY <2>5, <2>6 DEF Requests
    <3>2. Len(wire[c]) + 1 = 1
      BY <2>6
    <3> QED
      BY <3>1, <3>2 DEF Aligned
  <2>8. id < free[c]
    <3>1. sent[c] \in Seq(Messages)
      BY <2>1 DEF Records
    <3>2. id \in 1 .. Len(sent[c]) /\ Len(sent[c]) \in Nat
      BY <3>1
    <3> QED
      BY <2>7, <3>2
  <2> QED
    BY <2>4, <2>5, <2>8 DEF Accounted
<1>2. LInv => NoneIsForgotten
    BY <1>1, RpcServerAssumption
<1> QED
    BY <1>2, Ledgers, PTL
=============================================================================
