----------------------------- MODULE HttpExchange -----------------------------
(***************************************************************************)
(* HTTPv1_Client asks HTTPv1_Server once over a stream that delivers its   *)
(* bytes in blocks cut anywhere, ends when the other side leaves, and may  *)
(* break before all of them are there. Each side is a StreamParser that    *)
(* moves from one element to the next; what is posted as a form is written *)
(* on, block by block, into a third one, URL_Vars.                         *)
(*                                                                         *)
(* A byte stands for a word of a line (a method, the name of an option,    *)
(* its value), a CR, an LF, or a character of the content.                 *)
(***************************************************************************)
EXTENDS StreamParser, TLC

CONSTANTS Exchanges,        \* what the client asks: version, host, type and content; and what the
                            \* server's application answers: a way to send it, in pieces
          Plain(_), Escape(_),          \* whether a character is sent as it is, and what else is
          HexDigits, HexValue(_, _),    \* the character of two digits
          UpperCase(_),
          maxURLSize, maxOptionSize, maxStatusSize, maxChunkLineSize, maxNextChunkLineSize,
          securityMaxPostDataSize, securityMaxHttpChunkSize, maxVarSize,
          ReadSizes         \* how long a block a read returns may be

ASSUME HttpAssumption ==
    {maxURLSize, maxOptionSize, maxStatusSize, maxChunkLineSize, maxNextChunkLineSize,
     securityMaxPostDataSize, securityMaxHttpChunkSize, maxVarSize} \union ReadSizes \subseteq Nat \ {0}

VARIABLES request, app,     \* what is asked and answered, chosen once
          client, server,   \* the two parsers
          c2s, s2c,         \* bytes on their way
          broken            \* the connection broke

vars == <<request, app, client, server, c2s, s2c, broken>>

CRLF == <<"\r", "\n">>

Line(words) == words \o CRLF

Numbers == 0 .. securityMaxPostDataSize + 1

\* strtoul: what does not start with digits is zero
Number(word) == IF \E n \in Numbers : ToString(n) = word THEN CHOOSE n \in Numbers : ToString(n) = word ELSE 0

-----------------------------------------------------------------------------
\* The three kinds of StreamParser. sub holds the elements and at names the one that parses.
LineParser(target) == Parser("delimiter", <<CRLF>>, target)

NewUrlVars ==
    [kind |-> "url", at |-> "var", sub |-> [var |-> Parser("multidelimiter", <<<<"=">>, <<"&">>>>, maxVarSize)],
     failed |-> FALSE, finished |-> FALSE, refused |-> FALSE,
     waiting |-> "name", name |-> <<>>, data |-> <<>>, variables |-> <<>>]

NewContent ==
    [mode |-> "close", type |-> "bin", got |-> <<>>, url |-> NewUrlVars, told |-> FALSE]

NewServer ==
    [kind |-> "server", at |-> "request",
     sub |-> [request |-> LineParser(maxURLSize), headers |-> LineParser(maxOptionSize),
              content |-> Parser("direct", <<>>, 0)],
     failed |-> FALSE, finished |-> FALSE, refused |-> FALSE,
     version |-> "", options |-> <<>>, content |-> NewContent,
     bad |-> "", processed |-> 0, answer |-> <<>>, state |-> "reading"]

NewClient ==
    [kind |-> "client", at |-> "status",
     sub |-> [status |-> LineParser(maxStatusSize), headers |-> LineParser(maxOptionSize),
              content |-> Parser("direct", <<>>, 0)],
     failed |-> FALSE, finished |-> FALSE, refused |-> FALSE,
     code |-> "", options |-> <<>>, content |-> NewContent, state |-> "asking"]

Init ==
    /\ \E e \in Exchanges : request = e.request /\ app = e.app
    /\ client = NewClient /\ server = NewServer
    /\ c2s = <<>> /\ s2c = <<>> /\ broken = FALSE

exist(o, name) == \E i \in DOMAIN o.options : o.options[i][1] = name

getOptionValueStringByName(o, name) ==
    IF exist(o, name) THEN o.options[Min({i \in DOMAIN o.options : o.options[i][1] = name})][2] ELSE ""

getOptionAsUINT64(o, name) == Number(getOptionValueStringByName(o, name))

RECURSIVE parseData(_, _)

-----------------------------------------------------------------------------
\* HTTP_Content
write(c, bytes) ==
    IF bytes = <<>> THEN c
    ELSE IF c.type = "url" THEN [c EXCEPT !.url = parseData([@ EXCEPT !.failed = FALSE], bytes)]
    ELSE [c EXCEPT !.got = @ \o bytes]

writeEOF(c) ==
    [c EXCEPT !.told = TRUE,
              !.url = IF c.type = "url" THEN parseData([@ EXCEPT !.failed = FALSE], <<>>) ELSE @]

setTransmitionMode(o, mode) ==
    [o EXCEPT !.content.mode = mode,
              !.sub.content = IF mode = "chunk size" THEN LineParser(maxChunkLineSize)
                              ELSE Parser("direct", <<>>, securityMaxPostDataSize)]

MutSetContentLenSize(o, n) ==  \* counts the end of the content, too
    [o EXCEPT !.sub.content = setParseDataTargetSize(@, IF n > securityMaxPostDataSize THEN 0 ELSE n + 1)]

\* The length is refused when it is too large
setContentLenSize(o, n) ==
    [o EXCEPT !.sub.content = setParseDataTargetSize(@, IF n > securityMaxPostDataSize THEN 0 ELSE n)]

parseHttpChunkSize(data) == IF data = <<>> THEN 0 ELSE Number(data[1])

\* What parse() returns: the status, and the object after it
More(o) == [status |-> "more", o |-> o]
GotoNext(o) == [status |-> "next", o |-> o]
Error(o) == [status |-> "error", o |-> o]

ContentLengthParse(o, data) ==
    LET written == [o EXCEPT !.content = write(@, data)]
    IN  IF o.sub.content.left > 0 THEN More(written)
        ELSE GotoNext([written EXCEPT !.content = writeEOF(@)])

ConnectionCloseParse(o, data) ==
    IF data # <<>> THEN More([o EXCEPT !.content = write(@, data)])
    ELSE GotoNext([o EXCEPT !.content = writeEOF(@)])

ChunkSizeParse(o, data) ==
    LET n == parseHttpChunkSize(data)
    IN  IF n > securityMaxHttpChunkSize THEN Error(o)
        ELSE IF n = 0 THEN GotoNext([o EXCEPT !.content = writeEOF(@)])
        ELSE More([o EXCEPT !.content.mode = "chunk data",
                            !.sub.content = setParseDataTargetSize(setParseMode(@, "size"), n)])

MutChunkDataParse(o, data) ==  \* the CRLF of the chunk is not awaited
    More([o EXCEPT !.content = [write(@, data) EXCEPT !.mode = "chunk size"],
                   !.sub.content = LineParser(maxNextChunkLineSize)])

ChunkDataParse(o, data) ==
    More([o EXCEPT !.content = [write(@, data) EXCEPT !.mode = "chunk crlf"],
                   !.sub.content = setParseDataTargetSize(@, 2)])

ChunkCrlfParse(o) ==
    More([o EXCEPT !.content.mode = "chunk size", !.sub.content = LineParser(maxNextChunkLineSize)])

ContentParse(o, data) ==
    CASE o.content.mode = "length" -> ContentLengthParse(o, data)
      [] o.content.mode = "close" -> ConnectionCloseParse(o, data)
      [] o.content.mode = "chunk size" -> ChunkSizeParse(o, data)
      [] o.content.mode = "chunk data" -> ChunkDataParse(o, data)
      [] o.content.mode = "chunk crlf" -> ChunkCrlfParse(o)

\* The other elements: a request, a status, the options of a header up to an empty one
RequestParse(o, data) ==
    IF Len(data) < 2 THEN Error(o)
    ELSE GotoNext([o EXCEPT !.version = IF Len(data) > 2 THEN data[3] ELSE "HTTP/1.0"])

StatusParse(o, data) == IF Len(data) < 2 THEN Error(o) ELSE GotoNext([o EXCEPT !.code = data[2]])

\* An option without a value is skipped
HeaderParse(o, data) ==
    IF data = <<>> THEN GotoNext(o)
    ELSE More([o EXCEPT !.options = IF Len(data) = 2 THEN Append(@, data) ELSE @])

\* StreamEncoder_URL, and URL_Vars::streamTo: an empty value has no =
Encoded(bytes) == FlattenSeq([i \in DOMAIN bytes |-> IF Plain(bytes[i]) THEN <<bytes[i]>> ELSE Escape(bytes[i])])

UrlStreamTo(variables) ==
    FlattenSeq([i \in DOMAIN variables |->
        (IF i = 1 THEN <<>> ELSE <<"&">>) \o Encoded(variables[i][1])
        \o (IF variables[i][2] = <<>> THEN <<>> ELSE <<"=">> \o Encoded(variables[i][2]))])

\* StreamDecoder_URL: what is no escape is written as it is, and its last byte waited for all the same
DecodeByte(d, b) ==
    CASE d.held = <<>> -> IF b = "%" THEN [d EXCEPT !.held = <<b>>] ELSE [d EXCEPT !.out = Append(@, b)]
      [] Len(d.held) = 1 -> [held |-> <<"%", b>>, out |-> IF b \in HexDigits THEN d.out ELSE d.out \o <<"%", b>>]
      [] Len(d.held) = 2 -> [held |-> <<>>, out |-> Append(d.out, HexValue(d.held[2], b))]

Decoded(bytes) ==
    LET d == FoldLeft(DecodeByte, [held |-> <<>>, out |-> <<>>], bytes) IN d.out \o d.held

\* URLVarContent_SubParser: of an empty one nothing is made
VarParse(o, data) ==
    IF data = <<>> THEN More([o EXCEPT !.data = <<>>]) ELSE GotoNext([o EXCEPT !.data = Decoded(data)])

Parse(o, data) ==
    CASE o.at = "request" -> RequestParse(o, data)
      [] o.at = "status" -> StatusParse(o, data)
      [] o.at = "headers" -> HeaderParse(o, data)
      [] o.at = "content" -> ContentParse(o, data)
      [] o.at = "var" -> VarParse(o, data)

-----------------------------------------------------------------------------
\* The chunks that HTTP_HLP_Chunked_Retriever makes of the pieces
Chunked(pieces) ==
    FlattenSeq([i \in DOMAIN pieces |->
        (IF i = 1 THEN <<>> ELSE CRLF) \o Line(<<ToString(Len(pieces[i]))>>) \o pieces[i]])
    \o (IF pieces = <<>> THEN <<>> ELSE CRLF) \o Line(<<"0">>) \o CRLF

Whole(a) == FlattenSeq(a.pieces)

streamServerHeaders(a) ==
    (CASE a.mode = "length" -> Line(<<"Content-Length", ToString(Len(Whole(a)))>>)
       [] a.mode = "chunks" -> Line(<<"Server", "v">>) \o Line(<<"Transfer-Encoding", "Chunked">>)
       [] a.mode = "close" -> Line(<<"Server", "v">>))
    \o CRLF

\* Whatever was bad, the answer ends the parsing; a bad request gets an empty one
answer(o) ==
    LET a == IF o.bad = "" THEN app ELSE [mode |-> "length", pieces |-> <<>>, accepts |-> TRUE]
        status == Line(<<o.version, IF o.bad = "" THEN "200" ELSE o.bad>>)
        content == IF a.mode = "chunks" THEN Chunked(a.pieces) ELSE Whole(a)
    IN  [o EXCEPT !.at = "none", !.finished = TRUE,
                  !.processed = IF o.bad = "" THEN @ + 1 ELSE @,
                  !.answer = @ \o status \o streamServerHeaders(a) \o content]

changeToNextParserOnClientRequest(o) ==
    IF o.version \notin {"HTTP/1.0", "HTTP/1.1"} THEN answer([o EXCEPT !.bad = "505", !.version = "HTTP/1.0"])
    ELSE [o EXCEPT !.at = "headers"]

changeToNextParserOnClientHeaders(o) ==
    LET contentLength == getOptionAsUINT64(o, "Content-Length")
        form == getOptionValueStringByName(o, "Content-Type") = "form"
        sized == setContentLenSize(setTransmitionMode(o, "length"), contentLength)
    IN  IF o.version = "HTTP/1.1" /\ ~exist(o, "Host") THEN answer([o EXCEPT !.bad = "400"])
        ELSE IF contentLength > securityMaxPostDataSize THEN answer([o EXCEPT !.bad = "413"])
        ELSE IF ~app.accepts THEN [o EXCEPT !.at = "none", !.finished = TRUE]
        ELSE IF contentLength = 0 THEN answer(o)
        ELSE [sized EXCEPT !.at = "content", !.content.type = IF form THEN "url" ELSE "bin"]

ServerNext(o) ==
    CASE o.at = "request" -> changeToNextParserOnClientRequest(o)
      [] o.at = "headers" -> changeToNextParserOnClientHeaders(o)
      [] o.at = "content" -> answer(o)

\* An empty content, or one too long, ends the client's parsing
parseHeaders2TransmitionMode(o) ==
    LET n == getOptionAsUINT64(o, "Content-Length")
        length == setContentLenSize(setTransmitionMode(o, "length"), n)
    IN  IF exist(o, "Content-Length")
        THEN IF n = 0 \/ n > securityMaxPostDataSize THEN [length EXCEPT !.at = "none", !.finished = TRUE]
             ELSE [length EXCEPT !.at = "content"]
        ELSE IF getOptionValueStringByName(o, "Transfer-Encoding") = "Chunked"
        THEN [setTransmitionMode(o, "chunk size") EXCEPT !.at = "content"]
        ELSE [setTransmitionMode(o, "close") EXCEPT !.at = "content"]

ClientNext(o) ==
    CASE o.at = "status" -> [o EXCEPT !.at = "headers"]
      [] o.at = "headers" -> parseHeaders2TransmitionMode(o)
      [] o.at = "content" -> [o EXCEPT !.at = "none", !.finished = TRUE]

insertVar(o, name, data) ==
    IF name = <<>> THEN o
    ELSE [o EXCEPT !.variables = Append(@, <<[i \in DOMAIN name |-> UpperCase(name[i])], data>>)]

UrlNext(o) ==
    IF o.waiting = "content"
    THEN [insertVar(o, o.name, o.data) EXCEPT !.waiting = "name",
            !.sub.var = [setParseDataTargetSize(@, maxVarSize) EXCEPT !.delimiters = <<<<"=">>, <<"&">>>>]]
    ELSE IF o.sub.var.found = <<"&">> \/ o.sub.var.ended THEN insertVar([o EXCEPT !.name = o.data], o.data, <<>>)
    ELSE [o EXCEPT !.waiting = "content", !.name = o.data, !.data = <<>>,
            !.sub.var = [setParseDataTargetSize(@, maxVarSize) EXCEPT !.delimiters = <<<<"&">>>>]]

changeToNextParser(o) ==
    CASE o.kind = "server" -> ServerNext(o)
      [] o.kind = "client" -> ClientNext(o)
      [] o.kind = "url" -> UrlNext(o)

\* A block goes to the element that is due, and what the element leaves to the next one
parseData(o, block) ==
    IF o.at = "none" THEN [o EXCEPT !.failed = TRUE]
    ELSE LET fed == writeIntoParser(o.sub[o.at], block)
             old == [o EXCEPT !.sub[o.at] = fed.p]
             parsed == IF fed.called THEN Parse(old, fed.data) ELSE [status |-> fed.status, o |-> old]
             reset == [parsed.o EXCEPT !.sub[o.at] = ResetLeft(@)]
             next == changeToNextParser(reset)
             rest == SubSeq(block, fed.used + 1, Len(block))
         IN  CASE ~fed.ok -> [old EXCEPT !.failed = TRUE, !.refused = TRUE]
               [] fed.ok /\ parsed.status = "error" -> [reset EXCEPT !.failed = TRUE]
               [] fed.ok /\ parsed.status = "next" ->
                    IF next.at = "none" \/ rest = <<>> THEN next ELSE parseData(next, rest)
               [] fed.ok /\ parsed.status = "more" ->
                    IF rest = <<>> THEN reset ELSE parseData(reset, rest)

-----------------------------------------------------------------------------
\* initProtocol of the client: the request, the options by name, the content
Body == IF request.type = "form" THEN UrlStreamTo(request.variables) ELSE request.content

ClientOptions ==
    <<<<"Content-Length", ToString(Len(Body))>>>>
    \o (IF request.type = "form" THEN <<<<"Content-Type", "form">>>> ELSE <<>>)
    \o (IF request.host THEN <<<<"Host", "h">>>> ELSE <<>>)

streamClientHeaders == FlattenSeq([i \in DOMAIN ClientOptions |-> Line(ClientOptions[i])]) \o CRLF

initProtocol ==
    /\ client.state = "asking"
    /\ c2s' = IF broken THEN <<>> ELSE Line(<<"GET", "/", request.version>>) \o streamClientHeaders \o Body
    /\ client' = [client EXCEPT !.state = IF broken THEN "failed" ELSE "reading"]
    /\ UNCHANGED <<request, app, server, s2c, broken>>

\* streamTo: a block that was parsed goes on, unless the parsing is finished; one that was not is
\* followed by the end, which is parsed, too
Read(o, block) ==
    LET read == parseData(o, block)
    IN  IF read.failed THEN [parseData([read EXCEPT !.failed = FALSE], <<>>) EXCEPT !.state = "failed"]
        ELSE [read EXCEPT !.state = IF read.finished THEN "ended" ELSE "reading"]

ReadEnd(o, state) == [parseData(o, <<>>) EXCEPT !.state = state]

\* What the server answers is on its way at once
Sent(before, after) == IF broken THEN <<>> ELSE SubSeq(after.answer, Len(before.answer) + 1, Len(after.answer))

ServerReads(n) ==
    /\ server.state = "reading" /\ n <= Len(c2s)
    /\ server' = Read(server, SubSeq(c2s, 1, n))
    /\ c2s' = SubSeq(c2s, n + 1, Len(c2s))
    /\ s2c' = s2c \o Sent(server, server')
    /\ UNCHANGED <<request, app, client, broken>>

\* The client has gone, or the connection broke
ServerReadsEnd ==
    /\ server.state = "reading" /\ c2s = <<>>
    /\ broken \/ client.state \in {"ended", "failed"}
    /\ server' = ReadEnd(server, IF broken THEN "failed" ELSE "ended")
    /\ s2c' = s2c \o Sent(server, server')
    /\ UNCHANGED <<request, app, client, c2s, broken>>

ClientReads(n) ==
    /\ client.state = "reading" /\ n <= Len(s2c)
    /\ client' = Read(client, SubSeq(s2c, 1, n))
    /\ s2c' = SubSeq(s2c, n + 1, Len(s2c))
    /\ UNCHANGED <<request, app, server, c2s, broken>>

ClientReadsEnd ==
    /\ client.state = "reading" /\ s2c = <<>>
    /\ broken \/ server.state \in {"ended", "failed"}
    /\ client' = ReadEnd(client, IF broken THEN "failed" ELSE "ended")
    /\ UNCHANGED <<request, app, server, c2s, s2c, broken>>

\* The connection breaks, and only so much of what is on its way arrives
Break(i, j) ==
    /\ ~broken
    /\ c2s' = SubSeq(c2s, 1, i) /\ s2c' = SubSeq(s2c, 1, j)
    /\ broken' = TRUE
    /\ UNCHANGED <<request, app, client, server>>

ServerStep == ServerReadsEnd \/ \E n \in ReadSizes : ServerReads(n)
ClientStep == initProtocol \/ ClientReadsEnd \/ \E n \in ReadSizes : ClientReads(n)

Next == ServerStep \/ ClientStep \/ \E i \in 0 .. Len(c2s), j \in 0 .. Len(s2c) : Break(i, j)

Spec == Init /\ [][Next]_vars

-----------------------------------------------------------------------------
TypeOK ==
    /\ server.at \in {"request", "headers", "content", "none"}
    /\ client.at \in {"status", "headers", "content", "none"}
    /\ {server.state, client.state} \subseteq {"asking", "reading", "ended", "failed"}
    /\ \A o \in {server, client, server.content.url} : \A e \in DOMAIN o.sub : Len(o.sub[e].buf) <= o.sub[e].max
    /\ server.processed \in 0 .. 1

\* A request is processed when the whole of it is there, as long as the connection holds and no
\* block was too long. When the connection ends, or a block is refused, between two options, the
\* end is taken for the empty line and the request is processed with what it has.
RequestIsWhole ==
    ~broken /\ ~server.refused /\ server.processed > 0 =>
        server.options = ClientOptions /\ server.version = request.version

\* What a request was processed with is what was posted, however it was cut and although the
\* connection broke: the content to its last byte, the variables of a form decoded. No variable
\* of it is empty, and no block of it was too long for a variable.
PostedIsExact ==
    server.processed > 0 /\ server.content.told =>
        CASE server.content.type = "bin" -> server.content.got = Body
          [] server.content.type = "url" ->
                ~server.content.url.refused /\ (\A i \in DOMAIN request.variables : request.variables[i][2] # <<>>)
                => server.content.url.variables =
                    [i \in DOMAIN request.variables |->
                        <<[k \in DOMAIN request.variables[i][1] |-> UpperCase(request.variables[i][1][k])],
                          request.variables[i][2]>>]

\* Of the content the client gets nothing but what the server sent, in order and from the start,
\* and is told that it is over when it has it all: always when its length is known, otherwise as
\* long as the connection holds.
ReceivedIsPrefix ==
    /\ IsPrefix(client.content.got, Whole(app))
    /\ client.content.told /\ (client.content.mode = "length" \/ ~broken) =>
            client.content.got = Whole(app) \/ client.code # "200" \/ client.refused

\* When both sides are through with a request that was right, on a connection that held, the
\* client has the whole answer, unless a block was too long for one of them.
AnswerArrives ==
    client.state \in {"ended", "failed"} /\ ~broken /\ ~client.refused /\ ~server.refused =>
        \/ client.state = "ended" /\ client.code = "200" /\ client.content.got = Whole(app)
        \/ client.code \in {"400", "413", "505"} \/ ~app.accepts

\* The two never wait for each other: nothing on its way, the connection up, and both reading.
\* What the client announces is what it sends, and the server answers when it has it.
NeitherWaits ==
    ~(/\ c2s = <<>> /\ s2c = <<>> /\ ~broken
      /\ server.state = "reading" /\ client.state = "reading")

\* What the server works with is what was asked: types, a whole request and an exact content.
RequestsExact == TypeOK /\ RequestIsWhole /\ PostedIsExact

\* What the client gets is what was answered: a prefix at any time, all of it in the end.
AnswersExact == ReceivedIsPrefix /\ AnswerArrives
=============================================================================
