----------------------------- MODULE HttpTunnel -----------------------------
(***************************************************************************)
(* One HTTP tunnel (src/src/transport/http_transport.rs): the TCP connect  *)
(* and the EXA handshake under one deadline, the TLS handshake that is     *)
(* deferred to the first read or write, and the three conversations the    *)
(* tunnel carries: an EXPORT body pushed by Exasol, an IMPORT body written *)
(* to it, and a Parquet file served by ranges.                             *)
(*                                                                         *)
(* A byte is its position; the wire carries tokens <<kind, number>>.       *)
(***************************************************************************)
EXTENDS Integers, Sequences, FiniteSets

CONSTANTS
  SetupBound,   \* setup_timeout, in ticks
  PieceMax,     \* EXPORT_PIECE_MAX_BYTES and HTTP_CHUNK_SIZE
  SinkCap,      \* capacity of the channel behind the sink
  FileLen,      \* length of the served file when it is opened
  Bodies,       \* bodies: the offsets at which the chunks of an export, or the parts
                \* that the importer writes, end
  MaxRequests   \* bound: requests for the Parquet file

ASSUME HttpTunnelAssumption ==
  /\ {SetupBound, PieceMax, SinkCap, MaxRequests} \subseteq Nat \ {0}
  /\ FileLen \in Nat
  /\ \A b \in Bodies : b \in Seq(Nat) /\ \A i, j \in 1 .. Len(b) : i <= j => b[i] <= b[j]

VARIABLES
  job,        \* "export", "import" or "parquet"
  tls,        \* use_tls: "on" or "off"
  body,       \* the body of the export, or what the importer writes
  stream,     \* TunnelStream; "none" until connect() has returned
  at,         \* where the client is
  result,     \* what the conversation returned
  clock,      \* ticks of the clock
  deadline,   \* when the running SetupDeadline elapses, NoDeadline: none runs
  statement,  \* "unsent" or "sent": the statement that names the tunnel
  exasol,     \* "quiet", "hello" (TLS begun), "talking", "closed", "gone", "silent"
  request,    \* the request the client has not read, NoRequest: none
  asked,      \* every request of the conversation
  wire,       \* tokens of the body that the client has not read
  answer,     \* tokens the client has written
  begun,      \* where in answer the answer to each request for the Parquet file begins
  left,       \* bytes of the current chunk, body or span still to come
  next,       \* the next part to write, or the next position to serve
  piece,      \* the piece that forward_sized_body holds
  sink,       \* pieces in the channel
  receiver,   \* "open" or "dropped"
  got,        \* bytes the consumer has taken
  file        \* the length of the served file now

connVars   == <<stream, at, result, deadline>>
peerVars   == <<statement, exasol, request, asked>>
exportVars == <<wire, piece, sink, receiver, got>>
written    == <<answer, begun>>
choices    == <<job, tls, body>>

vars == <<choices, connVars, clock, peerVars, exportVars, written, left, next, file>>

NoDeadline == 0 - 1

NoRequest == [method |-> "none", coding |-> "none", from |-> 0, to |-> 0]

Smaller(a, b) == IF a < b THEN a ELSE b

\* Bytes of the body before its i-th chunk or part, in it, and in all of them.
Start(i) == IF i = 1 THEN 0 ELSE body[i - 1]
Size(i)  == body[i] - Start(i)
Total    == Start(Len(body) + 1)

Bytes(from, n) == [i \in 1 .. n |-> <<"byte", from + i - 1>>]

InSetup == at \in {"tcp_connect", "exa_handshake"}

Ended(how) == at' = "ended" /\ result' = how

Responsive == exasol \notin {"gone", "silent"}

-----------------------------------------------------------------------------
(* connect_with_timeout                                                    *)

TcpConnected ==
  /\ at = "tcp_connect"
  /\ Responsive
  /\ clock < deadline
  /\ at' = "exa_handshake"
  /\ UNCHANGED <<choices, stream, result, deadline, clock, peerVars, exportVars, written, left, next, file>>

\* parse_response_packet: the port must fit a u16, the address must not be empty.
ParseResponsePacket(packet) == packet.port \in 0 .. 65535 /\ packet.ip # "empty"

\* Mutant: connect() completes the TLS handshake before it returns.
ExaHandshaken_EagerTls ==
  /\ at = "exa_handshake"
  /\ Responsive
  /\ clock < deadline
  /\ tls = "on" => exasol = "hello"
  /\ at' = "idle" /\ stream' = "Open" /\ deadline' = NoDeadline
  /\ UNCHANGED <<choices, result, clock, peerVars, exportVars, written, left, next, file>>

\* The magic packet is answered.  With TLS the handshake stays pending.
ExaHandshaken ==
  /\ at = "exa_handshake"
  /\ Responsive
  /\ clock < deadline
  /\ \E packet \in [port : {0 - 1, 0, 65535, 65536}, ip : {"empty", "10.0.0.5"}] :
       IF ParseResponsePacket(packet)
         THEN /\ at' = "idle"
              /\ stream' = IF tls = "on" THEN "TlsHandshakePending" ELSE "Open"
              /\ UNCHANGED result
         ELSE Ended("err") /\ UNCHANGED stream
  /\ deadline' = NoDeadline
  /\ UNCHANGED <<choices, clock, peerVars, exportVars, written, left, next, file>>

\* Mutant: each step of the setup waits for its peer without a timer.
ConnectFails_NoTimer ==
  /\ InSetup
  /\ exasol = "gone"
  /\ Ended("err")
  /\ deadline' = NoDeadline
  /\ UNCHANGED <<choices, stream, clock, peerVars, exportVars, written, left, next, file>>

\* The deadline elapses or the peer refuses; the socket is released.
ConnectFails ==
  /\ InSetup
  /\ clock >= deadline \/ exasol = "gone"
  /\ Ended("err")
  /\ deadline' = NoDeadline
  /\ UNCHANGED <<choices, stream, clock, peerVars, exportVars, written, left, next, file>>

-----------------------------------------------------------------------------
(* open_stream: the first read or write completes a pending TLS handshake  *)

\* Mutant: the pending handshake stays in place while it runs.
OpenStream_KeepsPending ==
  /\ at = "idle"
  /\ IF stream = "Closed" THEN Ended("err") /\ UNCHANGED deadline
     ELSE /\ at' = IF stream = "Open" THEN "request" ELSE "tls_handshake"
          /\ deadline' = IF stream = "Open" THEN NoDeadline ELSE clock + SetupBound
          /\ UNCHANGED result
  /\ UNCHANGED <<choices, stream, clock, peerVars, exportVars, written, left, next, file>>

\* The stream is replaced by Closed before the handshake begins, so that
\* whatever ends it leaves the tunnel closed.
OpenStream ==
  /\ at = "idle"
  /\ \/ /\ stream = "TlsHandshakePending"
        /\ stream' = "Closed"
        /\ at' = "tls_handshake"
        /\ deadline' = clock + SetupBound
        /\ UNCHANGED result
     \/ stream = "Open" /\ at' = "request" /\ UNCHANGED <<stream, deadline, result>>
     \/ stream = "Closed" /\ Ended("err") /\ UNCHANGED <<stream, deadline>>
  /\ UNCHANGED <<choices, clock, peerVars, exportVars, written, left, next, file>>

\* PendingTlsHandshake::complete.
TlsDone ==
  /\ at = "tls_handshake"
  /\ exasol = "hello"
  /\ clock < deadline
  /\ stream' = "Open" /\ at' = "request" /\ exasol' = "talking" /\ deadline' = NoDeadline
  /\ UNCHANGED <<choices, result, clock, statement, request, asked, exportVars, written, left, next, file>>

\* The handshake is refused or broken, or its own bound elapses.
TlsFails ==
  /\ at = "tls_handshake"
  /\ exasol \in {"hello", "gone"} \/ clock >= deadline
  /\ Ended("err")
  /\ deadline' = NoDeadline
  /\ UNCHANGED <<choices, stream, clock, peerVars, exportVars, written, left, next, file>>

\* The caller drops the read or write that runs the handshake; the client lives on.
AbandonHandshake ==
  /\ at = "tls_handshake"
  /\ at' = "idle"
  /\ deadline' = NoDeadline
  /\ UNCHANGED <<choices, stream, result, clock, peerVars, exportVars, written, left, next, file>>

\* shutdown() before the first read or write: over plain TCP, without a handshake.
Shutdown ==
  /\ at = "idle" /\ stream = "TlsHandshakePending"
  /\ stream' = "Closed"
  /\ UNCHANGED <<choices, at, result, deadline, clock, peerVars, exportVars, written, left, next, file>>

-----------------------------------------------------------------------------
(* handle_export_request                                                   *)

\* read_http_request fails on a closed connection; a client that serves a
\* Parquet file takes that, and a line it cannot parse, for the end.
RequestEnds ==
  /\ at = "request"
  /\ \/ request = NoRequest /\ exasol \in {"closed", "gone"}
     \/ request.method = "garbage"
  /\ Ended(IF job = "parquet" THEN "ok" ELSE "err")
  /\ UNCHANGED <<choices, stream, deadline, clock, peerVars, exportVars, written, left, next, file>>

\* PUT with a chunked body, or with a Content-Length; anything else is refused.
TakePut ==
  /\ at = "request" /\ job = "export"
  /\ request.method \in {"GET", "PUT", "HEAD"}
  /\ request' = NoRequest
  /\ IF request.method = "PUT" /\ request.coding # "none"
       THEN /\ at' = IF request.coding = "chunked" THEN "size" ELSE "body"
            /\ left' = IF request.coding = "chunked" THEN 0 ELSE Total
            /\ UNCHANGED result
       ELSE Ended("err") /\ UNCHANGED left
  /\ UNCHANGED <<choices, stream, deadline, clock, statement, exasol, asked, exportVars, written, next, file>>

Chunked == asked[1].coding = "chunked"

\* The next size line; one that is no number (-1) is an error.
ReadSize ==
  /\ at = "size"
  /\ wire # <<>>
  /\ left' = wire[1][2]
  /\ wire' = Tail(wire)
  /\ IF wire[1][2] < 0 THEN Ended("err")
     ELSE at' = (IF wire[1][2] = 0 THEN "last_crlf" ELSE "body") /\ UNCHANGED result
  /\ UNCHANGED <<choices, stream, deadline, clock, peerVars, piece, sink, receiver, got, written, next, file>>

\* Mutant: a piece may reach past the end of its chunk.
ReadPiece_PastChunk ==
  /\ at = "body" /\ left > 0
  /\ Len(wire) >= PieceMax
  /\ piece' = SubSeq(wire, 1, PieceMax)
  /\ wire' = SubSeq(wire, PieceMax + 1, Len(wire))
  /\ left' = IF left > PieceMax THEN left - PieceMax ELSE 0
  /\ at' = "handing"
  /\ UNCHANGED <<choices, stream, deadline, result, clock, peerVars, sink, receiver, got, written, next, file>>

\* forward_sized_body reads exactly the next piece.
ReadPiece ==
  LET n == Smaller(left, PieceMax) IN
  /\ at = "body" /\ left > 0
  /\ Len(wire) >= n
  /\ piece' = SubSeq(wire, 1, n)
  /\ wire' = SubSeq(wire, n + 1, Len(wire))
  /\ left' = left - n
  /\ at' = "handing"
  /\ UNCHANGED <<choices, stream, deadline, result, clock, peerVars, sink, receiver, got, written, next, file>>

\* sink.send waits for room; a closed channel loses the piece and the body is
\* read on.
HandPiece ==
  /\ at = "handing"
  /\ \/ receiver = "open" /\ Len(sink) < SinkCap /\ sink' = Append(sink, piece)
     \/ receiver = "dropped" /\ UNCHANGED sink
  /\ piece' = <<>>
  /\ at' = "body"
  /\ UNCHANGED <<choices, stream, deadline, result, clock, peerVars, wire, receiver, got, written, left, next, file>>

\* The end of a chunk, of the last chunk, or of a body of known length.
ChunkEnds ==
  /\ at \in {"body", "last_crlf"} /\ left = 0
  /\ IF Chunked
       THEN wire # <<>> /\ wire' = Tail(wire) /\ at' = IF at = "last_crlf" THEN "reply" ELSE "size"
       ELSE at' = "reply" /\ UNCHANGED wire
  /\ UNCHANGED <<choices, stream, deadline, result, clock, peerVars, piece, sink, receiver, got, written, left, next, file>>

\* The connection ends inside the body.
BodyBroken ==
  /\ exasol = "gone"
  /\ \/ at \in {"size", "last_crlf"} /\ wire = <<>>
     \/ at = "body" /\ Len(wire) < Smaller(left, PieceMax)
     \/ at = "body" /\ left = 0 /\ Chunked /\ wire = <<>>
  /\ Ended("err")
  /\ UNCHANGED <<choices, stream, deadline, clock, peerVars, exportVars, written, left, next, file>>

\* 200 OK, only after the whole body.
Reply ==
  /\ at = "reply"
  /\ answer' = Append(answer, <<"200", 0>>)
  /\ Ended("ok")
  /\ UNCHANGED <<choices, stream, deadline, clock, peerVars, exportVars, begun, left, next, file>>

-----------------------------------------------------------------------------
(* handle_import_request, write_chunked_body, write_final_chunk            *)

TakeGet ==
  /\ at = "request" /\ job = "import"
  /\ request.method \in {"GET", "PUT", "HEAD"}
  /\ request' = NoRequest
  /\ IF request.method = "GET"
       THEN /\ answer' = Append(answer, <<"chunked", 0>>)
            /\ at' = "writing" /\ next' = 1
            /\ UNCHANGED result
       ELSE Ended("err") /\ UNCHANGED <<answer, next>>
  /\ UNCHANGED <<choices, stream, deadline, clock, statement, exasol, asked, exportVars, begun, left, file>>

\* encode_chunk: no data encodes the final chunk.
EncodeChunk(data) == <<<<"size", Len(data)>>>> \o data \o <<<<"crlf", 0>>>>

\* Mutant: an empty part is encoded like any other.
WriteChunkedBody_Empty ==
  /\ at = "writing" /\ next <= Len(body)
  /\ answer' = answer \o EncodeChunk(Bytes(Start(next) + 1, Size(next)))
  /\ next' = next + 1
  /\ UNCHANGED <<choices, connVars, clock, peerVars, exportVars, begun, left, file>>

\* A part of the body; an empty one writes nothing.
WriteChunkedBody ==
  /\ at = "writing" /\ next <= Len(body)
  /\ answer' = IF Size(next) = 0 THEN answer
               ELSE answer \o EncodeChunk(Bytes(Start(next) + 1, Size(next)))
  /\ next' = next + 1
  /\ UNCHANGED <<choices, connVars, clock, peerVars, exportVars, begun, left, file>>

WriteFinalChunk ==
  /\ at = "writing" /\ next = Len(body) + 1
  /\ answer' = answer \o EncodeChunk(<<>>)
  /\ Ended("ok")
  /\ UNCHANGED <<choices, stream, deadline, clock, peerVars, exportVars, begun, left, next, file>>

\* The source of the importer fails: it returns without the final chunk.
SourceFails ==
  /\ at = "writing"
  /\ Ended("err")
  /\ UNCHANGED <<choices, stream, deadline, clock, peerVars, exportVars, written, left, next, file>>

\* A write fails because the peer is gone.
WriteBroken ==
  /\ exasol = "gone"
  /\ at \in {"reply", "writing", "span"} \/ (at = "request" /\ request # NoRequest)
  /\ Ended("err")
  /\ UNCHANGED <<choices, stream, deadline, clock, peerVars, exportVars, written, left, next, file>>

-----------------------------------------------------------------------------
(* serve_parquet_range_requests                                            *)

\* The answer begins with head; n bytes follow from position from on.
BeginSpan(head, from, n) ==
  /\ answer' = Append(answer, head)
  /\ at' = "span" /\ next' = from /\ left' = n
  /\ UNCHANGED result

\* Mutant: the end of the range is not clamped to the file.
ServeByteRange_Unclamped(from, to) ==
  IF request.coding = "bad_range" \/ from >= FileLen \/ to < from
    THEN answer' = Append(answer, <<"400", 0 - 1>>) /\ UNCHANGED <<at, next, left, result>>
    ELSE BeginSpan(<<"206", to - from + 1>>, from, to - from + 1)

\* serve_byte_range: clamped to the size probed when the file was opened.
ServeByteRange(from, to) ==
  LET end == Smaller(to, FileLen - 1) IN
  IF request.coding = "bad_range" \/ FileLen = 0 \/ from >= FileLen \/ end < from
    THEN answer' = Append(answer, <<"400", 0 - 1>>) /\ UNCHANGED <<at, next, left, result>>
    ELSE BeginSpan(<<"206", end - from + 1>>, from, end - from + 1)

TakeParquetRequest ==
  /\ at = "request" /\ job = "parquet"
  /\ request' = NoRequest
  /\ begun' = Append(begun, Len(answer))
  /\ \/ /\ request.method = "HEAD"
        /\ answer' = Append(answer, <<"200", FileLen>>)
        /\ UNCHANGED <<at, next, left, result>>
     \/ request.method = "GET" /\ request.coding # "none" /\ ServeByteRange(request.from, request.to)
     \/ request.method = "GET" /\ request.coding = "none" /\ BeginSpan(<<"200", FileLen>>, 0, FileLen)
     \/ /\ request.method = "PUT"
        /\ answer' = Append(answer, <<"405", 0 - 1>>)
        /\ Ended("err") /\ UNCHANGED <<next, left>>
  /\ UNCHANGED <<choices, stream, deadline, clock, statement, exasol, asked, exportVars, file>>

\* write_span_response: exactly the next piece of the file, or an error when
\* the file has become shorter.
ServePiece ==
  LET n == Smaller(left, PieceMax) IN
  /\ at = "span"
  /\ \/ left = 0 /\ at' = "request" /\ UNCHANGED <<result, answer, next, left>>
     \/ /\ left > 0 /\ next + n <= file
        /\ answer' = answer \o Bytes(next, n)
        /\ next' = next + n /\ left' = left - n
        /\ UNCHANGED <<at, result>>
     \/ left > 0 /\ next + n > file /\ Ended("err") /\ UNCHANGED <<answer, next, left>>
  /\ UNCHANGED <<choices, stream, deadline, clock, peerVars, exportVars, begun, file>>

FileShrinks ==
  /\ job = "parquet" /\ file > 0
  /\ file' = file - 1
  /\ UNCHANGED <<choices, connVars, clock, peerVars, exportVars, written, left, next>>

-----------------------------------------------------------------------------
(* The caller, the consumer of the sink, Exasol, the clock                 *)

\* The statement goes out once connect() has returned, at any time from then on.
SendStatement ==
  /\ statement = "unsent" /\ ~InSetup /\ at # "ended"
  /\ statement' = "sent"
  /\ UNCHANGED <<choices, connVars, clock, exasol, request, asked, exportVars, written, left, next, file>>

ConsumerTakes ==
  /\ sink # <<>> /\ receiver = "open"
  /\ got' = got \o Head(sink)
  /\ sink' = Tail(sink)
  /\ UNCHANGED <<choices, connVars, clock, peerVars, wire, piece, receiver, written, left, next, file>>

ConsumerDrops ==
  /\ job = "export" /\ receiver = "open"
  /\ receiver' = "dropped" /\ sink' = <<>>
  /\ UNCHANGED <<choices, connVars, clock, peerVars, wire, piece, got, written, left, next, file>>

\* Exasol starts to talk once it has the statement, with TLS by its first message.
ExasolStarts ==
  /\ exasol = "quiet" /\ statement = "sent"
  /\ exasol' = IF tls = "on" THEN "hello" ELSE "talking"
  /\ UNCHANGED <<choices, connVars, clock, statement, request, asked, exportVars, written, left, next, file>>

\* Tokens on the wire before the i-th chunk: each has a size line, bytes, an end of line.
Before(i) == Start(i) + 2 * (i - 1)

\* The k-th token of the chunks.
ChunkOnWire(k) ==
  LET i == CHOOSE j \in 1 .. Len(body) : Before(j) < k /\ k <= Before(j + 1) IN
  IF k = Before(i) + 1 THEN <<"size", Size(i)>>
  ELSE IF k = Before(i + 1) THEN <<"crlf", 0>>
  ELSE <<"byte", k - 2 * i + 1>>

\* What the body of a PUT looks like on the wire; a size line may be broken.
BodyOnWire(coding) ==
  LET chunks == [k \in 1 .. Before(Len(body) + 1) |-> ChunkOnWire(k)] IN
  IF coding = "chunked" THEN chunks \o EncodeChunk(<<>>)
  ELSE IF coding = "broken" THEN chunks \o <<<<"size", 0 - 1>>>>
  ELSE Bytes(1, Total)

Requests ==
  IF job = "parquet"
    THEN [method : {"GET"}, coding : {"range"}, from : 0 .. FileLen, to : 0 .. FileLen]
         \cup [method : {"GET"}, coding : {"none", "bad_range"}, from : {0}, to : {0}]
         \cup [method : {"HEAD", "PUT", "garbage"}, coding : {"none"}, from : {0}, to : {0}]
    ELSE [method : {"GET", "PUT", "garbage"}, coding : {"chunked", "sized", "none"}, from : {0}, to : {0}]

\* A request, with its body; the next one follows the answer to the last.
ExasolRequests ==
  /\ exasol = "talking" /\ request = NoRequest
  /\ asked = <<>> \/ (job = "parquet" /\ at = "request" /\ Len(asked) < MaxRequests)
  /\ \E r \in Requests :
       /\ request' = r
       /\ asked' = Append(asked, r)
       /\ IF r.method = "PUT" /\ job = "export"
            THEN \E coding \in {r.coding} \cup (IF r.coding = "chunked" THEN {"broken"} ELSE {}) :
                   wire' = BodyOnWire(coding)
            ELSE UNCHANGED wire
  /\ UNCHANGED <<choices, connVars, clock, statement, exasol, piece, sink, receiver, got, written, left, next, file>>

\* Exasol has the file and closes the connection.
ExasolCloses ==
  /\ exasol = "talking" /\ job = "parquet" /\ at = "request"
  /\ Len(asked) = MaxRequests /\ request = NoRequest
  /\ exasol' = "closed"
  /\ UNCHANGED <<choices, connVars, clock, statement, request, asked, exportVars, written, left, next, file>>

\* The peer vanishes, and what it had not delivered is lost; or it falls silent.
PeerFails ==
  /\ Responsive /\ exasol # "closed" /\ at # "ended"
  /\ \/ /\ exasol' = "gone"
        /\ \E n \in 0 .. Len(wire) : wire' = SubSeq(wire, 1, n)
     \/ exasol' = "silent" /\ UNCHANGED wire
  /\ UNCHANGED <<choices, connVars, clock, statement, request, asked, piece, sink, receiver, got, written, left, next, file>>

Tick ==
  /\ deadline # NoDeadline /\ clock < deadline
  /\ clock' = clock + 1
  /\ UNCHANGED <<choices, connVars, peerVars, exportVars, written, left, next, file>>

-----------------------------------------------------------------------------
Init ==
  /\ job \in {"export", "import", "parquet"}
  /\ tls \in {"on", "off"}
  /\ body \in IF job = "parquet" THEN {<<>>} ELSE Bodies
  /\ job = "export" => \A i \in 1 .. Len(body) : Size(i) > 0
  /\ stream = "none" /\ at = "tcp_connect" /\ result = "none"
  /\ clock = 0 /\ deadline = SetupBound
  /\ statement = "unsent" /\ exasol = "quiet" /\ request = NoRequest /\ asked = <<>>
  /\ wire = <<>> /\ piece = <<>> /\ sink = <<>> /\ receiver = "open" /\ got = <<>>
  /\ answer = <<>> /\ begun = <<>> /\ left = 0 /\ next = 0
  /\ file = FileLen

Connects   == TcpConnected \/ ExaHandshaken \/ ConnectFails
Handshakes == OpenStream \/ TlsDone \/ TlsFails
Serves     == RequestEnds \/ TakePut \/ ReadSize \/ ReadPiece \/ HandPiece \/ ChunkEnds \/ BodyBroken
              \/ Reply \/ TakeGet \/ WriteChunkedBody \/ WriteFinalChunk \/ WriteBroken
              \/ TakeParquetRequest \/ ServePiece
Exasol     == ExasolStarts \/ ExasolRequests \/ ExasolCloses

Next ==
  \/ Connects \/ Handshakes \/ Serves \/ Exasol
  \/ SendStatement \/ ConsumerTakes \/ Tick
  \/ AbandonHandshake \/ Shutdown \/ SourceFails \/ FileShrinks \/ ConsumerDrops \/ PeerFails

Spec == Init /\ [][Next]_vars

\* The runtime polls the client and its timers, the caller sends the statement
\* and serves the tunnel, the consumer takes what there is, and Exasol, unless
\* it fell silent, goes on.
Fairness ==
  /\ WF_vars(Connects) /\ WF_vars(Handshakes) /\ WF_vars(Serves) /\ WF_vars(Exasol)
  /\ WF_vars(SendStatement) /\ WF_vars(ConsumerTakes)
  /\ WF_vars(Tick)

FairSpec == Spec /\ Fairness

-----------------------------------------------------------------------------
(* Properties.                                                             *)

\* connect() and the TLS handshake of the first read or write end, although
\* Exasol may accept the connection and then stay silent.
SetupReturns == (InSetup \/ at = "tls_handshake") ~> ~(InSetup \/ at = "tls_handshake")

\* Nobody waits for the other: while the client is in a timed step and Exasol
\* keeps talking, someone can move before the timer ends the step.  Exasol begins
\* TLS only when it has the statement, which is sent when connect() has returned.
MutualWait ==
  /\ InSetup \/ at = "tls_handshake"
  /\ Responsive /\ clock < deadline
  /\ ~ENABLED (Connects \/ Handshakes \/ Exasol \/ SendStatement)

\* With an Exasol that keeps talking, and in no time at all, every conversation ends.
HealthyTunnelEnds == [](clock = 0 /\ Responsive) => <>(at = "ended")

\* No tunnel hangs for lack of an order between the two sides: its setup ends with any
\* Exasol, and not only by its timer with one that keeps talking, whose conversation
\* ends as well.
TunnelEnds == SetupReturns /\ []~MutualWait /\ HealthyTunnelEnds

\* s holds the bytes that follow the first p of the body.
Follows(s, p) == s = Bytes(p + 1, Len(s))

\* How far the consumer gets with the first i pieces in the channel.
Reached(i) == IF i = 0 THEN Len(got) ELSE sink[i][Len(sink[i])][2]

\* The consumer of an export gets the bytes of the body in order, without the
\* framing; 200 OK is written only when the whole body was read, and a consumer
\* that did not leave then has or will have all of it.
ExportForwardsBody ==
  job = "export" =>
    /\ Follows(got, 0)
    /\ \A i \in 1 .. Len(sink) : sink[i] # <<>> /\ Follows(sink[i], Reached(i - 1))
    /\ receiver = "open" => Follows(piece, Reached(Len(sink))) /\ Reached(Len(sink)) + Len(piece) <= Total
    /\ receiver = "dropped" => sink = <<>> /\ Len(got) <= Total
    /\ answer # <<>> => wire = <<>>
    /\ result = "ok" /\ receiver = "open" => Reached(Len(sink)) = Total

\* Bytes of the body in the chunks before the one at k; the header comes first.
DecodedBefore(k) == IF k = 2 THEN 0 ELSE answer[k - 2][2]

\* The chunk at k: its size, as many bytes, which follow those before, and an end of line.
ChunkAt(k) ==
  LET n == answer[k][2] IN
  /\ answer[k][1] = "size"
  /\ k + n + 1 <= Len(answer)
  /\ \A j \in 1 .. n : answer[k + j] = <<"byte", DecodedBefore(k) + j>>
  /\ DecodedBefore(k) + n <= Total
  /\ answer[k + n + 1] = <<"crlf", 0>>

\* Exasol, which decodes chunk after chunk, gets the bytes of an import in order, and
\* sees their end exactly when everything was written: a part without bytes does not
\* end the body early, and a source that fails leaves it open.
ImportBodyWhole ==
  job = "import" =>
    /\ Len(answer) > 1 => ChunkAt(2)
    /\ \A k \in 2 .. Len(answer) - 1 : answer[k] = <<"crlf", 0>> => ChunkAt(k + 1)
    /\ \A k \in 2 .. Len(answer) : answer[k] = <<"size", 0>> <=> (result = "ok" /\ k = Len(answer) - 1)
    /\ result = "ok" => Len(answer) > 2 /\ DecodedBefore(Len(answer) - 1) = Total

\* The answer HTTP asks for: the bytes of the file that the range names.
Expected(r) ==
  LET inRange == {i \in 0 .. FileLen - 1 : r.from <= i /\ i <= r.to} IN
  CASE r.method = "HEAD" -> <<<<"200", FileLen>>>>
    [] r.method = "GET" /\ r.coding = "none" -> <<<<"200", FileLen>>>> \o Bytes(0, FileLen)
    [] r.method = "GET" /\ r.coding = "range" /\ inRange # {} ->
         <<<<"206", Cardinality(inRange)>>>> \o Bytes(r.from, Cardinality(inRange))
    [] r.method = "GET" /\ (r.coding = "bad_range" \/ (r.coding = "range" /\ inRange = {})) -> <<<<"400", 0 - 1>>>>
    [] r.method = "PUT" -> <<<<"405", 0 - 1>>>>
    [] OTHER            -> <<>>

\* How many tokens the i-th answer has so far.
ReplyLen(i) == (IF i = Len(begun) THEN Len(answer) ELSE begun[i + 1]) - begun[i]

\* Every request for the Parquet file is answered by the bytes it names and by as
\* many as were announced, one answer after the other; a file that became
\* shorter ends the conversation with an error in the middle of an answer.
RangeAnswersExact ==
  job = "parquet" =>
    /\ IF begun = <<>> THEN answer = <<>> ELSE begun[1] = 0
    /\ \A i \in 1 .. Len(begun) :
         /\ ReplyLen(i) \in 1 .. Len(Expected(asked[i]))
         /\ \A j \in 1 .. ReplyLen(i) : answer[begun[i] + j] = Expected(asked[i])[j]
         /\ i < Len(begun) \/ at = "request" \/ result = "ok" => ReplyLen(i) = Len(Expected(asked[i]))
    /\ result = "ok" \/ (at = "request" /\ request = NoRequest) =>
         \A i \in Len(begun) + 1 .. Len(asked) : Expected(asked[i]) = <<>>

\* Whatever a tunnel is used for, its bodies are the bytes of their source, framed so that
\* the reader knows where they end.
BodiesWhole == ExportForwardsBody /\ ImportBodyWhole /\ RangeAnswersExact

\* A tunnel whose TLS handshake was abandoned carries nothing
\* any more: no second handshake begins on its socket and no HTTP passes.
ClosedCarriesNothing ==
  [](at = "tls_handshake" => [](at = "idle" => [](at \in {"idle", "ended"} /\ answer = <<>>)))
=============================================================================
