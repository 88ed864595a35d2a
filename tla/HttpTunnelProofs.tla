-------------------------- MODULE HttpTunnelProofs --------------------------
(***************************************************************************)
(* What a tunnel carries, for bodies of any number of chunks and parts,    *)
(* pieces of any size, a channel of any capacity, files of any length and  *)
(* any number of requests.                                                 *)
(*                                                                         *)
(* ExportInv says where in the body the client is and what the wire holds  *)
(* from there on; ImportInv what the chunks written so far decode to;      *)
(* ParquetInv how much of the current answer is written.                   *)
(***************************************************************************)
EXTENDS HttpTunnel, FiniteSetTheorems, SequenceTheorems, WellFoundedInduction, TLAPS

Early   == {"tcp_connect", "exa_handshake", "idle", "tls_handshake"}
Reading == {"size", "body", "handing", "last_crlf", "reply"}
Token   == {"size", "byte", "crlf", "chunked", "200", "206", "400", "405"} \X Int
Request == [method : {"none", "GET", "PUT", "HEAD", "garbage"},
            coding : {"none", "chunked", "sized", "range", "bad_range"}, from : Nat, to : Nat]

\* What the variables may hold.
TypeOK ==
  /\ job \in {"export", "import", "parquet"} /\ tls \in {"on", "off"}
  /\ body \in Bodies \cup {<<>>}
  /\ stream \in {"none", "TlsHandshakePending", "Open", "Closed"}
  /\ at \in Early \cup Reading \cup {"request", "writing", "span", "ended"}
  /\ result \in {"none", "ok", "err"}
  /\ exasol \in {"quiet", "hello", "talking", "closed", "gone", "silent"}
  /\ request \in Request /\ asked \in Seq(Request)
  /\ wire \in Seq(Token) /\ piece \in Seq(Token) /\ got \in Seq(Token)
  /\ sink \in Seq(Seq(Token)) /\ receiver \in {"open", "dropped"}
  /\ answer \in Seq(Token) /\ begun \in Seq(Nat)
  /\ left \in Int /\ next \in Nat /\ file \in Nat

\* Each conversation has its own states, and its result at its end.
StageInv ==
  /\ at \in Reading => job = "export"
  /\ at = "writing" => job = "import"
  /\ at = "span" => job = "parquet"
  /\ at = "ended" <=> result # "none"
  /\ at \in Early => answer = <<>>
  /\ at \in Early \cup {"request"} /\ job # "parquet" => answer = <<>>
  /\ asked = <<>> => request = NoRequest

\* After the first p tokens of a chunked body the wire holds the next ones.
ChunksFrom(p) ==
  LET n == Before(Len(body) + 1) IN
  /\ p + Len(wire) <= n + 2
  /\ \A j \in 1 .. Len(wire) :
       /\ p + j <= n => wire[j] = ChunkOnWire(p + j)
       /\ p + j = n + 1 => wire[j] \in {<<"size", 0>>, <<"size", 0 - 1>>}

\* The same of a body with a length.
BytesFrom(p) == p + Len(wire) <= Total /\ \A j \in 1 .. Len(wire) : wire[j] = <<"byte", p + j>>

\* The client has read n bytes of the body, and the wire goes on from there.
HasRead(n) ==
  \/ /\ at = "size" /\ Chunked
     /\ \E c \in 1 .. Len(body) + 1 : n = Start(c) /\ ChunksFrom(Before(c))
  \/ /\ at \in {"body", "handing"} /\ Chunked
     /\ \E c \in 1 .. Len(body) :
          left \in 0 .. Size(c) /\ n = body[c] - left /\ ChunksFrom(Before(c + 1) - 1 - left)
  \/ /\ at \in {"body", "handing"} /\ ~Chunked
     /\ left \in 0 .. Total /\ n = Total - left /\ BytesFrom(n)
  \/ at = "last_crlf" /\ Chunked /\ left = 0 /\ n = Total /\ ChunksFrom(Before(Len(body) + 1) + 1)
  \/ at = "reply" /\ n = Total /\ wire = <<>>

\* Everything that was read and not lost to a consumer that left is on its way to it.
OnItsWay(n) == receiver = "open" => Reached(Len(sink)) + Len(piece) = n

\* An export, from the request on.
ExportInv ==
  job = "export" =>
    /\ ExportForwardsBody
    /\ \A c \in 1 .. Len(body) : Size(c) > 0
    /\ \A i \in 0 .. Len(sink) : Reached(i) \in 0 .. Total
    /\ at \in Reading => asked # <<>> /\ \E n \in 0 .. Total : HasRead(n) /\ OnItsWay(n)
    /\ at \in Early \cup {"request"} =>
         /\ got = <<>> /\ sink = <<>>
         /\ asked # <<>> /\ request # NoRequest =>
              /\ request = asked[1]
              /\ request.method = "PUT" /\ request.coding = "chunked" => ChunksFrom(0)
              /\ request.method = "PUT" /\ request.coding # "chunked" => BytesFrom(0)
    /\ at = "handing" <=> piece # <<>>
    /\ answer # <<>> => result = "ok"
    /\ result = "ok" => asked # <<>>

\* An import: what was written decodes to the parts before the next one.
ImportInv ==
  job = "import" =>
    /\ ImportBodyWhole
    /\ \A k \in 1 .. Len(answer) : answer[k][2] \in Nat
    /\ at = "writing" =>
         /\ next \in 1 .. Len(body) + 1
         /\ answer # <<>>
         /\ Len(answer) > 1 => Len(answer) > 3 /\ answer[Len(answer)] = <<"crlf", 0>>
         /\ DecodedBefore(Len(answer) + 1) = Start(next)

\* A Parquet file: the requests that were read have answers, the last one maybe a part.
ParquetInv ==
  job = "parquet" =>
    /\ RangeAnswersExact
    /\ \A i \in 1 .. Len(begun) : begun[i] <= Len(answer)
    /\ \A i \in 1 .. Len(asked) : asked[i] \in Requests
    /\ Len(asked) = Len(begun) + (IF request = NoRequest THEN 0 ELSE 1)
    /\ request # NoRequest => request = asked[Len(asked)]
    /\ at \in Early => begun = <<>>
    /\ result = "ok" => request # NoRequest \/ exasol \in {"closed", "gone"}
    /\ at = "span" =>
         LET i == Len(begun)
             m == Len(Expected(asked[i])) - left IN
         /\ i > 0 /\ left >= 0 /\ ReplyLen(i) = m
         /\ \A j \in 1 .. left : Expected(asked[i])[m + j] = <<"byte", next + j - 1>>

\* The inductive invariant.
TunnelInv == TypeOK /\ StageInv /\ ExportInv /\ ImportInv /\ ParquetInv

-----------------------------------------------------------------------------
(* Bodies                                                                  *)

\* A body is a sequence of offsets that do not decrease.
LEMMA BodyFacts ==
  ASSUME TypeOK
  PROVE  /\ body \in Seq(Nat) /\ Len(body) \in Nat
         /\ \A i, j \in 1 .. Len(body) : i <= j => body[i] <= body[j]
<1>1. CASE body \in Bodies
  BY <1>1, HttpTunnelAssumption
<1>2. CASE body = <<>>
  BY <1>2
<1>. QED BY <1>1, <1>2 DEF TypeOK

\* Where the chunks begin, in bytes and in tokens.
LEMMA StartFacts ==
  ASSUME TypeOK
  PROVE  /\ \A c \in 1 .. Len(body) + 1 : Start(c) \in Nat /\ Start(c) <= Total /\ Before(c) \in Nat
         /\ \A c \in 1 .. Len(body) :
              /\ body[c] \in Nat /\ Start(c + 1) = body[c] /\ Size(c) = body[c] - Start(c)
              /\ Size(c) \in Nat /\ Before(c + 1) = Before(c) + Size(c) + 2
         /\ \A c, d \in 1 .. Len(body) + 1 : c <= d => Before(c) <= Before(d)
         /\ Total \in Nat /\ Total = Start(Len(body) + 1) /\ Before(1) = 0 /\ Start(1) = 0
<1>. USE BodyFacts
<1>1. \A c \in 1 .. Len(body) + 1 : Start(c) \in Nat
  BY DEF Start
<1>2. Total \in Nat /\ Total = Start(Len(body) + 1)
  BY <1>1 DEF Total
<1>3. \A c, d \in 1 .. Len(body) + 1 : c <= d => Start(c) <= Start(d)
  <2>. SUFFICES ASSUME NEW c \in 1 .. Len(body) + 1, NEW d \in 1 .. Len(body) + 1, c <= d
                PROVE  Start(c) <= Start(d)
    OBVIOUS
  <2>1. CASE c = 1
    BY <1>1, <2>1 DEF Start
  <2>2. CASE c > 1
    <3>1. c - 1 \in 1 .. Len(body) /\ d - 1 \in 1 .. Len(body) /\ c - 1 <= d - 1
      BY <2>2
    <3>2. body[c - 1] <= body[d - 1]
      BY <3>1
    <3>. QED BY <2>2, <3>2 DEF Start
  <2>. QED BY <2>1, <2>2
<1>4. \A c \in 1 .. Len(body) + 1 : Start(c) <= Total /\ Before(c) \in Nat
  BY <1>1, <1>2, <1>3 DEF Before
<1>5. \A c \in 1 .. Len(body) : body[c] \in Nat /\ Start(c + 1) = body[c] /\ Size(c) = body[c] - Start(c)
  BY DEF Start, Size
<1>6. ASSUME NEW c \in 1 .. Len(body)
      PROVE  Size(c) \in Nat /\ Before(c + 1) = Before(c) + Size(c) + 2
  <2>1. c \in 1 .. Len(body) + 1 /\ c + 1 \in 1 .. Len(body) + 1 /\ c <= c + 1 /\ c \in Nat
    OBVIOUS
  <2>2. Start(c) \in Nat /\ Start(c + 1) \in Nat /\ Start(c) <= Start(c + 1)
    BY <2>1, <1>1, <1>3
  <2>3. Start(c + 1) = body[c] /\ Size(c) = body[c] - Start(c)
    BY <1>5
  <2>4. Before(c) = Start(c) + 2 * (c - 1) /\ Before(c + 1) = Start(c + 1) + 2 * c
    BY <2>1 DEF Before
  <2>. HIDE DEF Before, Start, Size
  <2>5. PICK a \in Nat, b \in Nat : a = Start(c) /\ b = Start(c + 1)
    BY <2>2
  <2>6. a <= b /\ Size(c) = b - a /\ Before(c) = a + 2 * (c - 1) /\ Before(c + 1) = b + 2 * c
    BY <2>2, <2>3, <2>4, <2>5
  <2>7. b - a \in Nat /\ b + 2 * c = (a + 2 * (c - 1)) + (b - a) + 2
    BY <2>1, <2>6
  <2>. QED BY <2>6, <2>7
<1>7. ASSUME NEW c \in 1 .. Len(body) + 1, NEW d \in 1 .. Len(body) + 1, c <= d
      PROVE  Before(c) <= Before(d)
  <2>1. Start(c) \in Nat /\ Start(d) \in Nat /\ Start(c) <= Start(d)
    BY <1>1, <1>3, <1>7
  <2>. QED BY <2>1, <1>7 DEF Before
<1>8. Start(1) = 0 /\ Before(1) = 0
  BY DEF Start, Before
<1>. QED BY <1>1, <1>2, <1>4, <1>5, <1>6, <1>7, <1>8

\* What a token of chunk c is.
LEMMA ChunkTokens ==
  ASSUME TypeOK, NEW c \in 1 .. Len(body), NEW k \in Nat, Before(c) < k, k <= Before(c + 1)
  PROVE  ChunkOnWire(k) = IF k = Before(c) + 1 THEN <<"size", Size(c)>>
                          ELSE IF k = Before(c + 1) THEN <<"crlf", 0>>
                          ELSE <<"byte", k - 2 * c + 1>>
<1>1. \A j \in 1 .. Len(body) : Before(j) < k /\ k <= Before(j + 1) => j = c
  <2>. SUFFICES ASSUME NEW j \in 1 .. Len(body), Before(j) < k, k <= Before(j + 1), j # c
                PROVE  FALSE
    OBVIOUS
  <2>1. Len(body) \in Nat
    BY BodyFacts
  <2>2. {c, j, c + 1, j + 1} \subseteq 1 .. Len(body) + 1
    BY <2>1
  <2>3. /\ Before(c) \in Nat /\ Before(j) \in Nat /\ Before(c + 1) \in Nat /\ Before(j + 1) \in Nat
        /\ c + 1 <= j => Before(c + 1) <= Before(j)
        /\ j + 1 <= c => Before(j + 1) <= Before(c)
    BY <2>2, StartFacts
  <2>. QED BY <2>1, <2>3
<1>2. (CHOOSE j \in 1 .. Len(body) : Before(j) < k /\ k <= Before(j + 1)) = c
  BY <1>1
<1>. QED BY <1>2 DEF ChunkOnWire

\* The bytes of a run.
LEMMA BytesFacts ==
  ASSUME NEW from \in Int, NEW n \in Nat
  PROVE  /\ Bytes(from, n) \in Seq(Token) /\ Len(Bytes(from, n)) = n
         /\ \A i \in 1 .. n : Bytes(from, n)[i] = <<"byte", from + i - 1>>
<1>1. \A i \in 1 .. n : <<"byte", from + i - 1>> \in Token
  BY DEF Token
<1>. QED BY <1>1 DEF Bytes

\* One run of tokens after another.
LEMMA Joined ==
  ASSUME NEW s \in Seq(Token), NEW t \in Seq(Token)
  PROVE  /\ s \o t \in Seq(Token) /\ Len(s \o t) = Len(s) + Len(t)
         /\ \A i \in 1 .. Len(s) + Len(t) : (s \o t)[i] = IF i <= Len(s) THEN s[i] ELSE t[i - Len(s)]
BY ConcatProperties

\* A chunk is its size, its data and an end of line.
LEMMA Encoded ==
  ASSUME NEW d \in Seq(Token)
  PROVE  /\ EncodeChunk(d) \in Seq(Token) /\ Len(EncodeChunk(d)) = Len(d) + 2
         /\ EncodeChunk(d)[1] = <<"size", Len(d)>> /\ EncodeChunk(d)[Len(d) + 2] = <<"crlf", 0>>
         /\ \A j \in 1 .. Len(d) : EncodeChunk(d)[1 + j] = d[j]
<1>. DEFINE a == <<<<"size", Len(d)>>>>
            b == <<<<"crlf", 0>>>>
<1>1. /\ a \in Seq(Token) /\ Len(a) = 1 /\ a[1] = <<"size", Len(d)>>
      /\ b \in Seq(Token) /\ Len(b) = 1 /\ b[1] = <<"crlf", 0>>
  BY DEF Token
<1>2. EncodeChunk(d) = a \o d \o b /\ Len(d) \in Nat
  BY DEF EncodeChunk
<1>. DEFINE c == a \o d
            e == c \o b
<1>. HIDE DEF a, b
<1>3. /\ c \in Seq(Token) /\ Len(c) = Len(a) + Len(d)
      /\ \A i \in 1 .. Len(a) + Len(d) : c[i] = IF i <= Len(a) THEN a[i] ELSE d[i - Len(a)]
  BY <1>1, Joined
<1>. HIDE DEF c
<1>4. /\ e \in Seq(Token) /\ Len(e) = Len(c) + Len(b)
      /\ \A i \in 1 .. Len(c) + Len(b) : e[i] = IF i <= Len(c) THEN c[i] ELSE b[i - Len(c)]
  BY <1>1, <1>3, Joined
<1>5. EncodeChunk(d) = e
  BY <1>2 DEF c
<1>. HIDE DEF e
<1>6. Len(c) = 1 + Len(d) /\ Len(e) = Len(d) + 2
  BY <1>1, <1>2, <1>3, <1>4
<1>7. e[1] = <<"size", Len(d)>> /\ e[Len(d) + 2] = <<"crlf", 0>>
  <2>1. c[1] = a[1]
    BY <1>1, <1>2, <1>3
  <2>2. e[1] = c[1]
    BY <1>1, <1>2, <1>4, <1>6
  <2>3. Len(d) + 2 \in 1 .. Len(c) + Len(b) /\ ~(Len(d) + 2 <= Len(c)) /\ Len(d) + 2 - Len(c) = 1
    BY <1>1, <1>2, <1>6
  <2>4. e[Len(d) + 2] = b[1]
    BY <1>4, <2>3
  <2>. QED BY <1>1, <2>1, <2>2, <2>4
<1>8. \A j \in 1 .. Len(d) : e[1 + j] = d[j]
  BY <1>1, <1>2, <1>3, <1>4, <1>6
<1>. QED BY <1>4, <1>5, <1>6, <1>7, <1>8

\* A run of bytes that follows the first p, byte by byte.
LEMMA FollowsIff ==
  ASSUME NEW s \in Seq(Token), NEW p \in Int
  PROVE  Follows(s, p) <=> \A i \in 1 .. Len(s) : s[i] = <<"byte", p + i>>
<1>1. Len(s) \in Nat /\ s = [i \in 1 .. Len(s) |-> s[i]]
  OBVIOUS
<1>2. Bytes(p + 1, Len(s)) = [i \in 1 .. Len(s) |-> <<"byte", p + i>>]
  <2>1. \A i \in 1 .. Len(s) : (p + 1) + i - 1 = p + i
    BY <1>1
  <2>. QED BY <2>1 DEF Bytes
<1>. QED BY <1>1, <1>2 DEF Follows

\* The body does not change, and with it where its parts are.
LEMMA SameBody ==
  ASSUME body' = body
  PROVE  /\ \A c : Start(c)' = Start(c) /\ Size(c)' = Size(c) /\ Before(c)' = Before(c)
         /\ Total' = Total
         /\ \A k : ChunkOnWire(k)' = ChunkOnWire(k)
<1>1. \A c : Start(c)' = Start(c) /\ Size(c)' = Size(c) /\ Before(c)' = Before(c)
  BY DEF Start, Size, Before
<1>2. Total' = Total
  BY DEF Total, Start
<1>3. ASSUME NEW k PROVE ChunkOnWire(k)' = ChunkOnWire(k)
  BY DEF ChunkOnWire, Start, Size, Before
<1>. QED BY <1>1, <1>2, <1>3

-----------------------------------------------------------------------------
(* Steps that touch no body                                                *)

\* The client stays, comes nearer to its first request, or gives up.
Passes ==
  \/ at' = at /\ result' = result
  \/ at \in Early /\ at' \in Early \cup {"request"} /\ result' = result
  \/ at \notin {"handing", "ended"} /\ at' = "ended" /\ result' = "err"

\* What the consumer was forwarded is the same.
LEMMA ForwardKept ==
  ASSUME ExportForwardsBody, UNCHANGED <<choices, exportVars, answer>>,
         result' = "ok" => result = "ok"
  PROVE  ExportForwardsBody'
<1>1. Total' = Total
  BY SameBody DEF choices
<1>. QED BY <1>1 DEF ExportForwardsBody, Follows, Reached, Bytes, choices, exportVars

\* The wire that the client has before it is the same.
LEMMA WireKept ==
  ASSUME body' = body, wire' = wire
  PROVE  \A p : (ChunksFrom(p)' <=> ChunksFrom(p)) /\ (BytesFrom(p)' <=> BytesFrom(p))
<1>1. Before(Len(body) + 1)' = Before(Len(body) + 1) /\ Total' = Total
      /\ \A k : ChunkOnWire(k)' = ChunkOnWire(k)
  BY SameBody DEF Before, Start
<1>2. ASSUME NEW p PROVE ChunksFrom(p)' <=> ChunksFrom(p)
  BY <1>1 DEF ChunksFrom
<1>3. ASSUME NEW p PROVE BytesFrom(p)' <=> BytesFrom(p)
  BY <1>1 DEF BytesFrom
<1>. QED BY <1>2, <1>3

\* Where the client is in the body is the same.
LEMMA ReadKept ==
  ASSUME UNCHANGED <<body, wire, left, asked, at>>
  PROVE  \A n : HasRead(n)' <=> HasRead(n)
<1>1. \A p : (ChunksFrom(p)' <=> ChunksFrom(p)) /\ (BytesFrom(p)' <=> BytesFrom(p))
  BY WireKept
<1>2. Total' = Total /\ \A c : Start(c)' = Start(c) /\ Size(c)' = Size(c) /\ Before(c)' = Before(c)
  BY SameBody
<1>3. Chunked' = Chunked
  BY DEF Chunked
<1>4. ASSUME NEW n PROVE HasRead(n)' <=> HasRead(n)
  BY <1>1, <1>2, <1>3 DEF HasRead
<1>. QED BY <1>4

\* A step that passes keeps what is known of an export.
LEMMA ExportPasses ==
  ASSUME TunnelInv, Passes, UNCHANGED <<choices, asked, request, exportVars, answer, left>>
  PROVE  ExportInv'
<1>. SUFFICES ASSUME job = "export" PROVE ExportInv'
  BY DEF ExportInv, choices
<1>1. /\ UNCHANGED <<body, job, asked, request, wire, piece, sink, receiver, got, answer, left>>
      /\ ExportInv /\ ExportForwardsBody /\ StageInv
  BY DEF choices, exportVars, TunnelInv, ExportInv
<1>2. result' = "ok" => result = "ok"
  BY DEF Passes
<1>3. ExportForwardsBody'
  BY <1>1, <1>2, ForwardKept
<1>4. (\A c \in 1 .. Len(body) : Size(c) > 0)' /\ (\A i \in 0 .. Len(sink) : Reached(i) \in 0 .. Total)'
  BY <1>1, SameBody DEF ExportInv, Reached
<1>5. at' \in Reading => asked' # <<>> /\ (\E n \in 0 .. Total : HasRead(n) /\ OnItsWay(n))'
  <2>. SUFFICES ASSUME at' \in Reading
                PROVE  asked' # <<>> /\ (\E n \in 0 .. Total : HasRead(n) /\ OnItsWay(n))'
    OBVIOUS
  <2>1. at' = at
    BY DEF Passes, Reading, Early
  <2>2. \A n : HasRead(n)' <=> HasRead(n)
    BY <1>1, <2>1, ReadKept
  <2>3. \A n : OnItsWay(n)' <=> OnItsWay(n)
    BY <1>1 DEF OnItsWay, Reached
  <2>. QED BY <1>1, <2>1, <2>2, <2>3, SameBody DEF ExportInv
<1>6. at' \in Early \cup {"request"} => at \in Early \cup {"request"}
  BY DEF Passes, Early
<1>7. \A p : (ChunksFrom(p)' <=> ChunksFrom(p)) /\ (BytesFrom(p)' <=> BytesFrom(p))
  BY <1>1, WireKept
<1>8. /\ at' = "handing" <=> piece' # <<>>
      /\ answer' # <<>> => result' = "ok"
      /\ result' = "ok" => asked' # <<>>
  BY <1>1 DEF ExportInv, StageInv, Passes, Early
<1>. QED BY <1>1, <1>3, <1>4, <1>5, <1>6, <1>7, <1>8 DEF ExportInv

\* A step that passes keeps what is known of an import.
LEMMA ImportPasses ==
  ASSUME TunnelInv, Passes, UNCHANGED <<choices, answer, next>>
  PROVE  ImportInv'
<1>. SUFFICES ASSUME job = "import" PROVE ImportInv'
  BY DEF ImportInv, choices
<1>1. UNCHANGED <<body, job, answer, next>> /\ ImportInv /\ ImportBodyWhole /\ StageInv
  BY DEF choices, TunnelInv, ImportInv
<1>2. Total' = Total /\ \A c : Start(c)' = Start(c)
  BY <1>1, SameBody
<1>3. (result' = "ok") = (result = "ok")
  BY <1>1 DEF Passes, StageInv
<1>4. \A k : (ChunkAt(k)' <=> ChunkAt(k)) /\ DecodedBefore(k)' = DecodedBefore(k)
  BY <1>1, <1>2 DEF ChunkAt, DecodedBefore
<1>5. ImportBodyWhole'
  BY <1>1, <1>2, <1>3, <1>4 DEF ImportBodyWhole
<1>6. at' = "writing" => at = "writing"
  BY DEF Passes, Early
<1>. QED BY <1>1, <1>2, <1>4, <1>5, <1>6 DEF ImportInv

\* A step that passes keeps what is known of a Parquet file.
LEMMA ParquetPasses ==
  ASSUME TunnelInv, Passes, UNCHANGED <<choices, asked, request, written, left, next>>,
         exasol \in {"closed", "gone"} => exasol' = exasol
  PROVE  ParquetInv'
<1>. SUFFICES ASSUME job = "parquet" PROVE ParquetInv'
  BY DEF ParquetInv, choices
<1>1. UNCHANGED <<job, asked, request, answer, begun, left, next>> /\ ParquetInv /\ RangeAnswersExact /\ StageInv
  BY DEF choices, TunnelInv, ParquetInv, written
<1>2. \A i : ReplyLen(i)' = ReplyLen(i)
  BY <1>1 DEF ReplyLen
<1>3. \A r : Expected(r)' = Expected(r)
  BY DEF Expected, Bytes
<1>4. Requests' = Requests
  BY <1>1 DEF Requests
<1>5. (result' = "ok") = (result = "ok")
  BY <1>1 DEF Passes, StageInv
<1>6. at' = "span" => at = "span"
  BY DEF Passes, Early
<1>7. at' \in Early => at \in Early
  BY DEF Passes, Early
<1>8. at' = "request" => at = "request" \/ begun = <<>>
  BY <1>1 DEF Passes, ParquetInv
<1>9. Len(begun) \in Nat /\ Len(asked) \in Nat /\ (request = NoRequest => Len(asked) = Len(begun))
  BY <1>1 DEF ParquetInv, TunnelInv, TypeOK
<1>10. RangeAnswersExact'
  <2>1. (IF begun = <<>> THEN answer = <<>> ELSE begun[1] = 0)'
    BY <1>1 DEF RangeAnswersExact
  <2>2. ASSUME NEW i \in 1 .. Len(begun)
        PROVE  /\ ReplyLen(i) \in 1 .. Len(Expected(asked[i]))
               /\ \A j \in 1 .. ReplyLen(i) : answer[begun[i] + j] = Expected(asked[i])[j]
               /\ i < Len(begun) \/ at' = "request" \/ result' = "ok" => ReplyLen(i) = Len(Expected(asked[i]))
    <3>1. begun # <<>>
      BY <1>9
    <3>. QED BY <1>1, <1>5, <1>8, <3>1 DEF RangeAnswersExact
  <2>3. result' = "ok" \/ (at' = "request" /\ request' = NoRequest) =>
          \A i \in Len(begun) + 1 .. Len(asked) : Expected(asked[i]) = <<>>
    BY <1>1, <1>5, <1>9 DEF RangeAnswersExact
  <2>. QED BY <1>1, <1>2, <1>3, <2>1, <2>2, <2>3 DEF RangeAnswersExact
<1>11. /\ (\A i \in 1 .. Len(begun) : begun[i] <= Len(answer))'
       /\ (\A i \in 1 .. Len(asked) : asked[i] \in Requests)'
       /\ (Len(asked) = Len(begun) + (IF request = NoRequest THEN 0 ELSE 1))'
       /\ (request # NoRequest => request = asked[Len(asked)])'
       /\ (at \in Early => begun = <<>>)'
  BY <1>1, <1>4, <1>7 DEF ParquetInv
<1>12. (result = "ok" => request # NoRequest \/ exasol \in {"closed", "gone"})'
  BY <1>1, <1>5 DEF ParquetInv
<1>. QED BY <1>1, <1>2, <1>3, <1>6, <1>10, <1>11, <1>12 DEF ParquetInv

\* A step that passes keeps the invariant.
LEMMA PassesKeeps ==
  ASSUME TunnelInv, Passes, UNCHANGED <<choices, asked, request, exportVars, written, left, next>>,
         exasol \in {"closed", "gone"} => exasol' = exasol,
         stream' \in {"none", "TlsHandshakePending", "Open", "Closed"},
         exasol' \in {"quiet", "hello", "talking", "closed", "gone", "silent"},
         file' \in Nat
  PROVE  TunnelInv'
<1>1. TypeOK'
  <2>1. at' \in Early \cup Reading \cup {"request", "writing", "span", "ended"} /\ result' \in {"none", "ok", "err"}
    BY DEF TunnelInv, TypeOK, Passes
  <2>. QED BY <2>1 DEF TunnelInv, TypeOK, choices, exportVars, written
<1>2. StageInv'
  BY DEF TunnelInv, StageInv, Passes, choices, written, Early, Reading
<1>3. ExportInv' /\ ImportInv'
  BY ExportPasses, ImportPasses DEF written
<1>4. ParquetInv'
  BY ParquetPasses
<1>. QED BY <1>1, <1>2, <1>3, <1>4 DEF TunnelInv

\* Setting a tunnel up touches no body.
LEMMA SetupStep ==
  ASSUME TunnelInv, Connects \/ Handshakes \/ AbandonHandshake \/ Shutdown
  PROVE  TunnelInv'
<1>. USE DEF TunnelInv, TypeOK
<1>1. CASE TcpConnected
  <2>1. Passes
    BY <1>1 DEF TcpConnected, Passes, Early
  <2>. QED BY <1>1, <2>1, PassesKeeps DEF TcpConnected, peerVars, exportVars
<1>2. CASE ExaHandshaken
  <2>1. Passes
    BY <1>2 DEF ExaHandshaken, Passes, Early, Ended
  <2>2. stream' \in {"none", "TlsHandshakePending", "Open", "Closed"}
    BY <1>2 DEF ExaHandshaken
  <2>. QED BY <1>2, <2>1, <2>2, PassesKeeps DEF ExaHandshaken, peerVars
<1>3. CASE ConnectFails
  <2>1. Passes
    BY <1>3 DEF ConnectFails, Passes, Early, Ended, InSetup
  <2>. QED BY <1>3, <2>1, PassesKeeps DEF ConnectFails, peerVars
<1>4. CASE OpenStream
  <2>1. Passes
    BY <1>4 DEF OpenStream, Passes, Early, Ended
  <2>. QED BY <1>4, <2>1, PassesKeeps DEF OpenStream, peerVars
<1>5. CASE TlsDone
  <2>1. Passes
    BY <1>5 DEF TlsDone, Passes, Early
  <2>. QED BY <1>5, <2>1, PassesKeeps DEF TlsDone
<1>6. CASE TlsFails
  <2>1. Passes
    BY <1>6 DEF TlsFails, Passes, Early, Ended
  <2>. QED BY <1>6, <2>1, PassesKeeps DEF TlsFails, peerVars
<1>7. CASE AbandonHandshake
  <2>1. Passes
    BY <1>7 DEF AbandonHandshake, Passes, Early
  <2>. QED BY <1>7, <2>1, PassesKeeps DEF AbandonHandshake, peerVars
<1>8. CASE Shutdown
  <2>1. Passes
    BY <1>8 DEF Shutdown, Passes
  <2>. QED BY <1>8, <2>1, PassesKeeps DEF Shutdown, peerVars
<1>. QED BY <1>1, <1>2, <1>3, <1>4, <1>5, <1>6, <1>7, <1>8 DEF Connects, Handshakes

\* Neither do what breaks a conversation off, the statement, the clock, and the ends of Exasol.
LEMMA SideStep ==
  ASSUME TunnelInv,
         \/ BodyBroken \/ WriteBroken \/ SourceFails \/ FileShrinks
         \/ SendStatement \/ ExasolStarts \/ ExasolCloses \/ Tick
  PROVE  TunnelInv'
<1>. USE DEF TunnelInv, TypeOK
<1>1. CASE BodyBroken
  <2>1. Passes
    BY <1>1 DEF BodyBroken, Passes, Ended
  <2>. QED BY <1>1, <2>1, PassesKeeps DEF BodyBroken, peerVars
<1>2. CASE WriteBroken
  <2>1. Passes
    BY <1>2 DEF WriteBroken, Passes, Ended
  <2>. QED BY <1>2, <2>1, PassesKeeps DEF WriteBroken, peerVars
<1>3. CASE SourceFails
  <2>1. Passes
    BY <1>3 DEF SourceFails, Passes, Ended
  <2>. QED BY <1>3, <2>1, PassesKeeps DEF SourceFails, peerVars
<1>4. CASE FileShrinks
  <2>1. Passes /\ file' \in Nat
    BY <1>4 DEF FileShrinks, Passes, connVars
  <2>. QED BY <1>4, <2>1, PassesKeeps DEF FileShrinks, peerVars, connVars
<1>5. CASE SendStatement
  <2>1. Passes
    BY <1>5 DEF SendStatement, Passes, connVars
  <2>. QED BY <1>5, <2>1, PassesKeeps DEF SendStatement, connVars
<1>6. CASE ExasolStarts
  <2>1. Passes
    BY <1>6 DEF ExasolStarts, Passes, connVars
  <2>. QED BY <1>6, <2>1, PassesKeeps DEF ExasolStarts, connVars
<1>7. CASE ExasolCloses
  <2>1. Passes
    BY <1>7 DEF ExasolCloses, Passes, connVars
  <2>. QED BY <1>7, <2>1, PassesKeeps DEF ExasolCloses, connVars
<1>8. CASE Tick
  <2>1. Passes
    BY <1>8 DEF Tick, Passes, connVars
  <2>. QED BY <1>8, <2>1, PassesKeeps DEF Tick, connVars, peerVars
<1>. QED BY <1>1, <1>2, <1>3, <1>4, <1>5, <1>6, <1>7, <1>8

-----------------------------------------------------------------------------
(* The wire of an export                                                   *)

\* Reading m tokens moves the place in the body by m.
LEMMA WireMoves ==
  ASSUME TypeOK, body' = body, NEW m \in 0 .. Len(wire), wire' = SubSeq(wire, m + 1, Len(wire)), NEW p \in Nat
  PROVE  /\ wire' \in Seq(Token)
         /\ ChunksFrom(p) => ChunksFrom(p + m)'
         /\ BytesFrom(p) => BytesFrom(p + m)'
<1>1. wire \in Seq(Token) /\ Len(wire) \in Nat
  BY DEF TypeOK
<1>2. wire' \in Seq(Token) /\ Len(wire') = Len(wire) - m /\ \A j \in 1 .. Len(wire') : wire'[j] = wire[m + j]
  BY <1>1
<1>3. Before(Len(body) + 1)' = Before(Len(body) + 1) /\ Total' = Total
      /\ \A k : ChunkOnWire(k)' = ChunkOnWire(k)
  BY SameBody DEF Before, Start
<1>4. Before(Len(body) + 1) \in Nat /\ Total \in Nat
  <2>1. Len(body) + 1 \in 1 .. Len(body) + 1
    BY BodyFacts
  <2>. QED BY <2>1, StartFacts
<1>5. \A j \in 1 .. Len(wire') : m + j \in 1 .. Len(wire) /\ (p + m) + j = p + (m + j)
  BY <1>1, <1>2
<1>6. ASSUME ChunksFrom(p) PROVE ChunksFrom(p + m)'
  <2>. DEFINE n == Before(Len(body) + 1)
  <2>1. \A j \in 1 .. Len(wire) : /\ p + j <= n => wire[j] = ChunkOnWire(p + j)
                                  /\ p + j = n + 1 => wire[j] \in {<<"size", 0>>, <<"size", 0 - 1>>}
    BY <1>6 DEF ChunksFrom
  <2>2. p + Len(wire) <= n + 2
    BY <1>6 DEF ChunksFrom
  <2>3. (p + m) + Len(wire') <= n + 2
    <3>. DEFINE have == Len(wire)
                keep == Len(wire')
    <3>1. n \in Nat /\ have \in Nat /\ m \in 0 .. have /\ keep = have - m /\ p + have <= n + 2
      BY <1>1, <1>2, <1>4, <2>2
    <3>2. p \in Nat
      OBVIOUS
    <3>. HIDE DEF n, have, keep
    <3>3. (p + m) + keep <= n + 2
      BY <3>1, <3>2
    <3>. QED BY <3>3 DEF keep
  <2>4. ASSUME NEW j \in 1 .. Len(wire')
        PROVE  /\ (p + m) + j <= n => wire'[j] = ChunkOnWire((p + m) + j)
               /\ (p + m) + j = n + 1 => wire'[j] \in {<<"size", 0>>, <<"size", 0 - 1>>}
    <3>1. m + j \in 1 .. Len(wire) /\ (p + m) + j = p + (m + j) /\ wire'[j] = wire[m + j]
      BY <1>2, <1>5
    <3>2. /\ p + (m + j) <= n => wire[m + j] = ChunkOnWire(p + (m + j))
          /\ p + (m + j) = n + 1 => wire[m + j] \in {<<"size", 0>>, <<"size", 0 - 1>>}
      BY <2>1, <3>1
    <3>. HIDE DEF n
    <3>. QED BY <3>1, <3>2
  <2>. QED BY <1>3, <2>3, <2>4 DEF ChunksFrom
<1>7. ASSUME BytesFrom(p) PROVE BytesFrom(p + m)'
  <2>1. p + Len(wire) <= Total /\ \A j \in 1 .. Len(wire) : wire[j] = <<"byte", p + j>>
    BY <1>7 DEF BytesFrom
  <2>2. (p + m) + Len(wire') <= Total
    <3>. DEFINE have == Len(wire)
                keep == Len(wire')
    <3>1. Total \in Nat /\ have \in Nat /\ m \in 0 .. have /\ keep = have - m /\ p + have <= Total
      BY <1>1, <1>2, <1>4, <2>1
    <3>. HIDE DEF have, keep
    <3>2. (p + m) + keep <= Total
      BY <3>1
    <3>. QED BY <3>2 DEF keep
  <2>3. \A j \in 1 .. Len(wire') : wire'[j] = <<"byte", (p + m) + j>>
    <3>. TAKE j \in 1 .. Len(wire')
    <3>1. m + j \in 1 .. Len(wire) /\ (p + m) + j = p + (m + j) /\ wire'[j] = wire[m + j]
      BY <1>2, <1>5
    <3>. QED BY <2>1, <3>1
  <2>. QED BY <1>3, <2>2, <2>3 DEF BytesFrom
<1>. QED BY <1>2, <1>6, <1>7

\* What is lost at the end of the wire does not change what comes before.
LEMMA WireCut ==
  ASSUME TypeOK, body' = body, NEW m \in 0 .. Len(wire), wire' = SubSeq(wire, 1, m), NEW p \in Nat
  PROVE  /\ wire' \in Seq(Token) /\ Len(wire') = m
         /\ ChunksFrom(p) => ChunksFrom(p)'
         /\ BytesFrom(p) => BytesFrom(p)'
<1>1. wire \in Seq(Token) /\ Len(wire) \in Nat
  BY DEF TypeOK
<1>2. wire' \in Seq(Token) /\ Len(wire') = m /\ \A j \in 1 .. m : wire'[j] = wire[j]
  BY <1>1
<1>3. Before(Len(body) + 1)' = Before(Len(body) + 1) /\ Total' = Total
      /\ \A k : ChunkOnWire(k)' = ChunkOnWire(k)
  BY SameBody DEF Before, Start
<1>4. Before(Len(body) + 1) \in Nat /\ Total \in Nat
  <2>1. Len(body) + 1 \in 1 .. Len(body) + 1
    BY BodyFacts
  <2>. QED BY <2>1, StartFacts
<1>5. ASSUME ChunksFrom(p) PROVE ChunksFrom(p)'
  BY <1>1, <1>2, <1>3, <1>4, <1>5 DEF ChunksFrom
<1>6. ASSUME BytesFrom(p) PROVE BytesFrom(p)'
  BY <1>1, <1>2, <1>3, <1>4, <1>6 DEF BytesFrom
<1>. QED BY <1>2, <1>5, <1>6

\* Every set of numbers that is not empty has a least one.
LEMMA LeastNumber ==
  ASSUME NEW T \in SUBSET Nat, T # {}
  PROVE  \E m \in T : \A n \in T : m <= n
<1>. DEFINE R == OpToRel(<, Nat)
<1>1. IsWellFoundedOn(R, Nat)
  BY NatLessThanWellFounded
<1>2. \A x, y \in Nat : x < y => <<x, y>> \in R
  BY DEF OpToRel
<1>. HIDE DEF R
<1>3. PICK m \in T : \A n \in T : ~ (<<n, m>> \in R)
  BY <1>1, WFMin
<1>4. \A n \in T : m <= n
  <2>. TAKE n \in T
  <2>1. m \in Nat /\ n \in Nat
    OBVIOUS
  <2>2. ~ (n < m)
    BY <1>2, <1>3, <2>1
  <2>. QED BY <2>1, <2>2
<1>. QED BY <1>4

\* Every place of the chunks belongs to one of them, the first that ends behind it.
LEMMA ChunkTokenType ==
  ASSUME TypeOK, NEW k \in 1 .. Before(Len(body) + 1)
  PROVE  ChunkOnWire(k) \in Token
<1>1. Len(body) \in Nat /\ Before(Len(body) + 1) \in Nat /\ Before(1) = 0
  <2>1. Len(body) \in Nat /\ Len(body) + 1 \in 1 .. Len(body) + 1
    BY BodyFacts
  <2>. QED BY <2>1, StartFacts
<1>2. \A j \in 1 .. Len(body) + 1 : Before(j) \in Nat
  BY StartFacts
<1>3. Len(body) \in 1 .. Len(body)
  <2>1. Len(body) # 0
    BY <1>1
  <2>. QED BY <1>1, <2>1
<1>. DEFINE T == {j \in 1 .. Len(body) : k <= Before(j + 1)}
<1>4. T \in SUBSET Nat /\ Len(body) \in T
  BY <1>1, <1>3
<1>5. PICK c \in T : \A n \in T : c <= n
  <2>. HIDE DEF T
  <2>. QED BY <1>4, LeastNumber
<1>6. c \in 1 .. Len(body) /\ k <= Before(c + 1)
  OBVIOUS
<1>7. Before(c) < k
  <2>1. CASE c = 1
    BY <1>1, <2>1
  <2>2. CASE c > 1
    <3>1. c - 1 \in 1 .. Len(body) /\ (c - 1) + 1 = c /\ c \in 1 .. Len(body) + 1 /\ ~ (c <= c - 1)
      BY <1>1, <1>6, <2>2
    <3>2. c - 1 \notin T
      <4>. HIDE DEF T
      <4>. QED BY <1>5, <3>1
    <3>3. ~ (k <= Before(c))
      BY <3>1, <3>2
    <3>. QED BY <1>2, <3>1, <3>3
  <2>. QED BY <1>1, <1>6, <2>1, <2>2
<1>8. Size(c) \in Nat /\ c \in Nat
  BY <1>1, <1>6, StartFacts
<1>9. /\ <<"size", Size(c)>> \in Token /\ <<"crlf", 0>> \in Token /\ <<"byte", k - 2 * c + 1>> \in Token
  BY <1>1, <1>8 DEF Token
<1>. QED BY <1>1, <1>6, <1>7, <1>9, ChunkTokens

\* Exasol puts the chunks, or the bytes, of the body on the wire.
LEMMA WirePut ==
  ASSUME TypeOK, body' = body, NEW coding, wire' = BodyOnWire(coding)
  PROVE  /\ wire' \in Seq(Token)
         /\ coding \in {"chunked", "broken"} => ChunksFrom(0)'
         /\ coding \notin {"chunked", "broken"} => BytesFrom(0)'
<1>. DEFINE n == Before(Len(body) + 1)
            chunks == [k \in 1 .. n |-> ChunkOnWire(k)]
<1>1. n \in Nat /\ Total \in Nat
  <2>1. Len(body) + 1 \in 1 .. Len(body) + 1
    BY BodyFacts
  <2>. QED BY <2>1, StartFacts
<1>2. Before(Len(body) + 1)' = n /\ Total' = Total /\ \A k : ChunkOnWire(k)' = ChunkOnWire(k)
  BY SameBody DEF Before, Start
<1>3. \A k \in 1 .. n : ChunkOnWire(k) \in Token
  BY ChunkTokenType
<1>. HIDE DEF n
<1>4. chunks \in Seq(Token) /\ Len(chunks) = n /\ \A k \in 1 .. n : chunks[k] = ChunkOnWire(k)
  BY <1>1, <1>3
<1>. HIDE DEF chunks
<1>5. CASE coding = "chunked"
  <2>. DEFINE e == EncodeChunk(<<>>)
  <2>1. e \in Seq(Token) /\ Len(e) = 2 /\ e[1] = <<"size", 0>>
    <3>. DEFINE d == <<>>
    <3>1. d \in Seq(Token) /\ Len(d) = 0
      OBVIOUS
    <3>. HIDE DEF d
    <3>2. /\ EncodeChunk(d) \in Seq(Token) /\ Len(EncodeChunk(d)) = Len(d) + 2
          /\ EncodeChunk(d)[1] = <<"size", Len(d)>>
      BY <3>1, Encoded
    <3>3. EncodeChunk(d) \in Seq(Token) /\ Len(EncodeChunk(d)) = 2 /\ EncodeChunk(d)[1] = <<"size", 0>>
      BY <3>1, <3>2
    <3>. QED BY <3>3 DEF d
  <2>2. wire' = chunks \o e
    BY <1>5 DEF BodyOnWire, n, chunks
  <2>. HIDE DEF e
  <2>3. chunks \o e \in Seq(Token) /\ Len(chunks \o e) = Len(chunks) + Len(e)
        /\ \A j \in 1 .. Len(chunks) + Len(e) :
             (chunks \o e)[j] = IF j <= Len(chunks) THEN chunks[j] ELSE e[j - Len(chunks)]
    BY <1>4, <2>1, Joined
  <2>4. wire' \in Seq(Token) /\ Len(wire') = n + 2
        /\ \A j \in 1 .. n + 2 : wire'[j] = IF j <= n THEN ChunkOnWire(j) ELSE e[j - n]
    <3>. DEFINE w == chunks \o e
    <3>1. /\ w \in Seq(Token) /\ Len(w) = n + 2
          /\ \A j \in 1 .. n + 2 : w[j] = IF j <= n THEN chunks[j] ELSE e[j - n]
      BY <1>4, <2>1, <2>3
    <3>. HIDE DEF w
    <3>2. \A j \in 1 .. n + 2 : w[j] = IF j <= n THEN ChunkOnWire(j) ELSE e[j - n]
      BY <1>1, <1>4, <3>1
    <3>. QED BY <2>2, <3>1, <3>2 DEF w
  <2>5. ASSUME NEW j \in 1 .. Len(wire')
        PROVE  /\ 0 + j <= n => wire'[j] = ChunkOnWire(0 + j)
               /\ 0 + j = n + 1 => wire'[j] \in {<<"size", 0>>, <<"size", 0 - 1>>}
    <3>1. /\ j <= n => wire'[j] = ChunkOnWire(j)
          /\ j = n + 1 => wire'[j] = e[1]
      BY <1>1, <2>4
    <3>2. 0 + j = j
      BY <2>4
    <3>. QED BY <2>1, <3>1, <3>2
  <2>6. ChunksFrom(0)'
    BY <1>1, <1>2, <2>4, <2>5 DEF ChunksFrom
  <2>. QED BY <1>5, <2>4, <2>6
<1>6. CASE coding = "broken"
  <2>. DEFINE e == <<<<"size", 0 - 1>>>>
  <2>1. e \in Seq(Token) /\ Len(e) = 1 /\ e[1] = <<"size", 0 - 1>>
    BY DEF Token
  <2>2. wire' = chunks \o e
    BY <1>6 DEF BodyOnWire, n, chunks
  <2>. HIDE DEF e
  <2>3. chunks \o e \in Seq(Token) /\ Len(chunks \o e) = Len(chunks) + Len(e)
        /\ \A j \in 1 .. Len(chunks) + Len(e) :
             (chunks \o e)[j] = IF j <= Len(chunks) THEN chunks[j] ELSE e[j - Len(chunks)]
    BY <1>4, <2>1, Joined
  <2>4. wire' \in Seq(Token) /\ Len(wire') = n + 1
        /\ \A j \in 1 .. n + 1 : wire'[j] = IF j <= n THEN ChunkOnWire(j) ELSE e[j - n]
    <3>. DEFINE w == chunks \o e
    <3>1. /\ w \in Seq(Token) /\ Len(w) = n + 1
          /\ \A j \in 1 .. n + 1 : w[j] = IF j <= n THEN chunks[j] ELSE e[j - n]
      BY <1>4, <2>1, <2>3
    <3>. HIDE DEF w
    <3>2. \A j \in 1 .. n + 1 : w[j] = IF j <= n THEN ChunkOnWire(j) ELSE e[j - n]
      BY <1>1, <1>4, <3>1
    <3>. QED BY <2>2, <3>1, <3>2 DEF w
  <2>5. ASSUME NEW j \in 1 .. Len(wire')
        PROVE  /\ 0 + j <= n => wire'[j] = ChunkOnWire(0 + j)
               /\ 0 + j = n + 1 => wire'[j] \in {<<"size", 0>>, <<"size", 0 - 1>>}
    <3>1. /\ j <= n => wire'[j] = ChunkOnWire(j)
          /\ j = n + 1 => wire'[j] = e[1]
      BY <1>1, <2>4
    <3>2. 0 + j = j
      BY <2>4
    <3>. QED BY <2>1, <3>1, <3>2
  <2>6. ChunksFrom(0)'
    BY <1>1, <1>2, <2>4, <2>5 DEF ChunksFrom
  <2>. QED BY <1>6, <2>4, <2>6
<1>7. CASE coding \notin {"chunked", "broken"}
  <2>1. wire' = Bytes(1, Total)
    BY <1>7 DEF BodyOnWire
  <2>2. wire' \in Seq(Token) /\ Len(wire') = Total /\ \A i \in 1 .. Total : wire'[i] = <<"byte", 1 + i - 1>>
    <3>1. /\ Bytes(1, Total) \in Seq(Token) /\ Len(Bytes(1, Total)) = Total
          /\ \A i \in 1 .. Total : Bytes(1, Total)[i] = <<"byte", 1 + i - 1>>
      BY <1>1, BytesFacts
    <3>. QED BY <2>1, <3>1
  <2>3. BytesFrom(0)'
    BY <1>1, <1>2, <2>2 DEF BytesFrom
  <2>. QED BY <1>7, <2>2, <2>3
<1>. QED BY <1>5, <1>6, <1>7

-----------------------------------------------------------------------------
(* Steps of an export                                                      *)

\* What an export says nothing of.
LEMMA ExportOnly ==
  ASSUME job' = "export"
  PROVE  ImportInv' /\ ParquetInv'
BY DEF ImportInv, ParquetInv

\* The request that the client reads is the one that Exasol sent.
LEMMA RequestRead ==
  ASSUME TunnelInv, job = "export", at = "request", request.method \in {"GET", "PUT", "HEAD"}
  PROVE  /\ asked # <<>> /\ request = asked[1]
         /\ request.method = "PUT" /\ request.coding = "chunked" => ChunksFrom(0)
         /\ request.method = "PUT" /\ request.coding # "chunked" => BytesFrom(0)
<1>1. request # NoRequest
  BY DEF NoRequest
<1>2. asked # <<>>
  BY <1>1 DEF TunnelInv, StageInv
<1>. QED BY <1>1, <1>2 DEF TunnelInv, ExportInv

\* The client takes the request of an export.
LEMMA TakePutStep ==
  ASSUME TunnelInv, TakePut
  PROVE  TunnelInv'
<1>1. /\ at = "request" /\ job = "export" /\ request.method \in {"GET", "PUT", "HEAD"} /\ request' = NoRequest
      /\ UNCHANGED <<job, tls, body, stream, exasol, asked, wire, piece, sink, receiver, got, answer, begun, next, file>>
      /\ UNCHANGED <<choices, exportVars>>
  BY DEF TakePut, choices, exportVars, written
<1>2. TypeOK /\ StageInv /\ ExportInv /\ ExportForwardsBody /\ result = "none" /\ answer = <<>>
  BY <1>1 DEF TunnelInv, ExportInv, StageInv, TypeOK, Early
<1>3. /\ asked # <<>> /\ request = asked[1]
      /\ request.method = "PUT" /\ request.coding = "chunked" => ChunksFrom(0)
      /\ request.method = "PUT" /\ request.coding # "chunked" => BytesFrom(0)
  BY <1>1, RequestRead
<1>4. Total \in Nat /\ Before(1) = 0 /\ Start(1) = 0 /\ Len(body) \in Nat
  BY <1>2, StartFacts, BodyFacts
<1>5. Total' = Total /\ \A c : Start(c)' = Start(c) /\ Size(c)' = Size(c) /\ Before(c)' = Before(c)
  BY <1>1, SameBody
<1>6. \A p : (ChunksFrom(p)' <=> ChunksFrom(p)) /\ (BytesFrom(p)' <=> BytesFrom(p))
  BY <1>1, WireKept
<1>7. got = <<>> /\ sink = <<>> /\ piece = <<>>
  BY <1>1, <1>2 DEF ExportInv
<1>8. OnItsWay(0)'
  BY <1>1, <1>7 DEF OnItsWay, Reached
<1>9. /\ (\A c \in 1 .. Len(body) : Size(c) > 0)'
      /\ (\A i \in 0 .. Len(sink) : Reached(i) \in 0 .. Total)'
  BY <1>1, <1>2, <1>5 DEF ExportInv, Reached
<1>10. \/ /\ request.method = "PUT" /\ request.coding = "chunked"
          /\ at' = "size" /\ left' = 0 /\ result' = "none"
       \/ /\ request.method = "PUT" /\ request.coding # "chunked"
          /\ at' = "body" /\ left' = Total /\ result' = "none"
       \/ at' = "ended" /\ result' = "err" /\ left' = left
  BY <1>1, <1>2 DEF TakePut, Ended
<1>11. ExportForwardsBody'
  BY <1>1, <1>2, <1>10, ForwardKept
<1>12. NoRequest \in Request /\ left' \in Int
  BY <1>2, <1>4, <1>10 DEF NoRequest, Request, TypeOK
<1>13. TypeOK'
  BY <1>1, <1>2, <1>10, <1>12 DEF TypeOK, Reading
<1>14. StageInv'
  BY <1>1, <1>2, <1>3, <1>10 DEF StageInv, Reading, Early
<1>15. at' \in Reading => HasRead(0)'
  <2>1. CASE at' = "size" /\ request.method = "PUT" /\ request.coding = "chunked"
    <3>1. Chunked' /\ ChunksFrom(Before(1))' /\ 1 \in 1 .. Len(body) + 1
      BY <1>1, <1>3, <1>4, <1>5, <1>6, <2>1 DEF Chunked
    <3>. QED BY <1>1, <1>4, <1>5, <2>1, <3>1 DEF HasRead
  <2>2. CASE at' = "body" /\ left' = Total /\ request.method = "PUT" /\ request.coding # "chunked"
    <3>1. ~Chunked' /\ BytesFrom(0)' /\ Total \in 0 .. Total /\ 0 = Total - Total
      BY <1>1, <1>3, <1>4, <1>6, <2>2 DEF Chunked
    <3>. QED BY <1>1, <1>4, <1>5, <2>2, <3>1 DEF HasRead
  <2>. QED BY <1>10, <2>1, <2>2 DEF Reading
<1>16. at' \in Reading => asked' # <<>> /\ (\E n \in 0 .. Total : HasRead(n) /\ OnItsWay(n))'
  <2>1. 0 \in 0 .. Total'
    BY <1>4, <1>5
  <2>. QED BY <1>1, <1>3, <1>8, <1>15, <2>1
<1>17. ExportInv'
  BY <1>1, <1>2, <1>7, <1>9, <1>10, <1>11, <1>16 DEF ExportInv, Early, Reading
<1>. QED BY <1>1, <1>13, <1>14, <1>17, ExportOnly DEF TunnelInv

\* What is known while the client reads.
LEMMA ReadingFacts ==
  ASSUME TunnelInv, at \in Reading
  PROVE  /\ job = "export" /\ result = "none" /\ answer = <<>> /\ asked # <<>>
         /\ TypeOK /\ StageInv /\ ExportInv /\ ExportForwardsBody
         /\ Len(body) \in Nat /\ Total \in Nat
         /\ \E n \in 0 .. Total : HasRead(n) /\ OnItsWay(n)
<1>1. job = "export" /\ result = "none" /\ TypeOK /\ StageInv /\ ExportInv
  BY DEF TunnelInv, StageInv, TypeOK, Reading
<1>2. answer = <<>> /\ asked # <<>> /\ ExportForwardsBody /\ \E n \in 0 .. Total : HasRead(n) /\ OnItsWay(n)
  BY <1>1 DEF ExportInv
<1>. QED BY <1>1, <1>2, StartFacts, BodyFacts

\* A step of the reading client that leaves the consumer and the answer alone.
LEMMA ReadingStep ==
  ASSUME TunnelInv, at \in Reading, at # "handing", TypeOK',
         UNCHANGED <<choices, asked, request, piece, sink, receiver, got, answer>>,
         \/ /\ at' \in Reading \ {"handing"} /\ result' = "none"
            /\ \A n \in 0 .. Total : HasRead(n) => HasRead(n)'
         \/ at' = "ended" /\ result' = "err"
  PROVE  TunnelInv'
<1>1. /\ job = "export" /\ result = "none" /\ answer = <<>> /\ asked # <<>>
      /\ TypeOK /\ StageInv /\ ExportInv /\ ExportForwardsBody
      /\ \E n \in 0 .. Total : HasRead(n) /\ OnItsWay(n)
  BY ReadingFacts
<1>2. UNCHANGED <<job, body, asked, request, piece, sink, receiver, got, answer>>
  BY DEF choices
<1>3. Total' = Total /\ \A c : Size(c)' = Size(c)
  BY <1>2, SameBody
<1>4. ExportForwardsBody'
  BY <1>1, <1>2, <1>3 DEF ExportForwardsBody, Follows, Reached, Bytes
<1>5. StageInv'
  BY <1>1, <1>2 DEF StageInv, Reading, Early
<1>6. \A n : OnItsWay(n)' <=> OnItsWay(n)
  BY <1>2 DEF OnItsWay, Reached
<1>7. at' \in Reading => asked' # <<>> /\ (\E n \in 0 .. Total : HasRead(n) /\ OnItsWay(n))'
  BY <1>1, <1>2, <1>3, <1>6 DEF Reading
<1>8. /\ (\A c \in 1 .. Len(body) : Size(c) > 0)'
      /\ (\A i \in 0 .. Len(sink) : Reached(i) \in 0 .. Total)'
  BY <1>1, <1>2, <1>3 DEF ExportInv, Reached
<1>9. piece' = <<>> /\ at' \notin Early \cup {"request", "handing"}
  BY <1>1, <1>2 DEF ExportInv, Reading, Early
<1>10. ExportInv'
  BY <1>1, <1>2, <1>4, <1>7, <1>8, <1>9 DEF ExportInv
<1>. QED BY <1>1, <1>2, <1>5, <1>10, ExportOnly DEF TunnelInv

\* The tail of the wire, as a part of it.
LEMMA WireTail ==
  ASSUME TypeOK, wire # <<>>, wire' = Tail(wire)
  PROVE  1 \in 0 .. Len(wire) /\ wire' = SubSeq(wire, 1 + 1, Len(wire)) /\ 1 \in 1 .. Len(wire)
<1>1. wire \in Seq(Token) /\ Len(wire) \in Nat /\ Len(wire) # 0
  BY DEF TypeOK
<1>2. Tail(wire) = SubSeq(wire, 2, Len(wire)) /\ 1 + 1 = 2
  BY <1>1, TailIsSubSeq
<1>. QED BY <1>1, <1>2

\* The client reads a size line: the one of the next chunk, or the last one.
LEMMA ReadSizeStep ==
  ASSUME TunnelInv, ReadSize
  PROVE  TunnelInv'
<1>1. /\ at = "size" /\ wire # <<>> /\ left' = wire[1][2] /\ wire' = Tail(wire)
      /\ UNCHANGED <<choices, asked, request, piece, sink, receiver, got, answer>>
      /\ UNCHANGED <<job, tls, body, stream, exasol, asked, request, piece, sink, receiver, got, answer, begun, next, file>>
  BY DEF ReadSize, choices, written, peerVars
<1>2. at \in Reading /\ at # "handing"
  BY <1>1 DEF Reading
<1>3. /\ TypeOK /\ ExportInv /\ result = "none" /\ job = "export" /\ Len(body) \in Nat /\ Total \in Nat
      /\ \E n \in 0 .. Total : HasRead(n) /\ OnItsWay(n)
  BY <1>2, ReadingFacts
<1>4. 1 \in 0 .. Len(wire) /\ wire' = SubSeq(wire, 1 + 1, Len(wire)) /\ 1 \in 1 .. Len(wire)
  BY <1>1, <1>3, WireTail
<1>5. Total' = Total /\ \A c : Start(c)' = Start(c) /\ Size(c)' = Size(c) /\ Before(c)' = Before(c)
  BY <1>1, SameBody
<1>6. wire' \in Seq(Token) /\ \A p \in Nat : ChunksFrom(p) => ChunksFrom(p + 1)'
  <2>1. wire' \in Seq(Token)
    BY <1>1, <1>3 DEF TypeOK
  <2>2. ASSUME NEW p \in Nat PROVE ChunksFrom(p) => ChunksFrom(p + 1)'
    BY <1>1, <1>3, <1>4, WireMoves
  <2>. QED BY <2>1, <2>2
<1>7. ASSUME NEW n \in 0 .. Total, HasRead(n)
      PROVE  \/ wire[1] = <<"size", 0 - 1>>
             \/ wire[1] = <<"size", 0>> /\ (at' = "last_crlf" => HasRead(n)')
             \/ wire[1][2] \in Nat \ {0} /\ (at' = "body" => HasRead(n)')
  <2>1. PICK c \in 1 .. Len(body) + 1 : n = Start(c) /\ ChunksFrom(Before(c))
    BY <1>1, <1>7 DEF HasRead
  <2>2. Chunked /\ Chunked'
    BY <1>1, <1>7 DEF HasRead, Chunked
  <2>3. Before(c) \in Nat /\ Before(Len(body) + 1) \in Nat
    <3>1. Len(body) + 1 \in 1 .. Len(body) + 1
      BY <1>3
    <3>. QED BY <1>3, <3>1, StartFacts
  <2>4. ChunksFrom(Before(c) + 1)'
    BY <1>5, <1>6, <2>1, <2>3
  <2>5. CASE c \in 1 .. Len(body)
    <3>1. /\ body[c] \in Nat /\ Size(c) = body[c] - Start(c) /\ Size(c) \in Nat /\ Start(c) \in Nat
          /\ Before(c + 1) = Before(c) + Size(c) + 2
      BY <1>3, <2>5, StartFacts
    <3>2. Size(c) > 0
      BY <1>3, <2>5 DEF ExportInv
    <3>3. Before(c + 1) <= Before(Len(body) + 1) /\ Before(c + 1) \in Nat
      <4>1. c + 1 \in 1 .. Len(body) + 1 /\ Len(body) + 1 \in 1 .. Len(body) + 1 /\ c + 1 <= Len(body) + 1
        BY <1>3, <2>5
      <4>. QED BY <1>3, <4>1, StartFacts
    <3>4. wire[1] = ChunkOnWire(Before(c) + 1)
      <4>1. Before(c) + 1 <= Before(Len(body) + 1)
        <5>1. PICK p, z, q, t : p = Before(c) /\ z = Size(c) /\ q = Before(c + 1) /\ t = Before(Len(body) + 1)
          OBVIOUS
        <5>2. p \in Nat /\ z \in Nat /\ q = p + z + 2 /\ q <= t /\ t \in Nat
          BY <2>3, <3>1, <3>3, <5>1
        <5>3. p + 1 <= t
          BY <5>2
        <5>. QED BY <5>1, <5>3
      <4>. QED BY <1>4, <2>1, <4>1 DEF ChunksFrom
    <3>5. ChunkOnWire(Before(c) + 1) = <<"size", Size(c)>>
      <4>. DEFINE b == Before(c)
                  e == Before(c + 1)
                  z == Size(c)
      <4>1. b \in Nat /\ z \in Nat /\ e = b + z + 2
        BY <2>3, <3>1
      <4>. HIDE DEF b, e, z
      <4>2. b + 1 \in Nat /\ b < b + 1 /\ b + 1 <= e
        BY <4>1
      <4>. QED BY <1>3, <2>5, <4>2, ChunkTokens DEF b, e
    <3>6. wire[1][2] = Size(c)
      BY <3>4, <3>5
    <3>7. at' = "body" => HasRead(n)'
      <4>. SUFFICES ASSUME at' = "body" PROVE HasRead(n)'
        OBVIOUS
      <4>1. left' = Size(c) /\ Size(c) \in 0 .. Size(c) /\ n = body[c] - Size(c)
        BY <1>1, <2>1, <3>1, <3>6
      <4>2. Before(c + 1) - 1 - Size(c) = Before(c) + 1
        <5>. DEFINE b == Before(c)
                    e == Before(c + 1)
                    z == Size(c)
        <5>1. b \in Nat /\ z \in Nat /\ e = b + z + 2
          BY <2>3, <3>1
        <5>. HIDE DEF b, e, z
        <5>2. e - 1 - z = b + 1
          BY <5>1
        <5>. QED BY <5>2 DEF b, e, z
      <4>3. ChunksFrom(Before(c + 1) - 1 - left)'
        BY <1>5, <2>4, <4>1, <4>2
      <4>. QED BY <1>1, <1>5, <2>2, <2>5, <4>1, <4>3 DEF HasRead
    <3>. QED BY <3>1, <3>2, <3>6, <3>7
  <2>6. CASE c = Len(body) + 1
    <3>1. wire[1] \in {<<"size", 0>>, <<"size", 0 - 1>>}
      BY <1>4, <2>1, <2>6 DEF ChunksFrom
    <3>2. n = Total
      BY <2>1, <2>6 DEF Total
    <3>3. at' = "last_crlf" /\ wire[1] = <<"size", 0>> => HasRead(n)'
      <4>. SUFFICES ASSUME at' = "last_crlf", wire[1] = <<"size", 0>> PROVE HasRead(n)'
        OBVIOUS
      <4>1. left' = 0
        BY <1>1
      <4>2. ChunksFrom(Before(Len(body) + 1) + 1)'
        BY <1>1, <1>5, <2>4, <2>6
      <4>. QED BY <1>1, <1>5, <2>2, <3>2, <4>1, <4>2 DEF HasRead
    <3>. QED BY <3>1, <3>3
  <2>. QED BY <1>3, <2>5, <2>6
<1>8. /\ wire[1][2] \in Int
      /\ wire[1][2] < 0 => at' = "ended" /\ result' = "err"
      /\ wire[1][2] = 0 => at' = "last_crlf" /\ result' = "none"
      /\ wire[1][2] > 0 => at' = "body" /\ result' = "none"
  <2>1. wire[1][2] \in Int
    <3>1. wire[1] \in Token
      BY <1>3, <1>4 DEF TypeOK
    <3>. QED BY <3>1 DEF Token
  <2>. QED BY <1>3, <2>1 DEF ReadSize, Ended
<1>9. TypeOK'
  <2>1. left' \in Int /\ wire' \in Seq(Token)
    BY <1>1, <1>6, <1>8
  <2>2. at' \in Reading \cup {"ended"} /\ result' \in {"none", "err"}
    BY <1>8 DEF Reading
  <2>. QED BY <1>1, <1>3, <2>1, <2>2 DEF TypeOK
<1>10. \/ /\ at' \in Reading \ {"handing"} /\ result' = "none"
          /\ \A n \in 0 .. Total : HasRead(n) => HasRead(n)'
       \/ at' = "ended" /\ result' = "err"
  <2>1. CASE wire[1][2] < 0
    BY <1>8, <2>1
  <2>2. CASE wire[1][2] = 0
    BY <1>7, <1>8, <2>2 DEF Reading
  <2>3. CASE wire[1][2] > 0
    <3>1. wire[1] # <<"size", 0 - 1>> /\ wire[1] # <<"size", 0>>
      BY <2>3
    <3>. QED BY <1>7, <1>8, <2>3, <3>1 DEF Reading
  <2>. QED BY <1>8, <2>1, <2>2, <2>3
<1>. QED BY <1>1, <1>2, <1>9, <1>10, ReadingStep

\* Where chunk c lies.
LEMMA ChunkPlace ==
  ASSUME TypeOK, NEW c \in 1 .. Len(body)
  PROVE  /\ Before(c) \in Nat /\ Size(c) \in Nat /\ Before(c + 1) = Before(c) + Size(c) + 2
         /\ body[c] \in Nat /\ body[c] <= Total /\ Start(c + 1) = body[c] /\ Before(c + 1) = body[c] + 2 * c
         /\ Before(c + 1) \in Nat /\ Before(Len(body) + 1) \in Nat /\ Before(c + 1) <= Before(Len(body) + 1)
         /\ c + 1 \in 1 .. Len(body) + 1
<1>1. Len(body) \in Nat
  BY BodyFacts
<1>2. /\ c \in 1 .. Len(body) + 1 /\ c + 1 \in 1 .. Len(body) + 1 /\ Len(body) + 1 \in 1 .. Len(body) + 1
      /\ c + 1 <= Len(body) + 1 /\ (c + 1) - 1 = c
  BY <1>1
<1>3. Before(c + 1) = body[c] + 2 * c
  BY <1>2, StartFacts DEF Before
<1>4. Start(c + 1) = body[c] /\ Start(c + 1) <= Total
  BY <1>2, StartFacts
<1>. QED BY <1>2, <1>3, <1>4, StartFacts

\* A chunk, the last chunk or a body of known length ends.
LEMMA ChunkEndsStep ==
  ASSUME TunnelInv, ChunkEnds
  PROVE  TunnelInv'
<1>1. /\ at \in {"body", "last_crlf"} /\ left = 0 /\ left' = 0 /\ result' = result
      /\ UNCHANGED <<choices, asked, request, piece, sink, receiver, got, answer>>
      /\ UNCHANGED <<job, tls, body, stream, exasol, asked, request, piece, sink, receiver, got, answer, begun, next, file>>
  BY DEF ChunkEnds, choices, written, peerVars
<1>2. at \in Reading /\ at # "handing"
  BY <1>1 DEF Reading
<1>3. /\ TypeOK /\ ExportInv /\ result = "none" /\ Len(body) \in Nat /\ Total \in Nat
      /\ \E n \in 0 .. Total : HasRead(n) /\ OnItsWay(n)
  BY <1>2, ReadingFacts
<1>4. Total' = Total /\ \A c : Start(c)' = Start(c) /\ Size(c)' = Size(c) /\ Before(c)' = Before(c)
  BY <1>1, SameBody
<1>5. Chunked' = Chunked
  BY <1>1 DEF Chunked
<1>6. CASE Chunked
  <2>1. wire # <<>> /\ wire' = Tail(wire) /\ at' = IF at = "last_crlf" THEN "reply" ELSE "size"
    BY <1>6 DEF ChunkEnds
  <2>2. 1 \in 0 .. Len(wire) /\ wire' = SubSeq(wire, 1 + 1, Len(wire)) /\ 1 \in 1 .. Len(wire)
    BY <1>3, <2>1, WireTail
  <2>3. wire' \in Seq(Token)
    BY <1>3, <2>1 DEF TypeOK
  <2>4. ASSUME NEW p \in Nat PROVE ChunksFrom(p) => ChunksFrom(p + 1)'
    BY <1>1, <1>3, <2>2, WireMoves
  <2>5. TypeOK'
    BY <1>1, <1>3, <2>1, <2>3 DEF TypeOK, Reading
  <2>6. ASSUME NEW n \in 0 .. Total, HasRead(n) PROVE HasRead(n)'
    <3>1. CASE at = "body"
      <4>1. PICK c \in 1 .. Len(body) : n = body[c] - left /\ ChunksFrom(Before(c + 1) - 1 - left)
        BY <1>6, <2>6, <3>1 DEF HasRead
      <4>. DEFINE e == Before(c + 1)
      <4>2. e \in Nat /\ e >= 2 /\ body[c] \in Nat /\ Start(c + 1) = body[c] /\ c + 1 \in 1 .. Len(body) + 1
        BY <1>3, ChunkPlace
      <4>3. ChunksFrom(e - 1 - left)
        BY <4>1
      <4>4. Before(c + 1)' = e
        BY <1>4
      <4>. HIDE DEF e
      <4>5. e - 1 \in Nat /\ e - 1 - left = e - 1 /\ (e - 1) + 1 = e
        BY <1>1, <4>2
      <4>6. ChunksFrom((e - 1) + 1)'
        <5>1. e - 1 \in Nat /\ ChunksFrom(e - 1)
          BY <4>3, <4>5
        <5>. QED BY <5>1, <2>4, <4>4 DEF e
      <4>7. ChunksFrom(Before(c + 1))'
        BY <4>4, <4>5, <4>6 DEF e
      <4>8. n = Start(c + 1)
        BY <1>1, <4>1, <4>2
      <4>. QED BY <1>1, <1>4, <1>5, <1>6, <2>1, <3>1, <4>2, <4>7, <4>8 DEF HasRead
    <3>2. CASE at = "last_crlf"
      <4>1. n = Total /\ ChunksFrom(Before(Len(body) + 1) + 1)
        BY <2>6, <3>2 DEF HasRead
      <4>. DEFINE e == Before(Len(body) + 1)
      <4>2. e \in Nat
        <5>1. Len(body) + 1 \in 1 .. Len(body) + 1
          BY <1>3
        <5>. QED BY <1>3, <5>1, StartFacts
      <4>3. e + 1 + Len(wire) <= e + 2
        BY <4>1 DEF ChunksFrom
      <4>4. Len(wire) \in Nat /\ wire \in Seq(Token)
        BY <1>3 DEF TypeOK
      <4>. HIDE DEF e
      <4>5. Len(wire) <= 1
        BY <4>2, <4>3, <4>4
      <4>6. wire' = <<>>
        BY <2>1, <2>3, <4>4, <4>5
      <4>. QED BY <1>4, <2>1, <3>2, <4>1, <4>6 DEF HasRead
    <3>. QED BY <1>1, <3>1, <3>2
  <2>7. at' \in Reading \ {"handing"}
    BY <2>1 DEF Reading
  <2>. QED BY <1>1, <1>2, <1>3, <2>5, <2>6, <2>7, ReadingStep
<1>7. CASE ~Chunked
  <2>1. wire' = wire /\ at' = "reply"
    BY <1>7 DEF ChunkEnds
  <2>2. TypeOK'
    BY <1>1, <1>3, <2>1 DEF TypeOK, Reading
  <2>3. ASSUME NEW n \in 0 .. Total, HasRead(n) PROVE HasRead(n)'
    <3>1. n = Total - left /\ BytesFrom(n)
      BY <1>1, <1>7, <2>3 DEF HasRead
    <3>2. n = Total /\ n + Len(wire) <= Total /\ Len(wire) \in Nat /\ wire \in Seq(Token)
      BY <1>1, <1>3, <3>1 DEF BytesFrom, TypeOK
    <3>3. wire = <<>>
      BY <1>3, <3>2
    <3>. QED BY <1>4, <2>1, <3>2, <3>3 DEF HasRead
  <2>4. at' \in Reading \ {"handing"}
    BY <2>1 DEF Reading
  <2>. QED BY <1>1, <1>2, <1>3, <2>2, <2>3, <2>4, ReadingStep
<1>. QED BY <1>6, <1>7

\* The next tokens on the wire, up to the end of the chunk or body, are the next bytes.
LEMMA PieceRead ==
  ASSUME TypeOK, at = "body", left > 0, NEW n \in 0 .. Total, HasRead(n),
         NEW k \in 1 .. left, Len(wire) >= k
  PROVE  n + k <= Total /\ \A j \in 1 .. k : wire[j] = <<"byte", n + j>>
<1>1. left \in Int /\ Total \in Nat /\ Len(wire) \in Nat
  BY StartFacts DEF TypeOK
<1>2. CASE Chunked
  <2>1. PICK c \in 1 .. Len(body) :
          left \in 0 .. Size(c) /\ n = body[c] - left /\ ChunksFrom(Before(c + 1) - 1 - left)
    BY <1>2 DEF HasRead
  <2>. DEFINE b == Before(c)
              e == Before(c + 1)
              z == Size(c)
              d == body[c]
  <2>2. /\ b \in Nat /\ z \in Nat /\ e = b + z + 2 /\ d \in Nat /\ d <= Total /\ e = d + 2 * c /\ c \in Nat
        /\ e <= Before(Len(body) + 1) /\ Before(Len(body) + 1) \in Nat
    BY ChunkPlace, BodyFacts
  <2>3. left \in 0 .. z /\ n = d - left
    BY <2>1
  <2>4. ASSUME NEW j \in 1 .. k PROVE wire[j] = <<"byte", n + j>>
    <3>. DEFINE q == e - 1 - left + j
                f == Before(Len(body) + 1)
    <3>. HIDE DEF b, e, z, d
    <3>1. q \in Nat /\ b < q /\ q <= e /\ q # b + 1 /\ q # e /\ q - 2 * c + 1 = n + j /\ j \in 1 .. Len(wire)
      BY <1>1, <2>2, <2>3
    <3>2. q <= f
      <4>1. f \in Nat /\ e <= f
        BY <2>2
      <4>. HIDE DEF f, q
      <4>. QED BY <2>2, <3>1, <4>1
    <3>. HIDE DEF q
    <3>3. wire[j] = ChunkOnWire(q)
      BY <2>1, <3>1, <3>2 DEF ChunksFrom, q, e
    <3>4. ChunkOnWire(q) = <<"byte", q - 2 * c + 1>>
      BY <3>1, ChunkTokens DEF b, e
    <3>. QED BY <3>1, <3>3, <3>4
  <2>. HIDE DEF b, e, z, d
  <2>5. n + k <= Total
    BY <1>1, <2>2, <2>3
  <2>. QED BY <2>4, <2>5
<1>3. CASE ~Chunked
  <2>1. n = Total - left /\ BytesFrom(n)
    BY <1>3 DEF HasRead
  <2>. QED BY <1>1, <2>1 DEF BytesFrom
<1>. QED BY <1>2, <1>3

\* The client reads a piece of a chunk or of the body.
LEMMA ReadPieceStep ==
  ASSUME TunnelInv, ReadPiece
  PROVE  TunnelInv'
<1>0. PICK k : k = Smaller(left, PieceMax)
  OBVIOUS
<1>1. /\ at = "body" /\ left > 0 /\ Len(wire) >= k /\ piece' = SubSeq(wire, 1, k)
      /\ wire' = SubSeq(wire, k + 1, Len(wire)) /\ left' = left - k /\ at' = "handing"
      /\ UNCHANGED <<job, tls, body, stream, exasol, result, asked, request, sink, receiver, got, answer, begun, next, file>>
  BY <1>0 DEF ReadPiece, choices, written, peerVars
<1>2. at \in Reading
  BY <1>1 DEF Reading
<1>3. /\ TypeOK /\ StageInv /\ ExportInv /\ ExportForwardsBody /\ job = "export" /\ result = "none" /\ answer = <<>>
      /\ asked # <<>> /\ Len(body) \in Nat /\ Total \in Nat
      /\ \E n \in 0 .. Total : HasRead(n) /\ OnItsWay(n)
  BY <1>2, ReadingFacts
<1>4. PICK n \in 0 .. Total : HasRead(n) /\ OnItsWay(n)
  BY <1>3
<1>5. left \in Int /\ PieceMax \in Nat \ {0} /\ Len(wire) \in Nat /\ wire \in Seq(Token)
  BY <1>3, HttpTunnelAssumption DEF TypeOK
<1>6. k \in 1 .. left /\ k \in 0 .. Len(wire)
  BY <1>0, <1>1, <1>5 DEF Smaller
<1>7. n + k <= Total /\ \A j \in 1 .. k : wire[j] = <<"byte", n + j>>
  BY <1>1, <1>3, <1>4, <1>6, PieceRead
<1>8. piece' \in Seq(Token) /\ Len(piece') = k /\ \A j \in 1 .. k : piece'[j] = wire[j]
  BY <1>1, <1>5, <1>6
<1>9. wire' \in Seq(Token) /\ \A p \in Nat : (ChunksFrom(p) => ChunksFrom(p + k)') /\ (BytesFrom(p) => BytesFrom(p + k)')
  <2>1. ASSUME NEW p \in Nat
        PROVE wire' \in Seq(Token) /\ (ChunksFrom(p) => ChunksFrom(p + k)') /\ (BytesFrom(p) => BytesFrom(p + k)')
    BY <1>1, <1>3, <1>6, WireMoves
  <2>2. 0 \in Nat
    OBVIOUS
  <2>. QED BY <2>1, <2>2
<1>10. Total' = Total /\ \A c : Start(c)' = Start(c) /\ Size(c)' = Size(c) /\ Before(c)' = Before(c)
  BY <1>1, SameBody
<1>11. TypeOK'
  <2>1. left' \in Int
    BY <1>1, <1>5, <1>6
  <2>. QED BY <1>1, <1>3, <1>8, <1>9, <2>1 DEF TypeOK, Reading
<1>12. StageInv'
  BY <1>1, <1>3 DEF StageInv, Reading, Early
<1>13. receiver = "open" => Reached(Len(sink)) = n
  <2>1. piece = <<>>
    BY <1>1, <1>3 DEF ExportInv
  <2>2. Reached(Len(sink)) \in Int
    <3>1. Len(sink) \in 0 .. Len(sink)
      BY <1>3 DEF TypeOK
    <3>. QED BY <1>3, <3>1 DEF ExportInv
  <2>. QED BY <1>4, <2>1, <2>2 DEF OnItsWay
<1>14. Follows(piece', n)
  <2>1. \A i \in 1 .. Len(piece') : piece'[i] = <<"byte", n + i>>
    BY <1>7, <1>8
  <2>2. PICK s \in Seq(Token) : s = piece'
    BY <1>8
  <2>3. Follows(s, n)
    <3>1. \A i \in 1 .. Len(s) : s[i] = <<"byte", n + i>>
      BY <2>1, <2>2
    <3>2. n \in Int
      BY <1>3
    <3>. QED BY <3>1, <3>2, FollowsIff
  <2>. QED BY <2>2, <2>3 DEF Follows
<1>15. \A i : Reached(i)' = Reached(i)
  BY <1>1 DEF Reached
<1>16. ExportForwardsBody'
  <2>1. /\ Follows(got', 0)
        /\ \A i \in 1 .. Len(sink') : sink'[i] # <<>> /\ Follows(sink'[i], Reached(i - 1)')
        /\ receiver' = "dropped" => sink' = <<>> /\ Len(got') <= Total'
    BY <1>1, <1>3, <1>10, <1>15 DEF ExportForwardsBody
  <2>2. receiver' = "open" => Follows(piece', Reached(Len(sink))') /\ Reached(Len(sink))' + Len(piece') <= Total'
    BY <1>1, <1>7, <1>8, <1>10, <1>13, <1>14, <1>15
  <2>. QED BY <1>1, <1>3, <2>1, <2>2 DEF ExportForwardsBody, Follows, Bytes
<1>17. HasRead(n + k)'
  <2>1. CASE Chunked
    <3>1. PICK c \in 1 .. Len(body) :
            left \in 0 .. Size(c) /\ n = body[c] - left /\ ChunksFrom(Before(c + 1) - 1 - left)
      BY <1>1, <1>4, <2>1 DEF HasRead
    <3>0. PICK e, z, p : e = Before(c + 1) /\ z = Size(c) /\ p = e - 1 - left
      OBVIOUS
    <3>2. z \in Nat /\ e \in Nat /\ e >= z + 2 /\ body[c] \in Nat
      BY <1>3, <3>0, ChunkPlace
    <3>3. ChunksFrom(p) /\ left \in 0 .. z
      BY <3>0, <3>1
    <3>4. Before(c + 1)' = e /\ Size(c)' = z
      BY <1>10, <3>0
    <3>5. p \in Nat /\ p + k = e - 1 - left'
      <4>1. PICK l \in Int : l = left
        BY <1>5
      <4>2. left' = l - k /\ k \in Int /\ l \in 0 .. z /\ p = e - 1 - l
        BY <1>1, <1>6, <3>0, <3>3, <4>1
      <4>. QED BY <3>2, <4>2
    <3>6. ChunksFrom(p + k)'
      BY <1>9, <3>3, <3>5
    <3>7. ChunksFrom(Before(c + 1) - 1 - left)'
      BY <3>4, <3>5, <3>6
    <3>8. left' \in 0 .. z /\ n + k = body[c] - left'
      BY <1>1, <1>6, <3>1, <3>2, <3>3
    <3>9. Chunked'
      BY <1>1, <2>1 DEF Chunked
    <3>. QED BY <1>1, <3>4, <3>7, <3>8, <3>9 DEF HasRead
  <2>2. CASE ~Chunked
    <3>1. n = Total - left /\ BytesFrom(n) /\ left \in 0 .. Total
      BY <1>1, <1>4, <2>2 DEF HasRead
    <3>2. BytesFrom(n + k)'
      BY <1>3, <1>9, <3>1
    <3>3. left' \in 0 .. Total /\ n + k = Total - left'
      BY <1>1, <1>3, <1>6, <3>1
    <3>4. ~Chunked'
      BY <1>1, <2>2 DEF Chunked
    <3>. QED BY <1>1, <1>10, <3>2, <3>3, <3>4 DEF HasRead
  <2>. QED BY <2>1, <2>2
<1>18. n + k \in 0 .. Total' /\ OnItsWay(n + k)'
  BY <1>1, <1>3, <1>6, <1>7, <1>8, <1>10, <1>13, <1>15 DEF OnItsWay
<1>19. piece' # <<>>
  BY <1>6, <1>8
<1>20. /\ (\A c \in 1 .. Len(body) : Size(c) > 0)'
       /\ (\A i \in 0 .. Len(sink) : Reached(i) \in 0 .. Total)'
  BY <1>1, <1>3, <1>10, <1>15 DEF ExportInv
<1>21. ExportInv'
  BY <1>1, <1>3, <1>16, <1>17, <1>18, <1>19, <1>20 DEF ExportInv, Early
<1>. QED BY <1>1, <1>3, <1>11, <1>12, <1>21, ExportOnly DEF TunnelInv

\* A run of bytes that is not empty names where it ends.
LEMMA RunEnds ==
  ASSUME NEW s \in Seq(Token), NEW p \in Int, s # <<>>, Follows(s, p)
  PROVE  s[Len(s)][2] = p + Len(s)
<1>1. Len(s) \in Nat /\ Len(s) \in 1 .. Len(s)
  OBVIOUS
<1>2. s[Len(s)] = <<"byte", p + Len(s)>>
  BY <1>1, FollowsIff
<1>. QED BY <1>2

\* The piece goes to the channel, or is lost when the consumer has left.
LEMMA HandPieceStep ==
  ASSUME TunnelInv, HandPiece
  PROVE  TunnelInv'
<1>1. /\ at = "handing" /\ at' = "body" /\ piece' = <<>>
      /\ \/ receiver = "open" /\ sink' = Append(sink, piece)
         \/ receiver = "dropped" /\ sink' = sink
      /\ UNCHANGED <<job, tls, body, stream, exasol, result, asked, request, wire, receiver, got, answer, begun, left, next, file>>
  BY DEF HandPiece, choices, written, peerVars
<1>2. at \in Reading
  BY <1>1 DEF Reading
<1>3. /\ TypeOK /\ StageInv /\ ExportInv /\ ExportForwardsBody /\ job = "export" /\ result = "none" /\ answer = <<>>
      /\ asked # <<>> /\ Total \in Nat
      /\ \E n \in 0 .. Total : HasRead(n) /\ OnItsWay(n)
  BY <1>2, ReadingFacts
<1>4. PICK n \in 0 .. Total : HasRead(n) /\ OnItsWay(n)
  BY <1>3
<1>5. Total' = Total /\ \A c : Start(c)' = Start(c) /\ Size(c)' = Size(c) /\ Before(c)' = Before(c)
  BY <1>1, SameBody
<1>6. sink' \in Seq(Seq(Token)) /\ piece' \in Seq(Token)
  <2>1. sink \in Seq(Seq(Token)) /\ piece \in Seq(Token)
    BY <1>3 DEF TypeOK
  <2>2. Append(sink, piece) \in Seq(Seq(Token))
    BY <2>1, AppendProperties
  <2>3. piece' \in Seq(Token)
    BY <1>1
  <2>. QED BY <1>1, <2>1, <2>2, <2>3
<1>7. TypeOK'
  BY <1>1, <1>3, <1>6 DEF TypeOK, Reading
<1>8. StageInv'
  BY <1>1, <1>3 DEF StageInv, Reading, Early
<1>9. HasRead(n)'
  <2>1. \A p : (ChunksFrom(p)' <=> ChunksFrom(p)) /\ (BytesFrom(p)' <=> BytesFrom(p))
    BY <1>1, WireKept
  <2>2. Chunked' = Chunked
    BY <1>1 DEF Chunked
  <2>. QED BY <1>1, <1>4, <1>5, <2>1, <2>2 DEF HasRead
<1>10. CASE receiver = "open"
  <2>1. PICK m : m = Len(sink)
    OBVIOUS
  <2>2. PICK r : r = Reached(m)
    OBVIOUS
  <2>3. /\ m \in Nat /\ r \in 0 .. Total /\ piece \in Seq(Token) /\ piece # <<>> /\ Follows(piece, r)
        /\ r + Len(piece) = n
    <3>1. m \in Nat /\ piece \in Seq(Token) /\ m \in 0 .. Len(sink)
      BY <1>3, <2>1 DEF TypeOK
    <3>. QED BY <1>1, <1>3, <1>4, <1>10, <2>1, <2>2, <3>1 DEF ExportInv, ExportForwardsBody, OnItsWay
  <2>4. /\ Len(sink') = m + 1 /\ sink'[m + 1] = piece /\ \A i \in 1 .. m : sink'[i] = sink[i]
    <3>1. sink \in Seq(Seq(Token)) /\ piece \in Seq(Token)
      BY <1>3 DEF TypeOK
    <3>2. /\ Len(Append(sink, piece)) = Len(sink) + 1 /\ Append(sink, piece)[Len(sink) + 1] = piece
          /\ \A i \in 1 .. Len(sink) : Append(sink, piece)[i] = sink[i]
      BY <3>1, AppendProperties
    <3>3. sink' = Append(sink, piece)
      BY <1>1, <1>10
    <3>. QED BY <2>1, <3>2, <3>3
  <2>5. \A i \in 0 .. m : Reached(i)' = Reached(i)
    <3>. TAKE i \in 0 .. m
    <3>1. CASE i = 0
      BY <1>1, <3>1 DEF Reached
    <3>2. CASE i # 0
      <4>1. sink'[i] = sink[i]
        BY <2>3, <2>4, <3>2
      <4>. QED BY <3>2, <4>1 DEF Reached
    <3>. QED BY <3>1, <3>2
  <2>6. Reached(m + 1)' = n
    <3>1. piece[Len(piece)][2] = n
      BY <2>3, RunEnds
    <3>. QED BY <2>3, <2>4, <3>1 DEF Reached
  <2>7. \A i \in 1 .. m + 1 : sink'[i] # <<>> /\ Follows(sink'[i], Reached(i - 1)')
    <3>1. ASSUME NEW i \in 1 .. m PROVE sink'[i] # <<>> /\ Follows(sink'[i], Reached(i - 1)')
      <4>1. sink[i] # <<>> /\ Follows(sink[i], Reached(i - 1))
        BY <1>3, <2>1, <3>1 DEF ExportForwardsBody
      <4>2. Reached(i - 1)' = Reached(i - 1)
        BY <2>3, <2>5, <3>1
      <4>. QED BY <2>4, <4>1, <4>2
    <3>2. sink'[m + 1] # <<>> /\ Follows(sink'[m + 1], Reached(m)')
      BY <2>2, <2>3, <2>4, <2>5
    <3>3. \A i \in 1 .. m + 1 : i \in 1 .. m \/ (i = m + 1 /\ i - 1 = m)
      BY <2>3
    <3>. QED BY <3>1, <3>2, <3>3
  <2>8. ExportForwardsBody'
    <3>1. Follows(piece', n) /\ n + Len(piece') <= Total'
      BY <1>1, <1>3, <1>5 DEF Follows, Bytes
    <3>2. Follows(got', 0) /\ (\A i \in 1 .. Len(sink') : sink'[i] # <<>> /\ Follows(sink'[i], Reached(i - 1)'))
      BY <1>1, <1>3, <2>4, <2>7 DEF ExportForwardsBody
    <3>3. receiver' = "open" => Follows(piece', Reached(Len(sink))') /\ Reached(Len(sink))' + Len(piece') <= Total'
      BY <2>4, <2>6, <3>1
    <3>. QED BY <1>1, <1>3, <1>10, <3>2, <3>3 DEF ExportForwardsBody, Follows, Bytes
  <2>9. (\A i \in 0 .. Len(sink) : Reached(i) \in 0 .. Total)'
    <3>1. ASSUME NEW i \in 0 .. m + 1 PROVE Reached(i)' \in 0 .. Total
      <4>1. i \in 0 .. m \/ i = m + 1
        BY <2>3
      <4>. QED BY <1>3, <2>1, <2>5, <2>6, <4>1 DEF ExportInv
    <3>. QED BY <1>5, <2>4, <3>1
  <2>10. OnItsWay(n)'
    BY <1>1, <2>4, <2>6, <1>3 DEF OnItsWay
  <2>. QED BY <1>1, <1>3, <1>5, <1>7, <1>8, <1>9, <2>8, <2>9, <2>10, ExportOnly DEF ExportInv, Early, TunnelInv
<1>11. CASE receiver = "dropped"
  <2>1. sink' = sink
    BY <1>1, <1>11
  <2>2. OnItsWay(n)' /\ \A i : Reached(i)' = Reached(i)
    BY <1>1, <1>11, <2>1 DEF OnItsWay, Reached
  <2>3. ExportForwardsBody'
    BY <1>1, <1>3, <1>5, <1>11, <2>1, <2>2 DEF ExportForwardsBody, Follows, Bytes
  <2>4. (\A i \in 0 .. Len(sink) : Reached(i) \in 0 .. Total)'
    BY <1>3, <1>5, <2>1, <2>2 DEF ExportInv
  <2>. QED BY <1>1, <1>3, <1>5, <1>7, <1>8, <1>9, <2>2, <2>3, <2>4, ExportOnly DEF ExportInv, Early, TunnelInv
<1>. QED BY <1>3, <1>10, <1>11 DEF TypeOK

\* The client answers, after the whole body.
LEMMA ReplyStep ==
  ASSUME TunnelInv, Reply
  PROVE  TunnelInv'
<1>1. /\ at = "reply" /\ at' = "ended" /\ result' = "ok" /\ answer' = Append(answer, <<"200", 0>>)
      /\ UNCHANGED <<job, tls, body, stream, exasol, asked, request, wire, piece, sink, receiver, got, begun, left, next, file>>
  BY DEF Reply, choices, Ended, peerVars, exportVars
<1>2. at \in Reading
  BY <1>1 DEF Reading
<1>3. /\ TypeOK /\ StageInv /\ ExportInv /\ ExportForwardsBody /\ job = "export" /\ result = "none"
      /\ asked # <<>> /\ Total \in Nat
      /\ \E n \in 0 .. Total : HasRead(n) /\ OnItsWay(n)
  BY <1>2, ReadingFacts
<1>4. Total' = Total /\ \A c : Size(c)' = Size(c)
  BY <1>1, SameBody
<1>5. answer' \in Seq(Token)
  <2>1. <<"200", 0>> \in Token
    BY DEF Token
  <2>. QED BY <1>1, <1>3, <2>1 DEF TypeOK
<1>6. TypeOK'
  BY <1>1, <1>3, <1>5 DEF TypeOK
<1>7. StageInv'
  BY <1>1, <1>3 DEF StageInv, Reading, Early
<1>8. wire = <<>> /\ (receiver = "open" => Reached(Len(sink)) = Total) /\ piece = <<>>
  <2>1. piece = <<>>
    BY <1>1, <1>3 DEF ExportInv
  <2>2. wire = <<>> /\ OnItsWay(Total)
    BY <1>1, <1>3 DEF HasRead
  <2>3. Reached(Len(sink)) \in Int
    <3>1. Len(sink) \in 0 .. Len(sink)
      BY <1>3 DEF TypeOK
    <3>. QED BY <1>3, <3>1 DEF ExportInv
  <2>. QED BY <2>1, <2>2, <2>3 DEF OnItsWay
<1>9. \A i : Reached(i)' = Reached(i)
  BY <1>1 DEF Reached
<1>10. ExportForwardsBody'
  BY <1>1, <1>3, <1>4, <1>8, <1>9 DEF ExportForwardsBody, Follows, Bytes
<1>11. ExportInv'
  BY <1>1, <1>3, <1>4, <1>9, <1>10 DEF ExportInv, Early, Reading
<1>. QED BY <1>1, <1>3, <1>6, <1>7, <1>11, ExportOnly DEF TunnelInv

\* The consumer takes the first piece.
LEMMA ConsumerTakesStep ==
  ASSUME TunnelInv, ConsumerTakes
  PROVE  TunnelInv'
<1>1. /\ sink # <<>> /\ receiver = "open" /\ got' = got \o Head(sink) /\ sink' = Tail(sink)
      /\ UNCHANGED <<job, tls, body, stream, at, exasol, result, asked, request, wire, piece, receiver, answer, begun, left, next, file>>
      /\ UNCHANGED <<choices, written>>
  BY DEF ConsumerTakes, choices, written, peerVars, connVars
<1>2. TypeOK /\ StageInv /\ ExportInv
  BY DEF TunnelInv
<1>3. ImportInv' /\ ParquetInv'
  <2>1. Passes
    BY <1>1 DEF Passes
  <2>. QED BY <1>1, <2>1, ImportPasses, ParquetPasses
<1>4. PICK g, m, h : g = Len(got) /\ m = Len(sink) /\ h = sink[1]
  OBVIOUS
<1>5. m \in Nat \ {0} /\ g \in Nat /\ h \in Seq(Token) /\ got \in Seq(Token) /\ sink \in Seq(Seq(Token)) /\ Head(sink) = h
  BY <1>1, <1>2, <1>4 DEF TypeOK
<1>6. /\ got \o h \in Seq(Token) /\ Len(got \o h) = Len(got) + Len(h)
      /\ \A i \in 1 .. Len(got) + Len(h) : (got \o h)[i] = IF i <= Len(got) THEN got[i] ELSE h[i - Len(got)]
  BY <1>5, Joined
<1>7. PICK w \in Seq(Token) : w = got \o h
  BY <1>6
<1>8. got' = w /\ Len(w) = g + Len(h) /\ Len(h) \in Nat
      /\ \A i \in 1 .. g + Len(h) : w[i] = IF i <= g THEN got[i] ELSE h[i - g]
  <2>1. Len(h) \in Nat /\ got' = w
    <3>1. Len(h) \in Nat
      BY <1>5
    <3>2. got' = got \o Head(sink) /\ Head(sink) = h
      BY <1>1, <1>5
    <3>. QED BY <1>7, <3>1, <3>2
  <2>2. Len(w) = g + Len(h)
    BY <1>4, <1>6, <1>7
  <2>3. \A i \in 1 .. g + Len(h) : w[i] = IF i <= g THEN got[i] ELSE h[i - g]
    BY <1>4, <1>6, <1>7
  <2>. QED BY <2>1, <2>2, <2>3
<1>9. sink' \in Seq(Seq(Token)) /\ Len(sink') = m - 1 /\ \A i \in 1 .. m - 1 : sink'[i] = sink[i + 1]
  <2>1. /\ Tail(sink) \in Seq(Seq(Token)) /\ Len(Tail(sink)) = Len(sink) - 1
        /\ \A i \in 1 .. Len(Tail(sink)) : Tail(sink)[i] = sink[i + 1]
    BY <1>1, <1>5, HeadTailProperties
  <2>. QED BY <1>1, <1>4, <2>1
<1>10. TypeOK'
  BY <1>1, <1>2, <1>8, <1>9 DEF TypeOK
<1>11. StageInv'
  BY <1>1, <1>2 DEF StageInv
<1>12. ASSUME job = "export" PROVE ExportInv'
  <2>1. ExportForwardsBody
    BY <1>2, <1>12 DEF ExportInv
  <2>2. Total' = Total /\ \A c : Start(c)' = Start(c) /\ Size(c)' = Size(c) /\ Before(c)' = Before(c)
    BY <1>1, SameBody
  <2>3. Total \in Nat
    BY <1>2, StartFacts
  <2>4. h # <<>> /\ Follows(h, g) /\ Follows(got, 0)
    <3>1. 1 \in 1 .. Len(sink) /\ 1 - 1 = 0
      BY <1>4, <1>5
    <3>2. sink[1] # <<>> /\ Follows(sink[1], Reached(1 - 1))
      BY <1>12, <2>1, <3>1 DEF ExportForwardsBody
    <3>3. Reached(1 - 1) = g
      BY <1>4 DEF Reached
    <3>. QED BY <1>4, <1>12, <2>1, <3>2, <3>3 DEF ExportForwardsBody
  <2>5. h[Len(h)][2] = g + Len(h)
    BY <1>5, <2>4, RunEnds
  <2>6. \A i \in 0 .. m - 1 : Reached(i)' = Reached(i + 1)
    <3>1. Reached(0)' = Reached(1)
      BY <1>4, <1>5, <1>8, <2>5 DEF Reached
    <3>2. ASSUME NEW i \in 1 .. m - 1 PROVE Reached(i)' = Reached(i + 1)
      <4>1. i # 0 /\ i + 1 # 0 /\ sink'[i] = sink[i + 1]
        BY <1>5, <1>9
      <4>. QED BY <4>1 DEF Reached
    <3>3. \A i \in 0 .. m - 1 : i = 0 \/ i \in 1 .. m - 1
      BY <1>5
    <3>. QED BY <3>1, <3>2, <3>3
  <2>7. Follows(w, 0)
    <3>1. \A i \in 1 .. g : got[i] = <<"byte", 0 + i>>
      BY <1>4, <1>5, <2>4, FollowsIff
    <3>2. \A i \in 1 .. Len(h) : h[i] = <<"byte", g + i>>
      BY <1>5, <2>4, FollowsIff
    <3>3. ASSUME NEW i \in 1 .. Len(w) PROVE w[i] = <<"byte", 0 + i>>
      <4>1. CASE i <= g
        <5>1. i \in 1 .. g /\ w[i] = got[i]
          BY <1>5, <1>8, <4>1
        <5>. QED BY <3>1, <5>1
      <4>2. CASE ~(i <= g)
        <5>1. i - g \in 1 .. Len(h) /\ w[i] = h[i - g] /\ g + (i - g) = 0 + i
          BY <1>5, <1>8, <4>2
        <5>. QED BY <3>2, <5>1
      <4>. QED BY <4>1, <4>2
    <3>. QED BY <3>3, FollowsIff
  <2>8. \A i \in 1 .. Len(sink') : sink'[i] # <<>> /\ Follows(sink'[i], Reached(i - 1)')
    <3>. SUFFICES ASSUME NEW i \in 1 .. m - 1
                  PROVE  sink'[i] # <<>> /\ Follows(sink'[i], Reached(i - 1)')
      BY <1>9
    <3>1. i + 1 \in 1 .. Len(sink) /\ i - 1 \in 0 .. m - 1 /\ (i + 1) - 1 = i /\ (i - 1) + 1 = i
      BY <1>4, <1>5
    <3>2. sink[i + 1] # <<>> /\ Follows(sink[i + 1], Reached((i + 1) - 1))
      BY <1>12, <2>1, <3>1 DEF ExportForwardsBody
    <3>3. Reached(i - 1)' = Reached(i)
      BY <2>6, <3>1
    <3>. QED BY <1>9, <3>1, <3>2, <3>3
  <2>9. Reached(Len(sink))' = Reached(m)
    <3>1. m - 1 \in 0 .. m - 1 /\ (m - 1) + 1 = m
      BY <1>5
    <3>. QED BY <1>9, <2>6, <3>1
  <2>10. ExportForwardsBody'
    <3>1. /\ Follows(piece', Reached(Len(sink))') /\ Reached(Len(sink))' + Len(piece') <= Total'
          /\ answer' # <<>> => wire' = <<>>
          /\ result' = "ok" => Reached(Len(sink))' = Total'
      BY <1>1, <1>4, <1>12, <2>1, <2>2, <2>9 DEF ExportForwardsBody
    <3>2. Follows(got', 0) /\ (\A i \in 1 .. Len(sink') : sink'[i] # <<>> /\ Follows(sink'[i], Reached(i - 1)'))
      BY <1>8, <2>7, <2>8
    <3>. QED BY <1>1, <3>1, <3>2 DEF ExportForwardsBody, Follows, Bytes
  <2>11. (\A i \in 0 .. Len(sink) : Reached(i) \in 0 .. Total)'
    <3>1. ASSUME NEW i \in 0 .. m - 1 PROVE Reached(i)' \in 0 .. Total
      <4>1. i + 1 \in 0 .. Len(sink)
        BY <1>4, <1>5
      <4>2. Reached(i + 1) \in 0 .. Total
        BY <1>2, <1>12, <4>1 DEF ExportInv
      <4>. QED BY <2>6, <4>2
    <3>. QED BY <1>9, <2>2, <3>1
  <2>12. at' \in Reading => asked' # <<>> /\ (\E n \in 0 .. Total : HasRead(n) /\ OnItsWay(n))'
    <3>1. \A n : HasRead(n)' <=> HasRead(n)
      BY <1>1, ReadKept
    <3>2. \A n : OnItsWay(n)' <=> OnItsWay(n)
      BY <1>1, <1>4, <2>9 DEF OnItsWay
    <3>. QED BY <1>1, <1>2, <1>12, <2>2, <3>1, <3>2 DEF ExportInv
  <2>13. at \notin Early \cup {"request"}
    BY <1>1, <1>2, <1>12 DEF ExportInv
  <2>14. (\A c \in 1 .. Len(body) : Size(c) > 0)'
    BY <1>1, <1>2, <1>12, <2>2 DEF ExportInv
  <2>. QED BY <1>1, <1>2, <1>12, <2>10, <2>11, <2>12, <2>13, <2>14 DEF ExportInv
<1>13. ExportInv'
  BY <1>1, <1>12 DEF ExportInv
<1>. QED BY <1>3, <1>10, <1>11, <1>13 DEF TunnelInv

\* The consumer leaves; what is in the channel is lost.
LEMMA ConsumerDropsStep ==
  ASSUME TunnelInv, ConsumerDrops
  PROVE  TunnelInv'
<1>1. /\ job = "export" /\ receiver' = "dropped" /\ sink' = <<>>
      /\ UNCHANGED <<job, tls, body, stream, at, exasol, result, asked, request, wire, piece, got, answer, begun, left, next, file>>
  BY DEF ConsumerDrops, choices, written, peerVars, connVars
<1>2. TypeOK /\ StageInv /\ ExportInv /\ ExportForwardsBody
  BY <1>1 DEF TunnelInv, ExportInv
<1>3. Total' = Total /\ (\A c : Size(c)' = Size(c)) /\ Total \in Nat
  BY <1>1, <1>2, SameBody, StartFacts
<1>4. sink' \in Seq(Seq(Token)) /\ Len(sink') = 0
  BY <1>1
<1>5. TypeOK'
  BY <1>1, <1>2, <1>4 DEF TypeOK
<1>6. StageInv'
  BY <1>1, <1>2 DEF StageInv
<1>7. Len(got) \in 0 .. Total
  <2>1. 0 \in 0 .. Len(sink)
    BY <1>2 DEF TypeOK
  <2>. QED BY <1>1, <1>2, <2>1 DEF ExportInv, Reached
<1>8. ExportForwardsBody'
  BY <1>1, <1>2, <1>3, <1>4, <1>7 DEF ExportForwardsBody, Follows, Bytes
<1>9. (\A i \in 0 .. Len(sink) : Reached(i) \in 0 .. Total)'
  BY <1>1, <1>3, <1>4, <1>7 DEF Reached
<1>10. at' \in Reading => asked' # <<>> /\ (\E n \in 0 .. Total : HasRead(n) /\ OnItsWay(n))'
  <2>1. \A n : HasRead(n)' <=> HasRead(n)
    BY <1>1, ReadKept
  <2>2. \A n : OnItsWay(n)'
    BY <1>1 DEF OnItsWay
  <2>. QED BY <1>1, <1>2, <1>3, <2>1, <2>2 DEF ExportInv
<1>11. \A p : (ChunksFrom(p)' <=> ChunksFrom(p)) /\ (BytesFrom(p)' <=> BytesFrom(p))
  BY <1>1, WireKept
<1>12. ExportInv'
  BY <1>1, <1>2, <1>3, <1>8, <1>9, <1>10, <1>11 DEF ExportInv
<1>. QED BY <1>1, <1>5, <1>6, <1>12, ExportOnly DEF TunnelInv

\* Exasol vanishes, and the end of what it sent with it, or it falls silent.
LEMMA PeerFailsStep ==
  ASSUME TunnelInv, PeerFails
  PROVE  TunnelInv'
<1>1. /\ exasol \notin {"gone", "closed"} /\ at # "ended" /\ exasol' \in {"gone", "silent"}
      /\ \E n \in 0 .. Len(wire) : wire' = SubSeq(wire, 1, n)
      /\ UNCHANGED <<job, tls, body, stream, at, result, asked, request, piece, sink, receiver, got, answer, begun, left, next, file>>
      /\ UNCHANGED <<choices, written>>
  <2>1. wire \in Seq(Token)
    BY DEF TunnelInv, TypeOK
  <2>2. wire = SubSeq(wire, 1, Len(wire)) /\ Len(wire) \in 0 .. Len(wire)
    BY <2>1
  <2>3. \E n \in 0 .. Len(wire) : wire' = SubSeq(wire, 1, n)
    <3>1. CASE wire' = wire
      BY <2>2, <3>1
    <3>. QED BY <3>1 DEF PeerFails
  <2>. QED BY <2>3 DEF PeerFails, choices, written, connVars, Responsive
<1>2. TypeOK /\ StageInv /\ ExportInv
  BY DEF TunnelInv
<1>3. ImportInv' /\ ParquetInv'
  <2>1. Passes
    BY <1>1 DEF Passes
  <2>. QED BY <1>1, <2>1, ImportPasses, ParquetPasses
<1>4. PICK m \in 0 .. Len(wire) : wire' = SubSeq(wire, 1, m)
  BY <1>1
<1>5. wire' \in Seq(Token) /\ Len(wire') = m
      /\ \A p \in Nat : (ChunksFrom(p) => ChunksFrom(p)') /\ (BytesFrom(p) => BytesFrom(p)')
  <2>1. ASSUME NEW p \in Nat
        PROVE  wire' \in Seq(Token) /\ Len(wire') = m /\ (ChunksFrom(p) => ChunksFrom(p)') /\ (BytesFrom(p) => BytesFrom(p)')
    BY <1>1, <1>2, <1>4, WireCut
  <2>2. 0 \in Nat
    OBVIOUS
  <2>. QED BY <2>1, <2>2
<1>6. TypeOK'
  BY <1>1, <1>2, <1>5 DEF TypeOK
<1>7. StageInv'
  BY <1>1, <1>2 DEF StageInv
<1>8. wire = <<>> => wire' = <<>>
  BY <1>4, <1>5
<1>9. ASSUME job = "export" PROVE ExportInv'
  <2>1. ExportForwardsBody
    BY <1>2, <1>9 DEF ExportInv
  <2>2. Total' = Total /\ \A c : Start(c)' = Start(c) /\ Size(c)' = Size(c) /\ Before(c)' = Before(c)
    BY <1>1, SameBody
  <2>3. \A i : Reached(i)' = Reached(i)
    BY <1>1 DEF Reached
  <2>4. ExportForwardsBody'
    BY <1>1, <1>8, <2>1, <2>2, <2>3 DEF ExportForwardsBody, Follows, Bytes
  <2>5. Len(body) \in Nat /\ Total \in Nat
    BY <1>2, BodyFacts, StartFacts
  <2>6. ASSUME NEW n \in 0 .. Total, HasRead(n) PROVE HasRead(n)'
    <3>1. Chunked' = Chunked
      BY <1>1 DEF Chunked
    <3>2. CASE at = "size"
      <4>1. PICK c \in 1 .. Len(body) + 1 : n = Start(c) /\ ChunksFrom(Before(c)) /\ Chunked
        BY <2>6, <3>2 DEF HasRead
      <4>2. Before(c) \in Nat
        BY <1>2, StartFacts
      <4>3. ChunksFrom(Before(c))'
        BY <1>5, <2>2, <4>1, <4>2
      <4>. QED BY <1>1, <2>2, <3>1, <3>2, <4>1, <4>3 DEF HasRead
    <3>3. CASE at \in {"body", "handing"} /\ Chunked
      <4>1. PICK c \in 1 .. Len(body) :
              left \in 0 .. Size(c) /\ n = body[c] - left /\ ChunksFrom(Before(c + 1) - 1 - left)
        BY <2>6, <3>3 DEF HasRead
      <4>2. PICK e, z, l : e = Before(c + 1) /\ z = Size(c) /\ l = left
        OBVIOUS
      <4>3. z \in Nat /\ e \in Nat /\ e >= z + 2
        <5>1. TypeOK
          BY <1>2
        <5>2. Before(c) \in Nat /\ Size(c) \in Nat /\ Before(c + 1) = Before(c) + Size(c) + 2
          BY <5>1, ChunkPlace
        <5>3. PICK b : b = Before(c)
          OBVIOUS
        <5>4. b \in Nat /\ z \in Nat /\ e = b + z + 2
          BY <4>2, <5>2, <5>3
        <5>. QED BY <5>4
      <4>4. e - 1 - l \in Nat
        <5>1. l \in 0 .. z
          BY <4>1, <4>2
        <5>. QED BY <4>3, <5>1
      <4>5. ChunksFrom(e - 1 - l)'
        BY <1>5, <4>1, <4>2, <4>4
      <4>6. ChunksFrom(Before(c + 1) - 1 - left)'
        BY <1>1, <2>2, <4>2, <4>5
      <4>. QED BY <1>1, <2>2, <3>1, <3>3, <4>1, <4>6 DEF HasRead
    <3>4. CASE at \in {"body", "handing"} /\ ~Chunked
      <4>1. left \in 0 .. Total /\ n = Total - left /\ BytesFrom(n)
        BY <2>6, <3>4 DEF HasRead
      <4>2. BytesFrom(n)'
        BY <1>5, <2>5, <4>1
      <4>. QED BY <1>1, <2>2, <3>1, <3>4, <4>1, <4>2 DEF HasRead
    <3>5. CASE at = "last_crlf"
      <4>1. Chunked /\ left = 0 /\ n = Total /\ ChunksFrom(Before(Len(body) + 1) + 1)
        BY <2>6, <3>5 DEF HasRead
      <4>2. Before(Len(body) + 1) + 1 \in Nat
        <5>1. Len(body) + 1 \in 1 .. Len(body) + 1
          BY <2>5
        <5>. QED BY <1>2, <5>1, StartFacts
      <4>3. ChunksFrom(Before(Len(body) + 1) + 1)'
        BY <1>1, <1>5, <2>2, <4>1, <4>2
      <4>. QED BY <1>1, <2>2, <3>1, <3>5, <4>1, <4>3 DEF HasRead
    <3>6. CASE at = "reply"
      BY <1>1, <1>8, <2>2, <2>6, <3>6 DEF HasRead
    <3>. QED BY <2>6, <3>2, <3>3, <3>4, <3>5, <3>6 DEF HasRead
  <2>7. at' \in Reading => asked' # <<>> /\ (\E n \in 0 .. Total : HasRead(n) /\ OnItsWay(n))'
    <3>1. \A n : OnItsWay(n)' <=> OnItsWay(n)
      BY <1>1, <2>3 DEF OnItsWay
    <3>. QED BY <1>1, <1>2, <1>9, <2>2, <2>6, <3>1 DEF ExportInv
  <2>8. (\A c \in 1 .. Len(body) : Size(c) > 0)' /\ (\A i \in 0 .. Len(sink) : Reached(i) \in 0 .. Total)'
    BY <1>1, <1>2, <1>9, <2>2, <2>3 DEF ExportInv
  <2>9. (ChunksFrom(0) => ChunksFrom(0)') /\ (BytesFrom(0) => BytesFrom(0)')
    BY <1>5
  <2>. QED BY <1>1, <1>2, <1>9, <2>4, <2>7, <2>8, <2>9 DEF ExportInv
<1>10. ExportInv'
  BY <1>1, <1>9 DEF ExportInv
<1>. QED BY <1>3, <1>6, <1>7, <1>10 DEF TunnelInv

-----------------------------------------------------------------------------
(* Steps of an import                                                      *)

\* What an import says nothing of.
LEMMA ImportOnly ==
  ASSUME job' = "import"
  PROVE  ExportInv' /\ ParquetInv'
BY DEF ExportInv, ParquetInv

\* A chunk that was written stays the same chunk when more is written.
LEMMA ChunkStays ==
  ASSUME answer \in Seq(Token), answer' \in Seq(Token), body' = body,
         Len(answer) <= Len(answer'), \A i \in 1 .. Len(answer) : answer'[i] = answer[i],
         \A i \in 1 .. Len(answer) : answer[i][2] \in Nat,
         NEW k \in 2 .. Len(answer), ChunkAt(k)
  PROVE  ChunkAt(k)'
<1>1. Total' = Total
  BY SameBody
<1>2. Len(answer) \in Nat /\ Len(answer') \in Nat
  OBVIOUS
<1>3. answer'[k] = answer[k]
  BY <1>2
<1>4. PICK n \in Nat : n = answer[k][2]
  BY <1>2
<1>5. /\ answer[k][1] = "size" /\ k + n + 1 <= Len(answer)
      /\ \A j \in 1 .. n : answer[k + j] = <<"byte", DecodedBefore(k) + j>>
      /\ DecodedBefore(k) + n <= Total
      /\ answer[k + n + 1] = <<"crlf", 0>>
  BY <1>4 DEF ChunkAt
<1>6. DecodedBefore(k)' = DecodedBefore(k)
  <2>1. CASE k = 2
    BY <2>1 DEF DecodedBefore
  <2>2. CASE k # 2
    <3>1. k - 2 \in 1 .. Len(answer)
      BY <1>2, <2>2
    <3>. QED BY <2>2, <3>1 DEF DecodedBefore
  <2>. QED BY <2>1, <2>2
<1>7. \A j \in 1 .. n : k + j \in 1 .. Len(answer)
  BY <1>2, <1>5
<1>8. k + n + 1 \in 1 .. Len(answer) /\ k + n + 1 <= Len(answer')
  BY <1>2, <1>5
<1>9. \A j \in 1 .. n : answer'[k + j] = <<"byte", DecodedBefore(k)' + j>>
  BY <1>5, <1>6, <1>7
<1>10. answer'[k + n + 1] = <<"crlf", 0>>
  BY <1>5, <1>8
<1>. QED BY <1>1, <1>3, <1>4, <1>5, <1>6, <1>8, <1>9, <1>10 DEF ChunkAt

\* The next n bytes of the body as a chunk behind what was written.
LEMMA ChunkAppended ==
  ASSUME NEW a \in Seq(Token), NEW n \in Nat, NEW s \in Nat
  PROVE  \E w \in Seq(Token) :
           /\ w = a \o EncodeChunk(Bytes(s + 1, n)) /\ Len(w) = Len(a) + n + 2
           /\ \A i \in 1 .. Len(a) : w[i] = a[i]
           /\ w[Len(a) + 1] = <<"size", n>> /\ w[Len(a) + n + 2] = <<"crlf", 0>>
           /\ \A j \in 1 .. n : w[(Len(a) + 1) + j] = <<"byte", s + j>>
<1>1. PICK d, e : d = Bytes(s + 1, n) /\ e = EncodeChunk(d)
  OBVIOUS
<1>2. d \in Seq(Token) /\ Len(d) = n /\ \A i \in 1 .. n : d[i] = <<"byte", s + i>>
  <2>1. s + 1 \in Int
    OBVIOUS
  <2>2. /\ d \in Seq(Token) /\ Len(d) = n /\ \A i \in 1 .. n : d[i] = <<"byte", (s + 1) + i - 1>>
    BY <1>1, <2>1, BytesFacts
  <2>3. \A i \in 1 .. n : (s + 1) + i - 1 = s + i
    OBVIOUS
  <2>. QED BY <2>2, <2>3
<1>3. /\ e \in Seq(Token) /\ Len(e) = n + 2 /\ e[1] = <<"size", n>> /\ e[n + 2] = <<"crlf", 0>>
      /\ \A j \in 1 .. n : e[1 + j] = <<"byte", s + j>>
  <2>1. /\ EncodeChunk(d) \in Seq(Token) /\ Len(EncodeChunk(d)) = Len(d) + 2
        /\ EncodeChunk(d)[1] = <<"size", Len(d)>> /\ EncodeChunk(d)[Len(d) + 2] = <<"crlf", 0>>
        /\ \A j \in 1 .. Len(d) : EncodeChunk(d)[1 + j] = d[j]
    BY <1>2, Encoded
  <2>2. /\ e \in Seq(Token) /\ Len(e) = n + 2 /\ e[1] = <<"size", n>> /\ e[n + 2] = <<"crlf", 0>>
        /\ \A j \in 1 .. n : e[1 + j] = d[j]
    BY <1>1, <1>2, <2>1
  <2>. QED BY <1>2, <2>2
<1>4. a \o e \in Seq(Token) /\ Len(a \o e) = Len(a) + Len(e)
      /\ \A i \in 1 .. Len(a) + Len(e) : (a \o e)[i] = IF i <= Len(a) THEN a[i] ELSE e[i - Len(a)]
  BY <1>3, Joined
<1>5. PICK w \in Seq(Token) : w = a \o e
  BY <1>4
<1>6. PICK l \in Nat : l = Len(a)
  OBVIOUS
<1>7. Len(w) = l + n + 2 /\ \A i \in 1 .. l + n + 2 : w[i] = IF i <= l THEN a[i] ELSE e[i - l]
  <2>1. Len(w) = Len(a) + Len(e)
        /\ \A i \in 1 .. Len(a) + Len(e) : w[i] = IF i <= Len(a) THEN a[i] ELSE e[i - Len(a)]
    BY <1>4, <1>5
  <2>2. Len(a) = l /\ Len(a) + Len(e) = l + n + 2
    BY <1>3, <1>6
  <2>. QED BY <2>1, <2>2
<1>8. \A i \in 1 .. l : w[i] = a[i]
  BY <1>7
<1>9. w[l + 1] = <<"size", n>> /\ w[l + n + 2] = <<"crlf", 0>>
  <2>1. /\ l + 1 \in 1 .. l + n + 2 /\ ~(l + 1 <= l) /\ (l + 1) - l = 1
        /\ l + n + 2 \in 1 .. l + n + 2 /\ ~(l + n + 2 <= l) /\ (l + n + 2) - l = n + 2
    OBVIOUS
  <2>2. w[l + 1] = e[(l + 1) - l] /\ w[l + n + 2] = e[(l + n + 2) - l]
    BY <1>7, <2>1
  <2>. QED BY <1>3, <2>1, <2>2
<1>10. \A j \in 1 .. n : w[(l + 1) + j] = <<"byte", s + j>>
  <2>. TAKE j \in 1 .. n
  <2>1. (l + 1) + j \in 1 .. l + n + 2 /\ ~((l + 1) + j <= l) /\ ((l + 1) + j) - l = 1 + j
    OBVIOUS
  <2>2. w[(l + 1) + j] = e[((l + 1) + j) - l]
    BY <1>7, <2>1
  <2>. QED BY <1>3, <2>1, <2>2
<1>. QED BY <1>1, <1>5, <1>6, <1>7, <1>8, <1>9, <1>10

\* The places of a chunk behind place l: its size, its bytes, its end of line.
LEMMA ChunkPlaces ==
  ASSUME NEW l \in Nat, NEW n \in Nat, NEW i \in l + 1 .. l + n + 2
  PROVE  i = l + 1 \/ i = l + n + 2 \/ \E j \in 1 .. n : i = (l + 1) + j
<1>1. CASE i # l + 1 /\ i # l + n + 2
  <2>1. i - (l + 1) \in 1 .. n /\ i = (l + 1) + (i - (l + 1))
    BY <1>1
  <2>. QED BY <2>1
<1>. QED BY <1>1

\* The client writes w: what it wrote before, l tokens, and a chunk of the n bytes that
\* follow the first s of the body.
Appends(w, l, n, s) ==
  /\ w \in Seq(Token) /\ l \in Nat \ {0} /\ n \in Nat /\ s \in Nat
  /\ l = Len(answer) /\ s = Start(next) /\ s + n <= Total
  /\ answer' = w /\ body' = body /\ Len(w) = l + n + 2
  /\ \A i \in 1 .. l : w[i] = answer[i]
  /\ w[l + 1] = <<"size", n>> /\ w[l + n + 2] = <<"crlf", 0>>
  /\ \A j \in 1 .. n : w[(l + 1) + j] = <<"byte", s + j>>

\* What Exasol decodes from w then.
Decodes(w, l, n, s) ==
  /\ \A i \in 1 .. l + n + 2 : w[i][2] \in Nat
  /\ \A k \in l + 2 .. l + n + 2 : w[k] # <<"size", 0>>
  /\ DecodedBefore(l + 1)' = s
  /\ n > 0 => DecodedBefore((l + n + 2) + 1)' = s + n
  /\ ChunkAt(2)'
  /\ \A k \in 2 .. l + n + 1 : w[k] = <<"crlf", 0>> => ChunkAt(k + 1)'

\* A chunk of the next bytes decodes to them, and leaves the chunks before as they are.
LEMMA ChunkWritten ==
  ASSUME TunnelInv, job = "import", at = "writing",
         NEW w, NEW l, NEW n, NEW s, Appends(w, l, n, s)
  PROVE  Decodes(w, l, n, s)
<1>1. /\ TypeOK /\ ImportInv /\ ImportBodyWhole /\ answer \in Seq(Token) /\ answer # <<>>
      /\ next \in 1 .. Len(body) + 1
      /\ Len(answer) > 1 => Len(answer) > 3 /\ answer[Len(answer)] = <<"crlf", 0>>
      /\ DecodedBefore(Len(answer) + 1) = Start(next)
      /\ \A k \in 1 .. Len(answer) : answer[k][2] \in Nat
  BY DEF TunnelInv, ImportInv, TypeOK
<1>2. Total' = Total /\ Total \in Nat
  BY <1>1, SameBody, StartFacts DEF Appends
<1>3. l = Len(answer) /\ s = Start(next) /\ s + n <= Total /\ w \in Seq(Token) /\ body' = body
  BY DEF Appends
<1>4. l \in Nat \ {0} /\ n \in Nat /\ s \in Nat
  BY DEF Appends
<1>5. answer' = w
  BY DEF Appends
<1>6. Len(w) = l + n + 2
  BY DEF Appends
<1>7. \A i \in 1 .. l : w[i] = answer[i]
  BY DEF Appends
<1>8. w[l + 1] = <<"size", n>> /\ w[l + n + 2] = <<"crlf", 0>>
  BY DEF Appends
<1>9. \A j \in 1 .. n : w[(l + 1) + j] = <<"byte", s + j>>
  BY DEF Appends
<1>10. \A i \in l + 1 .. l + n + 2 : i = l + 1 \/ i = l + n + 2 \/ \E j \in 1 .. n : i = (l + 1) + j
  BY <1>4, ChunkPlaces
<1>11. \A i \in 1 .. l + n + 2 : w[i][2] \in Nat
  <2>. TAKE i \in 1 .. l + n + 2
  <2>1. CASE i \in 1 .. l
    BY <1>1, <1>3, <1>7, <2>1
  <2>2. CASE i \in l + 1 .. l + n + 2
    <3>1. CASE \E j \in 1 .. n : i = (l + 1) + j
      <4>1. PICK j \in 1 .. n : i = (l + 1) + j
        BY <3>1
      <4>2. w[i][2] = s + j
        BY <1>9, <4>1
      <4>. QED BY <1>4, <4>2
    <3>2. CASE i = l + 1
      <4>1. w[i] = <<"size", n>>
        BY <1>8, <3>2
      <4>. QED BY <1>4, <4>1
    <3>3. CASE i = l + n + 2
      <4>1. w[i] = <<"crlf", 0>>
        BY <1>8, <3>3
      <4>. QED BY <4>1
    <3>. QED BY <1>10, <2>2, <3>1, <3>2, <3>3
  <2>. QED BY <1>4, <2>1, <2>2
<1>12. DecodedBefore(l + 1)' = s
  <2>1. CASE l = 1
    BY <1>1, <1>3, <2>1 DEF DecodedBefore
  <2>2. CASE l # 1
    <3>1. l + 1 # 2 /\ (l + 1) - 2 \in 1 .. l
      BY <1>4, <2>2
    <3>2. DecodedBefore(l + 1) = answer[(l + 1) - 2][2] /\ DecodedBefore(l + 1)' = w[(l + 1) - 2][2]
      BY <1>5, <3>1 DEF DecodedBefore
    <3>. QED BY <1>1, <1>3, <1>7, <3>1, <3>2
  <2>. QED BY <2>1, <2>2
<1>13. ChunkAt(l + 1)'
  <2>1. w[l + 1][2] = n /\ w[l + 1][1] = "size" /\ (l + 1) + n + 1 = l + n + 2
    BY <1>4, <1>8
  <2>2. s + n <= Total
    BY <1>3
  <2>3. PICK k, t : k = l + 1 /\ t = Total
    OBVIOUS
  <2>4. /\ answer'[k][2] = n /\ answer'[k][1] = "size" /\ k + n + 1 <= Len(answer')
        /\ \A j \in 1 .. n : answer'[k + j] = <<"byte", s + j>>
        /\ answer'[k + n + 1] = <<"crlf", 0>>
        /\ s + n <= t /\ Total' = t /\ DecodedBefore(k)' = s
    <3>1. Len(answer') = l + n + 2 /\ k + n + 1 = l + n + 2
      BY <1>4, <1>5, <1>6, <2>3
    <3>2. k + n + 1 <= Len(answer')
      BY <1>4, <3>1
    <3>. QED BY <1>2, <1>5, <1>8, <1>9, <1>12, <2>1, <2>2, <2>3, <3>1, <3>2
  <2>5. ChunkAt(k)'
    BY <2>4 DEF ChunkAt
  <2>. QED BY <2>3, <2>5
<1>14. \A k \in 2 .. l : ChunkAt(k) => ChunkAt(k)'
  <2>. SUFFICES ASSUME NEW k \in 2 .. Len(answer), ChunkAt(k) PROVE ChunkAt(k)'
    BY <1>3
  <2>1. Len(answer) <= Len(answer') /\ \A i \in 1 .. Len(answer) : answer'[i] = answer[i]
    BY <1>3, <1>4, <1>5, <1>6, <1>7
  <2>2. answer' \in Seq(Token) /\ body' = body
    BY <1>3, <1>5
  <2>. QED BY <1>1, <2>1, <2>2, ChunkStays
<1>15. ChunkAt(2)'
  <2>1. CASE l = 1
    <3>1. l + 1 = 2
      BY <2>1
    <3>. QED BY <1>13, <3>1
  <2>2. CASE l # 1
    <3>1. Len(answer) > 1 /\ 2 \in 2 .. l
      BY <1>3, <1>4, <2>2
    <3>2. ChunkAt(2)
      BY <1>1, <3>1 DEF ImportBodyWhole
    <3>. QED BY <1>14, <3>1, <3>2
  <2>. QED BY <2>1, <2>2
<1>16. ASSUME NEW k \in 2 .. l + n + 1, w[k] = <<"crlf", 0>> PROVE ChunkAt(k + 1)'
  <2>1. CASE k <= l - 1
    <3>1. k \in 2 .. Len(answer) - 1 /\ k \in 1 .. l /\ k + 1 \in 2 .. l
      BY <1>3, <1>4, <2>1
    <3>2. answer[k] = <<"crlf", 0>>
      BY <1>7, <1>16, <3>1
    <3>3. ChunkAt(k + 1)
      BY <1>1, <3>1, <3>2 DEF ImportBodyWhole
    <3>. QED BY <1>14, <3>1, <3>3
  <2>2. CASE k = l
    BY <1>13, <2>2
  <2>3. CASE k > l
    <3>1. k \in l + 1 .. l + n + 2 /\ k # l + n + 2
      BY <1>4, <2>3
    <3>2. k # l + 1
      BY <1>8, <1>16
    <3>3. PICK j \in 1 .. n : k = (l + 1) + j
      BY <1>10, <3>1, <3>2
    <3>4. w[k] = <<"byte", s + j>>
      BY <1>9, <3>3
    <3>. QED BY <1>16, <3>4
  <2>. QED BY <1>4, <2>1, <2>2, <2>3
<1>17. ASSUME NEW k \in l + 2 .. l + n + 2 PROVE w[k] # <<"size", 0>>
  <2>1. k \in l + 1 .. l + n + 2 /\ k # l + 1
    BY <1>4
  <2>2. CASE \E j \in 1 .. n : k = (l + 1) + j
    <3>1. PICK j \in 1 .. n : k = (l + 1) + j
      BY <2>2
    <3>2. w[k] = <<"byte", s + j>>
      BY <1>9, <3>1
    <3>. QED BY <3>2
  <2>3. CASE k = l + n + 2
    <3>1. w[k] = <<"crlf", 0>>
      BY <1>8, <2>3
    <3>. QED BY <3>1
  <2>. QED BY <1>10, <2>1, <2>2, <2>3
<1>18. ASSUME n > 0 PROVE DecodedBefore((l + n + 2) + 1)' = s + n
  <2>1. /\ (l + n + 2) + 1 # 2 /\ ((l + n + 2) + 1) - 2 = (l + 1) + n /\ n \in 1 .. n
    BY <1>4, <1>18
  <2>2. w[(l + 1) + n] = <<"byte", s + n>>
    BY <1>9, <2>1
  <2>3. DecodedBefore((l + n + 2) + 1)' = w[((l + n + 2) + 1) - 2][2]
    BY <1>5, <2>1 DEF DecodedBefore
  <2>4. w[((l + n + 2) + 1) - 2][2] = s + n
    BY <2>1, <2>2
  <2>. QED BY <2>3, <2>4
<1>. QED BY <1>5, <1>6, <1>7, <1>8, <1>11, <1>12, <1>15, <1>16, <1>17, <1>18 DEF Decodes

\* The client takes the request of an import.
LEMMA TakeGetStep ==
  ASSUME TunnelInv, TakeGet
  PROVE  TunnelInv'
<1>1. /\ at = "request" /\ job = "import" /\ request.method \in {"GET", "PUT", "HEAD"} /\ request' = NoRequest
      /\ UNCHANGED <<job, tls, body, stream, exasol, asked, wire, piece, sink, receiver, got, begun, left, file>>
      /\ \/ answer' = Append(answer, <<"chunked", 0>>) /\ at' = "writing" /\ next' = 1 /\ result' = result
         \/ at' = "ended" /\ result' = "err" /\ answer' = answer /\ next' = next
  BY DEF TakeGet, choices, exportVars, Ended
<1>2. TypeOK /\ StageInv /\ ImportInv /\ result = "none" /\ answer = <<>>
  BY <1>1 DEF TunnelInv, StageInv, TypeOK, Early
<1>3. answer' \in Seq(Token) /\ next' \in Nat
  <2>1. <<"chunked", 0>> \in Token
    BY DEF Token
  <2>2. next \in Nat /\ answer \in Seq(Token)
    BY <1>2 DEF TypeOK
  <2>3. Append(answer, <<"chunked", 0>>) \in Seq(Token)
    BY <2>1, <2>2
  <2>4. answer' = Append(answer, <<"chunked", 0>>) \/ answer' = answer
    BY <1>1
  <2>5. next' = 1 \/ next' = next
    BY <1>1
  <2>6. answer' \in Seq(Token)
    BY <2>2, <2>3, <2>4
  <2>. QED BY <2>2, <2>5, <2>6
<1>4. TypeOK'
  <2>1. NoRequest \in Request
    BY DEF NoRequest, Request
  <2>. QED BY <1>1, <1>2, <1>3, <2>1 DEF TypeOK
<1>5. StageInv'
  BY <1>1, <1>2 DEF StageInv, Reading, Early
<1>6. Start(1)' = 0 /\ Len(body) \in Nat
  BY <1>2, BodyFacts DEF Start
<1>7. CASE at' = "writing"
  <2>1. answer' = <<<<"chunked", 0>>>> /\ Len(answer') = 1 /\ next' = 1 /\ result' = "none"
    BY <1>1, <1>2, <1>7
  <2>2. ImportBodyWhole'
    BY <2>1 DEF ImportBodyWhole
  <2>3. DecodedBefore(Len(answer) + 1)' = Start(next)'
    BY <1>6, <2>1 DEF DecodedBefore, Start
  <2>4. \A k \in 1 .. Len(answer') : answer'[k][2] \in Nat
    BY <2>1
  <2>. QED BY <1>1, <1>4, <1>5, <1>6, <2>1, <2>2, <2>3, <2>4, ImportOnly DEF ImportInv, TunnelInv
<1>8. CASE at' = "ended"
  <2>1. answer' = <<>> /\ Len(answer') = 0 /\ result' = "err"
    BY <1>1, <1>2, <1>8
  <2>2. ImportBodyWhole'
    BY <2>1 DEF ImportBodyWhole
  <2>. QED BY <1>1, <1>4, <1>5, <1>8, <2>1, <2>2, ImportOnly DEF ImportInv, TunnelInv
<1>. QED BY <1>1, <1>7, <1>8

\* The client writes a part of the body.
LEMMA WriteChunkedBodyStep ==
  ASSUME TunnelInv, WriteChunkedBody
  PROVE  TunnelInv'
<1>1. /\ at = "writing" /\ next <= Len(body) /\ next' = next + 1
      /\ answer' = IF Size(next) = 0 THEN answer ELSE answer \o EncodeChunk(Bytes(Start(next) + 1, Size(next)))
      /\ UNCHANGED <<job, tls, body, stream, at, result, exasol, request, asked, wire, piece, sink, receiver, got, begun, left, file>>
  BY DEF WriteChunkedBody, choices, exportVars, connVars, peerVars
<1>2. TypeOK /\ StageInv /\ ImportInv /\ ImportBodyWhole /\ result = "none" /\ job = "import"
  BY <1>1 DEF TunnelInv, StageInv, TypeOK, ImportInv
<1>3. /\ next \in 1 .. Len(body) + 1 /\ answer # <<>> /\ answer \in Seq(Token) /\ Len(body) \in Nat
      /\ DecodedBefore(Len(answer) + 1) = Start(next)
      /\ \A k \in 1 .. Len(answer) : answer[k][2] \in Nat
  BY <1>1, <1>2, BodyFacts DEF ImportInv, TypeOK
<1>4. next \in 1 .. Len(body) /\ next + 1 \in 1 .. Len(body) + 1 /\ next + 1 \in Nat
  BY <1>1, <1>3
<1>5. PICK n, s, l : n = Size(next) /\ s = Start(next) /\ l = Len(answer)
  OBVIOUS
<1>6. n \in Nat /\ s \in Nat /\ l \in Nat \ {0} /\ Total \in Nat /\ Start(next + 1) = s + n /\ s + n <= Total
  <2>1. /\ body[next] \in Nat /\ Start(next + 1) = body[next] /\ n = body[next] - s /\ n \in Nat /\ Total \in Nat
    BY <1>2, <1>4, <1>5, StartFacts
  <2>2. s \in Nat /\ Start(next + 1) <= Total
    BY <1>2, <1>3, <1>4, <1>5, StartFacts
  <2>3. l \in Nat \ {0}
    BY <1>3, <1>5
  <2>. QED BY <2>1, <2>2, <2>3
<1>7. Start(next)' = s + n
  <2>1. PICK m : m = next + 1
    OBVIOUS
  <2>2. Start(m)' = Start(m)
    BY <1>1, SameBody
  <2>. QED BY <1>1, <1>6, <2>1, <2>2
<1>8. StageInv'
  BY <1>1, <1>2 DEF StageInv, Reading, Early
<1>9. CASE n = 0
  <2>1. answer' = answer /\ s + n = s
    BY <1>1, <1>5, <1>6, <1>9
  <2>2. TypeOK'
    BY <1>1, <1>2, <1>4, <2>1 DEF TypeOK
  <2>3. Total' = Total
    BY <1>1, SameBody
  <2>4. \A k : (ChunkAt(k)' <=> ChunkAt(k)) /\ DecodedBefore(k)' = DecodedBefore(k)
    BY <2>1, <2>3 DEF ChunkAt, DecodedBefore
  <2>5. ImportBodyWhole'
    BY <1>1, <1>2, <2>1, <2>3, <2>4 DEF ImportBodyWhole
  <2>6. DecodedBefore(Len(answer) + 1)' = Start(next)'
    BY <1>3, <1>5, <1>7, <2>1 DEF DecodedBefore
  <2>7. ImportInv'
    BY <1>1, <1>2, <1>3, <1>4, <2>1, <2>5, <2>6 DEF ImportInv
  <2>. QED BY <1>1, <1>2, <1>8, <2>2, <2>7, ImportOnly DEF TunnelInv
<1>10. CASE n # 0
  <2>1. answer' = answer \o EncodeChunk(Bytes(s + 1, n))
    BY <1>1, <1>5, <1>10
  <2>2. PICK w \in Seq(Token) :
          /\ w = answer \o EncodeChunk(Bytes(s + 1, n)) /\ Len(w) = l + n + 2
          /\ \A i \in 1 .. l : w[i] = answer[i]
          /\ w[l + 1] = <<"size", n>> /\ w[l + n + 2] = <<"crlf", 0>>
          /\ \A j \in 1 .. n : w[(l + 1) + j] = <<"byte", s + j>>
    <3>1. answer \in Seq(Token) /\ n \in Nat /\ s \in Nat
      BY <1>3, <1>6
    <3>2. \E w \in Seq(Token) :
            /\ w = answer \o EncodeChunk(Bytes(s + 1, n)) /\ Len(w) = Len(answer) + n + 2
            /\ \A i \in 1 .. Len(answer) : w[i] = answer[i]
            /\ w[Len(answer) + 1] = <<"size", n>> /\ w[Len(answer) + n + 2] = <<"crlf", 0>>
            /\ \A j \in 1 .. n : w[(Len(answer) + 1) + j] = <<"byte", s + j>>
      BY <3>1, ChunkAppended, Zenon
    <3>. QED BY <1>5, <3>2, Zenon
  <2>3. answer' = w
    BY <2>1, <2>2
  <2>4. /\ \A i \in 1 .. l + n + 2 : w[i][2] \in Nat
        /\ \A k \in l + 2 .. l + n + 2 : w[k] # <<"size", 0>>
        /\ DecodedBefore((l + n + 2) + 1)' = s + n
        /\ ChunkAt(2)'
        /\ \A k \in 2 .. l + n + 1 : w[k] = <<"crlf", 0>> => ChunkAt(k + 1)'
    <3>1. n > 0
      BY <1>6, <1>10
    <3>2. body' = body /\ s = Start(next) /\ l = Len(answer) /\ job = "import" /\ at = "writing"
      BY <1>1, <1>2, <1>5
    <3>3. Appends(w, l, n, s)
      BY <1>6, <2>2, <2>3, <3>2 DEF Appends
    <3>4. Decodes(w, l, n, s)
      BY <3>2, <3>3, ChunkWritten
    <3>. QED BY <3>1, <3>4 DEF Decodes
  <2>5. Len(w) = l + n + 2 /\ l + n + 2 > 3 /\ (l + n + 2) - 1 = l + n + 1
    BY <1>6, <1>10, <2>2
  <2>6. TypeOK'
    BY <1>1, <1>2, <1>4, <2>3 DEF TypeOK
  <2>7. ASSUME NEW k \in 2 .. l + n + 2 PROVE w[k] # <<"size", 0>>
    <3>1. CASE k <= l
      <4>1. k \in 2 .. Len(answer) /\ k \in 1 .. l
        BY <1>5, <1>6, <3>1
      <4>2. answer[k] # <<"size", 0>>
        BY <1>2, <4>1 DEF ImportBodyWhole
      <4>. QED BY <2>2, <4>1, <4>2
    <3>2. CASE k = l + 1
      BY <1>10, <2>2, <3>2
    <3>3. CASE k > l + 1
      <4>1. k \in l + 2 .. l + n + 2
        BY <1>6, <3>3
      <4>. QED BY <2>4, <4>1
    <3>. QED BY <1>6, <3>1, <3>2, <3>3
  <2>8. ImportBodyWhole'
    BY <1>1, <1>2, <2>3, <2>4, <2>5, <2>7 DEF ImportBodyWhole
  <2>9. DecodedBefore(Len(answer) + 1)' = Start(next)'
    <3>1. Len(answer') + 1 = (l + n + 2) + 1
      BY <2>3, <2>5
    <3>. QED BY <1>7, <2>4, <3>1
  <2>10. answer' # <<>> /\ answer'[Len(answer')] = <<"crlf", 0>> /\ Len(answer') > 3
         /\ \A k \in 1 .. Len(answer') : answer'[k][2] \in Nat
    <3>1. Len(w) > 3 /\ w[Len(w)] = <<"crlf", 0>> /\ \A k \in 1 .. Len(w) : w[k][2] \in Nat
      BY <2>2, <2>4, <2>5
    <3>2. w # <<>>
      BY <3>1
    <3>. QED BY <2>3, <3>1, <3>2
  <2>11. ImportInv'
    BY <1>1, <1>2, <1>4, <2>8, <2>9, <2>10 DEF ImportInv
  <2>. QED BY <1>1, <1>2, <1>8, <2>6, <2>11, ImportOnly DEF TunnelInv
<1>. QED BY <1>9, <1>10

\* The client writes the final chunk.
LEMMA WriteFinalChunkStep ==
  ASSUME TunnelInv, WriteFinalChunk
  PROVE  TunnelInv'
<1>1. /\ at = "writing" /\ next = Len(body) + 1 /\ at' = "ended" /\ result' = "ok"
      /\ answer' = answer \o EncodeChunk(<<>>)
      /\ UNCHANGED <<job, tls, body, stream, exasol, request, asked, wire, piece, sink, receiver, got, begun, left, next, file>>
  BY DEF WriteFinalChunk, choices, exportVars, peerVars, Ended
<1>2. TypeOK /\ StageInv /\ ImportInv /\ ImportBodyWhole /\ result = "none" /\ job = "import"
  BY <1>1 DEF TunnelInv, StageInv, TypeOK, ImportInv
<1>3. /\ answer # <<>> /\ answer \in Seq(Token) /\ Len(body) \in Nat
      /\ DecodedBefore(Len(answer) + 1) = Start(next)
  BY <1>1, <1>2, BodyFacts DEF ImportInv, TypeOK
<1>4. PICK s, l : s = Start(next) /\ l = Len(answer)
  OBVIOUS
<1>5. s \in Nat /\ l \in Nat \ {0} /\ s = Total /\ s + 0 <= Total /\ Total' = Total
  <2>1. s = Total /\ Total \in Nat
    BY <1>1, <1>2, <1>4, StartFacts
  <2>2. l \in Nat \ {0}
    BY <1>3, <1>4
  <2>3. Total' = Total
    BY <1>1, SameBody
  <2>. QED BY <2>1, <2>2, <2>3
<1>6. Bytes(s + 1, 0) = <<>>
  BY DEF Bytes
<1>7. PICK w \in Seq(Token) :
        /\ w = answer \o EncodeChunk(Bytes(s + 1, 0)) /\ Len(w) = l + 0 + 2
        /\ \A i \in 1 .. l : w[i] = answer[i]
        /\ w[l + 1] = <<"size", 0>> /\ w[l + 0 + 2] = <<"crlf", 0>>
        /\ \A j \in 1 .. 0 : w[(l + 1) + j] = <<"byte", s + j>>
  <2>1. answer \in Seq(Token) /\ 0 \in Nat /\ s \in Nat
    BY <1>3, <1>5
  <2>2. \E w \in Seq(Token) :
          /\ w = answer \o EncodeChunk(Bytes(s + 1, 0)) /\ Len(w) = Len(answer) + 0 + 2
          /\ \A i \in 1 .. Len(answer) : w[i] = answer[i]
          /\ w[Len(answer) + 1] = <<"size", 0>> /\ w[Len(answer) + 0 + 2] = <<"crlf", 0>>
          /\ \A j \in 1 .. 0 : w[(Len(answer) + 1) + j] = <<"byte", s + j>>
    BY <2>1, ChunkAppended, Zenon
  <2>. QED BY <1>4, <2>2, Zenon
<1>8. answer' = w
  BY <1>1, <1>6, <1>7
<1>9. /\ \A i \in 1 .. l + 0 + 2 : w[i][2] \in Nat
      /\ \A k \in l + 2 .. l + 0 + 2 : w[k] # <<"size", 0>>
      /\ DecodedBefore(l + 1)' = s
      /\ ChunkAt(2)'
      /\ \A k \in 2 .. l + 0 + 1 : w[k] = <<"crlf", 0>> => ChunkAt(k + 1)'
  <2>1. body' = body /\ s = Start(next) /\ l = Len(answer) /\ job = "import" /\ at = "writing"
    BY <1>1, <1>2, <1>4
  <2>2. Appends(w, l, 0, s)
    BY <1>5, <1>7, <1>8, <2>1 DEF Appends
  <2>3. Decodes(w, l, 0, s)
    BY <2>1, <2>2, ChunkWritten
  <2>. QED BY <2>3 DEF Decodes
<1>10. l + 0 + 2 = l + 2 /\ l + 0 + 1 = l + 1 /\ Len(w) = l + 2 /\ l + 2 > 2 /\ (l + 2) - 1 = l + 1
  BY <1>5, <1>7
<1>11. ASSUME NEW k \in 2 .. l + 2 PROVE (w[k] = <<"size", 0>>) <=> k = l + 1
  <2>1. CASE k <= l
    <3>1. k \in 2 .. Len(answer) /\ k \in 1 .. l /\ k # l + 1
      BY <1>4, <1>5, <2>1
    <3>2. answer[k] # <<"size", 0>>
      BY <1>2, <3>1 DEF ImportBodyWhole
    <3>. QED BY <1>7, <3>1, <3>2
  <2>2. CASE k = l + 1
    BY <1>7, <2>2
  <2>3. CASE k > l + 1
    <3>1. k \in l + 2 .. l + 0 + 2 /\ k # l + 1
      BY <1>5, <2>3
    <3>. QED BY <1>9, <3>1
  <2>. QED BY <1>5, <2>1, <2>2, <2>3
<1>12. ImportBodyWhole'
  <2>1. Len(answer') = l + 2 /\ Len(answer') - 1 = l + 1
    BY <1>8, <1>10
  <2>2. DecodedBefore(Len(answer) - 1)' = Total'
    BY <1>5, <1>9, <2>1
  <2>3. (\A k \in 2 .. Len(answer) - 1 : answer[k] = <<"crlf", 0>> => ChunkAt(k + 1))'
    BY <1>8, <1>9, <1>10, <2>1
  <2>4. (\A k \in 2 .. Len(answer) : answer[k] = <<"size", 0>> <=> (result = "ok" /\ k = Len(answer) - 1))'
    BY <1>1, <1>8, <1>11, <2>1
  <2>. QED BY <1>1, <1>2, <1>9, <1>10, <2>1, <2>2, <2>3, <2>4 DEF ImportBodyWhole
<1>13. \A k \in 1 .. Len(answer') : answer'[k][2] \in Nat
  BY <1>8, <1>9, <1>10
<1>14. TypeOK'
  BY <1>1, <1>2, <1>8 DEF TypeOK
<1>15. StageInv'
  BY <1>1, <1>2 DEF StageInv, Reading, Early
<1>16. ImportInv'
  BY <1>1, <1>12, <1>13 DEF ImportInv
<1>. QED BY <1>1, <1>2, <1>14, <1>15, <1>16, ImportOnly DEF TunnelInv

-----------------------------------------------------------------------------
(* Steps of a Parquet file                                                 *)

\* What a Parquet file says nothing of.
LEMMA ParquetOnly ==
  ASSUME job' = "parquet"
  PROVE  ExportInv' /\ ImportInv'
BY DEF ExportInv, ImportInv

\* The requests that Exasol sends.
LEMMA RequestFacts ==
  ASSUME TypeOK, NEW r \in Requests
  PROVE  /\ r \in Request /\ r # NoRequest
         /\ job = "parquet" =>
              \/ r.method = "GET" /\ r.coding \in {"none", "range", "bad_range"}
              \/ r.method \in {"HEAD", "PUT", "garbage"}
         /\ r.method # "garbage" => r.method \in {"GET", "PUT", "HEAD"}
<1>. USE HttpTunnelAssumption
<1>1. CASE job = "parquet"
  BY <1>1 DEF Requests, Request, NoRequest
<1>2. CASE job # "parquet"
  BY <1>2 DEF Requests, Request, NoRequest
<1>. QED BY <1>1, <1>2

\* The answers that are no span.
LEMMA ExpectedShort ==
  ASSUME NEW r \in Request
  PROVE  /\ r.method = "HEAD" => Expected(r) = <<<<"200", FileLen>>>>
         /\ r.method = "PUT" => Expected(r) = <<<<"405", 0 - 1>>>>
         /\ r.method = "garbage" => Expected(r) = <<>>
         /\ r.method = "GET" /\ r.coding = "bad_range" => Expected(r) = <<<<"400", 0 - 1>>>>
         /\ r.method = "GET" /\ r.coding = "none" => Expected(r) = <<<<"200", FileLen>>>> \o Bytes(0, FileLen)
<1>1. ASSUME r.method = "HEAD" PROVE Expected(r) = <<<<"200", FileLen>>>>
  BY <1>1 DEF Expected
<1>2. ASSUME r.method = "PUT" PROVE Expected(r) = <<<<"405", 0 - 1>>>>
  BY <1>2 DEF Expected
<1>3. ASSUME r.method = "garbage" PROVE Expected(r) = <<>>
  BY <1>3 DEF Expected
<1>4. ASSUME r.method = "GET", r.coding = "bad_range" PROVE Expected(r) = <<<<"400", 0 - 1>>>>
  BY <1>4 DEF Expected
<1>5. ASSUME r.method = "GET", r.coding = "none" PROVE Expected(r) = <<<<"200", FileLen>>>> \o Bytes(0, FileLen)
  BY <1>5 DEF Expected
<1>. QED BY <1>1, <1>2, <1>3, <1>4, <1>5

\* The answer to a range: as many bytes as there are in it, cut to the file.
LEMMA ExpectedRange ==
  ASSUME NEW r \in Request, r.method = "GET", r.coding = "range",
         NEW end, end = Smaller(r.to, FileLen - 1)
  PROVE  IF FileLen = 0 \/ r.from >= FileLen \/ end < r.from
           THEN Expected(r) = <<<<"400", 0 - 1>>>>
           ELSE /\ Expected(r) = <<<<"206", end - r.from + 1>>>> \o Bytes(r.from, end - r.from + 1)
                /\ end - r.from + 1 \in Nat
<1>. DEFINE inRange == {i \in 0 .. FileLen - 1 : r.from <= i /\ i <= r.to}
<1>1. FileLen \in Nat /\ r.from \in Nat /\ r.to \in Nat
  BY HttpTunnelAssumption DEF Request
<1>2. CASE FileLen = 0 \/ r.from >= FileLen \/ end < r.from
  <2>1. inRange = {}
    BY <1>1, <1>2 DEF Smaller
  <2>. QED BY <1>2, <2>1 DEF Expected
<1>3. CASE ~(FileLen = 0 \/ r.from >= FileLen \/ end < r.from)
  <2>1. end \in Nat /\ r.from <= end /\ end - r.from + 1 \in Nat
    BY <1>1, <1>3 DEF Smaller
  <2>2. \A i : i \in inRange <=> i \in r.from .. end
    BY <1>1, <1>3 DEF Smaller
  <2>3. inRange = r.from .. end
    BY <2>2
  <2>4. Cardinality(r.from .. end) = end - r.from + 1
    <3>1. PICK a \in Int, b \in Int : a = r.from /\ b = end /\ a <= b
      BY <1>1, <2>1
    <3>2. Cardinality(a .. b) = IF a > b THEN 0 ELSE b - a + 1
      BY FS_Interval
    <3>3. Cardinality(a .. b) = b - a + 1
      BY <3>1, <3>2
    <3>. QED BY <3>1, <3>3
  <2>5. r.from \in inRange
    BY <1>1, <2>1, <2>3
  <2>6. Expected(r) = <<<<"206", Cardinality(inRange)>>>> \o Bytes(r.from, Cardinality(inRange))
    BY <2>5 DEF Expected
  <2>. QED BY <1>3, <2>1, <2>3, <2>4, <2>6
<1>. QED BY <1>2, <1>3

\* A head and the bytes behind it.
LEMMA SpanTokens ==
  ASSUME NEW h \in Token, NEW from \in Nat, NEW n \in Nat
  PROVE  /\ <<h>> \o Bytes(from, n) \in Seq(Token) /\ Len(<<h>> \o Bytes(from, n)) = 1 + n
         /\ (<<h>> \o Bytes(from, n))[1] = h
         /\ \A j \in 1 .. n : (<<h>> \o Bytes(from, n))[1 + j] = <<"byte", from + j - 1>>
<1>1. PICK a, b : a = <<h>> /\ b = Bytes(from, n)
  OBVIOUS
<1>2. a \in Seq(Token) /\ Len(a) = 1 /\ a[1] = h
  BY <1>1
<1>3. b \in Seq(Token) /\ Len(b) = n /\ \A i \in 1 .. n : b[i] = <<"byte", from + i - 1>>
  <2>1. from \in Int
    OBVIOUS
  <2>2. /\ Bytes(from, n) \in Seq(Token) /\ Len(Bytes(from, n)) = n
        /\ \A i \in 1 .. n : Bytes(from, n)[i] = <<"byte", from + i - 1>>
    BY <2>1, BytesFacts
  <2>. QED BY <1>1, <2>2
<1>4. /\ a \o b \in Seq(Token) /\ Len(a \o b) = Len(a) + Len(b)
      /\ \A i \in 1 .. Len(a) + Len(b) : (a \o b)[i] = IF i <= Len(a) THEN a[i] ELSE b[i - Len(a)]
  BY <1>2, <1>3, Joined
<1>5. PICK w : w = a \o b
  OBVIOUS
<1>6. w \in Seq(Token) /\ Len(w) = 1 + n /\ \A i \in 1 .. 1 + n : w[i] = IF i <= 1 THEN a[i] ELSE b[i - 1]
  BY <1>2, <1>3, <1>4, <1>5
<1>7. w[1] = h
  BY <1>2, <1>6
<1>8. \A j \in 1 .. n : w[1 + j] = <<"byte", from + j - 1>>
  <2>. TAKE j \in 1 .. n
  <2>1. 1 + j \in 1 .. 1 + n /\ ~(1 + j <= 1) /\ (1 + j) - 1 = j
    OBVIOUS
  <2>. QED BY <1>3, <1>6, <2>1
<1>. QED BY <1>1, <1>5, <1>6, <1>7, <1>8

\* Exasol sends a request, and for an export the body with it.
LEMMA ExasolRequestsStep ==
  ASSUME TunnelInv, ExasolRequests
  PROVE  TunnelInv'
<1>1. PICK r \in Requests :
        /\ exasol = "talking" /\ request = NoRequest /\ request' = r /\ asked' = Append(asked, r)
        /\ asked = <<>> \/ (job = "parquet" /\ at = "request")
        /\ IF r.method = "PUT" /\ job = "export"
             THEN \E coding \in {r.coding} \cup (IF r.coding = "chunked" THEN {"broken"} ELSE {}) :
                    wire' = BodyOnWire(coding)
             ELSE wire' = wire
        /\ UNCHANGED <<job, tls, body, stream, at, result, exasol, piece, sink, receiver, got, answer, begun, left, next, file>>
        /\ UNCHANGED <<choices, written>>
  BY DEF ExasolRequests, choices, connVars, written
<1>2. TypeOK /\ StageInv /\ ExportInv /\ ImportInv /\ ParquetInv
  BY DEF TunnelInv
<1>3. r \in Request /\ r # NoRequest
  BY <1>2, RequestFacts
<1>4. asked \in Seq(Request) /\ asked' \in Seq(Request) /\ asked' # <<>> /\ Len(asked') = Len(asked) + 1
      /\ asked'[Len(asked) + 1] = r /\ \A i \in 1 .. Len(asked) : asked'[i] = asked[i]
  <2>1. asked \in Seq(Request)
    BY <1>2 DEF TypeOK
  <2>2. /\ Append(asked, r) \in Seq(Request) /\ Append(asked, r) # <<>> /\ Len(Append(asked, r)) = Len(asked) + 1
        /\ Append(asked, r)[Len(asked) + 1] = r /\ \A i \in 1 .. Len(asked) : Append(asked, r)[i] = asked[i]
    BY <1>3, <2>1, AppendProperties
  <2>. QED BY <1>1, <2>1, <2>2
<1>5. /\ wire' \in Seq(Token)
      /\ job = "export" /\ r.method = "PUT" /\ r.coding = "chunked" => ChunksFrom(0)'
      /\ job = "export" /\ r.method = "PUT" /\ r.coding # "chunked" => BytesFrom(0)'
  <2>1. CASE r.method = "PUT" /\ job = "export"
    <3>1. PICK coding \in {r.coding} \cup (IF r.coding = "chunked" THEN {"broken"} ELSE {}) : wire' = BodyOnWire(coding)
      BY <1>1, <2>1
    <3>2. /\ wire' \in Seq(Token)
          /\ coding \in {"chunked", "broken"} => ChunksFrom(0)'
          /\ coding \notin {"chunked", "broken"} => BytesFrom(0)'
      BY <1>1, <1>2, <3>1, WirePut
    <3>3. r.coding = "chunked" => coding \in {"chunked", "broken"}
      BY <3>1
    <3>4. r.coding # "chunked" => coding = r.coding /\ r.coding # "broken"
      BY <1>3, <3>1 DEF Request
    <3>. QED BY <3>2, <3>3, <3>4
  <2>2. CASE ~(r.method = "PUT" /\ job = "export")
    BY <1>1, <1>2, <2>2 DEF TypeOK
  <2>. QED BY <2>1, <2>2
<1>6. TypeOK'
  BY <1>1, <1>2, <1>3, <1>4, <1>5 DEF TypeOK
<1>7. StageInv'
  BY <1>1, <1>2, <1>4 DEF StageInv
<1>8. ImportInv'
  <2>1. Passes
    BY <1>1 DEF Passes
  <2>. QED BY <1>1, <2>1, ImportPasses DEF written
<1>9. ASSUME job = "export" PROVE ExportInv'
  <2>1. asked = <<>> /\ ExportForwardsBody
    BY <1>1, <1>2, <1>9 DEF ExportInv
  <2>2. at \notin Reading /\ result # "ok" /\ answer = <<>>
    BY <1>2, <1>9, <2>1 DEF ExportInv
  <2>3. Total' = Total /\ \A c : Start(c)' = Start(c) /\ Size(c)' = Size(c) /\ Before(c)' = Before(c)
    BY <1>1, SameBody
  <2>4. \A i : Reached(i)' = Reached(i)
    BY <1>1 DEF Reached
  <2>5. ExportForwardsBody'
    BY <1>1, <2>1, <2>2, <2>3, <2>4 DEF ExportForwardsBody, Follows, Bytes
  <2>6. asked'[1] = r
    BY <1>4, <2>1
  <2>. QED BY <1>1, <1>2, <1>5, <1>9, <2>2, <2>3, <2>4, <2>5, <2>6 DEF ExportInv
<1>10. ASSUME job = "parquet" PROVE ParquetInv'
  <2>1. RangeAnswersExact /\ Len(asked) = Len(begun) /\ Len(begun) \in Nat
    BY <1>1, <1>2, <1>10 DEF ParquetInv, TypeOK
  <2>2. result # "ok"
    BY <1>1, <1>2, <1>10 DEF ParquetInv
  <2>3. at # "span"
    <3>1. asked = <<>> => Len(begun) = 0
      BY <2>1
    <3>2. at = "span" => Len(begun) > 0
      BY <1>2, <1>10 DEF ParquetInv
    <3>. QED BY <1>1, <3>1, <3>2
  <2>4. \A i : ReplyLen(i)' = ReplyLen(i)
    BY <1>1 DEF ReplyLen
  <2>5. \A q : Expected(q)' = Expected(q)
    BY DEF Expected, Bytes
  <2>6. Requests' = Requests
    BY <1>1 DEF Requests
  <2>7. \A i \in 1 .. Len(begun) : asked'[i] = asked[i]
    BY <1>4, <2>1
  <2>8. RangeAnswersExact'
    BY <1>1, <1>3, <1>10, <2>1, <2>2, <2>4, <2>5, <2>7 DEF RangeAnswersExact
  <2>9. (\A i \in 1 .. Len(asked) : asked[i] \in Requests)'
    <3>1. ASSUME NEW i \in 1 .. Len(asked) + 1 PROVE asked'[i] \in Requests
      <4>1. i \in 1 .. Len(asked) \/ i = Len(asked) + 1
        BY <2>1
      <4>2. \A k \in 1 .. Len(asked) : asked[k] \in Requests
        BY <1>2, <1>10 DEF ParquetInv
      <4>. QED BY <1>4, <4>1, <4>2
    <3>. QED BY <1>4, <2>6, <3>1
  <2>10. (Len(asked) = Len(begun) + (IF request = NoRequest THEN 0 ELSE 1))'
         /\ (request # NoRequest => request = asked[Len(asked)])'
    BY <1>1, <1>3, <1>4, <2>1
  <2>. QED BY <1>1, <1>2, <1>10, <2>2, <2>3, <2>8, <2>9, <2>10 DEF ParquetInv
<1>11. ExportInv' /\ ParquetInv'
  BY <1>1, <1>9, <1>10 DEF ExportInv, ParquetInv
<1>. QED BY <1>6, <1>7, <1>8, <1>11 DEF TunnelInv

\* The client meets the end of the conversation where it waits for a request.
LEMMA RequestEndsStep ==
  ASSUME TunnelInv, RequestEnds
  PROVE  TunnelInv'
<1>1. /\ at = "request" /\ at' = "ended" /\ result' = (IF job = "parquet" THEN "ok" ELSE "err")
      /\ (request = NoRequest /\ exasol \in {"closed", "gone"}) \/ request.method = "garbage"
      /\ UNCHANGED <<job, tls, body, stream, exasol, request, asked, wire, piece, sink, receiver, got, answer, begun, left, next, file>>
      /\ UNCHANGED <<choices, exportVars, written>>
  BY DEF RequestEnds, choices, written, peerVars, exportVars, Ended
<1>2. TypeOK /\ StageInv /\ ParquetInv
  BY DEF TunnelInv
<1>3. CASE job # "parquet"
  <2>1. Passes
    BY <1>1, <1>3 DEF Passes
  <2>. QED BY <1>1, <1>2, <2>1, PassesKeeps DEF TypeOK
<1>4. CASE job = "parquet"
  <2>1. TypeOK'
    BY <1>1, <1>2, <1>4 DEF TypeOK
  <2>2. StageInv'
    BY <1>1, <1>2, <1>4 DEF StageInv, Reading, Early
  <2>3. RangeAnswersExact /\ Len(begun) \in Nat /\ Len(asked) \in Nat /\ asked \in Seq(Request)
    BY <1>2, <1>4 DEF ParquetInv, TypeOK
  <2>4. \A i : ReplyLen(i)' = ReplyLen(i)
    BY <1>1 DEF ReplyLen
  <2>5. \A q : Expected(q)' = Expected(q)
    BY DEF Expected, Bytes
  <2>6. Requests' = Requests
    BY <1>1 DEF Requests
  <2>7. ASSUME NEW i \in Len(begun) + 1 .. Len(asked) PROVE Expected(asked[i]) = <<>>
    <3>1. request # NoRequest /\ Len(asked) = Len(begun) + 1 /\ request = asked[Len(asked)]
      BY <1>2, <1>4, <2>3 DEF ParquetInv
    <3>2. i = Len(asked) /\ request.method = "garbage" /\ request \in Request
      BY <1>1, <1>2, <2>3, <3>1 DEF TypeOK
    <3>. QED BY <3>1, <3>2, ExpectedShort
  <2>8. \A i \in 1 .. Len(begun) : ReplyLen(i) = Len(Expected(asked[i]))
    BY <1>1, <1>4, <2>3 DEF RangeAnswersExact
  <2>9. RangeAnswersExact'
    BY <1>1, <1>4, <2>3, <2>4, <2>5, <2>7, <2>8 DEF RangeAnswersExact
  <2>10. request # NoRequest \/ exasol \in {"closed", "gone"}
    BY <1>1 DEF NoRequest
  <2>11. ParquetInv'
    BY <1>1, <1>2, <1>4, <2>6, <2>9, <2>10 DEF ParquetInv, Early
  <2>. QED BY <1>1, <1>4, <2>1, <2>2, <2>11, ParquetOnly DEF TunnelInv
<1>. QED BY <1>3, <1>4

\* Where the answers lie in what was written.
LEMMA ReplyPlaces ==
  ASSUME TypeOK, ParquetInv, job = "parquet", NEW i \in 1 .. Len(begun)
  PROVE  /\ begun[i] \in Nat /\ ReplyLen(i) \in Nat /\ begun[i] + ReplyLen(i) <= Len(answer)
         /\ i = Len(begun) => begun[i] + ReplyLen(i) = Len(answer)
         /\ i < Len(begun) => begun[i + 1] \in Nat /\ ReplyLen(i) = begun[i + 1] - begun[i]
         /\ ReplyLen(i) \in 1 .. Len(Expected(asked[i]))
         /\ \A j \in 1 .. ReplyLen(i) : answer[begun[i] + j] = Expected(asked[i])[j]
<1>1. begun \in Seq(Nat) /\ Len(begun) \in Nat /\ Len(answer) \in Nat
  BY DEF TypeOK
<1>2. begun[i] \in Nat /\ begun[i] <= Len(answer)
  BY <1>1 DEF ParquetInv
<1>3. ReplyLen(i) \in 1 .. Len(Expected(asked[i])) /\ \A j \in 1 .. ReplyLen(i) : answer[begun[i] + j] = Expected(asked[i])[j]
  BY DEF ParquetInv, RangeAnswersExact
<1>4. CASE i = Len(begun)
  <2>1. ReplyLen(i) = Len(answer) - begun[i]
    BY <1>4 DEF ReplyLen
  <2>2. ReplyLen(i) \in Nat /\ begun[i] + ReplyLen(i) = Len(answer)
    BY <1>1, <1>2, <2>1
  <2>. QED BY <1>1, <1>2, <1>3, <1>4, <2>2
<1>5. CASE i # Len(begun)
  <2>1. i + 1 \in 1 .. Len(begun)
    BY <1>1, <1>5
  <2>2. begun[i + 1] \in Nat /\ begun[i + 1] <= Len(answer)
    BY <1>1, <2>1 DEF ParquetInv
  <2>3. ReplyLen(i) = begun[i + 1] - begun[i]
    BY <1>5 DEF ReplyLen
  <2>4. ReplyLen(i) \in Int /\ ReplyLen(i) >= 1
    BY <1>2, <1>3, <2>2, <2>3
  <2>. QED BY <1>2, <1>3, <1>5, <2>2, <2>3, <2>4
<1>. QED BY <1>4, <1>5

\* Every answer begins with a head; the bytes of a span follow.
LEMMA AnswerBegins ==
  ASSUME TunnelInv, TakeParquetRequest
  PROVE  \E h \in Token :
           /\ answer' = Append(answer, h)
           /\ \/ /\ at' \in {"request", "ended"} /\ Expected(request) = <<h>>
                 /\ at' = "request" => result' = result
                 /\ at' = "ended" => result' = "err"
                 /\ UNCHANGED <<next, left>>
              \/ /\ at' = "span" /\ result' = result /\ next' \in Nat /\ left' \in Nat
                 /\ Expected(request) = <<h>> \o Bytes(next', left')
<1>1. at = "request" /\ job = "parquet" /\ TypeOK /\ request \in Request
  BY DEF TakeParquetRequest, TunnelInv, TypeOK
<1>2. FileLen \in Nat
  BY HttpTunnelAssumption
<1>3. <<"200", FileLen>> \in Token
  BY <1>2 DEF Token
<1>4. CASE request.method = "HEAD"
  <2>1. answer' = Append(answer, <<"200", FileLen>>) /\ UNCHANGED <<at, next, left, result>>
    BY <1>4 DEF TakeParquetRequest
  <2>2. Expected(request) = <<<<"200", FileLen>>>>
    BY <1>1, <1>4, ExpectedShort
  <2>. QED BY <1>1, <1>2, <1>3, <2>1, <2>2
<1>5. CASE request.method = "PUT"
  <2>1. answer' = Append(answer, <<"405", 0 - 1>>) /\ at' = "ended" /\ result' = "err" /\ UNCHANGED <<next, left>>
    BY <1>5 DEF TakeParquetRequest, Ended
  <2>2. Expected(request) = <<<<"405", 0 - 1>>>>
    BY <1>1, <1>5, ExpectedShort
  <2>3. <<"405", 0 - 1>> \in Token
    BY DEF Token
  <2>. QED BY <2>1, <2>2, <2>3
<1>6. CASE request.method = "GET" /\ request.coding = "none"
  <2>1. answer' = Append(answer, <<"200", FileLen>>) /\ at' = "span" /\ next' = 0 /\ left' = FileLen /\ result' = result
    BY <1>6 DEF TakeParquetRequest, BeginSpan
  <2>2. Expected(request) = <<<<"200", FileLen>>>> \o Bytes(0, FileLen)
    BY <1>1, <1>6, ExpectedShort
  <2>. QED BY <1>2, <1>3, <2>1, <2>2
<1>7. CASE request.method = "GET" /\ request.coding # "none"
  <2>1. ServeByteRange(request.from, request.to)
    BY <1>7 DEF TakeParquetRequest
  <2>2. PICK end, from : end = Smaller(request.to, FileLen - 1) /\ from = request.from
    OBVIOUS
  <2>3. request.coding \in {"range", "bad_range"}
    <3>1. request # NoRequest
      BY <1>7 DEF NoRequest
    <3>2. request \in Requests
      <4>1. request = asked[Len(asked)] /\ Len(asked) = Len(begun) + 1 /\ \A i \in 1 .. Len(asked) : asked[i] \in Requests
        BY <1>1, <3>1 DEF TunnelInv, ParquetInv
      <4>2. Len(begun) \in Nat
        BY <1>1 DEF TypeOK
      <4>3. Len(asked) \in 1 .. Len(asked)
        BY <4>1, <4>2
      <4>. QED BY <4>1, <4>3
    <3>. QED BY <1>1, <1>7, <3>2, RequestFacts
  <2>4. CASE request.coding = "bad_range" \/ FileLen = 0 \/ from >= FileLen \/ end < from
    <3>1. answer' = Append(answer, <<"400", 0 - 1>>) /\ UNCHANGED <<at, next, left, result>>
      BY <2>1, <2>2, <2>4 DEF ServeByteRange
    <3>2. Expected(request) = <<<<"400", 0 - 1>>>>
      <4>1. CASE request.coding = "bad_range"
        BY <1>1, <1>7, <4>1, ExpectedShort
      <4>2. CASE request.coding = "range"
        BY <1>1, <1>7, <2>2, <2>4, <4>2, ExpectedRange
      <4>. QED BY <2>3, <4>1, <4>2
    <3>3. <<"400", 0 - 1>> \in Token
      BY DEF Token
    <3>. QED BY <1>1, <3>1, <3>2, <3>3
  <2>5. CASE ~(request.coding = "bad_range" \/ FileLen = 0 \/ from >= FileLen \/ end < from)
    <3>1. answer' = Append(answer, <<"206", end - from + 1>>) /\ at' = "span" /\ next' = from /\ left' = end - from + 1
          /\ result' = result
      BY <2>1, <2>2, <2>5 DEF ServeByteRange, BeginSpan
    <3>2. Expected(request) = <<<<"206", end - from + 1>>>> \o Bytes(from, end - from + 1) /\ end - from + 1 \in Nat
      BY <1>1, <1>7, <2>2, <2>3, <2>5, ExpectedRange
    <3>3. from \in Nat /\ <<"206", end - from + 1>> \in Token
      <4>1. from \in Nat
        BY <1>1, <2>2 DEF Request
      <4>2. PICK n \in Nat : n = end - from + 1
        BY <3>2
      <4>3. <<"206", n>> \in Token
        BY DEF Token
      <4>. QED BY <4>1, <4>2, <4>3
    <3>. QED BY <3>1, <3>2, <3>3
  <2>. QED BY <2>4, <2>5
<1>. QED BY <1>4, <1>5, <1>6, <1>7 DEF TakeParquetRequest

\* The client takes a request for the Parquet file.
LEMMA TakeParquetStep ==
  ASSUME TunnelInv, TakeParquetRequest
  PROVE  TunnelInv'
<1>1. /\ at = "request" /\ job = "parquet" /\ request' = NoRequest /\ begun' = Append(begun, Len(answer))
      /\ request.method \in {"GET", "PUT", "HEAD"}
      /\ UNCHANGED <<job, tls, body, stream, exasol, asked, wire, piece, sink, receiver, got, file>>
  BY DEF TakeParquetRequest, choices, exportVars
<1>2. TypeOK /\ StageInv /\ ParquetInv /\ RangeAnswersExact /\ result = "none"
  BY <1>1 DEF TunnelInv, StageInv, TypeOK, ParquetInv
<1>3. PICK h \in Token :
        /\ answer' = Append(answer, h)
        /\ \/ /\ at' \in {"request", "ended"} /\ Expected(request) = <<h>>
              /\ at' = "request" => result' = result
              /\ at' = "ended" => result' = "err"
              /\ UNCHANGED <<next, left>>
           \/ /\ at' = "span" /\ result' = result /\ next' \in Nat /\ left' \in Nat
              /\ Expected(request) = <<h>> \o Bytes(next', left')
  BY AnswerBegins
<1>4. request # NoRequest
  BY <1>1 DEF NoRequest
<1>5. PICK b, l, E : b = Len(begun) /\ l = Len(answer) /\ E = Expected(request)
  OBVIOUS
<1>6. /\ b \in Nat /\ l \in Nat /\ Len(asked) = b + 1 /\ request = asked[b + 1]
      /\ \A i \in 1 .. Len(asked) : asked[i] \in Requests
  BY <1>1, <1>2, <1>4, <1>5 DEF ParquetInv, TypeOK
<1>7. answer' \in Seq(Token) /\ Len(answer') = l + 1 /\ answer'[l + 1] = h /\ \A i \in 1 .. l : answer'[i] = answer[i]
  <2>1. answer \in Seq(Token)
    BY <1>2 DEF TypeOK
  <2>2. /\ Append(answer, h) \in Seq(Token) /\ Len(Append(answer, h)) = Len(answer) + 1
        /\ Append(answer, h)[Len(answer) + 1] = h
        /\ \A i \in 1 .. Len(answer) : Append(answer, h)[i] = answer[i]
    BY <2>1, AppendProperties
  <2>. QED BY <1>3, <1>5, <2>2
<1>8. begun' \in Seq(Nat) /\ Len(begun') = b + 1 /\ begun'[b + 1] = l /\ \A i \in 1 .. b : begun'[i] = begun[i]
  <2>1. begun \in Seq(Nat)
    BY <1>2 DEF TypeOK
  <2>2. begun' = Append(begun, l)
    BY <1>1, <1>5
  <2>3. /\ Append(begun, l) \in Seq(Nat) /\ Len(Append(begun, l)) = Len(begun) + 1
        /\ Append(begun, l)[Len(begun) + 1] = l
        /\ \A i \in 1 .. Len(begun) : Append(begun, l)[i] = begun[i]
    BY <1>6, <2>1, AppendProperties
  <2>. QED BY <1>5, <2>2, <2>3
<1>9. PICK n \in Nat :
        /\ Len(E) = 1 + n /\ E[1] = h
        /\ at' = "span" => n = left' /\ \A j \in 1 .. n : E[1 + j] = <<"byte", next' + j - 1>>
        /\ at' # "span" => n = 0
  <2>1. CASE at' = "span"
    <3>1. PICK f \in Nat, n \in Nat : f = next' /\ n = left' /\ E = <<h>> \o Bytes(f, n)
      BY <1>3, <1>5, <2>1
    <3>2. /\ Len(<<h>> \o Bytes(f, n)) = 1 + n /\ (<<h>> \o Bytes(f, n))[1] = h
          /\ \A j \in 1 .. n : (<<h>> \o Bytes(f, n))[1 + j] = <<"byte", f + j - 1>>
      BY SpanTokens
    <3>3. Len(E) = 1 + n /\ E[1] = h /\ \A j \in 1 .. n : E[1 + j] = <<"byte", f + j - 1>>
      BY <3>1, <3>2, Zenon
    <3>. QED BY <2>1, <3>1, <3>3
  <2>2. CASE at' # "span"
    <3>1. E = <<h>>
      BY <1>3, <1>5, <2>2
    <3>2. Len(E) = 1 /\ E[1] = h
      BY <3>1
    <3>. QED BY <2>2, <3>2
  <2>. QED BY <2>1, <2>2
<1>10. TypeOK'
  <2>1. NoRequest \in Request
    BY DEF NoRequest, Request
  <2>2. next' \in Nat /\ left' \in Int
    BY <1>2, <1>3 DEF TypeOK
  <2>3. at' \in {"request", "ended", "span"} /\ result' \in {"none", "err"}
    BY <1>2, <1>3
  <2>. QED BY <1>1, <1>2, <1>7, <1>8, <2>1, <2>2, <2>3 DEF TypeOK
<1>11. StageInv'
  <2>1. at' \in {"request", "ended", "span"} /\ (at' = "ended" <=> result' # "none")
    BY <1>2, <1>3
  <2>. QED BY <1>1, <2>1 DEF StageInv, Reading, Early
<1>12. \A q : Expected(q)' = Expected(q)
  BY DEF Expected, Bytes
<1>13. ASSUME NEW i \in 1 .. b
       PROVE  /\ ReplyLen(i)' = ReplyLen(i) /\ begun'[i] = begun[i] /\ begun'[i] <= l + 1
              /\ ReplyLen(i) = Len(Expected(asked[i])) /\ ReplyLen(i) \in 1 .. Len(Expected(asked[i]))
              /\ \A j \in 1 .. ReplyLen(i) : answer'[begun'[i] + j] = Expected(asked[i])[j]
  <2>1. /\ begun[i] \in Nat /\ ReplyLen(i) \in Nat /\ begun[i] + ReplyLen(i) <= l
        /\ i = b => begun[i] + ReplyLen(i) = l
        /\ i < b => begun[i + 1] \in Nat /\ ReplyLen(i) = begun[i + 1] - begun[i]
        /\ ReplyLen(i) \in 1 .. Len(Expected(asked[i]))
        /\ \A j \in 1 .. ReplyLen(i) : answer[begun[i] + j] = Expected(asked[i])[j]
    BY <1>1, <1>2, <1>5, ReplyPlaces
  <2>2. begun'[i] = begun[i] /\ i # Len(begun')
    BY <1>6, <1>8
  <2>3. ReplyLen(i)' = begun'[i + 1] - begun'[i]
    BY <2>2 DEF ReplyLen
  <2>4. ReplyLen(i)' = ReplyLen(i)
    <3>1. CASE i = b
      <4>1. begun'[i + 1] = l
        BY <1>8, <3>1
      <4>. QED BY <1>6, <2>1, <2>2, <2>3, <3>1, <4>1
    <3>2. CASE i < b
      <4>1. i + 1 \in 1 .. b
        BY <1>6, <3>2
      <4>. QED BY <1>8, <2>1, <2>2, <2>3, <3>2, <4>1
    <3>. QED BY <1>6, <3>1, <3>2
  <2>5. ASSUME NEW j \in 1 .. ReplyLen(i) PROVE answer'[begun'[i] + j] = Expected(asked[i])[j]
    <3>1. begun[i] + j \in 1 .. l
      BY <1>6, <2>1
    <3>. QED BY <1>7, <2>1, <2>2, <3>1
  <2>6. ReplyLen(i) = Len(Expected(asked[i]))
    BY <1>1, <1>2, <1>5 DEF RangeAnswersExact
  <2>7. begun'[i] <= l + 1
    BY <1>6, <2>1, <2>2
  <2>. QED BY <2>1, <2>2, <2>4, <2>5, <2>6, <2>7
<1>14. ReplyLen(b + 1)' = 1
  <2>1. ReplyLen(b + 1)' = Len(answer') - begun'[b + 1]
    BY <1>8 DEF ReplyLen
  <2>. QED BY <1>6, <1>7, <1>8, <2>1
<1>15. Expected(asked[b + 1]) = E
  BY <1>5, <1>6
<1>16. ASSUME NEW i \in 1 .. b + 1
       PROVE  /\ ReplyLen(i)' \in 1 .. Len(Expected(asked[i]))
              /\ \A j \in 1 .. ReplyLen(i)' : answer'[begun'[i] + j] = Expected(asked[i])[j]
              /\ i < b + 1 \/ at' = "request" \/ result' = "ok" => ReplyLen(i)' = Len(Expected(asked[i]))
  <2>1. CASE i \in 1 .. b
    BY <1>13, <2>1
  <2>2. CASE i = b + 1
    <3>1. ReplyLen(i)' = 1 /\ Expected(asked[i]) = E /\ Len(E) = 1 + n /\ E[1] = h /\ begun'[i] = l
      BY <1>8, <1>9, <1>14, <1>15, <2>2
    <3>2. 1 \in 1 .. Len(E) /\ ~(i < b + 1) /\ result' # "ok"
      BY <1>2, <1>3, <1>6, <1>9, <2>2
    <3>3. \A j \in 1 .. 1 : j = 1
      OBVIOUS
    <3>4. at' = "request" => Len(E) = 1
      BY <1>9
    <3>. QED BY <1>7, <3>1, <3>2, <3>3, <3>4
  <2>3. i \in 1 .. b \/ i = b + 1
    BY <1>6
  <2>. QED BY <2>1, <2>2, <2>3
<1>17. begun' # <<>> /\ begun'[1] = 0
  <2>1. IF begun = <<>> THEN answer = <<>> ELSE begun[1] = 0
    BY <1>1, <1>2 DEF RangeAnswersExact
  <2>2. begun \in Seq(Nat)
    BY <1>2 DEF TypeOK
  <2>3. CASE begun = <<>>
    <3>1. b = 0 /\ l = 0
      BY <1>5, <2>1, <2>3
    <3>. QED BY <1>8, <3>1
  <2>4. CASE begun # <<>>
    <3>1. Len(begun) \in Nat /\ Len(begun) # 0
      BY <2>2, <2>4
    <3>2. 1 \in 1 .. b
      BY <1>5, <3>1
    <3>3. begun'[1] = begun[1] /\ Len(begun') # 0
      BY <1>6, <1>8, <3>2
    <3>4. begun[1] = 0
      BY <2>1, <2>4
    <3>. QED BY <3>3, <3>4
  <2>. QED BY <2>3, <2>4
<1>18. RangeAnswersExact'
  <2>1. \A i \in Len(begun') + 1 .. Len(asked') : Expected(asked[i]) = <<>>
    BY <1>1, <1>6, <1>8
  <2>. QED BY <1>1, <1>8, <1>12, <1>16, <1>17, <2>1 DEF RangeAnswersExact
<1>19. (\A i \in 1 .. Len(begun) : begun[i] <= Len(answer))'
  <2>1. ASSUME NEW i \in 1 .. b + 1 PROVE begun'[i] <= l + 1
    <3>1. i \in 1 .. b \/ i = b + 1
      BY <1>6
    <3>2. begun'[b + 1] <= l + 1
      BY <1>6, <1>8
    <3>. QED BY <1>13, <3>1, <3>2
  <2>. QED BY <1>7, <1>8, <2>1
<1>20. /\ (\A i \in 1 .. Len(asked) : asked[i] \in Requests)'
       /\ (Len(asked) = Len(begun) + (IF request = NoRequest THEN 0 ELSE 1))'
       /\ (request # NoRequest => request = asked[Len(asked)])'
       /\ at' \notin Early /\ result' # "ok"
  <2>1. Requests' = Requests
    BY <1>1 DEF Requests
  <2>2. at' \notin Early /\ result' # "ok"
    BY <1>2, <1>3 DEF Early
  <2>. QED BY <1>1, <1>6, <1>8, <2>1, <2>2
<1>21. at' = "span" =>
         /\ Len(begun') > 0 /\ left' >= 0 /\ ReplyLen(Len(begun))' = Len(Expected(asked'[Len(begun')])) - left'
         /\ \A j \in 1 .. left' :
              Expected(asked'[Len(begun')])[Len(Expected(asked'[Len(begun')])) - left' + j] = <<"byte", next' + j - 1>>
  <2>. SUFFICES ASSUME at' = "span"
                PROVE  /\ Len(begun') > 0 /\ left' >= 0 /\ ReplyLen(b + 1)' = Len(E) - left'
                       /\ \A j \in 1 .. left' : E[Len(E) - left' + j] = <<"byte", next' + j - 1>>
    BY <1>1, <1>8, <1>15 DEF ReplyLen
  <2>1. left' = n /\ Len(E) = 1 + n /\ \A j \in 1 .. n : E[1 + j] = <<"byte", next' + j - 1>>
    BY <1>9
  <2>2. Len(begun') > 0 /\ Len(E) - left' = 1 /\ left' >= 0
    BY <1>6, <1>8, <2>1
  <2>. QED BY <1>14, <2>1, <2>2
<1>22. ParquetInv'
  BY <1>1, <1>12, <1>18, <1>19, <1>20, <1>21 DEF ParquetInv
<1>. QED BY <1>1, <1>10, <1>11, <1>22, ParquetOnly DEF TunnelInv


\* An answer has a length.
LEMMA ExpectedLen ==
  ASSUME NEW r \in Request
  PROVE  Len(Expected(r)) \in Nat
<1>1. ASSUME NEW h \in Token, NEW f \in Nat, NEW n \in Nat, Expected(r) = <<h>> \o Bytes(f, n)
      PROVE  Len(Expected(r)) \in Nat
  <2>1. Len(<<h>> \o Bytes(f, n)) = 1 + n
    BY SpanTokens
  <2>. QED BY <1>1, <2>1
<1>2. FileLen \in Nat /\ <<"200", FileLen>> \in Token /\ r.from \in Nat
  BY HttpTunnelAssumption DEF Token, Request
<1>3. CASE r.method = "GET" /\ r.coding = "none"
  <2>1. Expected(r) = <<<<"200", FileLen>>>> \o Bytes(0, FileLen)
    BY <1>3 DEF Expected
  <2>. QED BY <1>1, <1>2, <2>1
<1>4. CASE r.method = "GET" /\ r.coding = "range"
  <2>1. PICK end : end = Smaller(r.to, FileLen - 1)
    OBVIOUS
  <2>2. CASE Expected(r) = <<<<"400", 0 - 1>>>>
    BY <2>2
  <2>3. CASE Expected(r) # <<<<"400", 0 - 1>>>>
    <3>1. Expected(r) = <<<<"206", end - r.from + 1>>>> \o Bytes(r.from, end - r.from + 1) /\ end - r.from + 1 \in Nat
      BY <1>4, <2>1, <2>3, ExpectedRange
    <3>2. PICK n \in Nat : n = end - r.from + 1
      BY <3>1
    <3>3. <<"206", n>> \in Token /\ Expected(r) = <<<<"206", n>>>> \o Bytes(r.from, n)
      BY <3>1, <3>2 DEF Token
    <3>. QED BY <1>1, <1>2, <3>3
  <2>. QED BY <2>2, <2>3
<1>5. CASE ~(r.method = "GET" /\ r.coding \in {"none", "range"})
  BY <1>5 DEF Expected
<1>. QED BY <1>3, <1>4, <1>5

\* A run of bytes behind what was written.
LEMMA AnswerGrows ==
  ASSUME NEW a \in Seq(Token), NEW f \in Nat, NEW n \in Nat
  PROVE  /\ a \o Bytes(f, n) \in Seq(Token) /\ Len(a \o Bytes(f, n)) = Len(a) + n
         /\ \A i \in 1 .. Len(a) : (a \o Bytes(f, n))[i] = a[i]
         /\ \A i \in 1 .. n : (a \o Bytes(f, n))[Len(a) + i] = <<"byte", f + i - 1>>
<1>1. PICK b : b = Bytes(f, n)
  OBVIOUS
<1>2. b \in Seq(Token) /\ Len(b) = n /\ \A i \in 1 .. n : b[i] = <<"byte", f + i - 1>>
  <2>1. f \in Int
    OBVIOUS
  <2>2. /\ Bytes(f, n) \in Seq(Token) /\ Len(Bytes(f, n)) = n
        /\ \A i \in 1 .. n : Bytes(f, n)[i] = <<"byte", f + i - 1>>
    BY <2>1, BytesFacts
  <2>. QED BY <1>1, <2>2
<1>3. PICK w, l : w = a \o b /\ l = Len(a)
  OBVIOUS
<1>4. w \in Seq(Token) /\ Len(w) = l + n /\ l \in Nat
      /\ \A i \in 1 .. l + n : w[i] = IF i <= l THEN a[i] ELSE b[i - l]
  <2>1. /\ a \o b \in Seq(Token) /\ Len(a \o b) = Len(a) + Len(b)
        /\ \A i \in 1 .. Len(a) + Len(b) : (a \o b)[i] = IF i <= Len(a) THEN a[i] ELSE b[i - Len(a)]
    BY <1>2, Joined
  <2>2. l \in Nat
    BY <1>3
  <2>. QED BY <1>2, <1>3, <2>1, <2>2
<1>5. \A i \in 1 .. l : w[i] = a[i]
  BY <1>4
<1>6. ASSUME NEW i \in 1 .. n PROVE w[l + i] = <<"byte", f + i - 1>>
  <2>1. l + i \in 1 .. l + n /\ ~(l + i <= l) /\ (l + i) - l = i
    BY <1>4
  <2>. QED BY <1>2, <1>4, <2>1
<1>. QED BY <1>1, <1>3, <1>4, <1>5, <1>6

\* The client writes the next piece of the file, or ends the answer.
LEMMA ServePieceStep ==
  ASSUME TunnelInv, ServePiece
  PROVE  TunnelInv'
<1>1. /\ at = "span"
      /\ UNCHANGED <<job, tls, body, stream, exasol, request, asked, wire, piece, sink, receiver, got, begun, file>>
      /\ UNCHANGED <<choices, exportVars>>
  BY DEF ServePiece, choices, exportVars, peerVars
<1>2. TypeOK /\ StageInv /\ ParquetInv /\ job = "parquet" /\ RangeAnswersExact /\ result = "none"
  BY <1>1 DEF TunnelInv, StageInv, TypeOK, ParquetInv
<1>3. PICK b, l, E, k, f :
        b = Len(begun) /\ l = Len(answer) /\ E = Expected(asked[b]) /\ k = left /\ f = next
  OBVIOUS
<1>4. /\ b \in Nat /\ l \in Nat /\ b > 0 /\ k \in Nat /\ f \in Nat /\ ReplyLen(b) = Len(E) - k
      /\ \A j \in 1 .. k : E[Len(E) - k + j] = <<"byte", f + j - 1>>
  <2>1. /\ Len(begun) > 0 /\ left >= 0 /\ ReplyLen(Len(begun)) = Len(Expected(asked[Len(begun)])) - left
        /\ \A j \in 1 .. left :
             Expected(asked[Len(begun)])[Len(Expected(asked[Len(begun)])) - left + j] = <<"byte", next + j - 1>>
    BY <1>1, <1>2 DEF ParquetInv
  <2>2. Len(begun) \in Nat /\ Len(answer) \in Nat /\ left \in Int /\ next \in Nat
    BY <1>2 DEF TypeOK
  <2>3. b \in Nat /\ l \in Nat /\ b > 0 /\ k \in Nat /\ f \in Nat
    BY <1>3, <2>1, <2>2
  <2>. QED BY <1>3, <2>1, <2>3
<1>5. \A q : Expected(q)' = Expected(q)
  BY DEF Expected, Bytes
<1>6. Requests' = Requests
  BY <1>1 DEF Requests
<1>7. \A i \in 1 .. b : Len(Expected(asked[i])) \in Nat
  <2>. SUFFICES ASSUME NEW i \in 1 .. b PROVE Len(Expected(asked[i])) \in Nat
    OBVIOUS
  <2>1. i \in 1 .. Len(asked) /\ asked \in Seq(Request)
    BY <1>2, <1>3, <1>4 DEF ParquetInv, TypeOK
  <2>. QED BY <2>1, ExpectedLen
<1>8. CASE left > 0 /\ next + Smaller(left, PieceMax) > file /\ Ended("err") /\ UNCHANGED <<answer, next, left>>
  <2>1. Passes
    BY <1>1, <1>8 DEF Passes, Ended
  <2>2. UNCHANGED <<choices, asked, request, exportVars, written, left, next>>
    BY <1>1, <1>8 DEF written
  <2>. QED BY <1>1, <1>2, <2>1, <2>2, PassesKeeps DEF TypeOK
<1>9. CASE left = 0 /\ at' = "request" /\ UNCHANGED <<result, answer, next, left>>
  <2>1. TypeOK' /\ StageInv'
    BY <1>1, <1>2, <1>9 DEF TypeOK, StageInv, Early, Reading
  <2>2. \A i : ReplyLen(i)' = ReplyLen(i)
    BY <1>1, <1>9 DEF ReplyLen
  <2>3. ReplyLen(b) = Len(E) /\ b \in 1 .. b
    BY <1>3, <1>4, <1>7, <1>9
  <2>4. \A i \in 1 .. b :
          /\ ReplyLen(i) \in 1 .. Len(Expected(asked[i]))
          /\ \A j \in 1 .. ReplyLen(i) : answer[begun[i] + j] = Expected(asked[i])[j]
          /\ ReplyLen(i) = Len(Expected(asked[i]))
    <3>1. \A i \in 1 .. b : i < b \/ i = b
      BY <1>4
    <3>. QED BY <1>2, <1>3, <2>3, <3>1 DEF RangeAnswersExact
  <2>5. request = NoRequest => \A i \in b + 1 .. Len(asked) : Expected(asked[i]) = <<>>
    <3>1. request = NoRequest => Len(asked) = b
      BY <1>2, <1>3, <1>4 DEF ParquetInv
    <3>. QED BY <1>4, <3>1
  <2>6. IF begun = <<>> THEN answer = <<>> ELSE begun[1] = 0
    BY <1>2 DEF RangeAnswersExact
  <2>7. RangeAnswersExact'
    BY <1>1, <1>2, <1>3, <1>5, <1>9, <2>2, <2>4, <2>5, <2>6 DEF RangeAnswersExact
  <2>8. ParquetInv'
    BY <1>1, <1>2, <1>6, <1>9, <2>7 DEF ParquetInv, Early
  <2>. QED BY <1>1, <1>2, <2>1, <2>8, ParquetOnly DEF TunnelInv
<1>10. CASE /\ left > 0 /\ answer' = answer \o Bytes(next, Smaller(left, PieceMax))
            /\ next' = next + Smaller(left, PieceMax) /\ left' = left - Smaller(left, PieceMax)
            /\ UNCHANGED <<at, result>>
  <2>1. PICK n : n = Smaller(left, PieceMax)
    OBVIOUS
  <2>2. n \in 1 .. k
    <3>1. PieceMax \in Nat /\ PieceMax > 0
      BY HttpTunnelAssumption
    <3>2. k > 0 /\ n = Smaller(k, PieceMax)
      BY <1>3, <1>10, <2>1
    <3>. QED BY <1>4, <3>1, <3>2 DEF Smaller
  <2>3. answer' = answer \o Bytes(f, n) /\ next' = f + n /\ left' = k - n /\ UNCHANGED <<at, result>>
    BY <1>3, <1>10, <2>1
  <2>4. /\ answer' \in Seq(Token) /\ Len(answer') = l + n
        /\ \A i \in 1 .. l : answer'[i] = answer[i]
        /\ \A i \in 1 .. n : answer'[l + i] = <<"byte", f + i - 1>>
    <3>1. PICK a \in Seq(Token) : a = answer
      BY <1>2 DEF TypeOK
    <3>2. n \in Nat
      BY <1>4, <2>2
    <3>3. /\ a \o Bytes(f, n) \in Seq(Token) /\ Len(a \o Bytes(f, n)) = Len(a) + n
          /\ \A i \in 1 .. Len(a) : (a \o Bytes(f, n))[i] = a[i]
          /\ \A i \in 1 .. n : (a \o Bytes(f, n))[Len(a) + i] = <<"byte", f + i - 1>>
      BY <1>4, <3>2, AnswerGrows
    <3>4. answer' = a \o Bytes(f, n) /\ l = Len(a)
      BY <1>3, <2>3, <3>1
    <3>. QED BY <3>1, <3>3, <3>4
  <2>5. TypeOK'
    <3>1. next' \in Nat /\ left' \in Int
      BY <1>4, <2>2, <2>3
    <3>. QED BY <1>1, <1>2, <2>3, <2>4, <3>1 DEF TypeOK
  <2>6. StageInv'
    BY <1>1, <1>2, <2>3 DEF StageInv, Early, Reading
  <2>7. ReplyLen(b)' = ReplyLen(b) + n /\ ReplyLen(b) = l - begun[b] /\ begun[b] \in Nat
    <3>1. ReplyLen(b) = l - begun[b] /\ ReplyLen(b)' = Len(answer') - begun[b]
      BY <1>1, <1>3 DEF ReplyLen
    <3>2. begun[b] \in Nat
      BY <1>2, <1>3, <1>4, ReplyPlaces
    <3>. QED BY <1>4, <2>2, <2>4, <3>1, <3>2
  <2>8. \A i \in 1 .. b : i # b => ReplyLen(i)' = ReplyLen(i)
    BY <1>1, <1>3 DEF ReplyLen
  <2>9. ASSUME NEW i \in 1 .. b
        PROVE  /\ ReplyLen(i)' \in 1 .. Len(Expected(asked[i]))
               /\ \A j \in 1 .. ReplyLen(i)' : answer'[begun[i] + j] = Expected(asked[i])[j]
               /\ i < b => ReplyLen(i)' = Len(Expected(asked[i]))
               /\ begun[i] <= l + n
    <3>1. /\ begun[i] \in Nat /\ ReplyLen(i) \in Nat /\ begun[i] + ReplyLen(i) <= l
          /\ i = b => begun[i] + ReplyLen(i) = l
          /\ ReplyLen(i) \in 1 .. Len(Expected(asked[i]))
          /\ \A j \in 1 .. ReplyLen(i) : answer[begun[i] + j] = Expected(asked[i])[j]
      BY <1>2, <1>3, ReplyPlaces
    <3>2. begun[i] <= l + n
      BY <1>4, <2>2, <3>1
    <3>3. ASSUME NEW j \in 1 .. ReplyLen(i) PROVE answer'[begun[i] + j] = Expected(asked[i])[j]
      <4>1. begun[i] + j \in 1 .. l
        BY <1>4, <3>1
      <4>. QED BY <2>4, <3>1, <4>1
    <3>4. CASE i # b
      <4>1. ReplyLen(i) = Len(Expected(asked[i]))
        <5>1. i < Len(begun)
          BY <1>3, <1>4, <3>4
        <5>. QED BY <1>2, <1>3, <5>1 DEF RangeAnswersExact
      <4>. QED BY <2>8, <3>1, <3>2, <3>3, <3>4, <4>1
    <3>5. CASE i = b
      <4>1. PICK p, e : p = ReplyLen(i) /\ e = Len(E)
        OBVIOUS
      <4>2. p \in Nat /\ e \in Nat /\ p = e - k /\ begun[i] + p = l /\ 1 <= p /\ ReplyLen(i)' = p + n
        BY <1>3, <1>4, <1>7, <2>7, <3>1, <3>5, <4>1
      <4>3. ReplyLen(i)' \in 1 .. e
        BY <1>4, <2>2, <4>2
      <4>4. ASSUME NEW j \in 1 .. p + n PROVE answer'[begun[i] + j] = E[j]
        <5>1. CASE j <= p
          BY <1>3, <3>3, <3>5, <4>1, <4>2, <5>1
        <5>2. CASE j > p
          <6>1. PICK m \in 1 .. n : j = p + m
            <7>1. j - p \in 1 .. n /\ j = p + (j - p)
              BY <2>2, <4>2, <5>2
            <7>. QED BY <7>1
          <6>2. begun[i] + j = l + m /\ m \in 1 .. k /\ e - k + m = j
            <7>1. m \in 1 .. k /\ e - k + m = j
              BY <1>4, <2>2, <4>2, <6>1
            <7>2. PICK g \in Nat : g = begun[i]
              BY <3>1
            <7>3. g + (p + m) = (g + p) + m
              BY <4>2
            <7>. QED BY <4>2, <6>1, <7>1, <7>2, <7>3
          <6>3. answer'[l + m] = <<"byte", f + m - 1>> /\ E[e - k + m] = <<"byte", f + m - 1>>
            BY <1>4, <2>4, <4>1, <6>2
          <6>. QED BY <6>2, <6>3
        <5>. QED BY <4>2, <5>1, <5>2
      <4>5. Expected(asked[i]) = E /\ ~(i < b)
        BY <1>3, <1>4, <3>5
      <4>. QED BY <3>2, <4>1, <4>2, <4>3, <4>4, <4>5
    <3>. QED BY <3>4, <3>5
  <2>10. IF begun = <<>> THEN answer' = <<>> ELSE begun[1] = 0
    <3>1. begun # <<>>
      BY <1>3, <1>4
    <3>2. IF begun = <<>> THEN answer = <<>> ELSE begun[1] = 0
      BY <1>2 DEF RangeAnswersExact
    <3>. QED BY <3>1, <3>2
  <2>11. RangeAnswersExact'
    BY <1>1, <1>2, <1>3, <1>5, <2>3, <2>9, <2>10 DEF RangeAnswersExact
  <2>12. (\A i \in 1 .. Len(begun) : begun[i] <= Len(answer))'
    BY <1>1, <1>3, <2>4, <2>9
  <2>13. /\ (\A i \in 1 .. Len(asked) : asked[i] \in Requests)'
         /\ (Len(asked) = Len(begun) + (IF request = NoRequest THEN 0 ELSE 1))'
         /\ (request # NoRequest => request = asked[Len(asked)])'
         /\ at' \notin Early /\ result' # "ok"
    BY <1>1, <1>2, <1>6, <2>3 DEF ParquetInv, Early
  <2>14. /\ left' >= 0 /\ ReplyLen(b)' = Len(E) - left'
         /\ \A j \in 1 .. left' : E[Len(E) - left' + j] = <<"byte", next' + j - 1>>
    <3>1. PICK e : e = Len(E)
      OBVIOUS
    <3>2. e \in Nat
      BY <1>3, <1>4, <1>7, <3>1
    <3>3. left' >= 0 /\ ReplyLen(b)' = e - left'
      BY <1>4, <2>2, <2>3, <2>7, <3>1, <3>2
    <3>4. ASSUME NEW j \in 1 .. k - n PROVE E[e - (k - n) + j] = <<"byte", (f + n) + j - 1>>
      <4>1. n + j \in 1 .. k /\ e - (k - n) + j = e - k + (n + j) /\ (f + n) + j - 1 = f + (n + j) - 1
        BY <1>4, <2>2, <3>2
      <4>2. E[e - k + (n + j)] = <<"byte", f + (n + j) - 1>>
        BY <1>4, <3>1, <4>1
      <4>. QED BY <4>1, <4>2
    <3>. QED BY <2>3, <3>1, <3>3, <3>4
  <2>15. Len(begun') = b /\ Expected(asked'[b]) = E /\ b > 0
    BY <1>1, <1>3, <1>4
  <2>16. ParquetInv'
    BY <1>1, <1>5, <2>11, <2>12, <2>13, <2>14, <2>15 DEF ParquetInv
  <2>. QED BY <1>1, <1>2, <2>5, <2>6, <2>16, ParquetOnly DEF TunnelInv
<1>. QED BY <1>8, <1>9, <1>10 DEF ServePiece


-----------------------------------------------------------------------------
(* The theorems                                                            *)

\* Before anything was asked nothing was written, read or handed on.
LEMMA InitInv ==
  ASSUME Init
  PROVE  TunnelInv
<1>1. /\ wire = <<>> /\ piece = <<>> /\ sink = <<>> /\ got = <<>> /\ answer = <<>> /\ begun = <<>> /\ asked = <<>>
      /\ at = "tcp_connect" /\ result = "none" /\ request = NoRequest /\ receiver = "open"
      /\ job \in {"export", "import", "parquet"}
  BY DEF Init
<1>2. TypeOK
  <2>1. NoRequest \in Request /\ file \in Nat
    BY HttpTunnelAssumption DEF Init, NoRequest, Request
  <2>. QED BY <1>1, <2>1 DEF Init, TypeOK, Early
<1>3. StageInv
  BY <1>1 DEF StageInv, Reading
<1>4. Total \in Nat
  BY <1>2, StartFacts
<1>5. ASSUME job = "export" PROVE ExportInv
  <2>1. \A i \in 0 .. Len(sink) : i = 0
    BY <1>1
  <2>2. \A i \in 0 .. Len(sink) : Reached(i) = 0
    BY <1>1, <2>1 DEF Reached
  <2>3. Follows(got, 0) /\ Follows(piece, 0)
    <3>1. got \in Seq(Token) /\ piece \in Seq(Token) /\ Len(got) = 0 /\ Len(piece) = 0
      BY <1>1, <1>2 DEF TypeOK
    <3>2. ASSUME NEW s \in Seq(Token), Len(s) = 0 PROVE Follows(s, 0)
      <4>1. Follows(s, 0) <=> \A i \in 1 .. Len(s) : s[i] = <<"byte", 0 + i>>
        BY FollowsIff
      <4>. QED BY <3>2, <4>1
    <3>. QED BY <3>1, <3>2
  <2>4. Reached(Len(sink)) = 0 /\ Len(piece) = 0 /\ Len(sink) = 0
    BY <1>1, <2>2
  <2>5. ExportForwardsBody
    BY <1>1, <1>4, <2>3, <2>4 DEF ExportForwardsBody
  <2>6. \A c \in 1 .. Len(body) : Size(c) > 0
    BY <1>5 DEF Init
  <2>. QED BY <1>1, <1>4, <2>2, <2>5, <2>6 DEF ExportInv, Reading
<1>6. ASSUME job = "import" PROVE ImportInv
  <2>1. Len(answer) = 0
    BY <1>1
  <2>2. ImportBodyWhole
    BY <1>1, <2>1 DEF ImportBodyWhole
  <2>. QED BY <1>1, <2>1, <2>2 DEF ImportInv
<1>7. ASSUME job = "parquet" PROVE ParquetInv
  <2>1. Len(begun) = 0 /\ Len(asked) = 0
    BY <1>1
  <2>2. RangeAnswersExact
    BY <1>1, <2>1 DEF RangeAnswersExact
  <2>. QED BY <1>1, <2>1, <2>2 DEF ParquetInv
<1>8. ExportInv /\ ImportInv /\ ParquetInv
  BY <1>5, <1>6, <1>7 DEF ExportInv, ImportInv, ParquetInv
<1>. QED BY <1>2, <1>3, <1>8 DEF TunnelInv

\* Every step keeps the invariant.
LEMMA NextInv ==
  ASSUME TunnelInv, [Next]_vars
  PROVE  TunnelInv'
<1>1. CASE Connects \/ Handshakes \/ AbandonHandshake \/ Shutdown
  BY <1>1, SetupStep
<1>2. CASE BodyBroken \/ WriteBroken \/ SourceFails \/ FileShrinks \/ SendStatement \/ ExasolStarts \/ ExasolCloses \/ Tick
  BY <1>2, SideStep
<1>3. CASE RequestEnds \/ TakePut \/ ReadSize \/ ReadPiece \/ HandPiece \/ ChunkEnds \/ Reply
  BY <1>3, RequestEndsStep, TakePutStep, ReadSizeStep, ReadPieceStep, HandPieceStep, ChunkEndsStep, ReplyStep
<1>4. CASE TakeGet \/ WriteChunkedBody \/ WriteFinalChunk \/ TakeParquetRequest \/ ServePiece
  BY <1>4, TakeGetStep, WriteChunkedBodyStep, WriteFinalChunkStep, TakeParquetStep, ServePieceStep
<1>5. CASE ExasolRequests \/ ConsumerTakes \/ ConsumerDrops \/ PeerFails
  BY <1>5, ExasolRequestsStep, ConsumerTakesStep, ConsumerDropsStep, PeerFailsStep
<1>6. CASE UNCHANGED vars
  <2>1. Passes
    BY <1>6 DEF Passes, vars, connVars
  <2>. QED BY <1>6, <2>1, PassesKeeps DEF vars, connVars, peerVars, TunnelInv, TypeOK
<1>. QED BY <1>1, <1>2, <1>3, <1>4, <1>5, <1>6 DEF Next, Serves, Exasol

\* What the variables hold, where the client is in a body and what each side has of it
\* hold in every state of a tunnel, for bodies, files and pieces of any size.
THEOREM TunnelInvariant == Spec => []TunnelInv
<1>1. Init => TunnelInv
  BY InitInv
<1>2. TunnelInv /\ [Next]_vars => TunnelInv'
  BY NextInv
<1>. QED BY <1>1, <1>2, PTL DEF Spec

\* The bodies that a tunnel carries are the bytes of their source: forward_sized_body and
\* the chunked reader lose, reorder and invent nothing and 200 OK comes after the last
\* byte; write_chunked_body ends a body exactly when all of it is written;
\* serve_byte_range answers every request with the bytes that it names.
THEOREM BodiesStayWhole == Spec => []BodiesWhole
<1>1. TunnelInv => BodiesWhole
  <2>. SUFFICES ASSUME TunnelInv PROVE BodiesWhole
    OBVIOUS
  <2>1. ExportForwardsBody
    BY DEF TunnelInv, ExportInv, ExportForwardsBody
  <2>2. ImportBodyWhole
    BY DEF TunnelInv, ImportInv, ImportBodyWhole
  <2>3. RangeAnswersExact
    BY DEF TunnelInv, ParquetInv, RangeAnswersExact
  <2>. QED BY <2>1, <2>2, <2>3 DEF BodiesWhole
<1>. QED BY <1>1, TunnelInvariant, PTL

\* The stream was taken out for the handshake, or gone with it.
Withdrawn == stream = "Closed" /\ at \in {"idle", "ended"} /\ answer = <<>>

\* From a handshake on, the client is in it, withdrew, or is past it.
HandshakeBegun ==
  \/ at = "tls_handshake" /\ stream = "Closed" /\ answer = <<>>
  \/ Withdrawn
  \/ at \notin Early

\* open_stream leaves Closed behind while the handshake runs.
TakenForHandshake == at = "tls_handshake" => stream = "Closed"

\* What a step does to where the client is, and to the stream.
LEMMA WhereSteps ==
  ASSUME TunnelInv, [Next]_vars
  PROVE  /\ at \in Early \cup {"ended"} => answer' = answer
         /\ at = "ended" => at' = "ended" /\ stream' = stream
         /\ at = "tls_handshake" => at' \in {"tls_handshake", "request", "idle", "ended"}
         /\ at = "tls_handshake" /\ at' # "request" => stream' = stream
         /\ at = "idle" /\ stream = "Closed" => at' \in {"idle", "ended"} /\ stream' = stream
         /\ at' = "tls_handshake" => at = "tls_handshake" \/ (at = "idle" /\ stream' = "Closed")
         /\ at \notin Early => at' \notin Early
<1>. USE DEF Early, Ended
<1>1. CASE Connects
  BY <1>1 DEF Connects, TcpConnected, ExaHandshaken, ConnectFails, InSetup, written
<1>2. CASE Handshakes
  BY <1>2 DEF Handshakes, OpenStream, TlsDone, TlsFails, written
<1>3. CASE AbandonHandshake \/ Shutdown
  BY <1>3 DEF AbandonHandshake, Shutdown, written
<1>4. CASE Serves
  <2>1. CASE RequestEnds \/ TakePut \/ ReadSize
    BY <2>1 DEF RequestEnds, TakePut, ReadSize
  <2>2. CASE ReadPiece \/ HandPiece \/ ChunkEnds \/ BodyBroken \/ Reply
    BY <2>2 DEF ReadPiece, HandPiece, ChunkEnds, BodyBroken, Reply
  <2>3. CASE TakeGet \/ WriteChunkedBody \/ WriteFinalChunk \/ WriteBroken
    BY <2>3 DEF TakeGet, WriteChunkedBody, WriteFinalChunk, WriteBroken, connVars
  <2>4. CASE TakeParquetRequest \/ ServePiece
    BY <2>4 DEF TakeParquetRequest, ServeByteRange, BeginSpan, ServePiece
  <2>. QED BY <1>4, <2>1, <2>2, <2>3, <2>4 DEF Serves
<1>5. CASE SourceFails
  BY <1>5 DEF SourceFails
<1>6. CASE Exasol \/ SendStatement \/ ConsumerTakes \/ Tick \/ FileShrinks \/ ConsumerDrops \/ PeerFails \/ UNCHANGED vars
  <2>1. UNCHANGED <<at, stream, answer>>
    BY <1>6 DEF Exasol, ExasolStarts, ExasolRequests, ExasolCloses, SendStatement, ConsumerTakes, Tick, FileShrinks,
       ConsumerDrops, PeerFails, vars, connVars, written
  <2>. QED BY <2>1
<1>. QED BY <1>1, <1>2, <1>3, <1>4, <1>5, <1>6 DEF Next

\* A read or write that is dropped during the TLS handshake leaves TunnelStream::Closed
\* behind: no second handshake begins on that socket and nothing is written to it.
THEOREM ClosedStaysSilent == Spec => ClosedCarriesNothing
<1>1. Init => TakenForHandshake
  BY DEF Init, TakenForHandshake
<1>2. TunnelInv /\ TakenForHandshake /\ [Next]_vars => TakenForHandshake'
  BY WhereSteps DEF TakenForHandshake
<1>3. TunnelInv /\ TakenForHandshake /\ at = "tls_handshake" => HandshakeBegun
  BY DEF TakenForHandshake, HandshakeBegun, TunnelInv, StageInv, Early
<1>4. TunnelInv /\ HandshakeBegun /\ [Next]_vars => HandshakeBegun'
  <2>. SUFFICES ASSUME TunnelInv, HandshakeBegun, [Next]_vars PROVE HandshakeBegun'
    OBVIOUS
  <2>1. CASE at = "tls_handshake" /\ stream = "Closed" /\ answer = <<>>
    BY <2>1, WhereSteps DEF HandshakeBegun, Withdrawn, Early
  <2>2. CASE Withdrawn
    BY <2>2, WhereSteps DEF HandshakeBegun, Withdrawn, Early
  <2>3. CASE at \notin Early
    BY <2>3, WhereSteps DEF HandshakeBegun
  <2>. QED BY <2>1, <2>2, <2>3 DEF HandshakeBegun
<1>5. HandshakeBegun /\ at = "idle" => Withdrawn
  BY DEF HandshakeBegun, Early
<1>6. TunnelInv /\ Withdrawn /\ [Next]_vars => Withdrawn'
  BY WhereSteps DEF Withdrawn, Early
<1>7. Withdrawn => at \in {"idle", "ended"} /\ answer = <<>>
  BY DEF Withdrawn
<1>8. Spec => []TakenForHandshake
  BY <1>1, <1>2, TunnelInvariant, PTL DEF Spec
<1>9. []TunnelInv /\ [][Next]_vars => [](Withdrawn => [](at \in {"idle", "ended"} /\ answer = <<>>))
  BY <1>6, <1>7, PTL
<1>10. []TunnelInv /\ []TakenForHandshake /\ [][Next]_vars => [](at = "tls_handshake" => []HandshakeBegun)
  BY <1>3, <1>4, PTL
<1>. QED BY <1>5, <1>8, <1>9, <1>10, TunnelInvariant, PTL DEF Spec, ClosedCarriesNothing
=============================================================================
