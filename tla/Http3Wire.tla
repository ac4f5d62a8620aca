------------------------------ MODULE Http3Wire ------------------------------
(***************************************************************************)
(* The bytes of one HTTP/3 exchange as shared/SimulatorPluginLibrary.cpp   *)
(* writes and reads them: the URL taken apart, the header block with the   *)
(* QPACK static table and literals, the frames, the buffers they go into,  *)
(* and on the way back the stream collected chunk by chunk and parsed once *)
(* when the server has ended it.                                           *)
(*                                                                         *)
(* A text is a sequence of bytes.  The server (external) reads the request *)
(* and writes its reply the way RFC 9114 and RFC 9204 say.  Lengths stay   *)
(* below 2^31, so the casts of a frame length to int change nothing.       *)
(***************************************************************************)
EXTENDS Integers, Sequences, FiniteSets, SequencesExt

CONSTANTS
  WireRequests,  \* requests: scheme, host, port (0: none), path, method, headers, body
  RepliesTo(_),  \* replies to a request: the frames the server writes, how the stream ends
  UrlCap,    \* sizeof(url) of an AsyncRequestContext: 1024
  MethodCap, \* sizeof(method): 16
  HostCap,   \* sizeof(host)
  PathCap,   \* sizeof(path)
  Agent,     \* "Solar2D-HTTP3-Plugin/1.0"
  BaseRoom,  \* the 512 bytes of the header buffer beside path, authority, headers
  FirstCap,  \* the 4096 bytes a growing buffer starts with
  Chunk,     \* bound: the sizes of the chunks in which the reply arrives
  Unset       \* not chosen yet

SchemeLength == 8  \* "https://"

ASSUME WireAssumption ==
  /\ UrlCap \in Nat /\ UrlCap > SchemeLength /\ MethodCap \in Nat \ {0}
  /\ HostCap \in Nat \ {0} /\ PathCap \in Nat \ {0} /\ FirstCap \in Nat \ {0}
  /\ BaseRoom \in Nat /\ Chunk \subseteq Nat \ {0}
  /\ Unset \notin WireRequests
  /\ \A r \in WireRequests : Unset \notin RepliesTo(r)

VARIABLES
  request,  \* what the caller asked of this stream
  sent,     \* sendBuffers: what StreamSend was given
  reply,    \* what the server answers
  arrived,  \* bytes of the reply delivered by RECEIVE
  accum,    \* streamAccum: bytes, cap (streamAccumCap)
  parsed,   \* status and respBody
  success,  \* state->success
  failed,   \* state->failed
  over      \* the stream has had its SHUTDOWN_COMPLETE

wireVars == <<request, sent, reply, arrived, accum, parsed, success, failed, over>>

Byte == 0 .. 255
Bytes == Seq(Byte)

NUL == 0  LF == 10  CR == 13  Space == 32  Slash == 47  Colon == 58
Digits == 48 .. 57
Capitals == 65 .. 90

UpTo(s, i, stops) ==  \* the first place from i on that holds one of stops
  LET found == {k \in i .. Len(s) : s[k] \in stops}
  IN IF found = {} THEN Len(s) + 1 ELSE CHOOSE k \in found : \A j \in found : k <= j

From(s, i) == SubSeq(s, i, Len(s))
Cut(s, cap) == SubSeq(s, 1, IF Len(s) < cap THEN Len(s) ELSE cap - 1)
CString(s) == SubSeq(s, 1, UpTo(s, 1, {NUL}) - 1)
Lower(s) == [i \in 1 .. Len(s) |-> IF s[i] \in Capitals THEN s[i] + 32 ELSE s[i]]
MyAtoi(s) ==
  LET digits == UpTo(s, 1, Byte \ Digits) - 1
      value[i \in 0 .. digits] == IF i = 0 THEN 0 ELSE 10 * value[i - 1] + s[i] - 48
  IN value[digits]
MyIntToStr(n) ==
  LET text[v \in 0 .. n] == IF v < 10 THEN <<48 + v>> ELSE text[v \div 10] \o <<48 + (v % 10)>>
  IN text[n]

-----------------------------------------------------------------------------
(* Integers on the wire. *)

INT_MAX == 2147483647

\* The low n bytes of a number, most significant first.
BigEndian(n, v) ==
  LET shifted[i \in 0 .. 8] == IF i = 0 THEN v ELSE shifted[i - 1] \div 256
  IN [i \in 1 .. n |-> shifted[n - i] % 256]

VarintLength(v) == IF v <= 63 THEN 1 ELSE IF v <= 16383 THEN 2 ELSE IF v <= 1073741823 THEN 4 ELSE 8
LengthBits(n) == CASE n = 1 -> 0 [] n = 2 -> 64 [] n = 4 -> 128 [] n = 8 -> 192

WriteQuicVarint(v) ==
  LET n == VarintLength(v)  b == BigEndian(n, v)
  IN [b EXCEPT ![1] = @ + LengthBits(n)]

\* What a reader returns: how many bytes it took (0: too few) and the value.
TooFew == [n |-> 0, value |-> 0]

VarintValue(data, pos, n) ==
  LET value[i \in 0 .. n - 1] == IF i = 0 THEN data[pos] % 64 ELSE 256 * value[i - 1] + data[pos + i]
  IN value[n - 1]

ReadQuicVarint(data, pos) ==
  LET n == 2 ^ (data[pos] \div 64)
  IN IF pos > Len(data) \/ pos + n - 1 > Len(data) THEN TooFew
     ELSE [n |-> n, value |-> VarintValue(data, pos, n)]

\* Seven bits to a byte, the low ones first, the last byte below 128.
Continuation(v) ==
  LET rest[w \in 0 .. v] == IF w < 128 THEN <<w>> ELSE <<128 + (w % 128)>> \o rest[w \div 128]
  IN rest[v]

ContinuationValue(data, first, last) ==
  LET value[i \in first .. last] ==
        IF i = last THEN data[i] ELSE (data[i] % 128) + 128 * value[i + 1]
  IN value[first]

WriteQpackInt(prefixBits, fixedBits, v) ==
  LET most == 2 ^ prefixBits - 1
  IN IF v < most THEN <<fixedBits + v>> ELSE <<fixedBits + most>> \o Continuation(v - most)

ReadQpackInt(data, pos, prefixBits) ==
  LET most == 2 ^ prefixBits - 1
      first == data[pos] % 2 ^ prefixBits
      last == UpTo(data, pos + 1, 0 .. 127)
  IN IF pos > Len(data) THEN TooFew
     ELSE IF first # most THEN [n |-> 1, value |-> first]
     ELSE IF last > Len(data) THEN TooFew
     ELSE [n |-> last - pos + 1, value |-> most + ContinuationValue(data, pos + 1, last)]

-----------------------------------------------------------------------------
(* Strings: raw, or in the Huffman code.  The table is kept for the bytes  *)
(* the replies use: digits, lower case letters of five bits, and colon.    *)

HuffmanBits ==
  LET code(n, v) == [i \in 1 .. n |-> (v \div 2 ^ (n - i)) % 2]
  IN [c \in {48, 49, 50, 51, 52, 58, 97, 99, 101, 105, 111, 115, 116, 120} |->
        CASE c = 48 -> code(5, 0) [] c = 49 -> code(5, 1) [] c = 50 -> code(5, 2)
          [] c = 97 -> code(5, 3) [] c = 99 -> code(5, 4) [] c = 101 -> code(5, 5)
          [] c = 105 -> code(5, 6) [] c = 111 -> code(5, 7) [] c = 115 -> code(5, 8)
          [] c = 116 -> code(5, 9) [] c = 51 -> code(6, 25) [] c = 52 -> code(6, 26)
          [] c = 58 -> code(7, 92) [] c = 120 -> code(7, 121)]

Bits(bytes) == FlattenSeq([i \in 1 .. Len(bytes) |->
                             [k \in 1 .. 8 |-> (bytes[i] \div 2 ^ (8 - k)) % 2]])

\* Stops at the capacity, with fewer than five bits left, or where no code matches.
HuffmanDecode(bytes, cap) ==
  LET text(bits, codes) ==
        LET matches(p) == {c \in DOMAIN codes :
                             SubSeq(bits, p, Min({Len(bits), p + Len(codes[c]) - 1})) = codes[c]}
            decode[p \in 1 .. Len(bits) + 1] ==
              IF Len(bits) - p < 4 THEN <<>>
              ELSE LET next(found) == IF found = {} THEN <<>>
                                      ELSE LET c == CHOOSE c \in found : TRUE
                                           IN <<c>> \o decode[p + Len(codes[c])]
                   IN next(matches(p))
        IN decode[1]
  IN Cut(text(Bits(bytes), HuffmanBits), cap)

WriteQpackString(s) == WriteQpackInt(7, 0, Len(s)) \o s

ReadQpackString(data, pos, cap) ==
  LET text(raw) == IF data[pos] >= 128 THEN HuffmanDecode(raw, cap) ELSE Cut(raw, cap)
      read(len, n) ==
        IF len.n = 0 \/ pos + n - 1 > Len(data) THEN [n |-> 0, text |-> <<>>]
        ELSE [n |-> n, text |-> text(SubSeq(data, pos + len.n, pos + n - 1))]
      whole(len) == read(len, len.n + len.value)
  IN whole(ReadQpackInt(data, pos, 7))

-----------------------------------------------------------------------------
(* The request. *)

\* Mutation: the copy of the URL stops a byte early.
AsyncRequestContextShort(r) ==
  [url |-> [secure |-> r.url.secure, rest |-> Cut(CString(r.url.rest), UrlCap - SchemeLength - 1)],
   host |-> r.host, port |-> r.port, path |-> r.path, method |-> Cut(CString(r.method), MethodCap),
   headers |-> [i \in 1 .. Len(r.headers) |-> <<CString(r.headers[i][1]), CString(r.headers[i][2])>>],
   body |-> r.body]

\* What initiateRequest keeps of a caller's texts: each to its first NUL, the URL and
\* the method to the size of their buffers, silently; the body as it is.
AsyncRequestContext(r) ==
  [url |-> [secure |-> r.url.secure, rest |-> Cut(CString(r.url.rest), UrlCap - SchemeLength)],
   host |-> r.host, port |-> r.port, path |-> r.path, method |-> Cut(CString(r.method), MethodCap),
   headers |-> [i \in 1 .. Len(r.headers) |-> <<CString(r.headers[i][1]), CString(r.headers[i][2])>>],
   body |-> r.body]

ParseUrl(url) ==
  LET p == url.rest
      h == UpTo(p, 1, {Slash, Colon})
      ported == h <= Len(p) /\ p[h] = Colon
      e == IF ported THEN UpTo(p, h + 1, Byte \ Digits) ELSE h
  IN [secure |-> url.secure,
      host |-> Cut(SubSeq(p, 1, h - 1), HostCap),
      port |-> IF ported THEN MyAtoi(SubSeq(p, h + 1, e - 1)) ELSE IF url.secure THEN 443 ELSE 80,
      path |-> IF e <= Len(p) /\ p[e] = Slash THEN Cut(From(p, e), PathCap) ELSE <<Slash>>]

Authority(u) == IF u.port = 443 THEN u.host ELSE u.host \o <<Colon>> \o MyIntToStr(u.port)

\* initiateRequest's text of the headers table: "Key: Value\r\n" for every pair.
RawHeaders(headers) ==
  FlattenSeq([i \in 1 .. Len(headers) |->
                headers[i][1] \o <<Colon, Space>> \o headers[i][2] \o <<CR, LF>>])

\* One turn of the encoder's loop over that text: a pair and where the next begins.
NextPair(raw, i) ==
  LET k == UpTo(raw, i, {Colon})
      c == IF k <= Len(raw) THEN k + 1 ELSE k
      v == IF c <= Len(raw) /\ raw[c] = Space THEN c + 1 ELSE c
      e == UpTo(raw, v, {CR})
  IN [name |-> SubSeq(raw, i, k - 1), text |-> SubSeq(raw, v, e - 1),
      next |-> UpTo(raw, e, Byte \ {CR, LF})]

UserPairs(raw) ==
  LET pairs[i \in 1 .. Len(raw) + 1] ==
        LET named(p) == (IF p.name = <<>> THEN <<>> ELSE <<p>>) \o pairs[p.next]
        IN IF i > Len(raw) THEN <<>> ELSE named(NextPair(raw, i))
  IN pairs[1]

Methods ==  \* CONNECT, DELETE, GET, HEAD, OPTIONS, POST, PUT
  << <<67, 79, 78, 78, 69, 67, 84>>, <<68, 69, 76, 69, 84, 69>>, <<71, 69, 84>>, <<72, 69, 65, 68>>,
     <<79, 80, 84, 73, 79, 78, 83>>, <<80, 79, 83, 84>>, <<80, 85, 84>> >>
MethodName == <<58, 109, 101, 116, 104, 111, 100>>  \* ":method"
AUTHORITY == 0  PATH_ROOT == 1  SCHEME_HTTPS == 23  USER_AGENT == 95

WriteQpackIndexed(idx) == <<192 + idx>>

\* Mutation: the bit that says static is missing.
WriteQpackLiteralWithDynamicRef(idx, value) == WriteQpackInt(4, 64, idx) \o WriteQpackString(value)

WriteQpackLiteralWithNameRef(idx, value) == WriteQpackInt(4, 80, idx) \o WriteQpackString(value)

WriteQpackLiteralWithLiteralName(name, value) ==
  WriteQpackInt(3, 32, Len(name)) \o Lower(name) \o WriteQpackString(value)

\* Mutation: the reserve leaves out what the line adds to its texts.
QpackZapasOfNothing(dlina) == 0

\* Room asked for before a line is written.
QpackZapas(dlina) == dlina + 12

\* The field lines of a request: the length its reserve is counted from, its bytes.
FieldLines(r) ==
  LET u == ParseUrl(r.url)
      method == {i \in DOMAIN Methods : Methods[i] = r.method}
      ref(idx, s) == [dlina |-> Len(s), bytes |-> WriteQpackLiteralWithNameRef(idx, s)]
      indexed(idx) == [dlina |-> 0, bytes |-> WriteQpackIndexed(idx)]
      users == UserPairs(RawHeaders(r.headers))
  IN <<IF method # {} THEN indexed(14 + CHOOSE i \in method : TRUE)
       ELSE [dlina |-> Len(r.method) + 7,
             bytes |-> WriteQpackLiteralWithLiteralName(MethodName, r.method)],
       IF u.path = <<Slash>> THEN indexed(PATH_ROOT) ELSE ref(PATH_ROOT, u.path),
       indexed(SCHEME_HTTPS), ref(AUTHORITY, Authority(u)), ref(USER_AGENT, Agent)>>
     \o [i \in 1 .. Len(users) |->
           [dlina |-> Len(users[i].name) + Len(users[i].text),
            bytes |-> WriteQpackLiteralWithLiteralName(users[i].name, users[i].text)]]

\* The first line whose reserve does not fit ends the block.
QpackEncodeRequestHeaders(cap, lines) ==
  LET add(acc, l) == IF acc.full \/ Len(acc.out) + QpackZapas(l.dlina) > cap
                     THEN [acc EXCEPT !.full = TRUE]
                     ELSE [acc EXCEPT !.out = @ \o l.bytes]
      block[i \in 0 .. Len(lines)] ==
        IF i = 0 THEN [out |-> <<0, 0>>, full |-> FALSE] ELSE add(block[i - 1], lines[i])
  IN IF cap < 2 THEN <<>> ELSE block[Len(lines)].out

DATA == 0  HEADERS == 1
WriteHttp3Frame(type, payload) ==
  WriteQuicVarint(type) \o WriteQuicVarint(Len(payload)) \o payload

HeaderRoom(r) ==  \* hcap
  LET u == ParseUrl(r.url)
  IN BaseRoom + Len(u.path) + Len(Authority(u)) + 5 * Len(RawHeaders(r.headers))

\* The requests of a caller: the URL's parts beside it, and what is kept of them with
\* lengths that an int holds.
WireRequest ==
  [url : [secure : BOOLEAN, rest : Bytes], host : Bytes, port : Nat, path : Bytes,
   method : Bytes, headers : Seq(Bytes \X Bytes), body : Bytes]

ASSUME RequestAssumption ==
  /\ Agent \in Bytes /\ Len(Agent) <= INT_MAX /\ MethodCap <= INT_MAX
  /\ \A r \in WireRequests :
       r \in WireRequest /\ HeaderRoom(AsyncRequestContext(r)) + Len(r.body) <= INT_MAX

\* A URL spelt as scheme, host, port and path, the whole and each of them shorter than
\* its buffer (1023, 255 and 1023 bytes in the code); a method shorter than its own (15),
\* headers whose names and texts end where the separators of the headers text say, no
\* NUL in any of these; and a method and an agent that fit, with the twelve bytes a line
\* and the two before them, into the fixed part of the header buffer (512 bytes, of which
\* the method's 15 and the agent's 24 leave over 400).
NoNul(s) == \A i \in 1 .. Len(s) : s[i] # NUL
WellSpelt(r) ==
  /\ r.url.rest = r.host \o (IF r.port = 0 THEN <<>> ELSE <<Colon>> \o MyIntToStr(r.port)) \o r.path
  /\ NoNul(r.url.rest) /\ SchemeLength + Len(r.url.rest) < UrlCap
  /\ Len(r.host) < HostCap /\ \A i \in 1 .. Len(r.host) : r.host[i] \notin {Slash, Colon}
  /\ Len(r.path) < PathCap /\ (r.path # <<>> => r.path[1] = Slash)
  /\ NoNul(r.method) /\ Len(r.method) < MethodCap
  /\ \A i \in 1 .. Len(r.headers) :
       LET name == r.headers[i][1]  text == r.headers[i][2]
       IN /\ name # <<>> /\ name[1] \notin {CR, LF} /\ \A k \in 1 .. Len(name) : name[k] # Colon
          /\ \A k \in 1 .. Len(text) : text[k] # CR
          /\ NoNul(name) /\ NoNul(text)
  /\ 2 + 5 * QpackZapas(0) + Len(MethodName) + Len(r.method) + Len(Agent) <= BaseRoom

\* Http3OtpravitZapros: one buffer of frames, handed to StreamSend as one or two.
SendBuf(r) ==
  LET head == WriteHttp3Frame(HEADERS, QpackEncodeRequestHeaders(HeaderRoom(r), FieldLines(r)))
      data == IF r.body = <<>> THEN <<>> ELSE WriteHttp3Frame(DATA, r.body)
      dataPos == Len(head)
      pos == dataPos + Len(data)
      buf == head \o data
  IN IF r.body = <<>> THEN <<buf>> ELSE <<SubSeq(buf, 1, dataPos), SubSeq(buf, dataPos + 1, pos)>>

Http3OtpravitZapros(r) ==
  /\ request = Unset /\ r.url.secure
  /\ request' = r
  /\ sent' = SendBuf(AsyncRequestContext(r))
  /\ UNCHANGED <<reply, arrived, accum, parsed, success, failed, over>>

\* TCP has the right to send, or StreamOpen fails.
NothingSent(r) ==
  /\ request = Unset /\ r.url.secure
  /\ request' = r /\ failed' = TRUE
  /\ UNCHANGED <<sent, reply, arrived, accum, parsed, success, over>>

-----------------------------------------------------------------------------
(* The reply, as the client reads it. *)

\* The entries of kQpackStatic named ":status", by index.
StaticStatus ==
  [i \in 24 .. 28 \cup 63 .. 71 |->
     CASE i = 24 -> 103 [] i = 25 -> 200 [] i = 26 -> 304 [] i = 27 -> 404 [] i = 28 -> 503
       [] i = 63 -> 100 [] i = 64 -> 204 [] i = 65 -> 206 [] i = 66 -> 302 [] i = 67 -> 400
       [] i = 68 -> 403 [] i = 69 -> 421 [] i = 70 -> 425 [] i = 71 -> 500]
StatusName == <<58, 115, 116, 97, 116, 117, 115>>  \* ":status"
NameCap == 256
ValueCap == 64

\* The status the last :status line names; "was" when there is none.
QpackDecodeStatus(data, was) ==
  LET one(isStatus, s) == IF isStatus THEN <<s>> ELSE <<>>
      found[pos \in 1 .. Len(data) + 1] ==
        LET valued(isStatus, start, val) ==
              IF start = pos \/ val.n = 0 THEN <<>>
              ELSE one(isStatus, MyAtoi(val.text)) \o found[start + val.n]
            literal(isStatus, n) == valued(isStatus, pos + n, ReadQpackString(data, pos + n, ValueCap))
            named(name) == literal(name.text = StatusName, name.n)
            indexed(b, idx) ==
              LET static == idx.value \in DOMAIN StaticStatus IN
              IF b < 128 THEN literal(static /\ b % 32 >= 16, idx.n)
              ELSE IF idx.n = 0 THEN <<>>
              ELSE one(static /\ b % 128 >= 64, StaticStatus[idx.value]) \o found[pos + idx.n]
            line(b) == IF b < 32 THEN <<>>
                       ELSE IF b < 64 THEN named(ReadQpackString(data, pos, NameCap))
                       ELSE indexed(b, ReadQpackInt(data, pos, IF b >= 128 THEN 6 ELSE 4))
        IN IF pos > Len(data) THEN <<>> ELSE line(data[pos])
      last(all) == IF all = <<>> THEN was ELSE all[Len(all)]
  IN IF Len(data) < 2 THEN was ELSE last(found[3])

\* The whole frames of a stream; a frame that is cut short ends the list.
Frames(data) ==
  LET frames[pos \in 1 .. Len(data) + 1] ==
        LET framed(type, flen, payload, next) ==
              IF flen.n = 0 \/ next - 1 > Len(data) THEN <<>>
              ELSE <<[type |-> type.value, payload |-> SubSeq(data, payload, next - 1)]>> \o frames[next]
            sized(type, flen, payload) == framed(type, flen, payload, payload + flen.value)
            typed(type, flen) == IF type.n = 0 THEN <<>> ELSE sized(type, flen, pos + type.n + flen.n)
            from(type) == typed(type, ReadQuicVarint(data, pos + type.n))
        IN from(ReadQuicVarint(data, pos))
  IN frames[1]

ParseHttp3ResponseStream(data, was) ==
  LET add(p, f) == IF f.type = HEADERS THEN [p EXCEPT !.status = QpackDecodeStatus(f.payload, @)]
                   ELSE IF f.type = DATA THEN [p EXCEPT !.body = @ \o f.payload]
                   ELSE p
      read(frames) ==
        LET upTo[i \in 0 .. Len(frames)] == IF i = 0 THEN was ELSE add(upTo[i - 1], frames[i])
        IN upTo[Len(frames)]
  IN read(Frames(data))

\* Mutation: the capacity is doubled once.
GrowBufferAppendOnce(buf, data) ==
  LET len == Len(buf.bytes) + Len(data)
      grown == IF buf.cap > 0 THEN 2 * buf.cap ELSE FirstCap
  IN [bytes |-> buf.bytes \o data, cap |-> IF len <= buf.cap THEN buf.cap ELSE grown]

\* Doubled until it is enough.
GrowBufferAppend(buf, data) ==
  LET len == Len(buf.bytes) + Len(data)
      enough[c \in 1 .. 2 * (FirstCap + buf.cap + len)] == IF c < len THEN enough[2 * c] ELSE c
  IN [bytes |-> buf.bytes \o data,
      cap |-> IF len <= buf.cap THEN buf.cap
              ELSE enough[IF buf.cap > 0 THEN 2 * buf.cap ELSE FirstCap]]

-----------------------------------------------------------------------------
(* The reply, as the server writes it (external). *)

Octet(bits) ==
  LET value[k \in 0 .. 8] == IF k = 0 THEN 0 ELSE 2 * value[k - 1] + bits[k] IN value[8]

HuffmanCode(s) == FlattenSeq([i \in 1 .. Len(s) |-> HuffmanBits[s[i]]])

\* Padded with ones to whole bytes.
HuffmanEncode(s) ==
  LET bits == HuffmanCode(s)
      bit(i) == IF i <= Len(bits) THEN bits[i] ELSE 1
  IN [b \in 1 .. (Len(bits) + 7) \div 8 |-> Octet([k \in 1 .. 8 |-> bit(8 * (b - 1) + k)])]

ServerString(prefixBits, fixedBits, s, huffman) ==
  IF huffman THEN WriteQpackInt(prefixBits, fixedBits + 2 ^ prefixBits, Len(HuffmanEncode(s)))
                  \o HuffmanEncode(s)
  ELSE WriteQpackInt(prefixBits, fixedBits, Len(s)) \o s

ServerLine(l) ==
  CASE l.kind = "indexed" -> WriteQpackInt(6, 192, l.idx)
    [] l.kind = "ref" -> WriteQpackInt(4, 80, l.idx) \o ServerString(7, 0, l.text, l.huffman)
    [] l.kind = "literal" -> ServerString(3, 32, l.name, l.huffman) \o ServerString(7, 0, l.text, l.huffman)

ServerPayload(f) ==
  IF f.type = HEADERS THEN <<0, 0>> \o FlattenSeq([i \in 1 .. Len(f.lines) |-> ServerLine(f.lines[i])])
  ELSE f.bytes

ServerFrames(rep) ==
  [i \in 1 .. Len(rep.frames) |-> WriteHttp3Frame(rep.frames[i].type, ServerPayload(rep.frames[i]))]

\* The stream ends rep.short bytes early when the server gives up.
Stream(rep) ==
  LET all == FlattenSeq(ServerFrames(rep)) IN SubSeq(all, 1, Len(all) - rep.short)

\* The replies of a server: field lines whose texts have a Huffman code when they
\* are sent in it, a :status shorter than the buffer it is read into, types and
\* lengths that an int holds.
HuffmanText == Seq(DOMAIN HuffmanBits)
Line ==
  [kind : {"indexed"}, idx : Nat]
  \cup [kind : {"ref"}, idx : Nat, text : Bytes, huffman : {FALSE}]
  \cup [kind : {"ref"}, idx : Nat, text : HuffmanText, huffman : {TRUE}]
  \cup [kind : {"literal"}, name : Bytes, text : Bytes, huffman : {FALSE}]
  \cup [kind : {"literal"}, name : HuffmanText, text : HuffmanText, huffman : {TRUE}]
ServerLines == {l \in Line : l.kind = "ref" /\ l.idx \in DOMAIN StaticStatus => Len(l.text) < ValueCap}
Frame ==
  [type : {HEADERS}, lines : Seq(ServerLines)] \cup [type : Nat \ {HEADERS}, bytes : Bytes]
ServerFrame == {f \in Frame : f.type <= INT_MAX /\ Len(ServerPayload(f)) <= INT_MAX}
Reply == [frames : Seq(ServerFrame), short : Nat]

ASSUME ReplyAssumption == \A r \in WireRequests : RepliesTo(r) \subseteq Reply

Answer ==
  /\ sent # <<>> /\ reply = Unset /\ ~over
  /\ reply' \in RepliesTo(request)
  /\ UNCHANGED <<request, sent, arrived, accum, parsed, success, failed, over>>

-----------------------------------------------------------------------------
(* RequestStreamCallback.  A failure the connection reports does not stop  *)
(* the stream's events, which come until its SHUTDOWN_COMPLETE.            *)

\* Mutation: the stream is parsed by both.
EndAgain(bytes) ==
  /\ success' = TRUE
  /\ parsed' = ParseHttp3ResponseStream(bytes, parsed)

\* FIN and PEER_SEND_SHUTDOWN: the stream is parsed by the first of them.
End(bytes) ==
  /\ success' = TRUE
  /\ parsed' = IF success THEN parsed ELSE ParseHttp3ResponseStream(bytes, parsed)

Receive(n, fin) ==
  /\ reply # Unset /\ ~over
  /\ arrived + n <= Len(Stream(reply))
  /\ fin => arrived + n = Len(Stream(reply))
  /\ arrived' = arrived + n
  /\ accum' = GrowBufferAppend(accum, SubSeq(Stream(reply), arrived + 1, arrived + n))
  /\ IF fin THEN End(accum'.bytes) ELSE UNCHANGED <<parsed, success>>
  /\ UNCHANGED <<request, sent, reply, failed, over>>

PeerSendShutdown ==
  /\ reply # Unset /\ ~over
  /\ arrived = Len(Stream(reply))
  /\ End(accum.bytes)
  /\ UNCHANGED <<request, sent, reply, arrived, accum, failed, over>>

\* SHUTDOWN_COMPLETE: the last event of a stream, at any time.
StreamShutdown ==
  /\ sent # <<>> /\ ~over
  /\ over' = TRUE
  /\ failed' = (failed \/ ~success)
  /\ UNCHANGED <<request, sent, reply, arrived, accum, parsed, success>>

\* ConnectionCallback's SHUTDOWN_INITIATED events, and QUIC's thread when TCP has won: at
\* any time, before the request is sent or after its success.
ConnectionShutdown ==
  /\ ~failed
  /\ failed' = TRUE
  /\ UNCHANGED <<request, sent, reply, arrived, accum, parsed, success, over>>

WireInit ==
  /\ request = Unset /\ sent = <<>> /\ reply = Unset
  /\ arrived = 0 /\ accum = [bytes |-> <<>>, cap |-> 0]
  /\ parsed = [status |-> 0, body |-> <<>>]
  /\ success = FALSE /\ failed = FALSE /\ over = FALSE

WireNext ==
  \/ \E r \in WireRequests : Http3OtpravitZapros(r) \/ NothingSent(r)
  \/ Answer
  \/ \E n \in Chunk, fin \in BOOLEAN : Receive(n, fin)
  \/ PeerSendShutdown
  \/ StreamShutdown
  \/ ConnectionShutdown

WireSpec == WireInit /\ [][WireNext]_wireVars

-----------------------------------------------------------------------------
(* What the server makes of the request (external, RFC 9204 section 4.5):  *)
(* the static names of the request's lines, and the field lines of a       *)
(* block as name and value.                                                *)

StaticName ==
  [i \in {AUTHORITY, PATH_ROOT, SCHEME_HTTPS, USER_AGENT} |->
     CASE i = AUTHORITY -> "authority" [] i = PATH_ROOT -> "path"
       [] i = SCHEME_HTTPS -> "scheme" [] i = USER_AGENT -> "user-agent"]
StaticLine ==
  [i \in {PATH_ROOT, SCHEME_HTTPS} \cup 15 .. 21 |->
     CASE i = PATH_ROOT -> <<"path", <<Slash>> >> [] i = SCHEME_HTTPS -> <<"scheme", "https">>
       [] i \in 15 .. 21 -> <<"method", Methods[i - 14]>>]

Malformed == << <<"malformed", "malformed">> >>

Served(block) ==
  LET line[pos \in 1 .. Len(block) + 1] ==
        IF pos > Len(block) THEN <<>>
        ELSE LET b == block[pos]
                 bits == IF b >= 128 THEN 6 ELSE IF b >= 64 THEN 4 ELSE 3
                 int == ReadQpackInt(block, pos, bits)
                 nameEnd == pos + int.n + (IF b < 64 THEN int.value ELSE 0)
                 len == ReadQpackInt(block, nameEnd, 7)
                 first == nameEnd + len.n
                 text == SubSeq(block, first, first + len.value - 1)
             IN IF b >= 128
                THEN IF b % 128 < 64 \/ int.value \notin DOMAIN StaticLine THEN Malformed
                     ELSE <<StaticLine[int.value]>> \o line[pos + int.n]
                ELSE IF first + len.value - 1 > Len(block) \/ len.n = 0 THEN Malformed
                ELSE IF b >= 64
                THEN IF b % 32 < 16 \/ int.value \notin DOMAIN StaticName THEN Malformed
                     ELSE << <<StaticName[int.value], text>> >> \o line[first + len.value]
                ELSE << <<SubSeq(block, pos + int.n, nameEnd - 1), text>> >> \o line[first + len.value]
  IN IF Len(block) < 2 THEN Malformed ELSE line[3]

\* The lines the caller asked for.
Asked(r) ==
  LET u == r.url IN
  <<IF r.method \in {Methods[i] : i \in DOMAIN Methods} THEN <<"method", r.method>>
    ELSE <<MethodName, r.method>>,
    <<"path", IF r.path = <<>> THEN <<Slash>> ELSE r.path>>,
    <<"scheme", "https">>,
    <<"authority", IF r.port \in {0, 443} THEN r.host ELSE r.host \o <<Colon>> \o MyIntToStr(r.port)>>,
    <<"user-agent", Agent>> >>
  \o [i \in 1 .. Len(r.headers) |-> <<Lower(r.headers[i][1]), r.headers[i][2]>>]

\* What the client should make of the reply: the last status in the whole
\* HEADERS frames, the bytes of the whole DATA frames.
LineStatus(l) ==
  CASE l.kind = "indexed" -> IF l.idx \in DOMAIN StaticStatus THEN <<StaticStatus[l.idx]>> ELSE <<>>
    [] l.kind = "ref" -> IF l.idx \in DOMAIN StaticStatus THEN <<MyAtoi(l.text)>> ELSE <<>>
    [] l.kind = "literal" -> IF l.name = StatusName THEN <<MyAtoi(l.text)>> ELSE <<>>

FrameStatus(f) ==
  IF f.type = HEADERS THEN FlattenSeq([k \in 1 .. Len(f.lines) |-> LineStatus(f.lines[k])]) ELSE <<>>

WholeFrames(rep) ==
  LET ends == [i \in 1 .. Len(rep.frames) |-> Len(FlattenSeq(SubSeq(ServerFrames(rep), 1, i)))]
  IN {i \in 1 .. Len(rep.frames) : ends[i] <= Len(Stream(rep))}

SentStatus(rep) ==
  LET all == FlattenSeq([i \in 1 .. Cardinality(WholeFrames(rep)) |-> FrameStatus(rep.frames[i])])
  IN IF all = <<>> THEN 0 ELSE all[Len(all)]

SentBody(rep) ==
  FlattenSeq([i \in 1 .. Cardinality(WholeFrames(rep)) |->
                IF rep.frames[i].type = DATA THEN rep.frames[i].bytes ELSE <<>>])

PlainNames(rep) ==  \* every field name is an entry of the static table
  \A i \in 1 .. Len(rep.frames) : rep.frames[i].type = HEADERS =>
    \A k \in 1 .. Len(rep.frames[i].lines) : rep.frames[i].lines[k].kind # "literal"

-----------------------------------------------------------------------------
(* Properties. *)

\* Types, and the buffer of the collected reply holds what was written to it, however
\* much comes at once.  A request may be marked both as succeeded and as failed: the
\* connection's callback does not look at success.
WireTypeOK ==
  /\ request \in WireRequests \cup {Unset}
  /\ reply # Unset => sent # <<>> /\ reply \in RepliesTo(request)
  /\ sent \in Seq(Bytes) /\ Len(sent) <= 2
  /\ accum \in [bytes : Bytes, cap : Nat] /\ Len(accum.bytes) <= accum.cap
  /\ arrived = Len(accum.bytes)
  /\ parsed \in [status : Nat, body : Bytes]
  /\ success \in BOOLEAN /\ failed \in BOOLEAN /\ over \in BOOLEAN

\* The server reads from the two buffers what the caller asked for, when the caller's
\* texts fit the buffers they are copied to and hold no NUL (WellSpelt; a longer URL or
\* method is cut without a word and another request is sent): every pseudo-header, every
\* header of the caller in lower case and in order, none lost for want of room in hcap,
\* and the body as one DATA frame.
RequestDelivered ==
  sent # <<>> /\ WellSpelt(request) =>
    LET frames == Frames(FlattenSeq(sent))
    IN /\ Len(frames) = (IF request.body = <<>> THEN 1 ELSE 2)
       /\ frames[1].type = HEADERS
       /\ Served(frames[1].payload) = Asked(request)
       /\ request.body # <<>> => frames[2] = [type |-> DATA, payload |-> request.body]

\* Whatever the room, the encoder stays inside it, for a request that was cut as well,
\* and of a well spelt one it writes the first lines whole: no line is cut, none is
\* skipped to make room for a later one.
EncoderKeepsRoom ==
  sent # <<>> /\ reply = Unset =>
    LET kept == AsyncRequestContext(request)
    IN \A cap \in 2 .. HeaderRoom(kept) :
         LET block == QpackEncodeRequestHeaders(cap, FieldLines(kept))
         IN /\ Len(block) <= cap
            /\ WellSpelt(request) => IsPrefix(Served(block), Asked(request))

\* A successful reply is the reply the server sent, however it was cut into
\* chunks, with the FIN in the last chunk, after it, or both: the body is exactly
\* its DATA frames, and the status its last :status line, unless a field line
\* spells its name out: "001 N H KKK" (SimulatorPluginLibrary.cpp:1146) is a name of
\* three length bits and is read with seven, so that a stretch of the text after it
\* can pass for a :status line.
ReplyExact ==
  success => /\ arrived = Len(Stream(reply))
             /\ parsed.body = SentBody(reply)
             /\ PlainNames(reply) => parsed.status = SentStatus(reply)
=============================================================================
