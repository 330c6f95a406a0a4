------------------------------ MODULE CodecUse ------------------------------
(***************************************************************************)
(* The pure C code of ExtNet/common in use: a SHA-1 context through any    *)
(* sequence of calls, Base64 of growing data, a text decoded byte by byte, *)
(* and the WebSocket handshake of WsConnect.cpp, which needs the first two.*)
(* Each behaviour does one of these jobs.                                  *)
(***************************************************************************)
EXTENDS Handshake, Utf8

CONSTANTS
  PieceSizes,   \* lengths of the pieces given to SHA1Input()
  MaxMessage,   \* bound: bytes of a message to be hashed
  MaxEncoded,   \* bound: bytes of data to be encoded
  TextBytes,    \* the bytes of texts
  MaxText,      \* bound: bytes of a text
  Requests      \* the requests of clients

VARIABLES
  job,
  given,     \* the bytes of the message since SHA1Reset(), or to be encoded
  ctx,       \* SHA1Context
  returned,  \* what the last call on it returned
  late,      \* history: SHA1Input() after the result, and no SHA1Reset() since
  text,      \* the bytes of the text
  decoder,   \* the state and code point of decode()
  request,   \* the client's request
  conn,      \* new: no request yet; open: _Ishandshark; closed: deleted; dead
  answer     \* what the client is sent as Sec-WebSocket-Accept

codecVars == <<job, given, ctx, returned, late, text, decoder, request, conn, answer>>

CodecIdle ==
  /\ given = <<>>
  /\ ctx = Reset
  /\ returned = shaSuccess
  /\ late = FALSE
  /\ text = <<>>
  /\ decoder = [state |-> ACCEPT, codep |-> 0]
  /\ request \in IF job = "handshake" THEN Requests ELSE {<<>>}
  /\ conn = "new"
  /\ answer = <<>>

CodecInit == job \in {"hash", "encode", "decode", "handshake"} /\ CodecIdle

\* The bytes of messages take many values, and every residue modulo 3 and 64.
MessageByte(n) == (n * 91 + 200) % 256

-----------------------------------------------------------------------------
(* A SHA-1 context.                                                        *)

GiveInput ==
  /\ job = "hash"
  /\ \E n \in PieceSizes :
       LET piece == [m \in 1 .. n |-> MessageByte(Len(given) + m)]
       IN  /\ Len(given) + n <= MaxMessage
           /\ ctx' = Input(ctx, piece)
           /\ returned' = InputReturns(ctx, piece)
           /\ given' = given \o piece
           /\ late' = (late \/ (ctx.computed /\ n > 0))
  /\ UNCHANGED <<job, text, decoder, request, conn, answer>>

AskResult ==
  /\ job = "hash"
  /\ ctx' = Result(ctx)
  /\ returned' = ResultReturns(ctx)
  /\ UNCHANGED <<job, given, late, text, decoder, request, conn, answer>>

StartAnew ==
  /\ job = "hash"
  /\ ctx' = Reset
  /\ given' = <<>>
  /\ returned' = shaSuccess
  /\ late' = FALSE
  /\ UNCHANGED <<job, text, decoder, request, conn, answer>>

-----------------------------------------------------------------------------
(* Data to be encoded, and a text.                                         *)

GrowData ==
  /\ job = "encode"
  /\ Len(given) < MaxEncoded
  /\ given' = Append(given, MessageByte(Len(given) + 1))
  /\ UNCHANGED <<job, ctx, returned, late, text, decoder, request, conn, answer>>

\* One byte of is_utf8_len_state().
DecodeByte ==
  /\ job = "decode"
  /\ Len(text) < MaxText
  /\ decoder.state # REJECT
  /\ \E b \in TextBytes :
       /\ text' = Append(text, b)
       /\ decoder' = Decoded(decoder.state, decoder.codep, b)
  /\ UNCHANGED <<job, given, ctx, returned, late, request, conn, answer>>

-----------------------------------------------------------------------------
(* WsConnect::do_handshake().                                              *)

\* The request comes in several pieces, the first of which has no empty line.
CutRequest ==
  /\ job = "handshake" /\ conn = "new"
  /\ conn' = "closed"
  /\ UNCHANGED <<job, given, ctx, returned, late, text, decoder, request, answer>>

\* There is no key in it, or send() fails, or memory for one of three strings
\* is missing: for that of base64_encode() nobody looks.
NoAnswer ==
  /\ job = "handshake" /\ conn = "new"
  /\ conn' \in IF HasKey(request) THEN {"closed", "dead"} ELSE {"closed"}
  /\ UNCHANGED <<job, given, ctx, returned, late, text, decoder, request, answer>>

Answered ==
  /\ job = "handshake" /\ conn = "new"
  /\ HasKey(request)
  /\ answer' = Accept(KeyOf(request))
  /\ conn' = "open"
  /\ UNCHANGED <<job, given, ctx, returned, late, text, decoder, request>>

CodecNext ==
  \/ GiveInput \/ AskResult \/ StartAnew
  \/ GrowData
  \/ DecodeByte
  \/ CutRequest \/ NoAnswer \/ Answered

-----------------------------------------------------------------------------
(* Reference definitions.                                                  *)

\* FIPS 180: the message, 1 bit, zeros, and its length in 64 bits, in blocks.
Padded(m) ==
  m \o <<128>> \o Zeros((55 - Len(m)) % 64)
    \o <<0, 0, 0, 0, 0, 0, Len(m) \div 32, (Len(m) * 8) % 256>>

StandardHash(m) ==
  LET Block(hash, n) == ProcessMessageBlock(hash, SubSeq(Padded(m), 64 * n - 63, 64 * n))
  IN  Repeat(Block, InitialHash, 0, Len(Padded(m)) \div 64)

\* RFC 4648: groups of six bits, and padding to a multiple of four.
Bit(m, n) == IF n < 8 * Len(m) THEN (m[(n \div 8) + 1] \div 2 ^ (7 - (n % 8))) % 2 ELSE 0

Group(m, n) ==
  LET B(k) == Bit(m, 6 * n + k)
  IN  32 * B(0) + 16 * B(1) + 8 * B(2) + 4 * B(3) + 2 * B(4) + B(5)

StandardBase64(m) ==
  LET chars == (8 * Len(m) + 5) \div 6
  IN  [n \in 1 .. chars |-> Group(m, n - 1)] \o [n \in 1 .. (-chars) % 4 |-> Pad]

\* RFC 3629: a lead byte says how many bytes follow; the value must not fit
\* into fewer, must not be a surrogate and must not exceed 10FFFF.
Smallest == <<0, 128, 2048, 65536>>

Lead(n) == IF n = 1 THEN 0 ELSE 256 - 2 ^ (8 - n)

ScalarOf(c) ==
  LET n == Len(c)
      V[k \in 1 .. n] == IF k = 1 THEN c[1] - Lead(n) ELSE V[k - 1] * 64 + c[k] - 128
  IN  V[n]

IsChar(c) ==
  /\ Len(c) \in 1 .. 4
  /\ c[1] \in Lead(Len(c)) .. Lead(Len(c)) + 2 ^ (IF Len(c) = 1 THEN 7 ELSE 7 - Len(c)) - 1
  /\ \A k \in 2 .. Len(c) : c[k] \in 128 .. 191
  /\ ScalarOf(c) \in Smallest[Len(c)] .. 1114111
  /\ ScalarOf(c) \notin 55296 .. 57343

RECURSIVE WellFormed(_)
WellFormed(s) ==
  s = <<>> \/ \E n \in 1 .. Len(s) :
                IsChar(SubSeq(s, 1, n)) /\ WellFormed(SubSeq(s, n + 1, Len(s)))

\* Bytes that complete any character that can be completed.
Completions == UNION {[1 .. n -> {128, 144, 160}] : n \in 0 .. 3}

-----------------------------------------------------------------------------

\* However a message is cut into pieces, and wherever its end lies in a block,
\* what SHA1Result() successfully returns, also when asked again, is the digest
\* of all bytes since SHA1Reset(); once a context has been given input after
\* its result, every call on it returns an error until SHA1Reset() (but for
\* SHA1Input() of nothing, which looks at nothing and is not in PieceSizes).
DigestIsStandard ==
  job = "hash" =>
    /\ ctx.computed /\ returned = shaSuccess => ctx.hash = StandardHash(given)
    /\ late => returned # shaSuccess

\* Without its line feeds an encoding is the standard's; a line feed stands
\* behind every 72 characters and behind the last, and nowhere else; with the
\* nul it fits into what was allocated, and decoding gives back the data.
EncodingIsStandard ==
  job = "encode" =>
    LET out == Encode(given)
    IN  /\ SelectSeq(out, LAMBDA c : c # LineFeed) = StandardBase64(given)
        /\ \A n \in DOMAIN out : out[n] = LineFeed <=> n % 73 = 0 \/ n = Len(out)
        /\ Len(out) + 1 <= Allocated(Len(given))
        /\ given # <<>> => Decode(out) = given

\* The decoder accepts the well-formed texts and no others, rejects as soon as
\* no continuation is well-formed, and has computed the last character.
DecoderIsStandard ==
  job = "decode" =>
    /\ decoder.state = ACCEPT <=> WellFormed(text)
    /\ decoder.state = REJECT <=> \A c \in Completions : ~WellFormed(text \o c)
    /\ decoder.state = ACCEPT /\ text # <<>> =>
         \E n \in 1 .. Len(text) :
           LET c == SubSeq(text, n, Len(text))
           IN  IsChar(c) /\ decoder.codep = ScalarOf(c)

\* The key of RFC 6455, section 1.3, and the accept value it gives there.
SampleKey == <<100, 71, 104, 108, 73, 72, 78, 104, 98, 88, 66, 115, 90, 83,
  66, 117, 98, 50, 53, 106, 90, 81, 61, 61>>
SampleAccept == <<44, 55, 41, 15, 11, 12, 1, 34, 19, 49, 26, 16, 61, 36, 24,
  6, 51, 51, 33, 25, 17, 27, 10, 62, 49, 14, 40, 64>>

\* The accept value RFC 6455 demands for a key.
StandardAccept(key) ==
  StandardBase64(FlattenSeq([n \in 1 .. 5 |-> BytesOf(StandardHash(key \o MAGIC_STRING)[n])]))

\* What the client calls its key: the second word of the line that begins with
\* the field's name (a name stands for itself by one byte).
FieldName == <<83>>
FieldLine(req) == SelectInSeq(req, LAMBDA line : line.words[1] = FieldName)
SendsKey(req) == FieldLine(req) # 0 /\ Len(req[FieldLine(req)].words) >= 2
ClientKey(req) == req[FieldLine(req)].words[2]

\* A client that sends a key of the length the protocol prescribes, and names
\* the field in no line before it, is answered with the value it must compare
\* with.  Whoever is answered, the response fits into WS_HS_ACCLEN bytes.
AnswerIsStandard ==
  conn = "open" =>
    /\ SendsKey(request) /\ Len(ClientKey(request)) = WS_KEY_LEN
         /\ (\A n \in 1 .. FieldLine(request) - 1 : ~request[n].named) =>
         /\ answer = StandardAccept(ClientKey(request))
         /\ ClientKey(request) = SampleKey => answer = SampleAccept
    /\ ResponseSize(answer) <= WS_HS_ACCLEN
=============================================================================
