------------------------------ MODULE Handshake -----------------------------
(***************************************************************************)
(* handshake.c, with the lengths of ws.h: the answer to a WebSocket        *)
(* request.  A request is the lines strtok_r() makes of it; a line is the  *)
(* words strtok_r() makes of it and whether Sec-WebSocket-Key is in it     *)
(* somewhere.  A key is a sequence of bytes.                               *)
(***************************************************************************)
EXTENDS Sha1, Base64

WS_KEY_LEN == 24
WS_KEYMS_LEN == 60
WS_HS_ACCLEN == 130
HeaderLen == 97          \* strlen(WS_HS_ACCEPT)

\* "258EAFA5-E914-47DA-95CA-C5AB0DC85B11"
MAGIC_STRING == <<50, 53, 56, 69, 65, 70, 65, 53, 45, 69, 57, 49, 52, 45,
  52, 55, 68, 65, 45, 57, 53, 67, 65, 45, 67, 53, 65, 66, 48, 68, 67, 56,
  53, 66, 49, 49>>

\* What get_handshake_accept() hashes: as much of the key as there is room
\* for, the magic string, and zeros up to the length of both.
Hashed(key) ==
  LET n == IF Len(key) < WS_KEY_LEN THEN Len(key) ELSE WS_KEY_LEN
      str == SubSeq(key, 1, n) \o MAGIC_STRING
  IN  str \o Zeros(WS_KEYMS_LEN - Len(str))

\* Seeded fault: the line feed of base64_encode() stays.
AcceptLine(key) == Encode(Digest(Result(Input(Reset, Hashed(key)))))

\* get_handshake_accept(), which cuts the last character off.
Accept(key) ==
  LET line == Encode(Digest(Result(Input(Reset, Hashed(key)))))
  IN  SubSeq(line, 1, Len(line) - 1)

\* The first line with the field's name decides; its second word is the key.
KeyLine(request) == SelectInSeq(request, LAMBDA line : line.named)

HasKey(request) ==
  KeyLine(request) # 0 /\ Len(request[KeyLine(request)].words) >= 2

KeyOf(request) == request[KeyLine(request)].words[2]

\* Bytes get_handshake_response() writes into WS_HS_ACCLEN, for this accept.
ResponseSize(accept) == HeaderLen + Len(accept) + 4 + 1
=============================================================================
