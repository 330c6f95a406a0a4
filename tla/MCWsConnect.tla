---------------------------- MODULE MCWsConnect -----------------------------
(* Values of WsConnect's constants: the kinds of frames that differ; message *)
(* lengths that end before, at and behind the last place for the padding     *)
(* (55, 56, 63, 64 bytes); all bytes at which the type of a UTF-8 byte       *)
(* changes; requests with and without a key, with a short and a long one,    *)
(* and with the field's name elsewhere.                                      *)
EXTENDS WsConnect

key == <<1, 2, 4, 7>>

Kinds ==
  {Frame(TRUE, BIN, 0, key, <<9>>),
   Frame(TRUE, BIN, 0, key, <<3, 5>>),
   Frame(TRUE, BIN, 2, key, <<6>>),
   Frame(TRUE, BIN, 8, key, <<5>>),
   Frame(FALSE, BIN, 0, key, <<8>>),
   Frame(TRUE, BIN, 0, key, <<>>),
   Frame(TRUE, BIN, 0, key, <<3, 253>>),   \* 253 is sent as 255
   Frame(TRUE, PING, 0, key, <<7>>),
   Frame(TRUE, CLSE, 0, key, <<2, 3>>),
   Frame(TRUE, PONG, 0, key, <<4>>)}

MCPieceSizes == {8, 55}

MCTextBytes == {0, 127, 128, 143, 144, 159, 160, 191, 192, 193, 194, 223, 224,
                225, 236, 237, 238, 239, 240, 241, 243, 244, 245, 255}

Line(named, words) == [named |-> named, words |-> words]
Get == Line(FALSE, <<<<71>>, <<47>>>>)

MCRequests ==
  {<<Get, Line(TRUE, <<FieldName, k>>)>> :
     k \in {SampleKey, SubSeq(SampleKey, 1, 9), SampleKey \o <<65>>, [n \in 1 .. 24 |-> 65 + n]}}
    \cup {<<Get>>, <<Get, Line(TRUE, <<FieldName>>)>>,
          <<Line(TRUE, <<<<71>>, <<47>>>>), Line(TRUE, <<FieldName, SampleKey>>)>>}

MCUsualStream == <<Frame(TRUE, BIN, 0, key, <<9>>)>>
=============================================================================
