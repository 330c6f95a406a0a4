----------------------------- MODULE WsConnect ------------------------------
(***************************************************************************)
(* WsConnect::readData() of ExtNet: a WebSocket connection whose handshake *)
(* is that of CodecUse and whose frames are those of WsReceive.            *)
(* Each behaviour does one of these jobs: "handshake", a connection whose  *)
(* request is answered as in CodecUse and that receives the usual stream;  *)
(* "frames", a connection that receives any stream after a handshake that  *)
(* is not looked into; or one of the other jobs of CodecUse, in which the  *)
(* C code behind the handshake is called directly.                         *)
(***************************************************************************)
EXTENDS WsReceive, CodecUse

CONSTANT UsualStream    \* a stream like any other

connVars == <<vars, codecVars>>

ConnInit ==
  /\ Init
  /\ \/ CodecInit /\ stream = UsualStream
     \/ job = "frames" /\ CodecIdle

\* What do_handshake() has left of the connection.
Outcome(c) == CASE c = "open" -> "idle" [] c = "closed" -> "closed" [] c = "dead" -> "dead"

ConnNext ==
  \/ /\ CodecNext
     /\ IF job = "handshake" THEN Handshake /\ pc' = Outcome(conn')
        ELSE UNCHANGED vars
  \/ /\ job = "frames" \/ (job = "handshake" /\ conn # "new")
     /\ Next
     /\ UNCHANGED codecVars

ConnSpec == ConnInit /\ [][ConnNext]_connVars

-----------------------------------------------------------------------------

\* The answer is the one the client must compare with when it is sent, before
\* the first frame arrives (do_handshake(); nothing changes it later).
HandshakeIsStandard == pos = 0 => AnswerIsStandard
=============================================================================
