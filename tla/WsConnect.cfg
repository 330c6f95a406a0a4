SPECIFICATION ConnSpec
CONSTANTS
  DataCap = 18
  MaxFrames = 3
  Frames <- Kinds
  PieceSizes <- MCPieceSizes
  MaxMessage = 128
  MaxEncoded = 60
  TextBytes <- MCTextBytes
  MaxText = 4
  Requests <- MCRequests
  UsualStream <- MCUsualStream
INVARIANTS
  HandedIntact
  NothingSkipped
  SpinsOnlyInsideHead
  DigestIsStandard
  EncodingIsStandard
  DecoderIsStandard
  HandshakeIsStandard
CHECK_DEADLOCK FALSE
