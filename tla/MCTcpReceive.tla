---------------------------- MODULE MCTcpReceive ----------------------------
(* A connection of FdBridge for TLC: its consumer is TcpStickyWrap, or any. *)
EXTENDS TcpReceive

VARIABLE consumer

MCInit == TcpInit /\ consumer \in {"tcp", "any"}

MCNext ==
  /\ UNCHANGED consumer
  /\ \/ consumer = "tcp" /\ TcpNext
     \/ consumer = "any" /\ Next /\ UNCHANGED <<size, again, crashed>>

MCSpec == MCInit /\ [][MCNext]_<<tcpVars, consumer>>

\* readData() leaves only bytes behind that follow a node it has drained; any
\* other consumer may leave what it likes.
TcpWaitsOnlyBehindDrained == consumer = "tcp" => WaitsOnlyBehindDrained
=============================================================================
