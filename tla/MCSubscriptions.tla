-------------------------- MODULE MCSubscriptions --------------------------
(***************************************************************************)
(* An instance of SocketClient alone: does the server learn what the       *)
(* client subscribes to?                                                   *)
(***************************************************************************)
EXTENDS SocketClient

CONSTANTS t1, t2, v1, v2
=============================================================================
