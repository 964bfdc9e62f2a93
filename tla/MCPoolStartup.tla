----------------------------- MODULE MCPoolStartup -----------------------------
(***************************************************************************)
(* A small instance of PoolStartup: two daemons; verack has no payload, as *)
(* in the protocol, the others one unit or two.                            *)
(***************************************************************************)
EXTENDS PoolStartup, TLC
CONSTANTS d1, d2

MCPayloadLen == "version" :> 2 @@ "verack" :> 0 @@ "ping" :> 1 @@ "block" :> 2 @@ "other" :> 0
===============================================================================
