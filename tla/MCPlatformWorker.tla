-------------------------- MODULE MCPlatformWorker --------------------------
(***************************************************************************)
(* Small instances of PlatformWorker: two transitions that need a proof    *)
(* and so share a lane, and a read that waits for nothing.                 *)
(***************************************************************************)
EXTENDS PlatformWorker, TLC

CONSTANTS spend, pay, look

MCLaneOf == spend :> PROVER_LANE @@ pay :> PROVER_LANE @@ look :> NoLane
=============================================================================
