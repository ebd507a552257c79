---------------------------- MODULE MCBroadcast ----------------------------
(* Three connections of a pinned pool: one may carry, one witness. *)
EXTENDS Broadcast
=============================================================================
