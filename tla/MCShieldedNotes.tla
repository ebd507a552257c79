-------------------------- MODULE MCShieldedNotes --------------------------
(* One wallet and a pool of a few notes. *)
EXTENDS ShieldedNotes
=============================================================================
