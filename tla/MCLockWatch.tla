---------------------------- MODULE MCLockWatch ----------------------------
(* A transaction of ours and one that pays us. *)
EXTENDS LockWatch
=============================================================================
