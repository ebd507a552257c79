-------------------------- MODULE MCScanPersistence --------------------------
(***************************************************************************)
(* Small instances of ScanPersistence: a chain of five heights whose       *)
(* blocks 2, 4, 5 pay the wallet; 3 and 4 pay addresses discovery adds.    *)
(***************************************************************************)
EXTENDS ScanPersistence

MCEarly == {2, 4, 5}
MCLate == {3, 4}
NoHeights == {}
MCForks == {1, 3}
GenesisFork == {1}
GenesisFloor == {0}
HighFloor == {3}
NoFails == {}
AdvanceFails == {"advance"}
BlockFails == {"block", "advance"}
=============================================================================
