------------------------- MODULE MCAssetLockFunding -------------------------
(***************************************************************************)
(* Small instances of AssetLockFunding: two locks in a row, the first of   *)
(* which registers an identity.                                            *)
(***************************************************************************)
EXTENDS AssetLockFunding
=============================================================================
