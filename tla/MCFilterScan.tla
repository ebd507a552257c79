---------------------------- MODULE MCFilterScan ----------------------------
(***************************************************************************)
(* Small instances of FilterScan: payments, false filter matches and the   *)
(* situations left out, as each run needs them.                            *)
(***************************************************************************)
EXTENDS FilterScan

Paying(f, height) == IF height \in DOMAIN f THEN f[height] ELSE {}
PaysOf(f) == [h \in Heights |-> Paying(f, h)]

\* Two payments to the first address, one in each batch.
PaysTwo == PaysOf(2 :> {0} @@ 5 :> {0})
\* A run of addresses: each payment uses the last one derived.
PaysChain == PaysOf(2 :> {0} @@ 4 :> {1})
\* The same with a contact, not known yet, paid in the first block too.
PaysBoth == PaysOf(2 :> {0, Contact} @@ 4 :> {1})
\* A payment, and below it one to a contact not known yet.
PaysContact == PaysOf(3 :> {Contact} @@ 5 :> {0})
\* Three blocks to fetch in the two batches a drain can find finished.
PaysThree == PaysOf(2 :> {0} @@ 4 :> {0} @@ 5 :> {0})
\* The same between two payments of the wallet.
PaysBetween == PaysOf(2 :> {0} @@ 3 :> {Contact} @@ 4 :> {0})
NoHeights == {}
DecoyAtFour == {4}
FirstFloor == {1}
ContactFloor == {2}
MCForks == {3}
\* What every passing run leaves out, and below it one situation less for each
\* of the configurations that show it.
EverythingHolds == {"stall over pending blocks", "tip grows during scan",
  "reorg ahead of the scan", "rewind during walk", "rewind above outstanding",
  "discovery while held", "halt while held", "floor without a cursor"}
\* A contact paid below, or above, the block that pays the wallet.
PaysBehind == PaysOf(3 :> {Contact} @@ 4 :> {0})
PaysAbove == PaysOf(3 :> {0} @@ 5 :> {Contact})
HighContactFloor == {4}
\* A block that pays two addresses, the second not derived when it arrives.
PaysPair == PaysOf(2 :> {0, 1})
\* A second address in use right above the block that exhausts the gap.
PaysLate == PaysOf(5 :> {0} @@ 6 :> {1})
WithStalls == EverythingHolds \ {"stall over pending blocks"}
WithTips == EverythingHolds \ {"tip grows during scan"}
WithWalkRewinds == EverythingHolds \ {"rewind during walk"}
WithHighRewinds == EverythingHolds \ {"rewind above outstanding"}
WithHeldDiscovery == EverythingHolds \ {"discovery while held"}
WithHeldHalts == EverythingHolds \ {"halt while held"}
WholeDrains == EverythingHolds \union {"halt within a drain"}
=============================================================================
