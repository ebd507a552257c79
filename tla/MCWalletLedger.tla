--------------------------- MODULE MCWalletLedger ---------------------------
(* Two coins d and e; s spends both, r spends e, t spends the change of s, and *)
(* x, signed elsewhere with the same keys, spends d.  i pays us, j takes its   *)
(* input back.                                                                 *)
EXTENDS WalletLedger, Integers, FiniteSets, TLC

\* What each transaction spends: "f" is an output of somebody else.
TheIns ==
  "d" :> {} @@ "e" :> {} @@ "s" :> {"d", "e"} @@ "r" :> {"e"} @@ "t" :> {"s"}
    @@ "x" :> {"d"} @@ "i" :> {"f"} @@ "j" :> {"f"}
MCIns == [u \in Txs |-> TheIns[u]]

-----------------------------------------------------------------------------
(* Which coins, notes or credits a payment takes, against what it means to     *)
(* choose well, for every purse of up to three and every linear price.         *)
Choice == INSTANCE InputSelection WITH MIN_INPUT <- 2, MAX_INPUTS <- 2, PER_DUFF <- 2

Prices(bases, slopes) == {[n \in 1..3 |-> b + p * n] : b \in bases, p \in slopes}
Orders == {<<1, 2, 3>>, <<2, 3, 1>>, <<3, 2, 1>>}
Purses == [1..3 -> 0..5]

\* selectCoins, selectSpendNotes: a selection pays for itself; one is found
\* whenever some set of inputs does, it takes the fewest that do, and what
\* maxSelectableAmount promises is exactly what can be selected.
ASSUME SelectionIsExact ==
  \A worth \in [1..3 -> 1..4], fee \in Prices(0..2, 0..2), target \in 1..12, most \in 2..3 :
    LET some == Choice!Select(<<1, 2, 3>>, worth, target, fee, most)
        payers == {set \in SUBSET (1..3) :
                     /\ Cardinality(set) \in 1..most
                     /\ Choice!Total(set, worth) >= target + fee[Cardinality(set)]}
    IN  /\ IF payers = {} THEN some = {} ELSE some \in payers
        /\ \A set \in payers : Cardinality(some) <= Cardinality(set)
        /\ (some # {}) <=> (target <= Choice!MaxSelectable(<<1, 2, 3>>, worth, fee, most))

\* A plan consensus takes: no input below the minimum, none above what its
\* address holds, and the one that is charged keeps the fee back.
Accepted(plan, purse, payer, fee) ==
  /\ \A c \in DOMAIN plan : plan[c] \in 2..purse[c]
  /\ purse[payer] - plan[payer] >= fee

\* selectPlatformInputsWithFee: a plan sums to the amount, is paid for at the
\* price of its own count or more, and is accepted; nothing above what
\* maxPlatformCredits says is planned, and what it says is.
ASSUME InputsAreSound ==
  \A purse \in Purses, list \in Orders, fee \in Prices({0, 2}, 0..2) :
    LET most == Choice!MaxCredits(list, purse, fee)
    IN  \A amount \in 1..12 :
          LET sent == Choice!SelectWithFee(list, purse, amount, fee)
              plan == sent.plan
          IN  IF plan = <<>>
              THEN amount # most \/ amount < 2
              ELSE /\ amount <= most
                   /\ Choice!Drawn(plan) = amount
                   /\ sent.fee >= fee[Cardinality(DOMAIN plan)]
                   /\ Accepted(plan, purse, Choice!Min(DOMAIN plan), sent.fee)

\* planPickedInputs: a plan of picked addresses stays within what was picked of
\* each, and leaves the charged one its fee.
ASSUME PicksAreKept ==
  \A purse, cap \in [1..2 -> 0..5], charged \in {<<>>, <<1>>, <<2>>}, amount \in 1..10, price \in 0..2 :
    LET plan == Choice!SelectPickedInputs(<<2, 1>>, cap, purse, charged, amount, [n \in 1..2 |-> n * price])
    IN  plan # <<>> =>
          /\ Choice!Drawn(plan) = amount
          /\ \A c \in DOMAIN plan : plan[c] <= cap[c]
          /\ charged # <<>> => charged[1] \in DOMAIN plan /\ Accepted(plan, purse, charged[1], 2 * price)

\* planShieldInputs, selectShieldInputs: every amount up to what is called
\* shieldable is claimed, by less than one smallest input too much, and the
\* first address keeps the reserve.
ASSUME ShieldableIsShielded ==
  \A purse \in Purses, reserve \in 0..3 :
    \A amount \in 1..Choice!MaxShieldable(purse, reserve) :
      LET plan == Choice!SelectShield(purse, reserve, amount)
          payer == Choice!Min(DOMAIN plan)
      IN  /\ plan # <<>>
          /\ Choice!Drawn(plan) - amount \in 0..1
          /\ purse[payer] - plan[payer] >= reserve
          /\ \A c \in DOMAIN plan : plan[c] <= purse[c] /\ (c # payer => plan[c] >= 2)

\* planWithdrawalInputs: a plan draws the amount, or everything when that is
\* within a duff of it, and is accepted; maxWithdrawalCredits can be withdrawn.
ASSUME WithdrawalIsSound ==
  \A purse \in Purses, fee \in Prices(0..2, 0..2) :
    LET most == Choice!MaxWithdrawal(purse, fee)
    IN  \A amount \in 1..15 :
          LET plan == Choice!PlanWithdrawal(purse, amount, fee)
          IN  IF plan = <<>>
              THEN amount # most \/ amount < 2
              ELSE /\ Choice!Drawn(plan) - amount \in 0..1
                   /\ Accepted(plan, purse, Choice!LargestBalance(purse), fee[Cardinality(DOMAIN plan)])
=============================================================================
