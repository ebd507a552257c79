--------------------------- MODULE InputSelection ---------------------------
(***************************************************************************)
(* How a payment chooses what it spends: coins (coinSelection.ts), notes   *)
(* (shieldedNoteSelection.ts) and credits on Platform addresses            *)
(* (platformTransfer.ts).  Each is chosen by the quote and by the send     *)
(* alike, so what a quote calls the maximum has to be something a send     *)
(* then finds inputs for.                                                  *)
(*                                                                         *)
(* A candidate is a number, for an address its place in the byte order     *)
(* consensus sorts inputs by; list is the candidates in the order they     *)
(* were read.  worth and held say what each holds, fee the price of a      *)
(* count of inputs.  A selection is a set, a plan a function from the      *)
(* addresses drawn on to what each gives; either is empty when the amount  *)
(* is refused.                                                             *)
(***************************************************************************)
EXTENDS Integers, FiniteSets, Sequences, SequencesExt

CONSTANTS
  MIN_INPUT,    \* MIN_INPUT_CREDITS: consensus takes no smaller input
  MAX_INPUTS,   \* MAX_ADDRESS_INPUTS
  PER_DUFF      \* CREDITS_PER_DUFF

Refused == <<>>

Least(a, b) == IF a < b THEN a ELSE b
Largest(a, b) == IF a < b THEN b ELSE a

Total(some, worth) == MapThenSumSet(LAMBDA c : worth[c], some)
Drawn(plan) == MapThenSumSet(LAMBDA c : plan[c], DOMAIN plan)

-----------------------------------------------------------------------------
(* Coins and notes: spent whole, the best first *)

\* bySatoshisDesc, byValueDesc, byBalanceDesc: equals stay in the list's order.
BestFirst(list, worth) ==
  LET Before(i, j) == \/ worth[list[i]] > worth[list[j]]
                      \/ worth[list[i]] = worth[list[j]] /\ i < j
      places == SetToSortSeq(DOMAIN list, Before)
  IN  [n \in DOMAIN list |-> list[places[n]]]

Best(list, worth, n) == Range(SubSeq(BestFirst(list, worth), 1, n))
Counts(list, most) == 1..Least(Len(list), most)

\* selectCoins and selectSpendNotes, left to choose: the shortest prefix that
\* pays for itself.
Select(list, worth, target, fee, most) ==
  LET enough == {n \in Counts(list, most) : Total(Best(list, worth, n), worth) >= target + fee[n]}
  IN  IF enough = {} THEN {} ELSE Best(list, worth, Min(enough))

\* Told what to spend: all of it or nothing, also when some of it is gone.
SelectPicked(picked, list, worth, target, fee, most) ==
  IF /\ picked \subseteq Range(list)
     /\ Cardinality(picked) \in 1..most
     /\ Total(picked, worth) >= target + fee[Cardinality(picked)]
  THEN picked ELSE {}

\* maxSelectableAmount, maxSpendableCredits: the best prefix, as a small coin
\* may cost more than it brings.
MaxSelectable(list, worth, fee, most) ==
  Max({0} \union {Total(Best(list, worth, n), worth) - fee[n] : n \in Counts(list, most)})

-----------------------------------------------------------------------------
(* Credits on addresses: drawn in part, the payer of the fee keeping it back *)

\* allocate: the payer is loaded as lightly as its peers allow, each in turn up
\* to its cap; a share below the minimum is the payer's to carry.
Allocate(order, cap, held, payer, amount, fee) ==
  LET most == Least(cap[payer], held[payer] - fee)
      peers == SelectSeq(order, LAMBDA c : c # payer)
      least == Largest(amount - Total(Range(peers), cap), MIN_INPUT)
      Share(acc, c) ==
        LET gives == Least(cap[c], acc.left)
        IN  IF gives < MIN_INPUT
            THEN acc
            ELSE [left |-> acc.left - gives, plan |-> acc.plan @@ (c :> gives)]
      shared == FoldLeft(Share, [left |-> amount - least, plan |-> Refused], peers)
  IN  IF most < MIN_INPUT \/ least > most \/ least + shared.left > most
      THEN Refused
      ELSE shared.plan @@ (payer :> least + shared.left)

\* selectablePlatformInputs
Selectable(list, held) == SelectSeq(list, LAMBDA c : held[c] >= MIN_INPUT)

\* selectPlatformInputs, left to choose: the shortest prefix that holds enough
\* and whose first address by bytes, the one consensus charges, can pay.
SelectInputs(list, held, amount, fee) ==
  LET from == Selectable(list, held)
      PlanOf(n) == Allocate(SubSeq(BestFirst(from, held), 1, n), held, held,
                            Min(Best(from, held, n)), amount, fee)
      able == {n \in Counts(from, MAX_INPUTS) :
                 Total(Best(from, held, n), held) >= amount + fee /\ PlanOf(n) # Refused}
  IN  IF amount < MIN_INPUT \/ able = {} THEN Refused ELSE PlanOf(Min(able))

\* selectPlatformInputsWithFee: again, until the count is one that was paid for.
SelectWithFee(list, held, amount, fee) ==
  LET quoted[n \in 1..MAX_INPUTS] ==
        LET plan == SelectInputs(list, held, amount, fee[n])
            used == Cardinality(DOMAIN plan)
        IN  IF used <= n THEN [plan |-> plan, fee |-> fee[n]] ELSE quoted[used]
  IN  quoted[1]

\* maxPlatformCredits
MaxCredits(list, held, fee) ==
  LET from == Selectable(list, held)
      able == {n \in Counts(from, MAX_INPUTS) : held[Min(Best(from, held, n))] - fee[n] >= MIN_INPUT}
  IN  Max({0} \union {Total(Best(from, held, n), held) - fee[n] : n \in able})

\* planPickedInputs: order is the picked addresses as they were picked, cap how
\* much of each may be drawn, and charged the addresses the fee is taken from in
\* turn; it comes out of the output when there are none.
SelectPickedInputs(order, cap, held, charged, amount, fee) ==
  LET payer == IF charged = <<>> THEN Min(Range(order)) ELSE charged[1]
      kept == IF charged = <<>> THEN 0 ELSE fee[Len(order)]
  IN  IF \/ amount < MIN_INPUT \/ Len(order) \notin 1..MAX_INPUTS
         \/ Cardinality(Range(order)) # Len(order)
         \/ \E c \in Range(order) : c \notin DOMAIN held \/ held[c] < cap[c] \/ cap[c] < MIN_INPUT
         \/ payer \notin Range(order)
      THEN Refused
      ELSE Allocate(order, cap, held, payer, amount, kept)

-----------------------------------------------------------------------------
(* Shielding: the first address keeps a reserve for the fee *)

\* planShieldInputs
Usable(held, reserve) ==
  LET over == {c \in DOMAIN held : held[c] > reserve}
      rest == {c \in DOMAIN held : c > Min(over) /\ held[c] >= MIN_INPUT}
      sorted == <<Min(over)>> \o SetToSortSeq(rest, <)
  IN  IF over = {} THEN <<>> ELSE SubSeq(sorted, 1, Least(Len(sorted), MAX_INPUTS))

MaxShieldable(held, reserve) ==
  Largest(Total(Range(Usable(held, reserve)), held) - reserve, 0)

\* selectShieldInputs: in order until the amount is claimed; what is left for a
\* later address is lifted to the minimum.
SelectShield(held, reserve, amount) ==
  LET usable == Usable(held, reserve)
      Lifted(c, gives) == IF c # usable[1] /\ gives < MIN_INPUT THEN MIN_INPUT ELSE gives
      Draw(acc, c) ==
        LET cap == IF c = usable[1] THEN held[c] - reserve ELSE held[c]
            gives == Least(cap, amount - acc.claimed)
        IN  IF gives <= 0 THEN acc
            ELSE [claimed |-> acc.claimed + Lifted(c, gives), plan |-> acc.plan @@ (c :> Lifted(c, gives))]
      drawn == FoldLeft(Draw, [claimed |-> 0, plan |-> Refused], usable)
  IN  IF amount \notin 1..MaxShieldable(held, reserve) \/ drawn.claimed < amount
      THEN Refused ELSE drawn.plan

-----------------------------------------------------------------------------
(* Withdrawing: everything, or from one address *)

\* What selectablePlatformInputs leaves; the order does not matter here.
Drawable(held) == {c \in DOMAIN held : held[c] >= MIN_INPUT}

\* largestBalance: the first by bytes of the largest.
LargestBalance(held) ==
  LET from == Drawable(held)
  IN  Min({c \in from : \A d \in from : held[d] <= held[c]})

\* planFullWithdrawal
FullWithdrawal(held, fee) ==
  LET from == Drawable(held)
      count == Cardinality(from)
  IN  IF count \notin 1..MAX_INPUTS \/ held[LargestBalance(held)] - fee[count] < MIN_INPUT
      THEN Refused
      ELSE [c \in from |-> held[c] - (IF c = LargestBalance(held) THEN fee[count] ELSE 0)]

\* planWithdrawalInputs: an amount within a duff of everything is everything.
PlanWithdrawal(held, amount, fee) ==
  LET full == FullWithdrawal(held, fee)
      whole == full # Refused /\ Drawn(full) - amount < PER_DUFF
      above == full # Refused /\ amount > Drawn(full)
  IN  IF above THEN Refused
      ELSE IF whole THEN full
      ELSE IF \/ Drawable(held) = {} \/ amount < MIN_INPUT
              \/ amount > held[LargestBalance(held)] - fee[1]
      THEN Refused
      ELSE (LargestBalance(held) :> amount)

\* maxWithdrawalCredits
MaxWithdrawal(held, fee) ==
  IF FullWithdrawal(held, fee) # Refused THEN Drawn(FullWithdrawal(held, fee))
  ELSE IF Drawable(held) = {} THEN 0
  ELSE Largest(held[LargestBalance(held)] - fee[1], 0)
=============================================================================
