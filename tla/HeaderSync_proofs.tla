------------------------- MODULE HeaderSync_proofs -------------------------
(***************************************************************************)
(* What TLAPS proves of HeaderSync for every block tree, every set of      *)
(* peers and every value of the limits: that window, tip, chain.db and the *)
(* filter scan agree on one chain, that what is taken for final stays on   *)
(* it, that the chain is left only for more work, and that chain.db is a   *)
(* log of linked headers.                                                  *)
(*                                                                         *)
(* All four need Careful: no headers and no ChainLock arrive while a      *)
(* write that takes the tip down is under way, and no headers while the    *)
(* check of a ChainLock waits for a write.  The code does not prevent      *)
(* these; the configurations HeaderRewindRace and HeaderLockRace show      *)
(* what they break.                                                        *)
(***************************************************************************)
EXTENDS HeaderSync, FiniteSetTheorems, TLAPS

-----------------------------------------------------------------------------
(* Numbers *)

LEMMA HasMinimum ==
  ASSUME NEW n \in Nat, NEW S \in SUBSET (1..n), S # {}
  PROVE  \E m \in S : \A k \in S : m <= k
<1> DEFINE Below(h) == S \intersect (1..h)
           Family == {Below(h) : h \in S}
           R == StrictSubsetOrdering(1..n)
<1>1. IsFiniteSet(1..n)
  BY FS_Interval
<1>2. IsWellFoundedOn(R, FiniteSubsetsOf(1..n))
  BY FS_StrictSubsetOrderingWellFounded
<1>3. Family \subseteq FiniteSubsetsOf(1..n) /\ Family # {}
  <2>1. FiniteSubsetsOf(1..n) = SUBSET (1..n)
    BY <1>1, FS_FiniteSubsetsOfFinite
  <2>2. \A h \in S : Below(h) \in SUBSET (1..n)
    OBVIOUS
  <2>3. \E h \in S : Below(h) \in Family
    OBVIOUS
  <2>4. Family \subseteq SUBSET (1..n)
    BY <2>2, Zenon
  <2>5. Family # {}
    BY <2>3, Zenon
  <2> QED BY <2>1, <2>4, <2>5, Zenon
<1>4. PICK least \in Family : \A T \in Family : <<T, least>> \notin R
  <2> HIDE DEF Family, R
  <2> QED BY <1>2, <1>3, WFMin
<1>5. PICK m \in S : least = Below(m)
  BY <1>4
<1>6. ASSUME NEW k \in S, k < m PROVE FALSE
  <2>1. Below(k) \subseteq Below(m) /\ m \notin Below(k) /\ m \in Below(m)
    BY <1>6
  <2>2. Below(k) # Below(m)
    BY <2>1
  <2>3. <<Below(k), Below(m)>> \in R
    BY <2>1, <2>2 DEF StrictSubsetOrdering
  <2> QED BY <2>3, <1>4, <1>5
<1> QED BY <1>6

\* A nonempty set of numbers up to n has a greatest one.
LEMMA HasMaximum ==
  ASSUME NEW n \in Nat, NEW S \in SUBSET (1..n), S # {}
  PROVE  \E m \in S : \A k \in S : k <= m
<1> DEFINE U == {n + 1 - k : k \in S}
<1>1. U \in SUBSET (1..n) /\ U # {}
  <2>1. \A k \in S : n + 1 - k \in 1..n
    OBVIOUS
  <2>2. U \subseteq 1..n
    BY <2>1
  <2>3. PICK k \in S : TRUE
    OBVIOUS
  <2>4. n + 1 - k \in U
    OBVIOUS
  <2> QED BY <2>2, <2>4
<1>2. PICK u \in U : \A v \in U : u <= v
  BY <1>1, HasMinimum
<1>3. PICK m \in S : u = n + 1 - m
  BY <1>2
<1>4. \A k \in S : u <= n + 1 - k
  BY <1>2
<1>5. \A k \in S : k <= m
  BY <1>3, <1>4
<1> QED BY <1>5

-----------------------------------------------------------------------------
(* The tree *)

LEMMA GenesisChain == Chain[Genesis] = {Genesis}
<1>1. {Genesis} \in Branches /\ Genesis \in Nodes /\ Genesis # Origin /\ Genesis \in Blocks
  BY TreeAssumption DEF Branches, Nodes
<1>2. Chain[Genesis] = {x \in Blocks : \A S \in Branches : Genesis \in S => x \in S}
  BY <1>1 DEF Chain
<1> QED BY <1>1, <1>2

\* A chain is a branch, holds its own block, and no smaller branch does.
LEMMA ChainIsBranch ==
  ASSUME NEW b \in Blocks
  PROVE  /\ Chain[b] \in Branches /\ b \in Chain[b]
         /\ \A S \in Branches : b \in S => Chain[b] \subseteq S
<1>1. b \in Nodes /\ b # Origin
  BY TreeAssumption DEF Nodes
<1>2. Chain[b] = {x \in Blocks : \A S \in Branches : b \in S => x \in S}
  BY <1>1 DEF Chain
<1>3. b \in Chain[b] /\ Chain[b] \subseteq Blocks /\ \A S \in Branches : b \in S => Chain[b] \subseteq S
  BY <1>2
<1>4. \A x \in Chain[b] \ {Genesis} : Parent[x] \in Chain[b]
  <2>1. TAKE x \in Chain[b] \ {Genesis}
  <2>2. Parent[x] \in Blocks
    BY <1>2, TreeAssumption
  <2>3. \A S \in Branches : b \in S => Parent[x] \in S
    BY <1>2 DEF Branches
  <2> QED BY <1>2, <2>2, <2>3
<1> QED BY <1>3, <1>4 DEF Branches

LEMMA ChainOfParent ==
  ASSUME NEW b \in Blocks \ {Genesis}
  PROVE  /\ Parent[b] \in Blocks /\ b \notin Chain[Parent[b]]
         /\ Chain[b] = Chain[Parent[b]] \union {b}
<1>1. Parent[b] \in Blocks /\ b \in Blocks /\ b \notin Chain[Parent[b]]
  BY TreeAssumption
<1>2. PICK p : p = Parent[b]
  OBVIOUS
<1>3. Chain[p] \union {b} \in Branches
  BY <1>1, <1>2, ChainIsBranch DEF Branches
<1>4. Chain[b] \subseteq Chain[p] \union {b}
  BY <1>1, <1>3, ChainIsBranch
<1>5. p \in Chain[b]
  BY <1>1, <1>2, ChainIsBranch DEF Branches
<1>6. Chain[p] \subseteq Chain[b]
  BY <1>1, <1>2, <1>5, ChainIsBranch
<1> QED BY <1>1, <1>2, <1>4, <1>6, ChainIsBranch

LEMMA HeightOfParent ==
  /\ Height[Genesis] = 1 /\ Height[Origin] = 0
  /\ \A b \in Blocks : Height[b] \in Nat /\ IsFiniteSet(Chain[b])
  /\ \A b \in Blocks \ {Genesis} : Height[b] = Height[Parent[b]] + 1
<1>1. \A b \in Nodes : Height[b] = Cardinality(Chain[b])
  BY DEF Height
<1>2. Origin \in Nodes /\ Genesis \in Nodes /\ Blocks \subseteq Nodes /\ Chain[Origin] = {}
  BY TreeAssumption DEF Nodes, Chain
<1>3. \A b \in Blocks : IsFiniteSet(Chain[b]) /\ Height[b] \in Nat
  <2>1. TAKE b \in Blocks
  <2>2. Chain[b] \in SUBSET Blocks /\ IsFiniteSet(Blocks)
    BY ChainIsBranch, TreeAssumption DEF Branches
  <2>3. IsFiniteSet(Chain[b])
    BY <2>2, FS_Subset
  <2> QED BY <1>1, <1>2, <2>3, FS_CardinalityType
<1>4. \A b \in Blocks \ {Genesis} : Height[b] = Height[Parent[b]] + 1
  <2>1. TAKE b \in Blocks \ {Genesis}
  <2>2. /\ Parent[b] \in Blocks /\ b \notin Chain[Parent[b]] /\ b \in Blocks
        /\ Chain[b] = Chain[Parent[b]] \union {b}
    BY ChainOfParent
  <2>3. IsFiniteSet(Chain[Parent[b]])
    BY <1>3, <2>2
  <2>4. Cardinality(Chain[Parent[b]] \union {b}) = Cardinality(Chain[Parent[b]]) + 1
    BY <2>2, <2>3, FS_AddElement
  <2> QED BY <1>1, <1>2, <2>2, <2>4
<1> QED BY <1>1, <1>2, <1>3, <1>4, GenesisChain, FS_Singleton, FS_EmptySet

\* What holds of Genesis, and of every block whose parent it holds of, holds of all.
LEMMA TreeInduction ==
  ASSUME NEW S \in SUBSET Blocks, Genesis \in S, \A b \in Blocks \ {Genesis} : Parent[b] \in S => b \in S
  PROVE  S = Blocks
<1> SUFFICES ASSUME NEW b \in Blocks, b \notin S PROVE FALSE
  OBVIOUS
<1>1. \A x \in Blocks : Height[x] \in Nat /\ (x # Genesis => Height[x] = Height[Parent[x]] + 1)
  BY HeightOfParent
<1> DEFINE T == {k \in 1..Height[b] + 1 : \E x \in Blocks \ S : k = Height[x] + 1}
<1>2. T \in SUBSET (1..Height[b] + 1) /\ Height[b] + 1 \in T /\ Height[b] + 1 \in Nat
  BY <1>1
<1>3. PICK m \in T : \A k \in T : m <= k
  BY <1>2, HasMinimum
<1>4. PICK x \in Blocks \ S : m = Height[x] + 1
  BY <1>3
<1>5. x \in Blocks \ {Genesis} /\ Parent[x] \in Blocks /\ Parent[x] \notin S
  BY <1>4, ChainOfParent
<1>6. Height[Parent[x]] + 1 \in T /\ Height[Parent[x]] + 1 < m
  <2>1. Height[x] \in Nat /\ Height[Parent[x]] \in Nat /\ Height[x] = Height[Parent[x]] + 1
    BY <1>1, <1>4, <1>5
  <2>2. m <= Height[b] + 1
    BY <1>3
  <2>3. Height[Parent[x]] + 1 \in 1..Height[b] + 1 /\ Height[Parent[x]] + 1 < m
    BY <1>4, <2>1, <2>2, <1>1
  <2> QED BY <1>5, <2>3
<1> QED BY <1>1, <1>3, <1>5, <1>6

\* The blocks of a chain: one for each height, and each with its own chain below it.
LEMMA ChainFacts ==
  ASSUME NEW b \in Blocks
  PROVE  /\ b \in Chain[b] /\ Genesis \in Chain[b] /\ Chain[b] \subseteq Blocks
         /\ \A x \in Chain[b] : Chain[x] \subseteq Chain[b] /\ Height[x] \in 1..Height[b]
         /\ \A h \in 1..Height[b] : \E x \in Chain[b] : Height[x] = h
         /\ \A x, y \in Chain[b] : Height[x] <= Height[y] => x \in Chain[y]
         /\ \A x, y \in Chain[b] : Height[x] = Height[y] => x = y
<1> DEFINE Good(c) == 
      /\ Genesis \in Chain[c] /\ Height[c] >= 1
      /\ \A x \in Chain[c] : Height[x] \in 1..Height[c]
      /\ \A h \in 1..Height[c] : \E x \in Chain[c] : Height[x] = h
      /\ \A x, y \in Chain[c] : Height[x] <= Height[y] => x \in Chain[y]
      /\ \A x, y \in Chain[c] : Height[x] = Height[y] => x = y
           S == {c \in Blocks : Good(c)}
<1>1. Genesis \in S
  <2>1. Chain[Genesis] = {Genesis} /\ Height[Genesis] = 1 /\ Genesis \in Blocks
    BY GenesisChain, HeightOfParent, TreeAssumption
  <2> QED BY <2>1
<1>2. \A c \in Blocks \ {Genesis} : Parent[c] \in S => c \in S
  <2> SUFFICES ASSUME NEW c \in Blocks \ {Genesis}, Parent[c] \in S PROVE Good(c)
    OBVIOUS
  <2>1. PICK p \in Blocks : p = Parent[c]
    BY ChainOfParent
  <2>2. Good(p)
    BY <2>1
  <2>3. Chain[c] = Chain[p] \union {c} /\ Height[c] = Height[p] + 1 /\ Height[p] \in Nat
        /\ c \in Chain[c]
    BY <2>1, ChainOfParent, HeightOfParent
  <2>4. \A x \in Chain[c] : x = c \/ (x \in Chain[p] /\ Height[x] \in 1..Height[p])
    BY <2>2, <2>3
  <2>5. /\ Genesis \in Chain[c] /\ Height[c] >= 1
        /\ \A x \in Chain[c] : Height[x] \in 1..Height[c]
    BY <2>2, <2>3, <2>4
  <2>6. \A h \in 1..Height[c] : \E x \in Chain[c] : Height[x] = h
    BY <2>2, <2>3
  <2>7. \A x, y \in Chain[c] : Height[x] <= Height[y] => x \in Chain[y]
    <3> TAKE x, y \in Chain[c]
    <3>1. CASE y = c
      BY <3>1
    <3>2. CASE y # c /\ x = c
      BY <2>3, <2>4, <3>2
    <3>3. CASE y # c /\ x # c
      BY <2>2, <2>4, <3>3
    <3> QED BY <3>1, <3>2, <3>3
  <2>8. \A x, y \in Chain[c] : Height[x] = Height[y] => x = y
    <3> TAKE x, y \in Chain[c]
    <3>1. CASE y = c
      BY <2>3, <2>4, <3>1
    <3>2. CASE y # c /\ x = c
      BY <2>3, <2>4, <3>2
    <3>3. CASE y # c /\ x # c
      BY <2>2, <2>4, <3>3
    <3> QED BY <3>1, <3>2, <3>3
  <2> QED BY <2>5, <2>6, <2>7, <2>8
<1>3. S = Blocks
  <2> HIDE DEF Good
  <2> QED BY <1>1, <1>2, TreeInduction
<1>4. Good(b)
  BY <1>3
<1>5. /\ b \in Chain[b] /\ Chain[b] \subseteq Blocks
      /\ \A x \in Chain[b] : x \in Blocks /\ (\A T \in Branches : x \in T => Chain[x] \subseteq T)
      /\ Chain[b] \in Branches
  BY ChainIsBranch DEF Branches
<1> QED BY <1>4, <1>5

\* At(b, h) is the one block of height h on the chain of b.
LEMMA AtIs ==
  ASSUME NEW b \in Blocks, NEW h \in 1..Height[b]
  PROVE  /\ At(b, h) \in Chain[b] /\ Height[At(b, h)] = h /\ At(b, h) \in Blocks
         /\ \A x \in Chain[b] : Height[x] = h => x = At(b, h)
<1>1. \E x \in Chain[b] : Height[x] = h
  BY ChainFacts
<1>2. At(b, h) \in Chain[b] /\ Height[At(b, h)] = h
  BY <1>1 DEF At
<1> QED BY <1>2, ChainFacts

\* Blocks have heights from 1 up, at most MaxHeight.
LEMMA Heights ==
  /\ MaxHeight \in Nat
  /\ \A b \in Blocks : Height[b] \in 1..MaxHeight
  /\ Height[Genesis] = 1 /\ Genesis \in Blocks
<1>1. Genesis \in Blocks /\ Height[Genesis] = 1 /\ IsFiniteSet(Blocks)
  BY TreeAssumption, HeightOfParent
<1>2. \A b \in Blocks : Height[b] \in Nat /\ Height[b] >= 1 /\ Height[b] <= Cardinality(Blocks)
  <2>1. TAKE b \in Blocks
  <2>2. Height[b] \in Nat /\ b \in Nodes /\ Chain[b] \in SUBSET Blocks /\ b \in Chain[b]
    BY HeightOfParent, ChainFacts DEF Nodes
  <2>3. Height[b] = Cardinality(Chain[b]) /\ Cardinality(Chain[b]) <= Cardinality(Blocks)
    BY <1>1, <2>2, FS_Subset DEF Height
  <2>4. Height[b] >= 1
    BY <2>2, ChainFacts
  <2> QED BY <2>2, <2>3, <2>4
<1>3. Cardinality(Blocks) \in Nat
  BY <1>1, FS_CardinalityType
<1> DEFINE T == {Height[b] : b \in Blocks}
<1>4. T \in SUBSET (1..Cardinality(Blocks)) /\ T # {}
  <2>1. T \subseteq 1..Cardinality(Blocks)
    BY <1>2, <1>3
  <2>2. Height[Genesis] \in T
    BY <1>1
  <2> QED BY <2>1, <2>2
<1>5. \E m \in T : \A k \in T : k <= m
  BY <1>3, <1>4, HasMaximum
<1>6. \E m \in T : \A k \in T : m >= k
  <2> HIDE DEF T
  <2>1. \A k \in T : k \in Nat
    BY <1>3, <1>4
  <2> QED BY <1>5, <2>1
<1>7. PICK m : m = MaxHeight /\ m \in T /\ \A k \in T : m >= k
  <2>1. MaxHeight = Max(T)
    BY DEF MaxHeight
  <2> HIDE DEF T
  <2> QED BY <1>6, <2>1 DEF Max
<1>8. \A b \in Blocks : Height[b] \in T
  OBVIOUS
<1> QED BY <1>1, <1>2, <1>3, <1>4, <1>7, <1>8

\* Some block of a nonempty set has the greatest height.
LEMMA Highest ==
  ASSUME NEW S \in SUBSET Blocks, S # {}
  PROVE  \E b \in S : \A x \in S : Height[x] <= Height[b]
<1> DEFINE T == {Height[b] : b \in S}
<1>1. T \subseteq 1..MaxHeight
  BY Heights
<1>2. PICK b \in S : TRUE
  OBVIOUS
<1>3. Height[b] \in T
  OBVIOUS
<1>4. PICK m \in T : \A k \in T : k <= m
  <2>1. T \in SUBSET (1..MaxHeight) /\ T # {} /\ MaxHeight \in Nat
    BY <1>1, <1>3, Heights
  <2> HIDE DEF T
  <2> QED BY <2>1, HasMaximum
<1>5. PICK c \in S : m = Height[c]
  BY <1>4
<1>6. \A x \in S : Height[x] \in T
  OBVIOUS
<1>7. \A x \in S : Height[x] <= Height[c]
  <2> HIDE DEF T
  <2> QED BY <1>4, <1>5, <1>6
<1> QED BY <1>7

LEMMA MaxOfTwo ==
  ASSUME NEW a \in Int, NEW b \in Int
  PROVE  Max({a, b}) = IF a >= b THEN a ELSE b
BY DEF Max

LEMMA MinOfTwo ==
  ASSUME NEW a \in Int, NEW b \in Int
  PROVE  Min({a, b}) = IF a <= b THEN a ELSE b
BY DEF Min

LEMMA MaxOfThree ==
  ASSUME NEW a \in Int, NEW b \in Int, NEW c \in Int
  PROVE  LET m == Max({a, b, c}) IN m \in {a, b, c} /\ m >= a /\ m >= b /\ m >= c
BY DEF Max

LEMMA FloorIs ==
  ASSUME NEW b \in Blocks
  PROVE  /\ Floor(b) \in 1..Height[b]
         /\ \A c \in Blocks : Height[b] <= Height[c] => Floor(b) <= Floor(c)
<1>1. REORG_MAX_DEPTH \in Nat \ {0}
  BY TreeAssumption
<1>2. \A c \in Blocks : Floor(c) = IF 1 >= Height[c] - REORG_MAX_DEPTH THEN 1
                                   ELSE Height[c] - REORG_MAX_DEPTH
  <2>1. TAKE c \in Blocks
  <2>2. Height[c] - REORG_MAX_DEPTH \in Int
    BY <1>1, Heights
  <2> QED BY <2>2, MaxOfTwo DEF Floor
<1>3. \A c \in Blocks : Height[c] \in Nat /\ Height[c] >= 1
  BY Heights
<1> QED BY <1>1, <1>2, <1>3

\* A block below another one on a chain has the same blocks below it.
LEMMA AtBelow ==
  ASSUME NEW b \in Blocks, NEW a \in Chain[b]
  PROVE  /\ a \in Blocks /\ Height[a] \in 1..Height[b] /\ At(b, Height[a]) = a
         /\ \A h \in 1..Height[a] : At(a, h) = At(b, h)
         /\ \A x \in Chain[b] : Height[x] <= Height[a] => x \in Chain[a]
         /\ \A x \in Chain[a] : x \in Chain[b]
         /\ a # b => Height[a] < Height[b]
<1>1. /\ a \in Blocks /\ Height[a] \in 1..Height[b] /\ Chain[a] \subseteq Chain[b] /\ b \in Chain[b]
      /\ \A x \in Chain[b] : Height[x] <= Height[a] => x \in Chain[a]
      /\ \A x, y \in Chain[b] : Height[x] = Height[y] => x = y
  BY ChainFacts
<1>2. At(b, Height[a]) = a
  BY <1>1, AtIs
<1>3. \A h \in 1..Height[a] : At(a, h) = At(b, h)
  <2>1. TAKE h \in 1..Height[a]
  <2>2. At(a, h) \in Chain[a] /\ Height[At(a, h)] = h
    BY <1>1, AtIs
  <2>3. h \in 1..Height[b]
    BY <1>1, Heights
  <2> QED BY <1>1, <2>2, <2>3, AtIs
<1>4. a # b => Height[a] < Height[b]
  BY <1>1, Heights
<1> QED BY <1>1, <1>2, <1>3, <1>4

\* What a chain has above one of its blocks.
LEMMA PathIs ==
  ASSUME NEW b \in Blocks, NEW a \in Chain[b]
  PROVE  /\ Path(a, b) \subseteq Chain[b]
         /\ \A x \in Path(a, b) :
               x \in Blocks /\ Height[x] \in Height[a] + 1..Height[b] /\ x = At(b, Height[x])
         /\ \A h \in Height[a] + 1..Height[b] : At(b, h) \in Path(a, b)
<1>1. /\ a \in Blocks /\ Height[a] \in Nat /\ Height[a] >= 1 /\ Height[b] \in Nat
      /\ \A x \in Chain[b] : x \in Blocks /\ Height[x] \in 1..Height[b]
  BY AtBelow, Heights, ChainFacts
<1>2. \A x \in Chain[b] : x = At(b, Height[x])
  BY <1>1, AtIs
<1>3. \A h \in Height[a] + 1..Height[b] : At(b, h) \in Chain[b] /\ Height[At(b, h)] = h /\ h > Height[a]
  <2>1. TAKE h \in Height[a] + 1..Height[b]
  <2>2. h \in 1..Height[b] /\ h > Height[a]
    BY <1>1
  <2> QED BY <2>2, AtIs
<1> QED BY <1>1, <1>2, <1>3 DEF Path

\* Headers recorded for a run of a chain: those of the chain at its heights.
LEMMA RecordedDomain ==
  ASSUME NEW window, NEW b \in Blocks, NEW a \in Chain[b]
  PROVE  DOMAIN Recorded(window, Path(a, b)) = DOMAIN window \union (Height[a] + 1..Height[b])
<1> DEFINE P == Path(a, b)
<1>1. /\ \A x \in P : Height[x] \in Height[a] + 1..Height[b]
      /\ \A h \in Height[a] + 1..Height[b] : At(b, h) \in P /\ Height[At(b, h)] = h
  <2>1. \A h \in Height[a] + 1..Height[b] : h \in 1..Height[b]
    BY AtBelow, Heights
  <2> QED BY <2>1, PathIs, AtIs
<1> HIDE DEF P
<1>2. {Height[x] : x \in P} = Height[a] + 1..Height[b]
  BY <1>1
<1> QED BY <1>2 DEF Recorded, P

LEMMA RecordedRun ==
  ASSUME NEW window, NEW b \in Blocks, NEW a \in Chain[b],
         NEW h \in DOMAIN window \union (Height[a] + 1..Height[b])
  PROVE  Recorded(window, Path(a, b))[h] =
           IF h \in Height[a] + 1..Height[b] THEN At(b, h) ELSE window[h]
<1> DEFINE P == Path(a, b)
<1>1. /\ \A x \in P : Height[x] \in Height[a] + 1..Height[b] /\ x = At(b, Height[x])
      /\ \A k \in Height[a] + 1..Height[b] : At(b, k) \in P /\ Height[At(b, k)] = k
  <2>1. \A k \in Height[a] + 1..Height[b] : k \in 1..Height[b]
    BY AtBelow, Heights
  <2> QED BY <2>1, PathIs, AtIs
<1> HIDE DEF P
<1>2. {Height[x] : x \in P} = Height[a] + 1..Height[b]
  BY <1>1
<1>3. Recorded(window, P)[h] =
        IF \E x \in P : Height[x] = h THEN CHOOSE x \in P : Height[x] = h ELSE window[h]
  BY <1>2 DEF Recorded
<1>4. CASE h \in Height[a] + 1..Height[b]
  <2>1. At(b, h) \in P /\ Height[At(b, h)] = h /\ \A x \in P : Height[x] = h => x = At(b, h)
    BY <1>1, <1>4
  <2>2. (CHOOSE x \in P : Height[x] = h) = At(b, h)
    BY <2>1
  <2> QED BY <1>3, <1>4, <2>1, <2>2 DEF P
<1>5. CASE h \notin Height[a] + 1..Height[b]
  BY <1>1, <1>3, <1>5 DEF P
<1> QED BY <1>4, <1>5

-----------------------------------------------------------------------------
(* The end of a step: what is posted to the filter scan *)

LEMMA NothingPosted == ASSUME NEW index PROVE FoldLeft(Follow, index, <<>>) = index
<1> DEFINE S == SUBSET DOMAIN <<>>
           F(g) == [s \in S |-> IF s = {} THEN index
                                ELSE Follow(g[s \ {Max(s)}], <<>>[Max(s)])]
           iter == CHOOSE g : g = F(g)
<1>1. \E g : g = F(g)
  <2>1. PICK g : g = [s \in S |-> index]
    OBVIOUS
  <2>2. g = F(g)
    BY <2>1
  <2> QED BY <2>2
<1>2. iter = F(iter)
  <2> HIDE DEF F
  <2> QED BY <1>1
<1>3. {} \in S
  OBVIOUS
<1>4. iter[{}] = index
  BY <1>2, <1>3
<1>5. FoldLeft(Follow, index, <<>>) = iter[DOMAIN <<>>]
  BY DEF FoldLeft, MapThenFoldSet
<1> QED BY <1>4, <1>5

LEMMA OnePosted ==
  ASSUME NEW index, NEW e PROVE FoldLeft(Follow, index, <<e>>) = Follow(index, e)
<1>1. PICK q : q = <<e>>
  OBVIOUS
<1>2. DOMAIN q = {1} /\ q[1] = e
  BY <1>1
<1> DEFINE S == SUBSET DOMAIN q
           F(g) == [s \in S |-> IF s = {} THEN index
                                ELSE Follow(g[s \ {Max(s)}], q[Max(s)])]
           iter == CHOOSE g : g = F(g)
<1>3. Max({1}) = 1
  BY DEF Max
<1>4. S = {{}, {1}} /\ {} \in S /\ {1} \in S /\ {1} \ {Max({1})} = {} /\ q[Max({1})] = e
  BY <1>2, <1>3
<1>5. \E g : g = F(g)
  <2>1. PICK g : g = [s \in S |-> IF s = {} THEN index ELSE Follow(index, e)]
    OBVIOUS
  <2>2. g[{}] = index
    BY <1>4, <2>1
  <2>3. Follow(g[{1} \ {Max({1})}], q[Max({1})]) = Follow(index, e)
    BY <1>4, <2>2
  <2>4. \A s \in S : g[s] = IF s = {} THEN index ELSE Follow(g[s \ {Max(s)}], q[Max(s)])
    BY <1>4, <2>1, <2>3
  <2>5. g = F(g)
    BY <2>1, <2>4
  <2> QED BY <2>5
<1>6. iter = F(iter)
  <2> HIDE DEF F
  <2> QED BY <1>5
<1>7. PICK f : f = iter /\ f = F(f)
  BY <1>6
<1>8. f[{}] = index /\ f[{1}] = Follow(index, e)
  <2>1. \A s \in S : f[s] = IF s = {} THEN index ELSE Follow(f[s \ {Max(s)}], q[Max(s)])
    BY <1>7
  <2>2. f[{1}] = Follow(f[{1} \ {Max({1})}], q[Max({1})]) /\ f[{}] = index
    BY <1>4, <2>1
  <2> QED BY <1>4, <2>2
<1>9. FoldLeft(Follow, index, q) = iter[DOMAIN q]
  BY DEF FoldLeft, MapThenFoldSet
<1> QED BY <1>1, <1>2, <1>7, <1>8, <1>9

-----------------------------------------------------------------------------
(* Work *)

\* Units of work: a set of blocks has as many as the work of its blocks comes to.
Units(S) == UNION {{x} \X (1..Work[x]) : x \in S}

LEMMA UnitsAdd ==
  /\ Cardinality(Units({})) = 0
  /\ \A S \in SUBSET Blocks : IsFiniteSet(Units(S)) /\ Cardinality(Units(S)) \in Nat
  /\ \A x \in Blocks : Cardinality(Units({x})) = Work[x]
  /\ \A S, T \in SUBSET Blocks : S \intersect T = {} =>
       Cardinality(Units(S \union T)) = Cardinality(Units(S)) + Cardinality(Units(T))
<1>0. IsFiniteSet(Blocks) /\ \A x \in Blocks : Work[x] \in Nat /\ Work[x] > 0
  BY TreeAssumption
<1>1. Units({}) = {}
  BY DEF Units
<1>2. \A x \in Blocks : IsFiniteSet(Units({x})) /\ Cardinality(Units({x})) = Work[x]
  <2>1. TAKE x \in Blocks
  <2>2. Units({x}) = {x} \X (1..Work[x])
    BY Zenon DEF Units
  <2>3. /\ IsFiniteSet({x}) /\ Cardinality({x}) = 1
        /\ IsFiniteSet(1..Work[x]) /\ Cardinality(1..Work[x]) = Work[x]
    <3>1. IsFiniteSet({x}) /\ Cardinality({x}) = 1
      BY FS_Singleton
    <3>2. PICK n \in Int : n = Work[x] /\ n > 0
      BY <1>0
    <3>3. IsFiniteSet(1..n) /\ Cardinality(1..n) = IF 1 > n THEN 0 ELSE n - 1 + 1
      BY FS_Interval
    <3>4. ~(1 > n) /\ n - 1 + 1 = n
      BY <3>2
    <3> QED BY <3>1, <3>2, <3>3, <3>4
  <2>4. /\ IsFiniteSet({x} \X (1..Work[x]))
        /\ Cardinality({x} \X (1..Work[x])) = Cardinality({x}) * Cardinality(1..Work[x])
    BY <2>3, FS_Product
  <2>5. 1 * Work[x] = Work[x]
    BY <1>0
  <2> QED BY <2>2, <2>3, <2>4, <2>5
<1>3. \A S \in SUBSET Blocks : IsFiniteSet(Units(S))
  <2>1. TAKE S \in SUBSET Blocks
  <2>2. IsFiniteSet(S)
    BY <1>0, FS_Subset
  <2>3. PICK f : f = [x \in S |-> {x} \X (1..Work[x])]
    OBVIOUS
  <2>4. PICK T : T = {{x} \X (1..Work[x]) : x \in S}
    OBVIOUS
  <2>5. f \in Surjection(S, T)
    BY <2>3, <2>4 DEF Surjection
  <2>6. IsFiniteSet(T)
    BY <2>2, <2>5, FS_Surjection
  <2>7. \A U \in T : IsFiniteSet(U)
    <3>1. \A x \in S : IsFiniteSet({x} \X (1..Work[x]))
      <4>1. \A x \in S : Units({x}) = {x} \X (1..Work[x])
        BY Zenon DEF Units
      <4> QED BY <4>1, <1>2
    <3> QED BY <3>1, <2>4
  <2> QED BY <2>4, <2>6, <2>7, FS_UNION DEF Units
<1>4. ASSUME NEW S \in SUBSET Blocks, NEW T \in SUBSET Blocks, S \intersect T = {}
      PROVE  Cardinality(Units(S \union T)) = Cardinality(Units(S)) + Cardinality(Units(T))
  <2>1. Units(S \union T) = Units(S) \union Units(T)
    BY DEF Units
  <2>2. Units(S) \intersect Units(T) = {}
    BY <1>4 DEF Units
  <2>3. IsFiniteSet(Units(S)) /\ IsFiniteSet(Units(T))
    BY <1>3
  <2>4. Cardinality(Units(S) \union Units(T)) =
          Cardinality(Units(S)) + Cardinality(Units(T)) - Cardinality(Units(S) \intersect Units(T))
    BY <2>3, FS_Union
  <2>5. Cardinality(Units(S)) \in Nat /\ Cardinality(Units(T)) \in Nat /\ Cardinality({}) = 0
    BY <2>3, FS_CardinalityType, FS_EmptySet
  <2>6. Cardinality(Units(S) \intersect Units(T)) = 0
    BY <2>2, <2>5
  <2>7. PICK m, n \in Nat : m = Cardinality(Units(S)) /\ n = Cardinality(Units(T))
    BY <2>5
  <2>8. m + n - 0 = m + n
    BY <2>7
  <2> QED BY <2>1, <2>4, <2>6, <2>7, <2>8
<1>5. Cardinality(Units({})) = 0
  BY <1>1, FS_EmptySet
<1>6. \A S \in SUBSET Blocks : IsFiniteSet(Units(S)) /\ Cardinality(Units(S)) \in Nat
  BY <1>3, FS_CardinalityType
<1> QED BY <1>2, <1>4, <1>5, <1>6
\* The sum of work over a set of blocks, in whatever order it is taken.
LEMMA WorkOfIs ==
  ASSUME NEW S \in SUBSET Blocks
  PROVE  WorkOf(S) = Cardinality(Units(S))
<1> DEFINE c(s) == CHOOSE x \in s : TRUE
           F(g) == [s \in SUBSET S |-> IF s = {} THEN 0 ELSE g[s \ {c(s)}] + Work[c(s)]]
           iter == CHOOSE g : g = F(g)
<1>1. \A s \in SUBSET S : s # {} =>
        /\ c(s) \in s /\ s \ {c(s)} \in SUBSET S
        /\ Cardinality(Units(s)) = Cardinality(Units(s \ {c(s)})) + Work[c(s)]
  <2> SUFFICES ASSUME NEW s \in SUBSET S, s # {}
               PROVE  /\ c(s) \in s /\ s \ {c(s)} \in SUBSET S
                      /\ Cardinality(Units(s)) = Cardinality(Units(s \ {c(s)})) + Work[c(s)]
    OBVIOUS
  <2>1. PICK x \in s : x = c(s)
    OBVIOUS
  <2>2. PICK r : r = s \ {x}
    OBVIOUS
  <2>3. x \in Blocks /\ {x} \in SUBSET Blocks
    OBVIOUS
  <2>4. r \in SUBSET Blocks /\ r \intersect {x} = {} /\ s = r \union {x}
    BY <2>2
  <2>5. Cardinality(Units(s)) = Cardinality(Units(r)) + Cardinality(Units({x}))
    BY <2>3, <2>4, UnitsAdd
  <2> HIDE DEF c
  <2> QED BY <2>1, <2>2, <2>3, <2>5, UnitsAdd
<1>2. \E g : g = F(g)
  <2> HIDE DEF c
  <2>1. PICK g : g = [s \in SUBSET S |-> Cardinality(Units(s))]
    OBVIOUS
  <2>2. \A s \in SUBSET S : g[s] = IF s = {} THEN 0 ELSE g[s \ {c(s)}] + Work[c(s)]
    BY <1>1, <2>1, UnitsAdd
  <2>3. g = F(g)
    BY <2>1, <2>2
  <2> QED BY <2>3
<1>3. iter = F(iter)
  <2> HIDE DEF F
  <2> QED BY <1>2
<1>4. WorkOf(S) = iter[S]
  BY DEF WorkOf, FoldSet, MapThenFoldSet
<1>5. PICK f : f = iter /\ \A s \in SUBSET S : f[s] = IF s = {} THEN 0 ELSE f[s \ {c(s)}] + Work[c(s)]
  <2> HIDE DEF c, iter
  <2> QED BY <1>3
<1> HIDE DEF c, F, iter
<1> DEFINE Bad == {s \in SUBSET S : f[s] # Cardinality(Units(s))}
           R == StrictSubsetOrdering(S)
<1>6. Bad = {}
  <2> SUFFICES ASSUME Bad # {} PROVE FALSE
    OBVIOUS
  <2>1. IsFiniteSet(S)
    BY TreeAssumption, FS_Subset
  <2>2. IsWellFoundedOn(R, FiniteSubsetsOf(S)) /\ FiniteSubsetsOf(S) = SUBSET S
    BY <2>1, FS_StrictSubsetOrderingWellFounded, FS_FiniteSubsetsOfFinite
  <2>3. Bad \subseteq FiniteSubsetsOf(S)
    BY <2>2
  <2>4. PICK s \in Bad : \A t \in Bad : <<t, s>> \notin R
    <3> HIDE DEF Bad, R
    <3> QED BY <2>2, <2>3, WFMin
  <2>5. s # {}
    BY <1>5, UnitsAdd
  <2>6. PICK t \in SUBSET S : t = s \ {c(s)} /\ t # s /\ t \subseteq s
    BY <1>1, <2>5
  <2>7. <<t, s>> \in R
    BY <2>6 DEF StrictSubsetOrdering
  <2>8. t \notin Bad
    BY <2>4, <2>7
  <2>9. f[s] = f[t] + Work[c(s)]
    BY <1>5, <2>5, <2>6
  <2>10. Cardinality(Units(s)) = Cardinality(Units(t)) + Work[c(s)]
    BY <1>1, <2>5, <2>6
  <2> QED BY <2>8, <2>9, <2>10
<1> QED BY <1>4, <1>5, <1>6

\* The work of a chain is what its blocks above Genesis come to.
LEMMA ChainWorkIs ==
  \A b \in Blocks : ChainWork[b] = Cardinality(Units(Chain[b] \ {Genesis}))
<1> DEFINE F(g) == [b \in Blocks |-> IF b = Genesis THEN 0 ELSE g[Parent[b]] + Work[b]]
           work == CHOOSE g : g = F(g)
           U(b) == Cardinality(Units(Chain[b] \ {Genesis}))
<1>1. U(Genesis) = 0 /\ \A b \in Blocks \ {Genesis} : Parent[b] \in Blocks /\ U(b) = U(Parent[b]) + Work[b]
  <2>1. U(Genesis) = 0
    <3>1. Chain[Genesis] \ {Genesis} = {}
      BY GenesisChain
    <3> QED BY <3>1, UnitsAdd
  <2>2. ASSUME NEW b \in Blocks \ {Genesis} PROVE Parent[b] \in Blocks /\ U(b) = U(Parent[b]) + Work[b]
    <3>1. PICK p \in Blocks : p = Parent[b] /\ b \notin Chain[p] /\ Chain[b] = Chain[p] \union {b}
      BY ChainOfParent
    <3>2. PICK s : s = Chain[p] \ {Genesis}
      OBVIOUS
    <3>3. b \in Blocks /\ {b} \in SUBSET Blocks
      OBVIOUS
    <3>4. /\ s \in SUBSET Blocks /\ s \intersect {b} = {}
          /\ Chain[b] \ {Genesis} = s \union {b}
      BY <3>1, <3>2, ChainFacts
    <3>5. Cardinality(Units(s \union {b})) = Cardinality(Units(s)) + Cardinality(Units({b}))
      BY <3>3, <3>4, UnitsAdd
    <3> QED BY <3>1, <3>2, <3>3, <3>4, <3>5, UnitsAdd
  <2> QED BY <2>1, <2>2
<1> HIDE DEF U
<1>2. \E g : g = F(g)
  <2>1. PICK g : g = [b \in Blocks |-> U(b)]
    OBVIOUS
  <2>2. \A b \in Blocks : g[b] = IF b = Genesis THEN 0 ELSE g[Parent[b]] + Work[b]
    BY <1>1, <2>1
  <2>3. g = F(g)
    BY <2>1, <2>2
  <2> QED BY <2>3
<1>3. work = F(work)
  <2> HIDE DEF F
  <2> QED BY <1>2
<1>4. \A b \in Blocks : ChainWork[b] = work[b]
  BY DEF ChainWork
<1>5. PICK f : f = work /\ \A b \in Blocks : f[b] = IF b = Genesis THEN 0 ELSE f[Parent[b]] + Work[b]
  <2> HIDE DEF work
  <2> QED BY <1>3
<1> HIDE DEF work, F
<1>6. \A b \in Blocks : f[b] = U(b)
  <2> DEFINE S == {b \in Blocks : f[b] = U(b)}
  <2>1. Genesis \in S
    BY <1>1, <1>5, TreeAssumption
  <2>2. \A b \in Blocks \ {Genesis} : Parent[b] \in S => b \in S
    BY <1>1, <1>5
  <2>3. S = Blocks
    <3> HIDE DEF S
    <3>1. S \in SUBSET Blocks
      BY DEF S
    <3> QED BY <2>1, <2>2, <3>1, TreeInduction
  <2> QED BY <2>3
<1> QED BY <1>4, <1>5, <1>6 DEF U

\* A chain has the work of any block of it, and what is above.
LEMMA WorkAdds ==
  ASSUME NEW b \in Blocks, NEW a \in Chain[b]
  PROVE  /\ ChainWork[a] \in Nat /\ ChainWork[b] \in Nat /\ WorkOf(Path(a, b)) \in Nat
         /\ ChainWork[b] = ChainWork[a] + WorkOf(Path(a, b))
<1>1. a \in Blocks /\ Chain[a] \subseteq Chain[b] /\ Chain[b] \subseteq Blocks /\ Height[a] \in Nat
      /\ \A x \in Chain[b] : Height[x] \in Nat /\ (Height[x] <= Height[a] <=> x \in Chain[a])
  BY ChainFacts, AtBelow, Heights
<1>2. Path(a, b) = Chain[b] \ Chain[a]
  BY <1>1 DEF Path
<1>3. Genesis \in Chain[a]
  BY <1>1, ChainFacts
<1>4. PICK s, t : s = Chain[a] \ {Genesis} /\ t = Path(a, b)
  OBVIOUS
<1>5. /\ s \in SUBSET Blocks /\ t \in SUBSET Blocks /\ s \intersect t = {}
      /\ Chain[b] \ {Genesis} = s \union t
  BY <1>1, <1>2, <1>3, <1>4
<1>6. Cardinality(Units(s \union t)) = Cardinality(Units(s)) + Cardinality(Units(t))
      /\ Cardinality(Units(s)) \in Nat /\ Cardinality(Units(t)) \in Nat
  BY <1>5, UnitsAdd
<1>7. ChainWork[a] = Cardinality(Units(s)) /\ ChainWork[b] = Cardinality(Units(s \union t))
  BY <1>1, <1>4, <1>5, ChainWorkIs
<1>8. WorkOf(t) = Cardinality(Units(t))
  BY <1>5, WorkOfIs
<1>9. PICK m, n \in Nat : m = Cardinality(Units(s)) /\ n = Cardinality(Units(t))
  BY <1>6
<1>10. m + n \in Nat
  BY <1>9
<1> QED BY <1>4, <1>6, <1>7, <1>8, <1>9, <1>10

-----------------------------------------------------------------------------
(* The inductive invariant *)

Phases == {"stopped", "starting", "connecting", "syncing", "synced"}
Marks == 1..MaxHeight

Writes == [kind : {"append", "rewind", "drop"}, from : Blocks, last : Blocks, race : Blocks \union {None}]

Events ==
  [event : {"rewound"}, height : Marks] \union [event : {"extended"}, from : Blocks, last : Blocks]

Windows == UNION {[S -> Blocks] : S \in SUBSET Marks}

Races == [from : Blocks \union {None}, locator : SUBSET Blocks, racers : SUBSET Peers, zeros : Nat]

Workers ==
  [phase : Phases, ready : SUBSET Peers, tip : Blocks, window : Windows,
   finality : Nat, pendingLock : Locks \union {None}, askedFrom : SUBSET Blocks,
   race : Races,
   requests : SUBSET [peer : Peers, locator : SUBSET Blocks],
   silent : SUBSET Peers, announced : SUBSET Blocks, divergent : SUBSET Peers,
   dropQueued : BOOLEAN, dropping : BOOLEAN, quiet : BOOLEAN,
   writes : Seq(Writes), checks : Seq({"verify", "drop"}), posted : Seq(Events)]

\* A request and a race name blocks to start from, and only connected peers are asked.
Asking(w) ==
  /\ \A r \in w.requests : r.peer \in w.ready /\ r.locator # {}
  /\ w.race # NoRace => w.race.locator # {}

OnChain(window, tip) ==
  /\ \A h \in DOMAIN window : Floor(tip) <= h /\ h <= Height[tip] /\ window[h] = At(tip, h)
  /\ \A h \in DOMAIN window : \A k \in h..Height[tip] : k \in DOMAIN window

\* Where the first i writes take chain.db.
Reached(w, db, i) == IF i = 0 THEN db.tip ELSE w.writes[i].last

Appends(w, i) == w.writes[i].kind = "append"

\* Each append starts where the one before it ends, and they lead to the tip.
AppendsLead(w, db) ==
  /\ db.tip \in Chain[w.tip]
  /\ \A i \in DOMAIN w.writes : Appends(w, i) =>
       /\ w.writes[i].from = Reached(w, db, i - 1)
       /\ w.writes[i].from \in Chain[w.writes[i].last] /\ w.writes[i].from # w.writes[i].last
       /\ w.writes[i].last \in Chain[w.tip]
  /\ \A i \in 0..Len(w.writes) :
       (i = Len(w.writes) \/ ~Appends(w, i + 1)) /\ (i = 0 \/ Appends(w, i)) =>
         Reached(w, db, i) = w.tip

\* A write that takes the tip down is the last one, from the tip to a block of our
\* chain that is not below what is final.
RewindLast(w) ==
  \A i \in DOMAIN w.writes : ~Appends(w, i) =>
    LET write == w.writes[i] IN
    /\ i = Len(w.writes)
    /\ write.from \in Chain[w.tip] /\ w.finality <= Height[write.from]
    /\ write.kind = "drop" => w.dropping /\ write.last = write.from
    /\ write.kind = "rewind" =>
         /\ write.from \in Chain[write.last] /\ write.from # write.last
         /\ ChainWork[w.tip] <= ChainWork[write.last]
         /\ w.checks = <<>> /\ (i > 1 => w.pendingLock = None)

Drops(w) ==
  /\ w.dropping => \E i \in DOMAIN w.writes : w.writes[i].kind = "drop"
  /\ w.dropQueued => w.dropping \/ \E i \in DOMAIN w.checks : w.checks[i] = "drop"

Locked(w) ==
  w.finality > 0 => w.finality <= Height[w.tip] /\ At(w.tip, w.finality) \in Locks

Kept(w, db) ==
  /\ OnChain(w.window, w.tip)
  /\ AppendsLead(w, db) /\ RewindLast(w) /\ Drops(w) /\ Locked(w)

\* chain.db has one header for each height of the chain of its tip.
Stored(db) ==
  /\ db.tip \in Blocks
  /\ DOMAIN db.headers = 2..Height[db.tip]
  /\ \A h \in DOMAIN db.headers : db.headers[h] = At(db.tip, h)

\* The filter scan has been told of what chain.db holds.
Told(index, db) ==
  /\ index = [tip |-> index.tip, hashes |-> index.hashes] /\ index.tip = Height[db.tip]
  /\ \A h \in 1..index.tip : h \in DOMAIN index.hashes /\ index.hashes[h] = At(db.tip, h)

Followed == IF worker.phase = "stopped" THEN follower.tip = 1 ELSE Told(follower, disk)

Stopped == worker.phase = "stopped" => worker = Down

IInv ==
  /\ worker \in Workers /\ worker.posted = <<>> /\ Asking(worker)
  /\ (worker.phase # "stopped" => Kept(worker, disk)) /\ Stopped
  /\ Stored(disk) /\ Followed
  /\ peerTip \in [Peers -> Blocks] /\ chainLock \in Locks \union {None}
  /\ failures \in Nat

-----------------------------------------------------------------------------
(* Steps that only ask peers *)

\* What Kept speaks of is the same in v as in w.
SameChain(w, v) ==
  /\ v.tip = w.tip /\ v.window = w.window /\ v.finality = w.finality
  /\ v.pendingLock = w.pendingLock /\ v.writes = w.writes /\ v.checks = w.checks
  /\ v.dropping = w.dropping /\ v.dropQueued = w.dropQueued /\ v.posted = w.posted

\* A worker that runs or starts.
Alive(w) == w \in Workers /\ Asking(w) /\ w.phase # "stopped"

\* A step that only asks peers, or notes what they are.
OnlyAsks(w, v) == Alive(v) /\ SameChain(w, v)

LEMMA LocatorIs ==
  ASSUME NEW w \in Workers
  PROVE  Locator(w) \in SUBSET Blocks /\ Locator(w) # {}
<1>1. w.tip \in Blocks /\ w.window \in Windows
  BY DEF Workers
<1>2. \A h \in DOMAIN w.window : w.window[h] \in Blocks
  BY <1>1 DEF Windows
<1> DEFINE known == {w.window[h] : h \in LocatorHeights(w.tip) \intersect DOMAIN w.window}
<1>3. known \subseteq Blocks
  BY <1>2
<1>4. Locator(w) = IF known = {} THEN {w.tip} ELSE known
  BY DEF Locator
<1> HIDE DEF known
<1> QED BY <1>1, <1>3, <1>4

LEMMA AskAsks ==
  ASSUME NEW w, Alive(w), NEW peers \in SUBSET w.ready
  PROVE  OnlyAsks(w, Ask(w, peers))
<1>1. w \in Workers /\ Asking(w) /\ peers \subseteq Peers /\ w.phase # "stopped"
  BY DEF Alive, Workers
<1>2. CASE peers = {}
  BY <1>2 DEF Ask, OnlyAsks, SameChain
<1>3. CASE peers # {}
  <2>1. PICK locator \in SUBSET Blocks : locator = Locator(w) /\ locator # {}
    BY <1>1, LocatorIs
  <2>2. PICK asked : asked = {[peer |-> p, locator |-> locator] : p \in peers}
    OBVIOUS
  <2>3. PICK v : v = [w EXCEPT !.askedFrom = RememberAsked(w), !.requests = @ \union asked]
    OBVIOUS
  <2>4. Ask(w, peers) = v
    BY <1>3, <2>1, <2>2, <2>3 DEF Ask
  <2>5. /\ asked \subseteq [peer : Peers, locator : SUBSET Blocks]
        /\ \A r \in asked : r.peer \in w.ready /\ r.locator # {}
    BY <1>1, <2>1, <2>2
  <2>6. v \in Workers
    <3>1. RememberAsked(w) \subseteq Blocks
      BY <1>1 DEF Workers, RememberAsked
    <3> QED
      BY <1>1, <2>3, <2>5, <3>1 DEF Workers
  <2>7. v.requests = w.requests \union asked /\ v.ready = w.ready /\ v.race = w.race
    BY <1>1, <2>3 DEF Workers
  <2>8. Asking(v)
    BY <1>1, <2>5, <2>7 DEF Asking
  <2>9. SameChain(w, v) /\ v.phase = w.phase
    BY <1>1, <2>3 DEF Workers, SameChain
  <2> QED BY <1>1, <2>4, <2>6, <2>8, <2>9 DEF OnlyAsks, Alive
<1> QED BY <1>2, <1>3

LEMMA StartRaceAsks ==
  ASSUME NEW w, Alive(w)
  PROVE  OnlyAsks(w, StartRace(w))
<1> DEFINE fresh == w.ready \ w.silent
           picks == IF fresh # {} THEN fresh ELSE w.ready
           racing == [w EXCEPT !.race = [from |-> w.tip, locator |-> Locator(w), racers |-> picks,
                                         zeros |-> 0]]
<1>1. w \in Workers /\ Asking(w) /\ w.phase # "stopped"
  BY DEF Alive
<1>2. CASE w.race # NoRace \/ w.ready = {}
  <2>1. StartRace(w) = w
    BY <1>2 DEF StartRace
  <2> QED BY <2>1 DEF OnlyAsks, SameChain
<1>3. CASE ~(w.race # NoRace \/ w.ready = {})
  <2>1. StartRace(w) = Ask(racing, picks)
    BY <1>3 DEF StartRace, Then
  <2>2. PICK race : race = [from |-> w.tip, locator |-> Locator(w), racers |-> picks, zeros |-> 0]
    OBVIOUS
  <2>3. picks \subseteq w.ready /\ w.ready \subseteq Peers /\ w.tip \in Blocks
    BY <1>1 DEF Workers
  <2>4. race \in Races /\ race.locator # {}
    <3> HIDE DEF picks
    <3> QED BY <1>1, <2>2, <2>3, LocatorIs DEF Races
  <2>5. racing = [w EXCEPT !.race = race]
    BY <2>2
  <2> HIDE DEF racing, picks
  <2>6. racing \in Workers /\ racing.requests = w.requests /\ racing.ready = w.ready /\ racing.race = race
        /\ racing.phase = w.phase
    BY <1>1, <2>4, <2>5 DEF Workers, Races
  <2>7. SameChain(w, racing)
    BY <1>1, <2>5 DEF Workers, SameChain
  <2>8. Alive(racing)
    BY <1>1, <2>4, <2>6 DEF Alive, Asking
  <2>9. OnlyAsks(racing, Ask(racing, picks))
    BY <2>3, <2>6, <2>8, AskAsks
  <2> QED BY <2>1, <2>7, <2>9 DEF OnlyAsks, SameChain
<1> QED BY <1>2, <1>3

LEMMA SameChainTwice ==
  ASSUME NEW u, NEW v, NEW w, SameChain(u, v), OnlyAsks(v, w)
  PROVE  OnlyAsks(u, w)
BY DEF SameChain, OnlyAsks

LEMMA RestartAsks ==
  ASSUME NEW w, Alive(w)
  PROVE  OnlyAsks(w, Restart(w)) /\ OnlyAsks(w, RestartIfExhausted(w))
<1>1. PICK v : v = [w EXCEPT !.race = NoRace]
  OBVIOUS
<1>2. Restart(w) = StartRace(v)
  BY <1>1 DEF Restart, Then
<1>3. NoRace \in Races
  BY DEF NoRace, Races
<1>4. v \in Workers /\ SameChain(w, v) /\ v.phase = w.phase /\ v.ready = w.ready
      /\ v.requests = w.requests /\ v.race = NoRace
  BY <1>1, <1>3 DEF Alive, Workers, SameChain
<1>5. Alive(v)
  BY <1>4 DEF Alive, Asking
<1>6. OnlyAsks(w, Restart(w))
  BY <1>2, <1>4, <1>5, StartRaceAsks, SameChainTwice
<1>7. OnlyAsks(w, w)
  BY DEF OnlyAsks, SameChain
<1> QED BY <1>6, <1>7 DEF RestartIfExhausted

LEMMA JoinAsks ==
  ASSUME NEW w, Alive(w), w.race # NoRace, NEW peers \in SUBSET w.ready
  PROVE  OnlyAsks(w, Join(w, peers))
<1>1. PICK asked : asked = {[peer |-> p, locator |-> w.race.locator] : p \in peers}
  OBVIOUS
<1>2. PICK v : v = [w EXCEPT !.race.racers = @ \union peers, !.requests = @ \union asked]
  OBVIOUS
<1>3. Join(w, peers) = v
  BY <1>1, <1>2 DEF Join
<1>4. w \in Workers /\ w.race.locator \in SUBSET Blocks /\ w.race.locator # {} /\ peers \subseteq Peers
  BY DEF Alive, Asking, Workers, Races
<1>5. /\ asked \subseteq [peer : Peers, locator : SUBSET Blocks]
      /\ \A r \in asked : r.peer \in w.ready /\ r.locator # {}
  BY <1>1, <1>4
<1>6. v \in Workers
  BY <1>2, <1>4, <1>5 DEF Workers, Races
<1>7. /\ v.requests = w.requests \union asked /\ v.ready = w.ready /\ v.race.locator = w.race.locator
      /\ SameChain(w, v) /\ v.phase = w.phase
  BY <1>2, <1>4 DEF Workers, Races, SameChain
<1> QED BY <1>3, <1>4, <1>5, <1>6, <1>7 DEF OnlyAsks, Alive, Asking

LEMMA PeerReadiedAsks ==
  ASSUME NEW w, Alive(w), NEW peer \in w.ready, NEW late
  PROVE  OnlyAsks(w, PeerReadied(w, peer, late))
<1>1. PICK v : v = [w EXCEPT !.phase = "syncing"]
  OBVIOUS
<1>2. /\ v \in Workers /\ SameChain(w, v) /\ v.phase # "stopped" /\ v.ready = w.ready
      /\ v.requests = w.requests /\ v.race = w.race
  BY <1>1 DEF Alive, Workers, SameChain, Phases
<1>3. Alive(v)
  BY <1>2 DEF Alive, Asking
<1>4. OnlyAsks(w, StartRace(v))
  BY <1>2, <1>3, StartRaceAsks, SameChainTwice
<1>5. w.race # NoRace => OnlyAsks(w, Join(v, {peer}))
  BY <1>2, <1>3, JoinAsks, SameChainTwice
<1>6. OnlyAsks(w, Ask(w, {peer})) /\ OnlyAsks(w, w)
  BY AskAsks DEF OnlyAsks, SameChain
<1> QED BY <1>1, <1>4, <1>5, <1>6 DEF PeerReadied

LEMMA PeerGoneAsks ==
  ASSUME NEW w, Alive(w), NEW peer
  PROVE  OnlyAsks(w, PeerGone(w, peer))
<1>1. PICK left : left = [w EXCEPT !.silent = @ \ {peer}, !.race.racers = @ \ {peer}]
  OBVIOUS
<1>2. /\ left \in Workers /\ SameChain(w, left) /\ left.phase = w.phase /\ left.ready = w.ready
      /\ left.requests = w.requests /\ left.race.locator = w.race.locator
      /\ left.race = [w.race EXCEPT !.racers = @ \ {peer}]
  BY <1>1 DEF Alive, Workers, Races, SameChain
<1>3. w.race = NoRace => left.race = NoRace
  BY <1>2 DEF NoRace
<1>4. Alive(left)
  BY <1>2, <1>3 DEF Alive, Asking
<1>5. PICK over : over = [left EXCEPT !.race = NoRace]
  OBVIOUS
<1>6. NoRace \in Races
  BY DEF NoRace, Races
<1>7. over \in Workers /\ SameChain(left, over) /\ over.phase = w.phase /\ over.ready = w.ready
      /\ over.requests = w.requests /\ over.race = NoRace
  BY <1>2, <1>5, <1>6 DEF Workers, SameChain
<1>8. Alive(over)
  BY <1>7, <1>2, <1>4 DEF Alive, Asking
<1>9. OnlyAsks(w, left) /\ OnlyAsks(w, over)
  BY <1>2, <1>4, <1>7, <1>8 DEF OnlyAsks, SameChain
<1>10. OnlyAsks(w, Restart(left))
  BY <1>2, <1>4, RestartAsks, SameChainTwice
<1> QED BY <1>1, <1>5, <1>9, <1>10 DEF PeerGone

LEMMA PeerInvAsks ==
  ASSUME NEW w, Alive(w), NEW peer \in w.ready, NEW block \in Blocks
  PROVE  OnlyAsks(w, PeerInv(w, peer, block))
<1>1. PICK v : v = [w EXCEPT !.announced = @ \union {block}]
  OBVIOUS
<1>2. v \in Workers /\ SameChain(w, v) /\ v.phase = w.phase /\ v.ready = w.ready
      /\ v.requests = w.requests /\ v.race = w.race
  BY <1>1 DEF Alive, Workers, SameChain
<1>3. Alive(v)
  BY <1>2 DEF Alive, Asking
<1>4. OnlyAsks(w, Ask(v, {peer}))
  BY <1>2, <1>3, AskAsks, SameChainTwice
<1>5. OnlyAsks(w, w)
  BY DEF OnlyAsks, SameChain
<1> QED BY <1>1, <1>4, <1>5 DEF PeerInv

-----------------------------------------------------------------------------
(* Headers of a peer *)

LEMMA AppendIs ==
  ASSUME NEW S, NEW q \in Seq(S), NEW e \in S
  PROVE  /\ Append(q, e) \in Seq(S) /\ Len(q) \in Nat /\ Len(Append(q, e)) = Len(q) + 1
         /\ Append(q, e)[Len(q) + 1] = e
         /\ \A i \in 1..Len(q) : Append(q, e)[i] = q[i]
OBVIOUS

\* A batch above our tip is committed.
Commits(w, v) ==
  \E last \in Blocks, race \in Blocks \union {None} :
    /\ w.tip \in Chain[last] /\ w.tip # last
    /\ v.tip = last /\ v.window = Pruned(Recorded(w.window, Path(w.tip, last)), last)
    /\ v.writes = Append(w.writes,
                    [kind |-> "append", from |-> w.tip, last |-> last, race |-> race])
    /\ v.finality = w.finality /\ v.pendingLock = w.pendingLock /\ v.checks = w.checks
    /\ v.dropping = w.dropping /\ v.dropQueued = w.dropQueued /\ v.posted = w.posted

\* A batch with more work, that leaves our chain at a block not below what is final.
Rewinds(w, v) ==
  \E last, fork \in Blocks, race \in Blocks \union {None} :
    /\ fork \in Chain[last] /\ fork # last /\ fork \in Chain[w.tip]
    /\ ChainWork[w.tip] <= ChainWork[last]
    /\ w.finality <= Height[fork]
    /\ v.writes = Append(w.writes,
                    [kind |-> "rewind", from |-> fork, last |-> last, race |-> race])
    /\ v.tip = w.tip /\ v.window = w.window
    /\ v.finality = w.finality /\ v.pendingLock = w.pendingLock /\ v.checks = w.checks
    /\ v.dropping = w.dropping /\ v.dropQueued = w.dropQueued /\ v.posted = w.posted

\* The vote that our branch lost.
Votes(w, v) ==
  /\ ~w.dropping
  /\ v.dropQueued /\ v.checks = Append(w.checks, "drop")
  /\ v.tip = w.tip /\ v.window = w.window /\ v.writes = w.writes
  /\ v.finality = w.finality /\ v.pendingLock = w.pendingLock
  /\ v.dropping = w.dropping /\ v.posted = w.posted

\* What headers of a peer do.
Heard(w, v) ==
  Alive(v) /\ (SameChain(w, v) \/ Commits(w, v) \/ Rewinds(w, v) \/ Votes(w, v))

LEMMA HeardAfter ==
  ASSUME NEW u, NEW v, NEW w, SameChain(u, v), Heard(v, w)
  PROVE  Heard(u, w)
<1>1. SameChain(v, w) => SameChain(u, w)
  BY DEF SameChain
<1>2. Commits(v, w) => Commits(u, w)
  BY DEF SameChain, Commits
<1>3. Rewinds(v, w) => Rewinds(u, w)
  BY DEF SameChain, Rewinds
<1>4. Votes(v, w) => Votes(u, w)
  BY DEF SameChain, Votes
<1> QED BY <1>1, <1>2, <1>3, <1>4 DEF Heard

LEMMA HeardBefore ==
  ASSUME NEW u, NEW v, NEW w, Heard(u, v), OnlyAsks(v, w)
  PROVE  Heard(u, w)
<1>1. SameChain(v, w) /\ Alive(w)
  BY DEF OnlyAsks
<1>2. SameChain(u, v) => SameChain(u, w)
  BY <1>1 DEF SameChain
<1>3. Commits(u, v) => Commits(u, w)
  BY <1>1 DEF SameChain, Commits
<1>4. Rewinds(u, v) => Rewinds(u, w)
  BY <1>1 DEF SameChain, Rewinds
<1>5. Votes(u, v) => Votes(u, w)
  BY <1>1 DEF SameChain, Votes
<1> QED BY <1>1, <1>2, <1>3, <1>4, <1>5 DEF Heard

\* A window stays one when a run is recorded in it, or its top is cut off.
LEMMA PrunedIs ==
  ASSUME NEW window \in Windows, NEW b \in Blocks
  PROVE  Pruned(window, b) \in Windows
<1>1. PICK S \in SUBSET Marks : window \in [S -> Blocks]
  BY DEF Windows
<1>2. PICK T : T = {h \in S : Floor(b) <= h /\ h <= Height[b]}
  OBVIOUS
<1>3. Pruned(window, b) = [h \in T |-> window[h]]
  BY <1>1, <1>2 DEF Pruned
<1>4. Pruned(window, b) \in [T -> Blocks] /\ T \in SUBSET Marks
  BY <1>1, <1>2, <1>3
<1> QED BY <1>4 DEF Windows

LEMMA RecordedIs ==
  ASSUME NEW window \in Windows, NEW b \in Blocks, NEW a \in Chain[b]
  PROVE  Recorded(window, Path(a, b)) \in Windows
<1>1. PICK S \in SUBSET Marks : window \in [S -> Blocks]
  BY DEF Windows
<1>2. PICK T : T = DOMAIN window \union (Height[a] + 1..Height[b])
  OBVIOUS
<1>3. PICK r : r = Recorded(window, Path(a, b))
  OBVIOUS
<1>4. DOMAIN r = T
  BY <1>2, <1>3, RecordedDomain
<1>5. \A h \in T : r[h] = IF h \in Height[a] + 1..Height[b] THEN At(b, h) ELSE window[h]
  BY <1>2, <1>3, RecordedRun
<1>6. \A h \in Height[a] + 1..Height[b] : h \in Marks /\ At(b, h) \in Blocks
  <2>1. TAKE h \in Height[a] + 1..Height[b]
  <2>2. h \in 1..Height[b] /\ Height[b] \in 1..MaxHeight /\ MaxHeight \in Nat
    BY AtBelow, Heights
  <2> QED BY <2>2, AtIs DEF Marks
<1>7. T \in SUBSET Marks /\ \A h \in T : r[h] \in Blocks
  BY <1>1, <1>2, <1>5, <1>6
<1>8. r \in [T -> Blocks]
  <2>1. r = [h \in DOMAIN r |-> r[h]]
    BY <1>3 DEF Recorded
  <2> QED BY <1>4, <1>7, <2>1
<1> QED BY <1>3, <1>7, <1>8 DEF Windows

LEMMA CommitIs ==
  ASSUME NEW w, Alive(w), NEW last \in Blocks, w.tip \in Chain[last], w.tip # last,
         NEW race \in Blocks \union {None}
  PROVE  /\ Alive(CommitHeaders(w, last, race)) /\ Commits(w, CommitHeaders(w, last, race))
         /\ CommitHeaders(w, last, race).phase = w.phase /\ CommitHeaders(w, last, race).tip = last
<1>1. PICK v : v = CommitHeaders(w, last, race)
  OBVIOUS
<1>2. PICK write : write = [kind |-> "append", from |-> w.tip, last |-> last, race |-> race]
  OBVIOUS
<1>3. PICK window : window = Pruned(Recorded(w.window, Path(w.tip, last)), last)
  OBVIOUS
<1>4. w \in Workers /\ w.tip \in Blocks /\ w.window \in Windows /\ w.writes \in Seq(Writes)
  BY DEF Alive, Workers
<1>5. window \in Windows
  BY <1>3, <1>4, RecordedIs, PrunedIs
<1>6. write \in Writes
  BY <1>2, <1>4 DEF Writes
<1>7. PICK writes : writes = Append(w.writes, write) /\ writes \in Seq(Writes)
  BY <1>4, <1>6, AppendIs
<1>8. v = [w EXCEPT !.tip = last, !.window = window, !.quiet = FALSE, !.announced = {},
                    !.divergent = {}, !.writes = writes]
  BY <1>1, <1>2, <1>3, <1>7 DEF CommitHeaders
<1>9. v \in Workers
  BY <1>4, <1>5, <1>7, <1>8 DEF Workers
<1>10. /\ v.tip = last /\ v.window = window /\ v.writes = writes
       /\ v.finality = w.finality /\ v.pendingLock = w.pendingLock /\ v.checks = w.checks
       /\ v.dropping = w.dropping /\ v.dropQueued = w.dropQueued /\ v.posted = w.posted
       /\ v.phase = w.phase /\ v.requests = w.requests /\ v.race = w.race /\ v.ready = w.ready
  BY <1>4, <1>8 DEF Workers
<1>11. Alive(v)
  BY <1>9, <1>10 DEF Alive, Asking
<1>12. Commits(w, v)
  BY <1>2, <1>3, <1>7, <1>10 DEF Commits
<1> QED BY <1>1, <1>10, <1>11, <1>12

\* What the window holds above one of its blocks is all that our chain has there.
LEMMA WorkAboveIs ==
  ASSUME NEW w \in Workers, OnChain(w.window, w.tip), NEW fork \in Chain[w.tip], InWindow(w, fork)
  PROVE  WorkAbove(w, fork) = WorkOf(Path(fork, w.tip))
<1>1. w.tip \in Blocks /\ w.window \in Windows
  BY DEF Workers
<1>2. PICK low \in DOMAIN w.window : w.window[low] = fork
  BY DEF InWindow, Range
<1>3. low \in Nat /\ DOMAIN w.window \subseteq Nat /\ \A h \in DOMAIN w.window : h >= 1
  <2>1. PICK S \in SUBSET Marks : w.window \in [S -> Blocks]
    BY <1>1 DEF Windows
  <2>2. DOMAIN w.window \subseteq Marks
    BY <2>1
  <2> QED BY <2>2, Heights DEF Marks
<1>4. Height[w.tip] \in Nat /\ Height[w.tip] >= 1
  BY <1>1, Heights
<1>5. Height[fork] = low
  <2>1. low \in 1..Height[w.tip] /\ fork = At(w.tip, low)
    BY <1>2, <1>3, <1>4 DEF OnChain
  <2> QED BY <1>1, <2>1, AtIs
<1>6. {h \in DOMAIN w.window : h > low} = low + 1..Height[w.tip]
  BY <1>2, <1>3, <1>4 DEF OnChain
<1>7. {w.window[h] : h \in low + 1..Height[w.tip]} = {At(w.tip, h) : h \in low + 1..Height[w.tip]}
  BY <1>6 DEF OnChain
<1>8. {At(w.tip, h) : h \in low + 1..Height[w.tip]} = Path(fork, w.tip)
  BY <1>1, <1>5, PathIs
<1> QED BY <1>5, <1>6, <1>7, <1>8 DEF WorkAbove

LEMMA ConsiderIs ==
  ASSUME NEW w, Alive(w), OnChain(w.window, w.tip),
         NEW last \in Blocks, NEW fork \in Chain[last], fork # last,
         fork \in Chain[w.tip], InWindow(w, fork), NEW race \in Blocks \union {None}
  PROVE  Heard(w, ConsiderFork(w, fork, last, race))
<1>1. w \in Workers /\ fork \in Blocks /\ w.writes \in Seq(Writes) /\ w.finality \in Nat
      /\ Height[fork] \in Nat
  BY Heights, ChainFacts DEF Alive, Workers
<1>2. CASE ConsiderFork(w, fork, last, race) = w
  BY <1>2 DEF Heard, SameChain
<1>3. CASE ConsiderFork(w, fork, last, race) # w
  <2>1. PICK v : v = ConsiderFork(w, fork, last, race)
    OBVIOUS
  <2>2. PICK write : write = [kind |-> "rewind", from |-> fork, last |-> last, race |-> race]
    OBVIOUS
  <2>3. write \in Writes
    BY <1>1, <2>2 DEF Writes
  <2>4. PICK writes : writes = Append(w.writes, write) /\ writes \in Seq(Writes)
    BY <1>1, <2>3, AppendIs
  <2>5. /\ v = [w EXCEPT !.writes = writes] /\ ~(Height[fork] < w.finality)
        /\ ~(WorkOf(Path(fork, last)) <= WorkAbove(w, fork))
    BY <1>3, <2>1, <2>2, <2>4 DEF ConsiderFork
  <2>6. v \in Workers
    BY <1>1, <2>4, <2>5 DEF Workers
  <2>7. /\ v.tip = w.tip /\ v.window = w.window /\ v.writes = writes
        /\ v.finality = w.finality /\ v.pendingLock = w.pendingLock /\ v.checks = w.checks
        /\ v.dropping = w.dropping /\ v.dropQueued = w.dropQueued /\ v.posted = w.posted
        /\ v.phase = w.phase /\ v.requests = w.requests /\ v.race = w.race /\ v.ready = w.ready
    BY <1>1, <2>5 DEF Workers
  <2>8. Alive(v)
    BY <2>6, <2>7 DEF Alive, Asking
  <2>9. w.finality <= Height[fork]
    BY <1>1, <2>5
  <2>10. ChainWork[w.tip] <= ChainWork[last]
    <3>1. w.tip \in Blocks
      BY <1>1 DEF Workers
    <3>2. /\ ChainWork[fork] \in Nat /\ WorkOf(Path(fork, last)) \in Nat /\ WorkOf(Path(fork, w.tip)) \in Nat
          /\ ChainWork[last] = ChainWork[fork] + WorkOf(Path(fork, last))
          /\ ChainWork[w.tip] = ChainWork[fork] + WorkOf(Path(fork, w.tip))
      BY <3>1, WorkAdds
    <3>3. WorkAbove(w, fork) = WorkOf(Path(fork, w.tip))
      BY <1>1, WorkAboveIs
    <3> QED BY <2>5, <3>2, <3>3
  <2>11. Rewinds(w, v)
    BY <1>1, <2>2, <2>4, <2>7, <2>9, <2>10 DEF Rewinds
  <2> QED BY <2>1, <2>8, <2>11 DEF Heard
<1> QED BY <1>2, <1>3

LEMMA DivergenceIs ==
  ASSUME NEW w, Alive(w), NEW peer \in Peers
  PROVE  Heard(w, NoteDivergence(w, peer))
<1>1. w \in Workers /\ w.checks \in Seq({"verify", "drop"})
  BY DEF Alive, Workers
<1>2. PICK votes : votes = w.divergent \union {peer} /\ votes \in SUBSET Peers
  <2>1. w.divergent \in SUBSET Peers
    BY <1>1 DEF Workers
  <2> QED BY <2>1
<1>3. Heard(w, w)
  BY DEF Heard, SameChain
<1>4. PICK checks : checks = Append(w.checks, "drop") /\ checks \in Seq({"verify", "drop"})
  BY <1>1, AppendIs
<1>5. PICK v : v = [w EXCEPT !.divergent = votes]
  OBVIOUS
<1>6. PICK u : u = [w EXCEPT !.divergent = votes, !.dropQueued = TRUE, !.checks = checks]
  OBVIOUS
<1>7. v \in Workers /\ SameChain(w, v) /\ v.phase = w.phase /\ v.ready = w.ready
      /\ v.requests = w.requests /\ v.race = w.race
  BY <1>1, <1>2, <1>5 DEF Workers, SameChain
<1>8. Heard(w, v)
  BY <1>7 DEF Heard, Alive, Asking
<1>9. /\ u \in Workers /\ u.phase = w.phase /\ u.ready = w.ready
      /\ u.requests = w.requests /\ u.race = w.race
      /\ u.dropQueued = TRUE /\ u.checks = checks
      /\ u.tip = w.tip /\ u.window = w.window /\ u.writes = w.writes
      /\ u.finality = w.finality /\ u.pendingLock = w.pendingLock
      /\ u.dropping = w.dropping /\ u.posted = w.posted
  BY <1>1, <1>2, <1>4, <1>6 DEF Workers
<1>10. ~w.dropping => Heard(w, u)
  BY <1>4, <1>9 DEF Heard, Votes, Alive, Asking
<1> QED BY <1>2, <1>3, <1>4, <1>5, <1>6, <1>8, <1>10 DEF NoteDivergence

\* The block where a batch leaves the window is on our chain and on its own.
LEMMA KnownIs ==
  ASSUME NEW w \in Workers, OnChain(w.window, w.tip),
         NEW last \in Blocks, NEW after \in Chain[last], InWindow(w, after)
  PROVE  /\ Known(w, after, last) \in Chain[last] /\ Known(w, after, last) \in Chain[w.tip]
         /\ InWindow(w, Known(w, after, last))
<1>1. \A b : InWindow(w, b) => b \in Chain[w.tip]
  <2>1. TAKE b
  <2>2. SUFFICES ASSUME InWindow(w, b) PROVE b \in Chain[w.tip]
    OBVIOUS
  <2>3. PICK h \in DOMAIN w.window : b = w.window[h]
    BY <2>2 DEF InWindow, Range
  <2>4. w.tip \in Blocks /\ w.window \in Windows
    BY DEF Workers
  <2>5. h \in Nat /\ h >= 1
    <3>1. PICK S \in SUBSET Marks : w.window \in [S -> Blocks]
      BY <2>4 DEF Windows
    <3>2. h \in Marks
      BY <2>3, <3>1
    <3> QED BY <3>2, Heights DEF Marks
  <2>6. h <= Height[w.tip] /\ b = At(w.tip, h) /\ Height[w.tip] \in Nat
    BY <2>3, <2>4, Heights DEF OnChain
  <2> QED BY <2>4, <2>5, <2>6, AtIs
<1> DEFINE held == {b \in Path(after, last) : \A x \in Path(after, b) : InWindow(w, x)}
<1>2. CASE held = {}
  <2>1. Known(w, after, last) = after
    BY <1>2 DEF Known
  <2> QED BY <1>1, <2>1
<1>3. CASE held # {}
  <2>1. held \subseteq Path(after, last) /\ Path(after, last) \subseteq Chain[last]
        /\ Path(after, last) \subseteq Blocks
    BY PathIs
  <2>2. \E b \in held : \A x \in held : Height[x] <= Height[b]
    <3>1. held \in SUBSET Blocks
      BY <2>1
    <3> HIDE DEF held
    <3> QED BY <1>3, <3>1, Highest
  <2>3. Known(w, after, last) \in held
    <3>1. Known(w, after, last) = CHOOSE b \in held : \A x \in held : Height[x] <= Height[b]
      BY <1>3 DEF Known
    <3> HIDE DEF held
    <3> QED BY <2>2, <3>1
  <2>4. PICK b \in held : b = Known(w, after, last)
    BY <2>3
  <2>5. b \in Path(after, b)
    <3>1. b \in Path(after, last) /\ b \in Blocks
      BY <2>1
    <3> QED BY <3>1, ChainFacts DEF Path
  <2>6. InWindow(w, b)
    BY <2>5
  <2> QED BY <1>1, <2>1, <2>4, <2>6
<1> QED BY <1>2, <1>3

LEMMA ProcessIs ==
  ASSUME NEW w, Alive(w), OnChain(w.window, w.tip), NEW peer \in Peers,
         NEW last \in Blocks, NEW after, after = Origin \/ after \in Chain[last],
         NEW race \in Blocks \union {None}
  PROVE  Heard(w, ProcessHeaders(w, peer, after, last, race))
<1>1. w \in Workers /\ w.tip \in Blocks /\ w.window \in Windows
  BY DEF Alive, Workers
<1>2. InWindow(w, Origin) => FALSE
  BY <1>1, TreeAssumption DEF InWindow, Range, Windows
<1>3. Heard(w, w) /\ Heard(w, NoteDivergence(w, peer))
  BY DivergenceIs DEF Heard, SameChain
<1>4. \A b \in Chain[last] : b = w.tip /\ b # last => Heard(w, CommitHeaders(w, last, race))
  BY CommitIs DEF Heard
<1>5. PICK fork : fork = Known(w, after, last)
  OBVIOUS
<1>6. InWindow(w, after) => fork \in Chain[last] /\ fork \in Chain[w.tip] /\ InWindow(w, fork)
  BY <1>1, <1>2, <1>5, KnownIs
<1>7. InWindow(w, after) /\ fork # last => Heard(w, ConsiderFork(w, fork, last, race))
  BY <1>6, ConsiderIs
<1>8. CASE after = last
  BY <1>3, <1>8 DEF ProcessHeaders
<1>9. CASE after # last /\ after = w.tip
  <2>1. after \in Chain[last]
    BY <1>1, <1>9, TreeAssumption
  <2>2. ProcessHeaders(w, peer, after, last, race) = CommitHeaders(w, last, race)
    BY <1>9 DEF ProcessHeaders
  <2> QED BY <1>4, <1>9, <2>1, <2>2
<1>10. CASE after # last /\ after # w.tip /\ ~InWindow(w, after)
  BY <1>3, <1>10 DEF ProcessHeaders
<1>11. CASE after # last /\ after # w.tip /\ InWindow(w, after)
  <2>1. ProcessHeaders(w, peer, after, last, race) =
          IF fork = last THEN w
          ELSE IF fork = w.tip THEN CommitHeaders(w, last, race)
          ELSE ConsiderFork(w, fork, last, race)
    BY <1>5, <1>11 DEF ProcessHeaders
  <2> QED BY <1>3, <1>4, <1>6, <1>7, <1>11, <2>1
<1> QED BY <1>8, <1>9, <1>10, <1>11

LEMMA RaceAnswerIs ==
  ASSUME NEW w, Alive(w), OnChain(w.window, w.tip), NEW peer \in Peers,
         NEW last \in Blocks, NEW after, after = Origin \/ after \in Chain[last]
  PROVE  Heard(w, RaceAnswer(w, peer, after, last))
<1>1. w \in Workers /\ w.race.from \in Blocks \union {None}
  BY DEF Alive, Workers, Races
<1>2. PICK answered : answered = [w EXCEPT !.race.racers = @ \ {peer}]
  OBVIOUS
<1>3. /\ answered \in Workers /\ SameChain(w, answered) /\ answered.phase = w.phase
      /\ answered.ready = w.ready /\ answered.requests = w.requests
      /\ answered.race = [w.race EXCEPT !.racers = @ \ {peer}]
      /\ answered.race.locator = w.race.locator
  BY <1>1, <1>2 DEF Workers, Races, SameChain
<1>4. w.race = NoRace => answered.race = NoRace
  BY <1>3 DEF NoRace
<1>5. Alive(answered)
  BY <1>3, <1>4 DEF Alive, Asking
<1>6. CASE peer \notin w.race.racers
  BY <1>6 DEF RaceAnswer, Heard, SameChain
<1>7. CASE peer \in w.race.racers
  <2>1. w.race # NoRace
    BY <1>7 DEF NoRace
  <2>2. PICK counted : counted = [answered EXCEPT !.race.zeros = @ + 1]
    OBVIOUS
  <2>3. PICK old : old = answered.race
    OBVIOUS
  <2>4. /\ old \in Races
         /\ old.locator = w.race.locator
    BY <1>3, <2>3 DEF Workers, Races
  <2>5. PICK race : race = [old EXCEPT !.zeros = @ + 1]
    OBVIOUS
  <2>6. /\ race \in Races
         /\ race.locator = w.race.locator
    BY <2>5, <2>4 DEF Races
  <2>7. counted = [answered EXCEPT !.race = race]
    BY <2>2, <2>5, <2>3
  <2>8. /\ counted \in Workers /\ SameChain(w, counted) /\ counted.phase = w.phase
        /\ counted.ready = w.ready /\ counted.requests = w.requests
        /\ counted.race.locator = w.race.locator
    BY <1>3, <2>6, <2>7 DEF Workers, Races, SameChain
  <2>9. Alive(counted)
    BY <2>1, <2>8 DEF Alive, Asking
  <2>10. PICK over : over = [counted EXCEPT !.race = NoRace, !.phase = "synced"]
    OBVIOUS
  <2>11. NoRace \in Races
    BY DEF NoRace, Races
  <2>12. /\ over \in Workers /\ SameChain(w, over) /\ over.phase = "synced"
        /\ over.ready = w.ready /\ over.requests = w.requests /\ over.race = NoRace
    BY <2>8, <2>10, <2>11 DEF Workers, SameChain, Phases
  <2>13. Heard(w, over)
    BY <2>12, <2>8, <2>9 DEF Heard, Alive, Asking
  <2>14. Heard(w, RestartIfExhausted(counted))
    BY <2>8, <2>9, RestartAsks DEF Heard, OnlyAsks, SameChain
  <2>15. PICK done : done = ProcessHeaders(answered, peer, after, last, w.race.from)
    OBVIOUS
  <2>16. Heard(answered, done)
    <3>1. OnChain(answered.window, answered.tip)
      BY <1>3 DEF SameChain
    <3> QED BY <1>1, <1>5, <2>15, <3>1, ProcessIs
  <2>17. Heard(w, done)
    BY <1>3, <2>16, HeardAfter
  <2>18. Heard(w, RestartIfExhausted(done))
    <3>1. Alive(done)
      BY <2>16 DEF Heard
    <3> QED BY <2>17, <3>1, RestartAsks, HeardBefore
  <2>19. Heard(w, w)
    BY DEF Heard, SameChain
  <2>20. CASE after = last
    BY <1>2, <1>7, <2>2, <2>10, <2>13, <2>14, <2>20 DEF RaceAnswer
  <2>21. CASE after # last /\ OfEarlierRace(w, after)
    BY <1>7, <2>19, <2>21 DEF RaceAnswer
  <2>22. CASE after # last /\ ~OfEarlierRace(w, after)
    <3>1. RaceAnswer(w, peer, after, last) =
            IF Len(done.writes) > Len(w.writes) \/ w.race.zeros > 0 THEN done
            ELSE RestartIfExhausted(done)
      BY <1>2, <1>7, <2>15, <2>22 DEF RaceAnswer, Then
    <3> QED BY <2>17, <2>18, <3>1
  <2> QED BY <2>20, <2>21, <2>22
<1> QED BY <1>6, <1>7

LEMMA PeerHeadersAreHeard ==
  ASSUME NEW w, Alive(w), OnChain(w.window, w.tip), NEW peer \in Peers,
         NEW last \in Blocks, NEW after, after = Origin \/ after \in Chain[last]
  PROVE  Heard(w, PeerHeaders(w, peer, after, last))
<1>1. PICK v : v = [w EXCEPT !.silent = @ \ {peer}]
  OBVIOUS
<1>2. /\ v \in Workers /\ SameChain(w, v) /\ v.phase = w.phase /\ v.ready = w.ready
      /\ v.requests = w.requests /\ v.race = w.race
  BY <1>1 DEF Alive, Workers, SameChain
<1>3. Alive(v) /\ OnChain(v.window, v.tip)
  BY <1>2 DEF Alive, Asking, SameChain
<1>4. PeerHeaders(w, peer, after, last) =
        IF w.phase = "syncing" THEN RaceAnswer(v, peer, after, last)
        ELSE ProcessHeaders(v, peer, after, last, None)
  BY <1>1 DEF PeerHeaders, Then
<1>5. Heard(v, RaceAnswer(v, peer, after, last)) /\ Heard(v, ProcessHeaders(v, peer, after, last, None))
  BY <1>3, RaceAnswerIs, ProcessIs
<1> QED BY <1>2, <1>4, <1>5, HeardAfter

-----------------------------------------------------------------------------
(* What headers keep *)

LEMMA SameKept ==
  ASSUME NEW w, NEW v, NEW db, SameChain(w, v), Kept(w, db)
  PROVE  Kept(v, db)
<1>1. OnChain(v.window, v.tip) /\ Drops(v) /\ Locked(v)
  BY DEF Kept, SameChain, Drops, Locked
<1>2. AppendsLead(v, db)
  BY DEF Kept, SameChain, AppendsLead, Appends, Reached
<1>3. RewindLast(v)
  BY DEF Kept, SameChain, RewindLast, Appends
<1> QED BY <1>1, <1>2, <1>3 DEF Kept

\* A run committed on top of a window, and the top of a window cut off.
LEMMA WindowGrows ==
  ASSUME NEW window \in Windows, NEW b \in Blocks, NEW a \in Chain[b], OnChain(window, a)
  PROVE  OnChain(Pruned(Recorded(window, Path(a, b)), b), b)
<1>1. PICK r : r = Recorded(window, Path(a, b))
  OBVIOUS
<1>2. PICK q : q = Pruned(r, b)
  OBVIOUS
<1>3. PICK S \in SUBSET Marks : window \in [S -> Blocks]
  BY DEF Windows
<1>4. \A h \in DOMAIN q : h \in DOMAIN r /\ Floor(b) <= h /\ h <= Height[b] /\ q[h] = r[h]
  BY <1>2 DEF Pruned
<1>5. \A h \in DOMAIN q : q[h] = At(b, h)
  <2>1. TAKE h \in DOMAIN q
  <2>2. h \in DOMAIN window \union (Height[a] + 1..Height[b])
    BY <1>1, <1>4, RecordedDomain
  <2>3. r[h] = IF h \in Height[a] + 1..Height[b] THEN At(b, h) ELSE window[h]
    BY <1>1, <2>2, RecordedRun
  <2>4. CASE h \in Height[a] + 1..Height[b]
    BY <1>4, <2>3, <2>4
  <2>5. CASE h \notin Height[a] + 1..Height[b]
    <3>1. h \in DOMAIN window /\ h \in Marks
      BY <1>3, <2>2, <2>5
    <3>2. h <= Height[a] /\ window[h] = At(a, h)
      BY <3>1 DEF OnChain
    <3>3. a \in Blocks /\ Height[a] \in 1..MaxHeight /\ MaxHeight \in Nat
      BY AtBelow, Heights
    <3>4. h \in 1..Height[a]
      BY <3>1, <3>2, <3>3 DEF Marks
    <3> QED BY <1>4, <2>3, <2>5, <3>2, <3>4, AtBelow
  <2> QED BY <2>4, <2>5
<1>6. ASSUME NEW h \in DOMAIN q, NEW k \in h..Height[b] PROVE k \in DOMAIN q
  <2>1. /\ a \in Blocks /\ Height[a] \in 1..MaxHeight /\ Height[b] \in 1..MaxHeight /\ MaxHeight \in Nat
        /\ Floor(b) \in Nat
    <3>1. a \in Blocks
      BY AtBelow
    <3>2. /\ Height[a] \in 1..MaxHeight /\ Height[b] \in 1..MaxHeight /\ MaxHeight \in Nat
      BY <3>1, Heights
    <3>3. Floor(b) \in 1..Height[b]
      BY FloorIs
    <3> QED BY <3>1, <3>2, <3>3
  <2>2. h \in DOMAIN window \union (Height[a] + 1..Height[b]) /\ Floor(b) <= h
    BY <1>1, <1>4, RecordedDomain
  <2>3. h \in Nat
    <3>1. DOMAIN window \subseteq Nat
      <4>1. DOMAIN window = S /\ S \subseteq Marks
        BY <1>3
      <4> QED BY <2>1, <4>1 DEF Marks
    <3>2. \A x \in Height[a] + 1..Height[b] : x \in Nat
      BY <2>1
    <3> QED BY <2>2, <3>1, <3>2
  <2>4. k \in DOMAIN window \union (Height[a] + 1..Height[b])
    <3>1. CASE k \in Height[a] + 1..Height[b]
      BY <3>1
    <3>2. CASE k \notin Height[a] + 1..Height[b]
      <4>1. k <= Height[a] /\ h <= Height[a]
        BY <2>1, <2>3, <3>2
      <4>2. h \in DOMAIN window /\ k \in h..Height[a]
        BY <2>1, <2>2, <2>3, <4>1
      <4> QED BY <4>2 DEF OnChain
    <3> QED BY <3>1, <3>2
  <2>5. k \in DOMAIN r
    BY <1>1, <2>4, RecordedDomain
  <2>6. Floor(b) <= k /\ k <= Height[b]
    BY <2>1, <2>2, <2>3
  <2> QED BY <1>2, <2>5, <2>6 DEF Pruned
<1>7. \A h \in DOMAIN q : \A k \in h..Height[b] : k \in DOMAIN q
  BY <1>6
<1> QED BY <1>1, <1>2, <1>4, <1>5, <1>7 DEF OnChain

LEMMA WindowShrinks ==
  ASSUME NEW window \in Windows, NEW b \in Blocks, NEW a \in Chain[b], OnChain(window, b)
  PROVE  OnChain(Pruned(window, a), a)
<1>1. PICK q : q = Pruned(window, a)
  OBVIOUS
<1>2. \A h \in DOMAIN q : h \in DOMAIN window /\ Floor(a) <= h /\ h <= Height[a] /\ q[h] = window[h]
  BY <1>1 DEF Pruned
<1>3. PICK S \in SUBSET Marks : window \in [S -> Blocks]
  BY DEF Windows
<1>4. a \in Blocks /\ Height[a] \in 1..MaxHeight /\ MaxHeight \in Nat
  BY AtBelow, Heights
<1>5. \A h \in DOMAIN q : h \in 1..Height[a] /\ window[h] = At(b, h)
  <2>1. TAKE h \in DOMAIN q
  <2>2. h \in DOMAIN window /\ h <= Height[a]
    BY <1>2
  <2>3. h \in 1..MaxHeight
    BY <1>3, <2>2 DEF Marks
  <2> QED BY <1>4, <2>2, <2>3 DEF OnChain
<1>6. ASSUME NEW h \in DOMAIN q, NEW k \in h..Height[a] PROVE k \in DOMAIN q
  <2>1. Height[a] <= Height[b] /\ Height[b] \in Nat /\ Floor(a) \in Nat
    BY <1>4, AtBelow, Heights, FloorIs
  <2>2. h \in DOMAIN window /\ Floor(a) <= h /\ h \in Nat
    BY <1>2, <1>5
  <2>3. k \in h..Height[b]
    BY <1>4, <2>1, <2>2
  <2>4. k \in DOMAIN window
    BY <2>2, <2>3 DEF OnChain
  <2>5. Floor(a) <= k /\ k <= Height[a]
    BY <1>4, <2>1, <2>2
  <2> QED BY <1>1, <2>4, <2>5 DEF Pruned
<1>7. \A h \in DOMAIN q : \A k \in h..Height[a] : k \in DOMAIN q
  BY <1>6
<1>8. \A h \in DOMAIN q : Floor(a) <= h /\ h <= Height[a] /\ q[h] = At(a, h)
  BY <1>2, <1>5, AtBelow
<1> QED BY <1>1, <1>7, <1>8 DEF OnChain

\* A height that is final stays so on a higher block of the same chain, and on a lower one
\* that is not below it.
LEMMA LockedAbove ==
  ASSUME NEW w \in Workers, NEW v, v.finality = w.finality, Locked(w), w.tip \in Chain[v.tip],
         v.tip \in Blocks
  PROVE  Locked(v)
<1>1. w.finality \in Nat /\ w.tip \in Blocks /\ Height[w.tip] \in Nat /\ Height[v.tip] \in Nat
      /\ Height[w.tip] <= Height[v.tip]
  BY AtBelow, Heights DEF Workers
<1>2. \A h \in 1..Height[w.tip] : At(w.tip, h) = At(v.tip, h)
  BY AtBelow
<1> QED BY <1>1, <1>2 DEF Locked

LEMMA LockedBelow ==
  ASSUME NEW w \in Workers, NEW v, v.finality = w.finality, Locked(w), v.tip \in Chain[w.tip],
         w.finality <= Height[v.tip]
  PROVE  Locked(v)
<1>1. w.finality \in Nat /\ w.tip \in Blocks /\ v.tip \in Blocks /\ Height[v.tip] \in Nat
  BY AtBelow, Heights DEF Workers
<1>2. \A h \in 1..Height[v.tip] : At(v.tip, h) = At(w.tip, h)
  BY <1>1, AtBelow
<1> QED BY <1>1, <1>2 DEF Locked

\* No write under way takes the tip down.
OnlyAppends(w) == \A i \in DOMAIN w.writes : Appends(w, i)

LEMMA CommitKept ==
  ASSUME NEW w, Alive(w), NEW v, Alive(v), NEW db, db.tip \in Blocks,
         Kept(w, db), OnlyAppends(w), Commits(w, v)
  PROVE  Kept(v, db) /\ OnlyAppends(v)
<1>1. PICK last \in Blocks, race \in Blocks \union {None} :
    /\ w.tip \in Chain[last] /\ w.tip # last
    /\ v.tip = last /\ v.window = Pruned(Recorded(w.window, Path(w.tip, last)), last)
    /\ v.writes = Append(w.writes,
                    [kind |-> "append", from |-> w.tip, last |-> last, race |-> race])
    /\ v.finality = w.finality /\ v.pendingLock = w.pendingLock /\ v.checks = w.checks
    /\ v.dropping = w.dropping /\ v.dropQueued = w.dropQueued /\ v.posted = w.posted
  BY DEF Commits
<1>2. PICK write : write = [kind |-> "append", from |-> w.tip, last |-> last, race |-> race]
  OBVIOUS
<1>3. /\ w \in Workers /\ w.tip \in Blocks /\ w.window \in Windows /\ w.writes \in Seq(Writes)
      /\ write \in Writes /\ write.kind = "append" /\ write.from = w.tip /\ write.last = last
  BY <1>2 DEF Alive, Workers, Writes
<1>4. PICK n \in Nat : n = Len(w.writes)
  BY <1>3
<1>5. /\ DOMAIN w.writes = 1..n /\ DOMAIN v.writes = 1..n + 1 /\ Len(v.writes) = n + 1
      /\ v.writes[n + 1] = write /\ \A i \in 1..n : v.writes[i] = w.writes[i]
  BY <1>1, <1>2, <1>3, <1>4, AppendIs
<1>6. OnChain(v.window, v.tip)
  BY <1>1, <1>3, WindowGrows DEF Kept
<1>7. Locked(v)
  BY <1>1, <1>3, LockedAbove DEF Kept
<1>8. OnlyAppends(v)
  BY <1>3, <1>5 DEF OnlyAppends, Appends
<1>9. RewindLast(v)
  BY <1>8 DEF OnlyAppends, RewindLast
<1>10. Drops(v)
  BY <1>1, <1>5 DEF Kept, Drops
<1>11. /\ db.tip \in Chain[w.tip]
       /\ \A i \in 1..n :
            /\ w.writes[i].from = Reached(w, db, i - 1)
            /\ w.writes[i].from \in Chain[w.writes[i].last] /\ w.writes[i].from # w.writes[i].last
            /\ w.writes[i].last \in Chain[w.tip]
  BY <1>5 DEF Kept, AppendsLead, OnlyAppends
<1>12. Reached(w, db, n) = w.tip
  BY <1>4, <1>5 DEF Kept, AppendsLead, OnlyAppends
<1>13. \A i \in 0..n : Reached(v, db, i) = Reached(w, db, i)
  BY <1>5 DEF Reached
<1>14. Reached(v, db, n + 1) = last
  BY <1>3, <1>5 DEF Reached
<1>15. Chain[w.tip] \subseteq Chain[last] /\ last \in Chain[last]
  BY <1>1, ChainFacts
<1>16. \A i \in 1..n : v.writes[i] = w.writes[i] /\ i - 1 \in 0..n
  BY <1>5
<1>17. \A i \in DOMAIN v.writes :
       /\ v.writes[i].from = Reached(v, db, i - 1)
       /\ v.writes[i].from \in Chain[v.writes[i].last] /\ v.writes[i].from # v.writes[i].last
       /\ v.writes[i].last \in Chain[v.tip]
  <2>1. TAKE i \in DOMAIN v.writes
  <2>2. CASE i = n + 1
    <3>1. i - 1 = n
      BY <2>2
    <3> QED BY <1>1, <1>3, <1>5, <1>12, <1>13, <1>15, <2>2, <3>1
  <2>3. CASE i # n + 1
    <3>1. i \in 1..n
      BY <1>5, <2>3
    <3> QED BY <1>1, <1>11, <1>13, <1>15, <1>16, <3>1
  <2> QED BY <2>2, <2>3
<1>18. \A i \in 0..Len(v.writes) :
       (i = Len(v.writes) \/ ~Appends(v, i + 1)) /\ (i = 0 \/ Appends(v, i)) =>
         Reached(v, db, i) = v.tip
  <2>1. TAKE i \in 0..Len(v.writes)
  <2>2. CASE i = n + 1
    BY <1>1, <1>14, <2>2
  <2>3. CASE i # n + 1
    <3>1. i + 1 \in 1..n + 1 /\ i # Len(v.writes)
      BY <1>5, <2>3
    <3>2. Appends(v, i + 1)
      BY <1>5, <1>8, <3>1 DEF OnlyAppends
    <3> QED BY <3>1, <3>2
  <2> QED BY <2>2, <2>3
<1>19. AppendsLead(v, db)
  BY <1>1, <1>11, <1>15, <1>17, <1>18 DEF AppendsLead
<1> QED BY <1>6, <1>7, <1>8, <1>9, <1>10, <1>19 DEF Kept

\* A rewind or a drop is queued behind appends.
LEMMA LastWriteKept ==
  ASSUME NEW w, w \in Workers, NEW v, NEW db, AppendsLead(w, db), OnlyAppends(w),
         NEW write \in Writes, write.kind # "append",
         v.tip = w.tip, v.writes = Append(w.writes, write)
  PROVE  /\ AppendsLead(v, db)
         /\ Len(v.writes) \in DOMAIN v.writes /\ v.writes[Len(v.writes)] = write
         /\ \A i \in DOMAIN v.writes : ~Appends(v, i) => i = Len(v.writes) /\ v.writes[i] = write
         /\ Len(v.writes) > 1 => w.writes # <<>>
<1>1. w.writes \in Seq(Writes)
  BY DEF Workers
<1>2. PICK n \in Nat : n = Len(w.writes)
  BY <1>1
<1>3. /\ DOMAIN w.writes = 1..n /\ DOMAIN v.writes = 1..n + 1 /\ Len(v.writes) = n + 1
      /\ v.writes[n + 1] = write /\ \A i \in 1..n : v.writes[i] = w.writes[i]
  BY <1>1, <1>2, AppendIs
<1>4. \A i \in 1..n : Appends(w, i) /\ Appends(v, i)
  BY <1>3 DEF OnlyAppends, Appends
<1>5. \A i \in 0..n : Reached(v, db, i) = Reached(w, db, i)
  BY <1>3 DEF Reached
<1>6. ~Appends(v, n + 1)
  BY <1>3 DEF Appends
<1>7. \A i \in DOMAIN v.writes : Appends(v, i) => i \in 1..n /\ i - 1 \in 0..n
  BY <1>3, <1>6
<1>8. \A i \in DOMAIN v.writes : Appends(v, i) =>
       /\ v.writes[i].from = Reached(v, db, i - 1)
       /\ v.writes[i].from \in Chain[v.writes[i].last] /\ v.writes[i].from # v.writes[i].last
       /\ v.writes[i].last \in Chain[v.tip]
  BY <1>3, <1>4, <1>5, <1>7 DEF AppendsLead
<1>9. Reached(w, db, n) = w.tip
  BY <1>2, <1>4 DEF AppendsLead
<1>10. \A i \in 0..Len(v.writes) :
       (i = Len(v.writes) \/ ~Appends(v, i + 1)) /\ (i = 0 \/ Appends(v, i)) =>
         Reached(v, db, i) = v.tip
  <2>1. TAKE i \in 0..Len(v.writes)
  <2>2. CASE i = n + 1
    BY <1>6, <2>2
  <2>3. CASE i = n
    BY <1>5, <1>9, <2>3
  <2>4. CASE i # n + 1 /\ i # n
    <3>1. i + 1 \in 1..n /\ i # Len(v.writes)
      BY <1>3, <2>4
    <3> QED BY <1>4, <3>1
  <2> QED BY <2>2, <2>3, <2>4
<1>11. AppendsLead(v, db)
  BY <1>8, <1>10 DEF AppendsLead
<1>12. \A i \in DOMAIN v.writes : ~Appends(v, i) => i = n + 1
  BY <1>3, <1>4
<1> QED BY <1>1, <1>2, <1>3, <1>11, <1>12

LEMMA RewindKept ==
  ASSUME NEW w, Alive(w), NEW v, NEW db, Kept(w, db), OnlyAppends(w), Rewinds(w, v),
         w.checks = <<>>, w.writes # <<>> => w.pendingLock = None
  PROVE  Kept(v, db)
<1>1. PICK last \in Blocks, fork \in Blocks, race \in Blocks \union {None} :
    /\ fork \in Chain[last] /\ fork # last /\ fork \in Chain[w.tip]
    /\ ChainWork[w.tip] <= ChainWork[last]
    /\ w.finality <= Height[fork]
    /\ v.writes = Append(w.writes,
                    [kind |-> "rewind", from |-> fork, last |-> last, race |-> race])
    /\ v.tip = w.tip /\ v.window = w.window
    /\ v.finality = w.finality /\ v.pendingLock = w.pendingLock /\ v.checks = w.checks
    /\ v.dropping = w.dropping /\ v.dropQueued = w.dropQueued /\ v.posted = w.posted
  BY DEF Rewinds
<1>2. PICK write : write = [kind |-> "rewind", from |-> fork, last |-> last, race |-> race]
  OBVIOUS
<1>3. /\ w \in Workers /\ write \in Writes
      /\ write.kind = "rewind" /\ write.from = fork /\ write.last = last
  BY <1>2 DEF Alive, Writes
<1>4. /\ AppendsLead(v, db)
      /\ \A i \in DOMAIN v.writes : ~Appends(v, i) => i = Len(v.writes) /\ v.writes[i] = write
      /\ Len(v.writes) > 1 => w.writes # <<>>
  <2>1. AppendsLead(w, db) /\ write.kind # "append" /\ v.writes = Append(w.writes, write) /\ v.tip = w.tip
    BY <1>1, <1>2, <1>3 DEF Kept
  <2> QED BY <1>3, <2>1, LastWriteKept
<1>5. RewindLast(v)
  BY <1>1, <1>3, <1>4 DEF RewindLast
<1>6. ~w.dropping
  BY DEF Kept, Drops, OnlyAppends, Appends
<1>7. Drops(v) /\ Locked(v) /\ OnChain(v.window, v.tip)
  BY <1>1, <1>6 DEF Kept, Drops, Locked
<1> QED BY <1>4, <1>5, <1>7 DEF Kept

LEMMA VoteKept ==
  ASSUME NEW w, Alive(w), NEW v, NEW db, Kept(w, db), OnlyAppends(w), Votes(w, v)
  PROVE  Kept(v, db)
<1>1. w.checks \in Seq({"verify", "drop"})
  BY DEF Alive, Workers
<1>2. \E i \in DOMAIN v.checks : v.checks[i] = "drop"
  <2>1. v.checks = Append(w.checks, "drop") /\ Len(w.checks) \in Nat
    BY <1>1 DEF Votes
  <2>2. v.checks[Len(w.checks) + 1] = "drop" /\ Len(w.checks) + 1 \in DOMAIN v.checks
    BY <1>1, <2>1
  <2> QED BY <2>2
<1>3. OnChain(v.window, v.tip) /\ Drops(v) /\ Locked(v)
  BY <1>2 DEF Votes, Kept, Drops, Locked
<1>4. AppendsLead(v, db)
  BY DEF Votes, Kept, AppendsLead, Appends, Reached
<1>5. RewindLast(v)
  BY DEF Votes, OnlyAppends, RewindLast, Appends
<1> QED BY <1>3, <1>4, <1>5 DEF Kept

\* Headers taken while no rewind and no lock is under way keep what is to be kept.
LEMMA HeardKept ==
  ASSUME NEW w, Alive(w), NEW v, NEW db, db.tip \in Blocks, Kept(w, db), OnlyAppends(w), Heard(w, v),
         w.checks = <<>>, w.writes # <<>> => w.pendingLock = None
  PROVE  Kept(v, db)
BY SameKept, CommitKept, RewindKept, VoteKept DEF Heard

-----------------------------------------------------------------------------
(* The handlers after a write *)

LEMMA PostIs ==
  ASSUME NEW w, Alive(w), NEW e \in Events
  PROVE  /\ Alive(Post(w, e)) /\ Post(w, e).posted = Append(w.posted, e)
         /\ Post(w, e).tip = w.tip /\ Post(w, e).window = w.window /\ Post(w, e).writes = w.writes
         /\ Post(w, e).finality = w.finality /\ Post(w, e).pendingLock = w.pendingLock
         /\ Post(w, e).checks = w.checks /\ Post(w, e).dropping = w.dropping
         /\ Post(w, e).dropQueued = w.dropQueued /\ Post(w, e).phase = w.phase
         /\ Post(w, e).race = w.race
<1>1. w \in Workers /\ w.posted \in Seq(Events)
  BY DEF Alive, Workers
<1>2. PICK posted : posted = Append(w.posted, e) /\ posted \in Seq(Events)
  BY <1>1, AppendIs
<1>3. PICK v : v = [w EXCEPT !.posted = posted]
  OBVIOUS
<1>4. v = Post(w, e)
  BY <1>2, <1>3 DEF Post
<1>5. /\ v \in Workers /\ v.posted = posted /\ v.requests = w.requests /\ v.ready = w.ready
      /\ v.tip = w.tip /\ v.window = w.window /\ v.writes = w.writes
      /\ v.finality = w.finality /\ v.pendingLock = w.pendingLock
      /\ v.checks = w.checks /\ v.dropping = w.dropping
      /\ v.dropQueued = w.dropQueued /\ v.phase = w.phase /\ v.race = w.race
  BY <1>1, <1>2, <1>3 DEF Workers
<1>6. Alive(v)
  BY <1>5 DEF Alive, Asking
<1> QED BY <1>2, <1>4, <1>5, <1>6

\* A check of a lock is queued, or the lock noted: nothing under way rewinds.
LEMMA CheckedKept ==
  ASSUME NEW w, NEW v, NEW db, Kept(w, db),
         v.tip = w.tip, v.window = w.window, v.finality = w.finality, v.writes = w.writes,
         v.dropping = w.dropping, v.dropQueued = w.dropQueued,
         w.checks \in Seq({"verify", "drop"}),
         \/ v.checks = w.checks /\ v.pendingLock = w.pendingLock
         \/ v.checks = Append(w.checks, "verify") /\ \A i \in DOMAIN w.writes : w.writes[i].kind # "rewind"
  PROVE  Kept(v, db)
<1>1. AppendsLead(v, db)
  BY DEF Kept, AppendsLead, Appends, Reached
<1>2. RewindLast(v)
  BY DEF Kept, RewindLast, Appends
<1>3. Drops(v)
  <2>1. \A i \in DOMAIN w.checks : i \in DOMAIN v.checks /\ v.checks[i] = w.checks[i]
    <3>1. CASE v.checks = w.checks
      BY <3>1
    <3>2. CASE v.checks = Append(w.checks, "verify")
      <4>1. PICK q \in Seq({"verify", "drop"}) : q = w.checks
        OBVIOUS
      <4>2. DOMAIN Append(q, "verify") = 1..Len(q) + 1 /\ DOMAIN q = 1..Len(q) /\ Len(q) \in Nat
            /\ \A i \in 1..Len(q) : Append(q, "verify")[i] = q[i]
        OBVIOUS
      <4> QED BY <3>2, <4>1, <4>2
    <3> QED BY <3>1, <3>2
  <2> QED BY <2>1 DEF Kept, Drops
<1> QED BY <1>1, <1>2, <1>3 DEF Kept, Locked

\* commitHeaders after its write: the tip is where it was, the scan is told.
LEMMA AppendedIs ==
  ASSUME NEW w, Alive(w), NEW write \in Writes
  PROVE  LET v == Appended(w, write) IN
         /\ Alive(v)
         /\ v.tip = w.tip /\ v.window = w.window /\ v.finality = w.finality /\ v.writes = w.writes
         /\ v.dropping = w.dropping /\ v.dropQueued = w.dropQueued /\ v.pendingLock = w.pendingLock
         /\ \/ v.checks = w.checks
            \/ v.checks = Append(w.checks, "verify") /\ w.pendingLock # None
         /\ v.posted = Append(w.posted, [event |-> "extended", from |-> write.from, last |-> write.last])
<1>1. PICK e : e = [event |-> "extended", from |-> write.from, last |-> write.last]
  OBVIOUS
<1>2. e \in Events
  BY <1>1 DEF Events, Writes
<1>3. PICK p : p = Post(w, e)
  OBVIOUS
<1>4. /\ Alive(p) /\ p.posted = Append(w.posted, e)
      /\ p.tip = w.tip /\ p.window = w.window /\ p.writes = w.writes
      /\ p.finality = w.finality /\ p.pendingLock = w.pendingLock
      /\ p.checks = w.checks /\ p.dropping = w.dropping /\ p.dropQueued = w.dropQueued
      /\ p.race = w.race
  BY <1>2, <1>3, PostIs
<1>5. PICK told : told = [p EXCEPT !.phase = IF @ = "connecting" THEN "syncing" ELSE @]
  OBVIOUS
<1>6. /\ told \in Workers /\ SameChain(p, told) /\ told.phase # "stopped" /\ told.requests = p.requests
      /\ told.ready = p.ready /\ told.race = p.race
  BY <1>4, <1>5 DEF Alive, Workers, Phases, SameChain
<1>7. Alive(told)
  BY <1>4, <1>6 DEF Alive, Asking
<1>8. PICK checks : /\ checks = Append(told.checks, "verify") /\ checks \in Seq({"verify", "drop"})
  <2>1. told.checks \in Seq({"verify", "drop"})
    BY <1>6 DEF Workers
  <2> QED BY <2>1, AppendIs
<1>9. PICK checked : checked = IF w.pendingLock # None /\ Height[w.pendingLock] <= Height[write.last]
                               THEN [told EXCEPT !.checks = checks] ELSE told
  OBVIOUS
<1>10. /\ checked \in Workers /\ checked.phase # "stopped" /\ checked.requests = told.requests
       /\ checked.ready = told.ready /\ checked.race = told.race
       /\ checked.tip = w.tip /\ checked.window = w.window /\ checked.finality = w.finality
       /\ checked.writes = w.writes /\ checked.dropping = w.dropping
       /\ checked.dropQueued = w.dropQueued /\ checked.pendingLock = w.pendingLock
       /\ \/ checked.checks = w.checks
          \/ checked.checks = Append(w.checks, "verify") /\ w.pendingLock # None
       /\ checked.posted = Append(w.posted, e)
  <2>1. CASE w.pendingLock # None /\ Height[w.pendingLock] <= Height[write.last]
    <3>1. checked = [told EXCEPT !.checks = checks]
      BY <1>9, <2>1
    <3> QED BY <1>4, <1>6, <1>8, <2>1, <3>1 DEF Workers, SameChain
  <2>2. CASE ~(w.pendingLock # None /\ Height[w.pendingLock] <= Height[write.last])
    BY <1>4, <1>6, <1>9, <2>2 DEF SameChain
  <2> QED BY <2>1, <2>2
<1>11. Alive(checked)
  BY <1>7, <1>10 DEF Alive, Asking
<1>12. PICK over : over = IF w.race.from = write.race THEN [checked EXCEPT !.race = NoRace] ELSE checked
  OBVIOUS
<1>13. Alive(over) /\ SameChain(checked, over)
  <2>1. NoRace \in Races
    BY DEF NoRace, Races
  <2>2. CASE w.race.from = write.race
    <3>1. over = [checked EXCEPT !.race = NoRace]
      BY <1>12, <2>2
    <3>2. over \in Workers /\ SameChain(checked, over) /\ over.phase = checked.phase
          /\ over.ready = checked.ready /\ over.requests = checked.requests /\ over.race = NoRace
      BY <1>10, <2>1, <3>1 DEF Workers, SameChain
    <3> QED BY <1>11, <3>2 DEF Alive, Asking
  <2>3. CASE w.race.from # write.race
    BY <1>11, <1>12, <2>3 DEF SameChain
  <2> QED BY <2>2, <2>3
<1>14. OnlyAsks(checked, StartRace(over)) /\ OnlyAsks(checked, checked)
  BY <1>11, <1>13, StartRaceAsks, SameChainTwice DEF OnlyAsks, SameChain
<1>15. Appended(w, write) = IF write.race = None THEN checked ELSE StartRace(over)
  <2> DEFINE t == [Post(w, [event |-> "extended", from |-> write.from, last |-> write.last])
                     EXCEPT !.phase = IF @ = "connecting" THEN "syncing" ELSE @]
             c == IF w.pendingLock # None /\ Height[w.pendingLock] <= Height[write.last]
                    THEN [t EXCEPT !.checks = Append(@, "verify")] ELSE t
             o == IF w.race.from = write.race THEN [c EXCEPT !.race = NoRace] ELSE c
             s == CHOOSE after \in {StartRace(before) : before \in {o}} : TRUE
  <2>1. Appended(w, write) = IF write.race = None THEN c ELSE s
    BY DEF Appended, Then
  <2>2. t = told
    BY <1>1, <1>3, <1>5
  <2> HIDE DEF t
  <2>3. c = checked
    BY <1>8, <1>9, <2>2
  <2> HIDE DEF c
  <2>4. o = over
    BY <1>12, <2>3
  <2> HIDE DEF o
  <2>5. s = StartRace(o)
    OBVIOUS
  <2> QED BY <2>1, <2>3, <2>4, <2>5
<1>16. OnlyAsks(checked, Appended(w, write))
  BY <1>14, <1>15
<1> QED BY <1>1, <1>10, <1>16 DEF OnlyAsks, SameChain

\* rewindTo after its write.
LEMMA RewoundIs ==
  ASSUME NEW w, Alive(w), NEW fork \in Blocks
  PROVE  LET v == RewindTo(w, fork) IN
         /\ Alive(v) /\ v.tip = fork /\ v.window = Pruned(w.window, fork)
         /\ v.finality = w.finality /\ v.writes = w.writes /\ v.checks = w.checks
         /\ v.dropping = w.dropping /\ v.dropQueued = w.dropQueued /\ v.pendingLock = w.pendingLock
         /\ v.posted = Append(w.posted, [event |-> "rewound", height |-> Height[fork]])
<1>1. PICK e : e = [event |-> "rewound", height |-> Height[fork]]
  OBVIOUS
<1>2. e \in Events
  BY <1>1, Heights DEF Events, Marks
<1>3. PICK window : window = Pruned(w.window, fork) /\ window \in Windows
  BY PrunedIs DEF Alive, Workers
<1>4. PICK u : u = [w EXCEPT !.tip = fork, !.window = window]
  OBVIOUS
<1>5. /\ u \in Workers /\ u.tip = fork /\ u.window = window /\ u.posted = w.posted
      /\ u.finality = w.finality /\ u.writes = w.writes /\ u.checks = w.checks
      /\ u.dropping = w.dropping /\ u.dropQueued = w.dropQueued /\ u.pendingLock = w.pendingLock
      /\ u.phase = w.phase /\ u.requests = w.requests /\ u.ready = w.ready /\ u.race = w.race
  BY <1>3, <1>4 DEF Alive, Workers
<1>6. Alive(u)
  BY <1>5 DEF Alive, Asking
<1>7. RewindTo(w, fork) = Post(u, e)
  BY <1>1, <1>3, <1>4 DEF RewindTo
<1> QED BY <1>1, <1>2, <1>3, <1>5, <1>6, <1>7, PostIs

\* dropLostBranch after its write.
LEMMA DroppedIs ==
  ASSUME NEW w, Alive(w), NEW write \in Writes
  PROVE  LET v == Dropped(w, write) IN
         /\ Alive(v) /\ v.tip = write.from /\ v.window = Pruned(w.window, write.from)
         /\ v.finality = w.finality /\ v.writes = w.writes /\ v.checks = w.checks
         /\ v.dropping = FALSE /\ v.dropQueued = FALSE
         /\ v.posted = Append(w.posted, [event |-> "rewound", height |-> Height[write.from]])
<1>1. PICK fork \in Blocks : fork = write.from
  BY DEF Writes
<1>2. PICK e : e = [event |-> "rewound", height |-> Height[fork]]
  OBVIOUS
<1>3. PICK r : r = RewindTo(w, fork)
  OBVIOUS
<1>4. /\ Alive(r) /\ r.tip = fork /\ r.window = Pruned(w.window, fork)
      /\ r.finality = w.finality /\ r.writes = w.writes /\ r.checks = w.checks
      /\ r.posted = Append(w.posted, e)
  BY <1>2, <1>3, RewoundIs
<1>5. PICK phase \in Phases : phase # "stopped" /\ phase = IF r.phase = "starting" THEN r.phase ELSE "syncing"
  BY <1>4 DEF Alive, Workers, Phases
<1>6. PICK none \in Races :
        none = NoRace
  BY DEF NoRace, Races
<1>7. PICK u : u = [r EXCEPT !.announced = {}, !.race = none, !.dropping = FALSE, !.phase = phase]
  OBVIOUS
<1>8. /\ u \in Workers /\ u.tip = r.tip /\ u.window = r.window /\ u.posted = r.posted
      /\ u.finality = r.finality /\ u.writes = r.writes /\ u.checks = r.checks
      /\ u.dropping = FALSE /\ u.phase # "stopped" /\ u.requests = r.requests
      /\ u.ready = r.ready /\ u.race = NoRace
  <2>1. r \in Workers
    BY <1>4 DEF Alive
  <2>2. PICK x : x = [r EXCEPT !.announced = {}, !.race = none]
    OBVIOUS
  <2>3. x \in Workers
    BY <1>6, <2>1, <2>2 DEF Workers
  <2>4. u = [x EXCEPT !.dropping = FALSE, !.phase = phase]
    BY <1>7, <2>1, <2>2 DEF Workers
  <2>5. u \in Workers
    BY <1>5, <2>3, <2>4 DEF Workers
  <2> QED BY <1>5, <1>6, <1>7, <2>1, <2>5 DEF Workers
<1>9. Alive(u)
  BY <1>4, <1>8 DEF Alive, Asking
<1>10. PICK s : s = StartRace(u)
  OBVIOUS
<1>11. Alive(s) /\ SameChain(u, s)
  BY <1>9, <1>10, StartRaceAsks DEF OnlyAsks
<1>12. PICK v : v = Settled(s)
  OBVIOUS
<1>13. v = [s EXCEPT !.divergent = {}, !.dropQueued = FALSE]
  BY <1>12 DEF Settled
<1>14. /\ v \in Workers /\ v.tip = s.tip /\ v.window = s.window /\ v.posted = s.posted
       /\ v.finality = s.finality /\ v.writes = s.writes /\ v.checks = s.checks
       /\ v.dropping = s.dropping /\ v.dropQueued = FALSE /\ v.phase = s.phase
       /\ v.requests = s.requests /\ v.ready = s.ready /\ v.race = s.race
  BY <1>11, <1>13 DEF Alive, Workers
<1>15. Alive(v)
  BY <1>11, <1>14 DEF Alive, Asking
<1>16. Dropped(w, write) = v
  <2> DEFINE o == [RewindTo(w, write.from) EXCEPT
                     !.announced = {}, !.race = NoRace, !.dropping = FALSE,
                     !.phase = IF @ = "starting" THEN @ ELSE "syncing"]
             c == CHOOSE after \in {StartRace(before) : before \in {o}} : TRUE
  <2>1. Dropped(w, write) = Settled(c)
    BY DEF Dropped, Then
  <2>2. o = u
    BY <1>1, <1>3, <1>5, <1>6, <1>7
  <2> HIDE DEF o
  <2>3. c = StartRace(o)
    OBVIOUS
  <2> QED BY <1>10, <1>12, <2>1, <2>2, <2>3
<1> QED BY <1>1, <1>2, <1>4, <1>8, <1>11, <1>14, <1>15, <1>16 DEF SameChain

-----------------------------------------------------------------------------
(* A write that lands *)

LEMMA TailIs ==
  ASSUME NEW S, NEW q \in Seq(S), q # <<>>
  PROVE  /\ Len(q) \in Nat \ {0} /\ DOMAIN q = 1..Len(q) /\ Head(q) = q[1] /\ q[1] \in S
         /\ Tail(q) \in Seq(S) /\ Len(Tail(q)) = Len(q) - 1 /\ DOMAIN Tail(q) = 1..Len(q) - 1
         /\ \A i \in 1..Len(q) - 1 : Tail(q)[i] = q[i + 1]
OBVIOUS

\* v is w with the first write off the queue.
Popped(w, v) ==
  /\ v.tip = w.tip /\ v.window = w.window /\ v.finality = w.finality
  /\ v.pendingLock = w.pendingLock /\ v.writes = Tail(w.writes) /\ v.checks = w.checks
  /\ v.dropping = w.dropping /\ v.dropQueued = w.dropQueued /\ v.posted = w.posted

\* An append that has landed: the writes behind it still lead to the tip.
LEMMA TailKept ==
  ASSUME NEW w, w \in Workers, NEW db, Kept(w, db), w.writes # <<>>, Appends(w, 1),
         NEW v, Popped(w, v),
         NEW landed, landed.tip = w.writes[1].last
  PROVE  /\ Kept(v, landed)
         /\ w.pendingLock # None => \A i \in DOMAIN v.writes : v.writes[i].kind # "rewind"
<1>1. PICK q \in Seq(Writes) : q = w.writes /\ q # <<>>
  BY DEF Workers
<1>2. PICK t \in Seq(Writes) : t = Tail(q) /\ v.writes = t
  BY <1>1, TailIs DEF Popped
<1>3. /\ v.tip = w.tip /\ v.window = w.window /\ v.finality = w.finality
      /\ v.pendingLock = w.pendingLock /\ v.checks = w.checks
      /\ v.dropping = w.dropping /\ v.dropQueued = w.dropQueued
  BY DEF Popped
<1>4. PICK n \in Nat : /\ Len(q) = n + 1 /\ DOMAIN q = 1..n + 1 /\ Len(t) = n /\ DOMAIN t = 1..n
                       /\ \A i \in 1..n : t[i] = q[i + 1]
  <2>1. PICK m \in Nat \ {0} : m = Len(q)
    BY <1>1, TailIs
  <2>2. m - 1 \in Nat /\ m = (m - 1) + 1
    OBVIOUS
  <2>3. /\ DOMAIN q = 1..m /\ Len(t) = m - 1 /\ DOMAIN t = 1..m - 1
        /\ \A i \in 1..m - 1 : t[i] = q[i + 1]
    BY <1>1, <1>2, <2>1, TailIs
  <2> QED BY <2>1, <2>2, <2>3
<1>5. \A i \in 1..n : /\ i + 1 \in 1..n + 1 /\ v.writes[i] = w.writes[i + 1]
                      /\ Appends(v, i) <=> Appends(w, i + 1)
  <2>1. SUFFICES ASSUME NEW i \in 1..n
                 PROVE  i + 1 \in 1..n + 1 /\ v.writes[i] = w.writes[i + 1]
                        /\ (Appends(v, i) <=> Appends(w, i + 1))
    OBVIOUS
  <2>2. i + 1 \in 1..n + 1
    OBVIOUS
  <2>3. v.writes[i] = t[i] /\ t[i] = q[i + 1] /\ q[i + 1] = w.writes[i + 1]
    BY <1>1, <1>2, <1>4
  <2> QED BY <2>2, <2>3 DEF Appends
<1>6. \A i \in 0..n : Reached(v, landed, i) = Reached(w, db, i + 1)
  <2>1. SUFFICES ASSUME NEW i \in 0..n
                 PROVE  Reached(v, landed, i) = Reached(w, db, i + 1)
    OBVIOUS
  <2>2. Reached(w, db, i + 1) = w.writes[i + 1].last
    BY DEF Reached
  <2>3. CASE i = 0
    BY <2>2, <2>3 DEF Reached
  <2>4. CASE i # 0
    <3>1. i \in 1..n
      BY <2>4
    <3>2. v.writes[i] = w.writes[i + 1]
      BY <1>5, <3>1
    <3>3. Reached(v, landed, i) = v.writes[i].last
      BY <2>4 DEF Reached
    <3> QED BY <2>2, <3>2, <3>3
  <2> QED BY <2>3, <2>4
<1>7. AppendsLead(v, landed)
  <2>1. landed.tip \in Chain[v.tip]
    BY <1>1, <1>3, <1>4 DEF Kept, AppendsLead
  <2>2. ASSUME NEW i \in DOMAIN v.writes, Appends(v, i)
        PROVE  /\ v.writes[i].from = Reached(v, landed, i - 1)
               /\ v.writes[i].from \in Chain[v.writes[i].last] /\ v.writes[i].from # v.writes[i].last
               /\ v.writes[i].last \in Chain[v.tip]
    <3>1. /\ i \in 1..n /\ i - 1 \in 0..n /\ i + 1 \in DOMAIN w.writes /\ Appends(w, i + 1)
          /\ (i + 1) - 1 = i /\ (i - 1) + 1 = i
      <4>1. i \in 1..n /\ DOMAIN w.writes = 1..n + 1
        BY <1>1, <1>2, <1>4, <2>2
      <4>2. i - 1 \in 0..n /\ i + 1 \in 1..n + 1
        BY <4>1
      <4>3. (i + 1) - 1 = i /\ (i - 1) + 1 = i
        BY <4>1
      <4> QED BY <1>5, <2>2, <4>1, <4>2, <4>3
    <3>2. /\ w.writes[i + 1].from = Reached(w, db, i)
          /\ w.writes[i + 1].from \in Chain[w.writes[i + 1].last] /\ w.writes[i + 1].from # w.writes[i + 1].last
          /\ w.writes[i + 1].last \in Chain[w.tip]
      BY <3>1 DEF Kept, AppendsLead
    <3>3. Reached(v, landed, i - 1) = Reached(w, db, i)
      BY <3>1, <1>6
    <3> QED BY <1>3, <1>5, <3>1, <3>2, <3>3
  <2>3. ASSUME NEW i \in 0..Len(v.writes), i = Len(v.writes) \/ ~Appends(v, i + 1), i = 0 \/ Appends(v, i)
        PROVE  Reached(v, landed, i) = v.tip
    <3>1. i \in 0..n /\ i + 1 \in 0..Len(w.writes) /\ i + 1 # 0 /\ (i = n => i + 1 = Len(w.writes))
      BY <1>1, <1>2, <1>4
    <3>2. Appends(w, i + 1)
      BY <1>5, <2>3, <3>1
    <3>3. i + 1 = Len(w.writes) \/ ~Appends(w, (i + 1) + 1)
      <4>1. CASE i = n
        BY <3>1, <4>1
      <4>2. CASE i # n
        <5>1. i + 1 \in 1..n /\ i # Len(v.writes)
          BY <1>2, <1>4, <3>1, <4>2
        <5> QED BY <1>5, <2>3, <5>1
      <4> QED BY <4>1, <4>2
    <3>4. Reached(w, db, i + 1) = w.tip
      BY <3>1, <3>2, <3>3 DEF Kept, AppendsLead
    <3> QED BY <1>3, <1>6, <3>1, <3>4
  <2> QED BY <2>1, <2>2, <2>3 DEF AppendsLead
<1>8. ASSUME NEW i \in DOMAIN v.writes, ~Appends(v, i)
      PROVE  /\ i = Len(v.writes)
             /\ v.writes[i].from \in Chain[v.tip] /\ v.finality <= Height[v.writes[i].from]
             /\ v.writes[i].kind = "drop" => v.dropping /\ v.writes[i].last = v.writes[i].from
             /\ v.writes[i].kind = "rewind" =>
                  /\ v.writes[i].from \in Chain[v.writes[i].last] /\ v.writes[i].from # v.writes[i].last
                  /\ ChainWork[v.tip] <= ChainWork[v.writes[i].last]
                  /\ v.checks = <<>> /\ v.pendingLock = None
  <2>1. /\ i \in 1..n /\ i + 1 \in DOMAIN w.writes /\ ~Appends(w, i + 1) /\ i + 1 > 1
        /\ v.writes[i] = w.writes[i + 1]
    <3>1. i \in 1..n /\ DOMAIN w.writes = 1..n + 1
      BY <1>1, <1>2, <1>4, <1>8
    <3>2. i + 1 \in 1..n + 1 /\ i + 1 > 1
      BY <3>1
    <3> QED BY <1>5, <1>8, <3>1, <3>2
  <2>2. PICK write : write = w.writes[i + 1]
    OBVIOUS
  <2>3. /\ i + 1 = Len(w.writes)
        /\ write.from \in Chain[w.tip] /\ w.finality <= Height[write.from]
        /\ write.kind = "drop" => w.dropping /\ write.last = write.from
        /\ write.kind = "rewind" =>
             /\ write.from \in Chain[write.last] /\ write.from # write.last
             /\ ChainWork[w.tip] <= ChainWork[write.last]
             /\ w.checks = <<>> /\ w.pendingLock = None
    BY <2>1, <2>2 DEF Kept, RewindLast
  <2>4. i = Len(v.writes)
    BY <1>1, <1>2, <1>4, <2>1, <2>3
  <2> QED BY <1>3, <2>1, <2>2, <2>3, <2>4
<1>9. RewindLast(v)
  BY <1>8 DEF RewindLast
<1>10. Drops(v)
  <2>1. ASSUME v.dropping PROVE \E i \in DOMAIN v.writes : v.writes[i].kind = "drop"
    <3>1. PICK i \in DOMAIN w.writes : w.writes[i].kind = "drop"
      BY <1>3, <2>1 DEF Kept, Drops
    <3>2. i # 1
      BY <3>1 DEF Appends
    <3>3. i - 1 \in 1..n /\ (i - 1) + 1 = i
      <4>1. i \in 1..n + 1
        BY <1>1, <1>4
      <4> QED BY <3>2, <4>1
    <3>4. PICK k \in 1..n : k + 1 = i
      BY <3>3
    <3> QED BY <1>2, <1>4, <1>5, <3>1, <3>4
  <2> QED BY <1>3, <2>1 DEF Kept, Drops
<1>11. OnChain(v.window, v.tip) /\ Locked(v)
  BY <1>3 DEF Kept, Locked
<1>12. Kept(v, landed)
  BY <1>7, <1>9, <1>10, <1>11 DEF Kept
<1>13. ASSUME w.pendingLock # None, NEW i \in DOMAIN v.writes PROVE v.writes[i].kind # "rewind"
  <2>1. CASE Appends(v, i)
    BY <2>1 DEF Appends
  <2>2. CASE ~Appends(v, i)
    BY <1>3, <1>8, <1>13, <2>2
  <2> QED BY <2>1, <2>2
<1> QED BY <1>12, <1>13

-----------------------------------------------------------------------------
(* chain.db and the filter scan after a write *)

\* Headers recorded above a run of the chain below them: together a run.
LEMMA RunGrows ==
  ASSUME NEW b \in Blocks, NEW a \in Chain[b], NEW held,
         \A h \in 1..Height[a] : h \in DOMAIN held => held[h] = At(a, h),
         NEW h \in 1..Height[b], h \in DOMAIN held \union (Height[a] + 1..Height[b])
  PROVE  Recorded(held, Path(a, b))[h] = At(b, h)
<1>1. /\ Height[a] \in 1..Height[b] /\ Height[b] \in Nat
      /\ \A k \in 1..Height[a] : At(a, k) = At(b, k)
  BY AtBelow, Heights
<1>2. Recorded(held, Path(a, b))[h] = IF h \in Height[a] + 1..Height[b] THEN At(b, h) ELSE held[h]
  BY RecordedRun
<1>3. CASE h \in Height[a] + 1..Height[b]
  BY <1>2, <1>3
<1>4. CASE h \notin Height[a] + 1..Height[b]
  <2>1. h \in 1..Height[a] /\ h \in DOMAIN held
    BY <1>1, <1>4
  <2> QED BY <1>1, <1>2, <1>4, <2>1
<1> QED BY <1>3, <1>4

\* appendHeaders: chain.db has one header more for each block of the batch.
LEMMA AppendStored ==
  ASSUME NEW b \in Blocks, NEW a \in Chain[b], NEW held,
         Stored([tip |-> a, headers |-> held])
  PROVE  Stored([tip |-> b, headers |-> Recorded(held, Path(a, b))])
<1>1. PICK run : run = Recorded(held, Path(a, b))
  OBVIOUS
<1>2. /\ Height[a] \in 1..Height[b] /\ Height[b] \in Nat
  BY AtBelow, Heights
<1>3. DOMAIN held = 2..Height[a] /\ \A h \in DOMAIN held : held[h] = At(a, h)
  BY DEF Stored
<1>4. DOMAIN run = DOMAIN held \union (Height[a] + 1..Height[b])
  BY <1>1, RecordedDomain
<1>5. DOMAIN run = 2..Height[b]
  BY <1>2, <1>3, <1>4
<1>6. ASSUME NEW h \in DOMAIN run PROVE run[h] = At(b, h)
  <2>1. h \in 1..Height[b] /\ h \in DOMAIN held \union (Height[a] + 1..Height[b])
    BY <1>2, <1>4, <1>5
  <2>2. \A k \in 1..Height[a] : k \in DOMAIN held => held[k] = At(a, k)
    BY <1>3
  <2> QED BY <1>1, <2>1, <2>2, RunGrows
<1>7. Stored([tip |-> b, headers |-> run])
  BY <1>5, <1>6 DEF Stored
<1> QED BY <1>1, <1>7

\* onChainExtended: the scan's index grows by the same blocks.
LEMMA AppendTold ==
  ASSUME NEW b \in Blocks, NEW a \in Chain[b], NEW index,
         \A db : db.tip = a => Told(index, db),
         NEW landed, landed.tip = b
  PROVE  Told(Follow(index, [event |-> "extended", from |-> a, last |-> b]), landed)
<1>1. PICK held : held = index.hashes
  OBVIOUS
<1>2. PICK run : run = Recorded(held, Path(a, b))
  OBVIOUS
<1>3. Height[a] \in 1..Height[b] /\ Height[b] \in Nat
  BY AtBelow, Heights
<1>4. /\ index.tip = Height[a]
      /\ \A h \in 1..Height[a] : h \in DOMAIN held /\ held[h] = At(a, h)
  <2>1. PICK db : db = [tip |-> a]
    OBVIOUS
  <2>2. db.tip = a /\ Told(index, db)
    BY <2>1
  <2> QED BY <1>1, <2>2 DEF Told
<1>5. Max({index.tip, Height[b]}) = Height[b]
  BY <1>3, <1>4, MaxOfTwo
<1>6. PICK told : told = [tip |-> Height[b], hashes |-> run]
  OBVIOUS
<1>7. told = Follow(index, [event |-> "extended", from |-> a, last |-> b])
  BY <1>1, <1>2, <1>5, <1>6 DEF Follow
<1>8. told = [tip |-> told.tip, hashes |-> told.hashes] /\ told.tip = Height[b] /\ told.hashes = run
  BY <1>6
<1>9. DOMAIN run = DOMAIN held \union (Height[a] + 1..Height[b])
  BY <1>2, RecordedDomain
<1>10. ASSUME NEW h \in 1..Height[b] PROVE h \in DOMAIN run /\ run[h] = At(b, h)
  <2>1. h \in 1..Height[a] \/ h \in Height[a] + 1..Height[b]
    BY <1>3
  <2>2. h \in DOMAIN held \union (Height[a] + 1..Height[b])
    BY <1>4, <2>1
  <2>3. \A k \in 1..Height[a] : k \in DOMAIN held => held[k] = At(a, k)
    BY <1>4
  <2> QED BY <1>2, <1>9, <2>2, <2>3, RunGrows
<1> QED BY <1>7, <1>8, <1>10 DEF Told

\* deleteHeadersFrom: what is left is the chain of the block it went down to.
LEMMA CutStored ==
  ASSUME NEW db, Stored(db), NEW write \in Writes, write.kind # "append",
         write.from \in Chain[db.tip]
  PROVE  Stored(Written(db, write)) /\ Written(db, write).tip = write.from
<1>1. PICK a, b : a = write.from /\ b = db.tip
  OBVIOUS
<1>2. a \in Blocks /\ b \in Blocks /\ a \in Chain[b]
  BY <1>1 DEF Writes, Stored
<1>3. PICK headers : headers = [h \in {h \in DOMAIN db.headers : h <= Height[a]} |-> db.headers[h]]
  OBVIOUS
<1>4. PICK d : d = [tip |-> a, headers |-> headers]
  OBVIOUS
<1>5. d = Written(db, write)
  BY <1>1, <1>3, <1>4 DEF Written
<1>6. d.tip = a /\ d.headers = headers
  BY <1>4
<1>7. /\ Height[a] \in 1..Height[b] /\ Height[b] \in Nat
      /\ \A h \in 1..Height[a] : At(a, h) = At(b, h)
  BY <1>2, AtBelow, Heights
<1>8. DOMAIN db.headers = 2..Height[b] /\ \A h \in DOMAIN db.headers : db.headers[h] = At(b, h)
  BY <1>1 DEF Stored
<1>9. DOMAIN headers = 2..Height[a]
  BY <1>3, <1>7, <1>8
<1>10. ASSUME NEW h \in 2..Height[a] PROVE headers[h] = At(a, h)
  <2>1. h \in 1..Height[a] /\ h \in DOMAIN db.headers /\ h <= Height[a]
    BY <1>7, <1>8
  <2> QED BY <1>3, <1>7, <1>8, <2>1
<1>11. Stored(d)
  BY <1>2, <1>6, <1>9, <1>10 DEF Stored
<1> QED BY <1>1, <1>5, <1>6, <1>11

LEMMA CutTold ==
  ASSUME NEW index, NEW db, Stored(db), Told(index, db), NEW fork \in Chain[db.tip],
         NEW landed, landed.tip = fork
  PROVE  Told(Follow(index, [event |-> "rewound", height |-> Height[fork]]), landed)
<1>1. PICK b : b = db.tip
  OBVIOUS
<1>2. /\ Height[fork] \in 1..Height[b] /\ Height[b] \in Nat
      /\ \A h \in 1..Height[fork] : At(fork, h) = At(b, h)
  BY <1>1, AtBelow, Heights DEF Stored
<1>3. PICK hashes : hashes = index.hashes
  OBVIOUS
<1>4. PICK told : told = [tip |-> Height[fork], hashes |-> hashes]
  OBVIOUS
<1>5. told = Follow(index, [event |-> "rewound", height |-> Height[fork]])
  BY <1>3, <1>4 DEF Follow, Told
<1>6. \A h \in 1..Height[fork] : h \in DOMAIN hashes /\ hashes[h] = At(fork, h)
  <2>1. SUFFICES ASSUME NEW h \in 1..Height[fork]
                 PROVE  h \in DOMAIN hashes /\ hashes[h] = At(fork, h)
    OBVIOUS
  <2>2. h \in 1..Height[b] /\ index.tip = Height[b]
    BY <1>1, <1>2 DEF Told
  <2> QED BY <1>1, <1>2, <1>3, <2>2 DEF Told
<1>7. told.tip = Height[fork] /\ told.hashes = hashes /\ told = [tip |-> told.tip, hashes |-> told.hashes]
  BY <1>4
<1> QED BY <1>5, <1>6, <1>7 DEF Told

\* The worker once the first write is off the queue.
LEMMA Unqueued ==
  ASSUME NEW w, Alive(w), w.writes # <<>>, NEW u, u = [w EXCEPT !.writes = Tail(@)]
  PROVE  /\ Alive(u) /\ Popped(w, u)
         /\ w.writes[1] \in Writes /\ Head(w.writes) = w.writes[1]
<1>1. w \in Workers /\ Asking(w) /\ w.phase # "stopped"
  BY DEF Alive
<1>2. PICK q \in Seq(Writes) : q = w.writes /\ q # <<>>
  BY <1>1 DEF Workers
<1>3. PICK t \in Seq(Writes) : t = Tail(q)
  BY <1>2, TailIs
<1>4. q[1] \in Writes /\ Head(q) = q[1]
  BY <1>2, TailIs
<1>5. u = [w EXCEPT !.writes = t]
  BY <1>1, <1>2, <1>3
<1>6. /\ u \in Workers /\ u.tip = w.tip /\ u.window = w.window /\ u.finality = w.finality
      /\ u.pendingLock = w.pendingLock /\ u.checks = w.checks /\ u.writes = t
      /\ u.dropping = w.dropping /\ u.dropQueued = w.dropQueued /\ u.posted = w.posted
      /\ u.phase = w.phase /\ u.requests = w.requests /\ u.ready = w.ready /\ u.race = w.race
  BY <1>1, <1>5 DEF Workers
<1>7. Alive(u)
  BY <1>1, <1>6 DEF Alive, Asking
<1> QED BY <1>2, <1>3, <1>4, <1>6, <1>7 DEF Popped

\* What is first in the queue when it takes the tip down is all of it.
LEMMA LastIsFirst ==
  ASSUME NEW w, w \in Workers, NEW db, Kept(w, db), w.writes # <<>>, ~Appends(w, 1)
  PROVE  /\ Tail(w.writes) = <<>> /\ db.tip = w.tip
         /\ \A i \in DOMAIN w.writes : i = 1
         /\ 1 \in DOMAIN w.writes
<1>1. PICK q \in Seq(Writes) : q = w.writes /\ q # <<>>
  BY DEF Workers
<1>2. PICK n \in Nat \ {0} : Len(q) = n /\ DOMAIN q = 1..n
  BY <1>1, TailIs
<1>3. n = 1
  BY <1>1, <1>2 DEF Kept, RewindLast
<1>4. Tail(q) = <<>>
  <2>1. PICK t \in Seq(Writes) : t = Tail(q) /\ Len(t) = Len(q) - 1
    BY <1>1, TailIs
  <2>2. Len(t) = 0
    BY <1>2, <1>3, <2>1
  <2>3. t = <<>>
    BY <2>2
  <2> QED BY <2>1, <2>3
<1>5. Reached(w, db, 0) = w.tip
  <2>1. 0 \in 0..Len(w.writes) /\ 0 + 1 = 1
    BY <1>1, <1>2
  <2> QED BY <2>1 DEF Kept, AppendsLead
<1>6. db.tip = w.tip
  BY <1>5 DEF Reached
<1> QED BY <1>1, <1>2, <1>3, <1>4, <1>6

\* Nothing is queued: only the window, the lock and the queued vote are left to keep.
LEMMA NothingQueued ==
  ASSUME NEW v, v.writes = <<>>, v.tip \in Blocks, OnChain(v.window, v.tip), Locked(v), Drops(v),
         NEW db, db.tip = v.tip
  PROVE  Kept(v, db) /\ OnlyAppends(v)
<1>1. DOMAIN v.writes = {} /\ Len(v.writes) = 0
  OBVIOUS
<1>2. db.tip \in Chain[v.tip]
  BY ChainFacts
<1>3. \A i \in 0..Len(v.writes) : Reached(v, db, i) = v.tip
  BY <1>1 DEF Reached
<1>4. AppendsLead(v, db)
  BY <1>1, <1>2, <1>3 DEF AppendsLead
<1>5. RewindLast(v) /\ OnlyAppends(v)
  BY <1>1 DEF RewindLast, OnlyAppends
<1> QED BY <1>4, <1>5 DEF Kept

\* landed is what a write left of chain.db, v the worker after it: one event tells
\* the filter scan, whose index was index.
Landed(v, landed, index) ==
  /\ Alive(v) /\ Kept(v, landed) /\ Stored(landed)
  /\ \E e : v.posted = <<e>> /\ Told(Follow(index, e), landed)

\* An append lands.
LEMMA AppendLands ==
  ASSUME NEW w, Alive(w), NEW db, Kept(w, db), Stored(db), w.writes # <<>>, w.posted = <<>>,
         NEW index, Told(index, db),
         NEW write, write \in Writes, write = w.writes[1], write.kind = "append",
         NEW u, Alive(u), Popped(w, u)
  PROVE  /\ Landed(Appended(u, write), Written(db, write), index)
         /\ Appended(u, write).tip = w.tip
<1>1. /\ Alive(u) /\ u.tip = w.tip /\ u.window = w.window /\ u.finality = w.finality
      /\ u.pendingLock = w.pendingLock /\ u.checks = w.checks /\ u.writes = Tail(w.writes)
      /\ u.dropping = w.dropping /\ u.dropQueued = w.dropQueued /\ u.posted = w.posted
      /\ write \in Writes /\ write = w.writes[1] /\ Appends(w, 1)
  BY DEF Popped, Appends
<1>2. /\ write.from = db.tip /\ write.from \in Chain[write.last] /\ write.last \in Blocks
  <2>1. 1 \in DOMAIN w.writes
    <3>1. PICK q \in Seq(Writes) : q = w.writes /\ q # <<>>
      BY DEF Alive, Workers
    <3>2. PICK n \in Nat \ {0} : Len(q) = n /\ DOMAIN q = 1..n
      BY <3>1, TailIs
    <3> QED BY <3>1, <3>2
  <2>2. w.writes[1].from = Reached(w, db, 1 - 1) /\ w.writes[1].from \in Chain[w.writes[1].last]
    BY <1>1, <2>1 DEF Kept, AppendsLead
  <2>3. Reached(w, db, 1 - 1) = db.tip
    BY DEF Reached
  <2>4. write.last \in Blocks
    BY <1>1 DEF Writes
  <2> QED BY <1>1, <2>2, <2>3, <2>4
<1>3. PICK landed : landed = Written(db, write)
  OBVIOUS
<1>4. landed = [tip |-> write.last, headers |-> Recorded(db.headers, Path(db.tip, write.last))]
  BY <1>2, <1>3 DEF Written
<1>5. landed.tip = write.last
  BY <1>4
<1>6. Stored(landed)
  <2>1. Stored([tip |-> db.tip, headers |-> db.headers])
    BY DEF Stored
  <2>2. Stored([tip |-> write.last, headers |-> Recorded(db.headers, Path(db.tip, write.last))])
    BY <1>2, <2>1, AppendStored
  <2> QED BY <1>4, <2>2
<1>7. /\ Kept(u, landed)
      /\ w.pendingLock # None => \A i \in DOMAIN u.writes : u.writes[i].kind # "rewind"
  BY <1>1, <1>5, TailKept DEF Alive
<1>8. PICK v : v = Appended(u, write)
  OBVIOUS
<1>9. PICK e : e = [event |-> "extended", from |-> write.from, last |-> write.last]
  OBVIOUS
<1>10. /\ Alive(v)
       /\ v.tip = u.tip /\ v.window = u.window /\ v.finality = u.finality /\ v.writes = u.writes
       /\ v.dropping = u.dropping /\ v.dropQueued = u.dropQueued /\ v.pendingLock = u.pendingLock
       /\ \/ v.checks = u.checks
          \/ v.checks = Append(u.checks, "verify") /\ u.pendingLock # None
       /\ v.posted = Append(u.posted, e)
  <2>1. Alive(u) /\ write \in Writes
    BY <1>1
  <2> QED BY <1>8, <1>9, <2>1, AppendedIs
<1>11. u.checks \in Seq({"verify", "drop"})
  BY <1>1 DEF Alive, Workers
<1>12. \/ v.checks = u.checks /\ v.pendingLock = u.pendingLock
       \/ v.checks = Append(u.checks, "verify") /\ \A i \in DOMAIN u.writes : u.writes[i].kind # "rewind"
  BY <1>1, <1>7, <1>10
<1>13. Kept(v, landed)
  BY <1>7, <1>10, <1>11, <1>12, CheckedKept
<1>14. v.posted = <<e>>
  <2>1. v.posted = Append(<<>>, e)
    BY <1>1, <1>10
  <2> QED BY <2>1
<1>15. Told(Follow(index, e), landed)
  <2>1. \A d : d.tip = db.tip => Told(index, d)
    BY DEF Told
  <2>2. Told(Follow(index, [event |-> "extended", from |-> db.tip, last |-> write.last]), landed)
    BY <1>2, <1>5, <2>1, AppendTold
  <2> QED BY <1>2, <1>9, <2>2
<1>16. Landed(v, landed, index)
  BY <1>6, <1>10, <1>13, <1>14, <1>15 DEF Landed
<1> QED BY <1>1, <1>3, <1>8, <1>10, <1>16

\* A rewind lands: the branch of more work is appended on the fork.
LEMMA RewindLands ==
  ASSUME NEW w, Alive(w), NEW db, Kept(w, db), Stored(db), w.writes # <<>>, w.posted = <<>>,
         NEW index, Told(index, db),
         NEW write, write \in Writes, write = w.writes[1], write.kind = "rewind",
         NEW u, Alive(u), Popped(w, u)
  PROVE  LET v == CommitHeaders(RewindTo(u, write.from), write.last, write.race) IN
         /\ Landed(v, Written(db, write), index)
         /\ ChainWork[w.tip] <= ChainWork[v.tip]
<1>1. /\ Alive(u) /\ u.tip = w.tip /\ u.window = w.window /\ u.finality = w.finality
      /\ u.pendingLock = w.pendingLock /\ u.checks = w.checks /\ u.writes = Tail(w.writes)
      /\ u.dropping = w.dropping /\ u.dropQueued = w.dropQueued /\ u.posted = w.posted
      /\ write \in Writes /\ write = w.writes[1] /\ ~Appends(w, 1) /\ w \in Workers
  BY DEF Popped, Appends, Alive
<1>2. /\ Tail(w.writes) = <<>> /\ db.tip = w.tip /\ 1 \in DOMAIN w.writes
      /\ \A i \in DOMAIN w.writes : i = 1
  BY <1>1, LastIsFirst
<1>3. /\ write.from \in Chain[w.tip] /\ w.finality <= Height[write.from]
      /\ write.from \in Chain[write.last] /\ write.from # write.last /\ w.checks = <<>>
      /\ ChainWork[w.tip] <= ChainWork[write.last]
  BY <1>1, <1>2 DEF Kept, RewindLast
<1>4. ~w.dropping /\ ~w.dropQueued
  <2>1. DOMAIN w.checks = {}
    BY <1>3
  <2> QED BY <1>1, <1>2, <2>1 DEF Kept, Drops
<1>5. /\ write.from \in Blocks /\ write.last \in Blocks /\ write.race \in Blocks \union {None}
      /\ w.tip \in Blocks /\ w.window \in Windows
  BY <1>1 DEF Writes, Workers
<1>6. PICK r : r = RewindTo(u, write.from)
  OBVIOUS
<1>7. PICK e : e = [event |-> "rewound", height |-> Height[write.from]]
  OBVIOUS
<1>8. /\ Alive(r) /\ r.tip = write.from /\ r.window = Pruned(u.window, write.from)
      /\ r.finality = u.finality /\ r.writes = u.writes /\ r.checks = u.checks
      /\ r.dropping = u.dropping /\ r.dropQueued = u.dropQueued /\ r.pendingLock = u.pendingLock
      /\ r.posted = Append(u.posted, e)
  <2>1. Alive(u)
    BY <1>1
  <2>2. PICK fork \in Blocks : fork = write.from
    BY <1>5
  <2> QED BY <1>6, <1>7, <2>1, <2>2, RewoundIs
<1>9. PICK landed : landed = Written(db, write)
  OBVIOUS
<1>10. Stored(landed) /\ landed.tip = write.from
  BY <1>1, <1>2, <1>3, <1>9, CutStored
<1>11. Kept(r, landed) /\ OnlyAppends(r)
  <2>1. OnChain(r.window, r.tip)
    BY <1>1, <1>3, <1>5, <1>8, WindowShrinks DEF Kept
  <2>2. Locked(r)
    BY <1>1, <1>3, <1>8, LockedBelow DEF Kept
  <2>3. r.writes = <<>> /\ r.tip \in Blocks /\ Drops(r)
    BY <1>1, <1>2, <1>4, <1>5, <1>8 DEF Drops
  <2> QED BY <1>8, <1>10, <2>1, <2>2, <2>3, NothingQueued
<1>12. PICK v : v = CommitHeaders(r, write.last, write.race)
  OBVIOUS
<1>13. Alive(v) /\ Commits(r, v)
  BY <1>3, <1>5, <1>8, <1>12, CommitIs
<1>14. Kept(v, landed)
  BY <1>5, <1>8, <1>10, <1>11, <1>13, CommitKept
<1>15. v.posted = <<e>>
  <2>1. r.posted = Append(<<>>, e) /\ v.posted = r.posted
    BY <1>1, <1>8, <1>13 DEF Commits
  <2> QED BY <2>1
<1>16. Told(Follow(index, e), landed)
  BY <1>2, <1>3, <1>7, <1>10, CutTold
<1>17. Landed(v, landed, index)
  BY <1>10, <1>13, <1>14, <1>15, <1>16 DEF Landed
<1>18. v.tip = write.last
  BY <1>3, <1>5, <1>8, <1>12, CommitIs
<1> QED BY <1>3, <1>6, <1>9, <1>12, <1>17, <1>18

\* A drop lands.
LEMMA DropLands ==
  ASSUME NEW w, Alive(w), NEW db, Kept(w, db), Stored(db), w.writes # <<>>, w.posted = <<>>,
         NEW index, Told(index, db),
         NEW write, write \in Writes, write = w.writes[1], write.kind = "drop",
         NEW u, Alive(u), Popped(w, u)
  PROVE  Landed(Dropped(u, write), Written(db, write), index)
<1>1. /\ Alive(u) /\ u.tip = w.tip /\ u.window = w.window /\ u.finality = w.finality
      /\ u.writes = Tail(w.writes) /\ u.posted = w.posted
      /\ write \in Writes /\ write = w.writes[1] /\ ~Appends(w, 1) /\ w \in Workers
  BY DEF Popped, Appends, Alive
<1>2. Tail(w.writes) = <<>> /\ db.tip = w.tip /\ 1 \in DOMAIN w.writes
  BY <1>1, LastIsFirst
<1>3. write.from \in Chain[w.tip] /\ w.finality <= Height[write.from]
  BY <1>1, <1>2 DEF Kept, RewindLast
<1>4. write.from \in Blocks /\ w.tip \in Blocks /\ w.window \in Windows
  BY <1>1 DEF Writes, Workers
<1>5. PICK e : e = [event |-> "rewound", height |-> Height[write.from]]
  OBVIOUS
<1>6. PICK v : v = Dropped(u, write)
  OBVIOUS
<1>7. /\ Alive(v) /\ v.tip = write.from /\ v.window = Pruned(u.window, write.from)
      /\ v.finality = u.finality /\ v.writes = u.writes
      /\ v.dropping = FALSE /\ v.dropQueued = FALSE
      /\ v.posted = Append(u.posted, e)
  BY <1>1, <1>5, <1>6, DroppedIs
<1>8. PICK landed : landed = Written(db, write)
  OBVIOUS
<1>9. Stored(landed) /\ landed.tip = write.from
  BY <1>1, <1>2, <1>3, <1>8, CutStored
<1>10. Kept(v, landed)
  <2>1. OnChain(v.window, v.tip)
    BY <1>1, <1>3, <1>4, <1>7, WindowShrinks DEF Kept
  <2>2. Locked(v)
    BY <1>1, <1>3, <1>7, LockedBelow DEF Kept
  <2>3. v.writes = <<>> /\ v.tip \in Blocks /\ Drops(v)
    BY <1>1, <1>2, <1>4, <1>7 DEF Drops
  <2> QED BY <1>7, <1>9, <2>1, <2>2, <2>3, NothingQueued
<1>11. v.posted = <<e>>
  <2>1. v.posted = Append(<<>>, e)
    BY <1>1, <1>7
  <2> QED BY <2>1
<1>12. Told(Follow(index, e), landed)
  BY <1>2, <1>3, <1>5, <1>9, CutTold
<1>13. Landed(v, landed, index)
  BY <1>7, <1>9, <1>10, <1>11, <1>12 DEF Landed
<1> QED BY <1>6, <1>8, <1>13

-----------------------------------------------------------------------------
(* Branch checks *)

\* hashAtHeight finds nothing, or the block of our chain.
LEMMA HashAtIs ==
  ASSUME NEW w, w.tip \in Blocks, OnChain(w.window, w.tip), Stored(disk), disk.tip \in Chain[w.tip],
         NEW h \in 1..Height[w.tip], HashAt(w, h) # None
  PROVE  HashAt(w, h) = At(w.tip, h)
<1>1. CASE h \in DOMAIN w.window
  BY <1>1 DEF HashAt, OnChain
<1>2. CASE h \notin DOMAIN w.window
  <2>1. h \in DOMAIN disk.headers /\ HashAt(w, h) = disk.headers[h]
    BY <1>2 DEF HashAt
  <2>2. HashAt(w, h) = At(disk.tip, h) /\ h \in 2..Height[disk.tip] /\ disk.tip \in Blocks
    BY <2>1 DEF Stored
  <2>3. h \in 1..Height[disk.tip]
    BY <2>2, Heights
  <2> QED BY <2>2, <2>3, AtBelow
<1> QED BY <1>1, <1>2

\* w with a write queued that takes the tip down to block.
DropQueued(w, v, block) ==
  /\ v.tip = w.tip /\ v.window = w.window /\ v.finality = w.finality
  /\ v.writes = Append(w.writes, [kind |-> "drop", from |-> block, last |-> block, race |-> None])
  /\ v.dropping /\ v.posted = w.posted

\* What a drop is decided on, and what becomes of it.
Drop(w, v) ==
  \/ /\ v.tip = w.tip /\ v.window = w.window /\ v.finality = w.finality /\ v.writes = w.writes
     /\ v.dropping = w.dropping /\ ~v.dropQueued /\ v.posted = w.posted
  \/ \E block \in Chain[w.tip] : w.finality <= Height[block] /\ DropQueued(w, v, block)

LEMMA DropIs ==
  ASSUME NEW w, Alive(w), OnChain(w.window, w.tip), Stored(disk), disk.tip \in Chain[w.tip],
         NEW lostFrom \in Nat
  PROVE  Alive(DropLostBranch(w, lostFrom)) /\ Drop(w, DropLostBranch(w, lostFrom))
<1>1. w \in Workers /\ w.tip \in Blocks /\ w.finality \in Nat /\ w.writes \in Seq(Writes)
  BY DEF Alive, Workers
<1>2. PICK down \in Int :
        down = IF lostFrom = 0 THEN Height[w.tip] - REORG_MAX_DEPTH ELSE lostFrom - 1
  <2>1. PICK a \in Int, b \in Int : a = Height[w.tip] - REORG_MAX_DEPTH /\ b = lostFrom - 1
    <3>1. Height[w.tip] \in Int /\ REORG_MAX_DEPTH \in Int
      BY <1>1, Heights, TreeAssumption
    <3> QED BY <3>1
  <2> QED BY <2>1
<1>3. PICK dropTo : dropTo = Max({down, w.finality, 1})
  OBVIOUS
<1>4. dropTo \in Nat /\ dropTo >= 1 /\ dropTo >= w.finality
  <2>1. PICK f \in Nat : f = w.finality
    BY <1>1
  <2>2. PICK m : m = Max({down, f, 1}) /\ m \in {down, f, 1} /\ m >= down /\ m >= f /\ m >= 1
    <3>1. down \in Int /\ f \in Int /\ 1 \in Int
      BY <1>2, <2>1
    <3>2. LET m == Max({down, f, 1}) IN m \in {down, f, 1} /\ m >= down /\ m >= f /\ m >= 1
      BY <3>1, MaxOfThree
    <3> QED BY <3>2
  <2> QED BY <1>2, <1>3, <2>1, <2>2
<1>5. PICK block : block = HashAt(w, dropTo)
  OBVIOUS
<1>6. PICK v : v = DropLostBranch(w, lostFrom)
  OBVIOUS
<1>7. CASE dropTo >= Height[w.tip] \/ block = None
  <2>1. v = [w EXCEPT !.divergent = {}, !.dropQueued = FALSE]
    BY <1>2, <1>3, <1>5, <1>6, <1>7 DEF DropLostBranch, Settled
  <2>2. /\ v \in Workers /\ v.tip = w.tip /\ v.window = w.window /\ v.finality = w.finality
        /\ v.writes = w.writes /\ v.dropping = w.dropping /\ v.dropQueued = FALSE /\ v.posted = w.posted
        /\ v.requests = w.requests /\ v.ready = w.ready /\ v.race = w.race /\ v.phase = w.phase
    BY <1>1, <2>1 DEF Workers
  <2> QED BY <1>6, <2>2 DEF Alive, Asking, Drop
<1>8. CASE ~(dropTo >= Height[w.tip] \/ block = None)
  <2>1. dropTo \in 1..Height[w.tip]
    BY <1>1, <1>4, <1>8, Heights
  <2>2. block \in Chain[w.tip] /\ Height[block] = dropTo /\ block \in Blocks
    BY <1>1, <1>5, <1>8, <2>1, HashAtIs, AtIs
  <2>3. PICK write : write = [kind |-> "drop", from |-> block, last |-> block, race |-> None]
    OBVIOUS
  <2>4. write \in Writes
    BY <2>2, <2>3 DEF Writes
  <2>5. PICK writes \in Seq(Writes) : writes = Append(w.writes, write)
    BY <1>1, <2>4, AppendIs
  <2>6. v = [w EXCEPT !.dropping = TRUE, !.writes = writes]
    BY <1>2, <1>3, <1>5, <1>6, <1>8, <2>3, <2>5 DEF DropLostBranch
  <2>7. /\ v \in Workers /\ v.tip = w.tip /\ v.window = w.window /\ v.finality = w.finality
        /\ v.writes = writes /\ v.dropping = TRUE /\ v.posted = w.posted
        /\ v.requests = w.requests /\ v.ready = w.ready /\ v.race = w.race /\ v.phase = w.phase
    BY <1>1, <2>6 DEF Workers
  <2>8. Alive(v)
    BY <2>7 DEF Alive, Asking
  <2>9. Drop(w, v)
    BY <1>4, <2>2, <2>3, <2>5, <2>7 DEF Drop, DropQueued
  <2> QED BY <1>6, <2>8, <2>9
<1> QED BY <1>7, <1>8

LEMMA DropKept ==
  ASSUME NEW w, Alive(w), NEW v, NEW db, OnChain(w.window, w.tip), AppendsLead(w, db), Locked(w),
         OnlyAppends(w), ~w.dropping, Drop(w, v)
  PROVE  Kept(v, db)
<1>1. w \in Workers
  BY DEF Alive
<1>2. OnChain(v.window, v.tip) /\ Locked(v) /\ v.tip = w.tip
  BY DEF Drop, DropQueued, Locked
<1>3. CASE /\ v.tip = w.tip /\ v.window = w.window /\ v.finality = w.finality /\ v.writes = w.writes
           /\ v.dropping = w.dropping /\ ~v.dropQueued /\ v.posted = w.posted
  <2>1. AppendsLead(v, db)
    BY <1>3 DEF AppendsLead, Appends, Reached
  <2>2. RewindLast(v) /\ Drops(v)
    BY <1>3 DEF RewindLast, Drops, OnlyAppends, Appends
  <2> QED BY <1>2, <2>1, <2>2 DEF Kept
<1>4. ASSUME NEW block \in Chain[w.tip], w.finality <= Height[block], DropQueued(w, v, block)
      PROVE  Kept(v, db)
  <2>1. PICK write : write = [kind |-> "drop", from |-> block, last |-> block, race |-> None]
    OBVIOUS
  <2>2. write \in Writes /\ write.kind # "append" /\ write.kind = "drop"
        /\ write.from = block /\ write.last = block
    <3>1. block \in Blocks
      BY <1>1, ChainFacts DEF Workers
    <3> QED BY <2>1, <3>1 DEF Writes
  <2>3. v.tip = w.tip /\ v.writes = Append(w.writes, write) /\ v.dropping /\ v.finality = w.finality
    BY <1>4, <2>1 DEF DropQueued
  <2>4. /\ AppendsLead(v, db)
        /\ Len(v.writes) \in DOMAIN v.writes /\ v.writes[Len(v.writes)] = write
        /\ \A i \in DOMAIN v.writes : ~Appends(v, i) => i = Len(v.writes) /\ v.writes[i] = write
    <3>1. write.kind # "append" /\ v.tip = w.tip /\ v.writes = Append(w.writes, write)
      BY <2>2, <2>3
    <3>2. AppendsLead(v, db)
      BY <1>1, <2>2, <3>1, LastWriteKept
    <3>3. Len(v.writes) \in DOMAIN v.writes /\ v.writes[Len(v.writes)] = write
      BY <1>1, <2>2, <3>1, LastWriteKept
    <3>4. \A i \in DOMAIN v.writes : ~Appends(v, i) => i = Len(v.writes) /\ v.writes[i] = write
      BY <1>1, <2>2, <3>1, LastWriteKept
    <3> QED BY <3>2, <3>3, <3>4
  <2>5. RewindLast(v)
    BY <1>4, <2>2, <2>3, <2>4 DEF RewindLast
  <2>6. Drops(v)
    BY <2>2, <2>3, <2>4 DEF Drops
  <2> QED BY <1>2, <2>4, <2>5, <2>6 DEF Kept
<1> QED BY <1>3, <1>4 DEF Drop

\* verifyPendingLock, once its check is off the queue: w still waits for the others.
LEMMA VerifyKept ==
  ASSUME NEW w, Alive(w), Kept(w, disk), Stored(disk), OnlyAppends(w), ~w.dropping
  PROVE  LET v == VerifyPendingLock(w) IN
         Alive(v) /\ Kept(v, disk) /\ v.posted = w.posted /\ v.tip = w.tip
<1>1. /\ w \in Workers /\ w.tip \in Blocks /\ w.pendingLock \in Locks \union {None} /\ Asking(w)
      /\ w.phase # "stopped"
  BY DEF Alive, Workers
<1>2. OnChain(w.window, w.tip) /\ disk.tip \in Chain[w.tip] /\ AppendsLead(w, disk) /\ Locked(w)
  BY DEF Kept, AppendsLead
<1>3. PICK lock : lock = w.pendingLock
  OBVIOUS
<1>4. PICK v : v = VerifyPendingLock(w)
  OBVIOUS
<1>5. PICK ours : ours = HashAt(w, Height[lock])
  OBVIOUS
<1>6. PICK met : met = [w EXCEPT !.pendingLock = None]
  OBVIOUS
<1>7. CASE lock = None \/ Height[lock] > Height[w.tip] \/ ours = None
  <2>1. v = w
    BY <1>3, <1>4, <1>5, <1>7 DEF VerifyPendingLock
  <2> QED BY <1>4, <2>1
<1>8. CASE ~(lock = None \/ Height[lock] > Height[w.tip] \/ ours = None)
  <2>1. lock \in Locks /\ lock \in Blocks /\ lock # None
    BY <1>1, <1>3, <1>8, TreeAssumption, ChainFacts
  <2>2. Height[lock] \in 1..Height[w.tip] /\ Height[lock] \in Nat
    BY <1>1, <1>8, <2>1, Heights
  <2>3. /\ met \in Workers /\ met.tip = w.tip /\ met.window = w.window /\ met.finality = w.finality
        /\ met.writes = w.writes /\ met.checks = w.checks /\ met.pendingLock = None
        /\ met.dropping = w.dropping /\ met.dropQueued = w.dropQueued /\ met.posted = w.posted
        /\ met.phase = w.phase /\ met.requests = w.requests /\ met.ready = w.ready /\ met.race = w.race
    BY <1>1, <1>6 DEF Workers
  <2>4. CASE ours = lock
    <3>1. v = [met EXCEPT !.finality = Height[lock]]
      BY <1>3, <1>4, <1>5, <1>6, <1>8, <2>4 DEF VerifyPendingLock
    <3>2. PICK height \in Nat : height = Height[lock]
      BY <2>2
    <3>3. v = [met EXCEPT !.finality = height]
      BY <3>1, <3>2
    <3>4. /\ v \in Workers /\ v.tip = w.tip /\ v.window = w.window /\ v.finality = height
          /\ v.writes = w.writes /\ v.checks = w.checks /\ v.pendingLock = None
          /\ v.dropping = w.dropping /\ v.dropQueued = w.dropQueued /\ v.posted = w.posted
          /\ v.phase = w.phase /\ v.requests = w.requests /\ v.ready = w.ready /\ v.race = w.race
      BY <2>3, <3>3 DEF Workers
    <3>5. Alive(v)
      BY <1>1, <3>4 DEF Alive, Asking
    <3>6. height <= Height[v.tip] /\ At(v.tip, height) \in Locks
      <4>1. lock = At(w.tip, Height[lock])
        BY <1>1, <1>2, <1>5, <1>8, <2>2, <2>4, HashAtIs
      <4> QED BY <2>1, <2>2, <3>2, <3>4, <4>1
    <3>7. AppendsLead(v, disk)
      BY <1>2, <3>4 DEF AppendsLead, Appends, Reached
    <3>8. RewindLast(v) /\ Drops(v)
      BY <3>4 DEF RewindLast, OnlyAppends, Appends, Kept, Drops
    <3>9. OnChain(v.window, v.tip) /\ Locked(v)
      BY <1>2, <3>4, <3>6 DEF Locked
    <3> QED BY <1>4, <3>4, <3>5, <3>7, <3>8, <3>9 DEF Kept
  <2>5. CASE ours # lock
    <3>1. v = DropLostBranch(met, Height[lock])
      BY <1>3, <1>4, <1>5, <1>6, <1>8, <2>5 DEF VerifyPendingLock
    <3>2. Alive(met)
      BY <1>1, <2>3 DEF Alive, Asking
    <3>3. OnChain(met.window, met.tip) /\ disk.tip \in Chain[met.tip] /\ Locked(met) /\ ~met.dropping
      BY <1>2, <2>3 DEF Locked
    <3>4. AppendsLead(met, disk) /\ OnlyAppends(met)
      BY <1>2, <2>3 DEF AppendsLead, OnlyAppends, Appends, Reached
    <3>5. Alive(v) /\ Drop(met, v)
      <4>1. PICK height \in Nat : height = Height[lock]
        BY <2>2
      <4>2. Alive(DropLostBranch(met, height)) /\ Drop(met, DropLostBranch(met, height))
        BY <3>2, <3>3, DropIs
      <4> QED BY <3>1, <4>1, <4>2
    <3>6. Kept(v, disk)
      BY <3>2, <3>3, <3>4, <3>5, DropKept
    <3>7. v.posted = met.posted /\ v.tip = met.tip
      BY <3>5 DEF Drop, DropQueued
    <3> QED BY <1>4, <2>3, <3>5, <3>6, <3>7
  <2> QED BY <2>4, <2>5
<1> QED BY <1>7, <1>8

\* One branch check.
LEMMA CheckKept ==
  ASSUME NEW w, Alive(w), Kept(w, disk), Stored(disk), w.checks # <<>>, ~w.dropping,
         NEW u, u = [w EXCEPT !.checks = Tail(@)],
         NEW v, v = IF Head(w.checks) = "verify" THEN VerifyPendingLock(u) ELSE DropLostBranch(u, 0)
  PROVE  Alive(v) /\ Kept(v, disk) /\ v.posted = w.posted /\ v.tip = w.tip
<1>1. w \in Workers /\ w.tip \in Blocks /\ Asking(w) /\ w.phase # "stopped"
  BY DEF Alive, Workers
<1>2. PICK q \in Seq({"verify", "drop"}) : q = w.checks /\ q # <<>>
  BY <1>1 DEF Workers
<1>3. PICK t \in Seq({"verify", "drop"}) : t = Tail(q)
  BY <1>2, TailIs
<1>4. PICK n \in Nat \ {0} : /\ Len(q) = n /\ DOMAIN q = 1..n /\ Head(q) = q[1] /\ DOMAIN t = 1..n - 1
                             /\ \A i \in 1..n - 1 : t[i] = q[i + 1]
  BY <1>2, <1>3, TailIs
<1>5. u = [w EXCEPT !.checks = t]
  BY <1>1, <1>2, <1>3
<1>6. /\ u \in Workers /\ u.tip = w.tip /\ u.window = w.window /\ u.finality = w.finality
      /\ u.writes = w.writes /\ u.checks = t /\ u.pendingLock = w.pendingLock
      /\ u.dropping = w.dropping /\ u.dropQueued = w.dropQueued /\ u.posted = w.posted
      /\ u.phase = w.phase /\ u.requests = w.requests /\ u.ready = w.ready /\ u.race = w.race
  BY <1>1, <1>5 DEF Workers
<1>7. Alive(u) /\ ~u.dropping
  BY <1>1, <1>6 DEF Alive, Asking
<1>8. OnlyAppends(w) /\ OnlyAppends(u)
  <2>1. SUFFICES ASSUME NEW i \in DOMAIN w.writes, ~Appends(w, i) PROVE FALSE
    BY <1>6 DEF OnlyAppends, Appends
  <2>2. w.writes[i] \in Writes
    BY <1>1 DEF Workers
  <2>3. w.writes[i].kind \in {"rewind", "drop"}
    BY <2>1, <2>2 DEF Appends, Writes
  <2> QED BY <2>1, <2>3 DEF Kept, RewindLast
<1>9. OnChain(u.window, u.tip) /\ disk.tip \in Chain[u.tip] /\ AppendsLead(u, disk) /\ Locked(u)
  BY <1>6 DEF Kept, AppendsLead, Appends, Reached, Locked
<1>10. CASE Head(w.checks) = "verify"
  <2>1. Drops(u)
    <3>1. ASSUME u.dropQueued PROVE \E i \in DOMAIN u.checks : u.checks[i] = "drop"
      <4>1. PICK i \in DOMAIN w.checks : w.checks[i] = "drop"
        BY <1>6, <3>1 DEF Kept, Drops
      <4>2. i \in 1..n /\ i # 1
        BY <1>2, <1>4, <1>10, <4>1
      <4>3. PICK k \in 1..n - 1 : k + 1 = i
        <5>1. i - 1 \in 1..n - 1 /\ (i - 1) + 1 = i
          BY <4>2
        <5> QED BY <5>1
      <4> QED BY <1>2, <1>4, <1>6, <4>1, <4>3
    <3> QED BY <1>6, <3>1 DEF Drops
  <2>2. RewindLast(u)
    BY <1>8 DEF RewindLast, OnlyAppends
  <2>3. Kept(u, disk)
    BY <1>9, <2>1, <2>2 DEF Kept
  <2>4. PICK x : x = VerifyPendingLock(u)
    OBVIOUS
  <2>5. Alive(x) /\ Kept(x, disk) /\ x.posted = u.posted /\ x.tip = u.tip
    BY <1>7, <1>8, <2>3, <2>4, VerifyKept
  <2> QED BY <1>6, <1>10, <2>4, <2>5
<1>11. CASE Head(w.checks) # "verify"
  <2>1. PICK x : x = DropLostBranch(u, 0)
    OBVIOUS
  <2>2. Alive(x) /\ Drop(u, x)
    <3>1. 0 \in Nat
      OBVIOUS
    <3> QED BY <1>7, <1>9, <2>1, <3>1, DropIs
  <2>3. Kept(x, disk)
    BY <1>7, <1>8, <1>9, <2>2, DropKept
  <2>4. x.posted = u.posted /\ x.tip = u.tip
    BY <2>2 DEF Drop, DropQueued
  <2> QED BY <1>6, <1>11, <2>1, <2>2, <2>3, <2>4
<1> QED BY <1>10, <1>11

\* noteChainLock, with nothing under way that takes the tip down.
LEMMA NotedKept ==
  ASSUME NEW w, Alive(w), NEW db, Kept(w, db), OnlyAppends(w), NEW block \in Locks
  PROVE  LET v == NoteChainLock(w, block) IN
         Alive(v) /\ Kept(v, db) /\ v.posted = w.posted /\ v.tip = w.tip
<1>1. w \in Workers /\ w.checks \in Seq({"verify", "drop"}) /\ Asking(w) /\ w.phase # "stopped"
  BY DEF Alive, Workers
<1>2. PICK v : v = NoteChainLock(w, block)
  OBVIOUS
<1>3. CASE v = w
  BY <1>2, <1>3
<1>4. CASE v # w
  <2>1. PICK checks \in Seq({"verify", "drop"}) : checks = Append(w.checks, "verify")
    <3>1. "verify" \in {"verify", "drop"}
      OBVIOUS
    <3> QED BY <1>1, <3>1, AppendIs
  <2>2. v = [w EXCEPT !.pendingLock = block, !.checks = checks]
    BY <1>2, <1>4, <2>1 DEF NoteChainLock
  <2>3. /\ v \in Workers /\ v.tip = w.tip /\ v.window = w.window /\ v.finality = w.finality
        /\ v.writes = w.writes /\ v.checks = checks
        /\ v.dropping = w.dropping /\ v.dropQueued = w.dropQueued /\ v.posted = w.posted
        /\ v.phase = w.phase /\ v.requests = w.requests /\ v.ready = w.ready /\ v.race = w.race
    BY <1>1, <2>2 DEF Workers
  <2>4. Alive(v)
    BY <1>1, <2>3 DEF Alive, Asking
  <2>5. \A i \in DOMAIN w.writes : w.writes[i].kind # "rewind"
    BY DEF OnlyAppends, Appends
  <2>6. Kept(v, db)
    BY <1>1, <2>1, <2>3, <2>5, CheckedKept
  <2> QED BY <1>2, <2>3, <2>4, <2>6
<1> QED BY <1>3, <1>4

-----------------------------------------------------------------------------
(* The actions *)

\* What a configuration leaves out for the lock to hold: see Allowed.
Careful ==
  {"headers during a rewind", "headers before a lock is checked", "lock during a rewind"}
    \subseteq Excluded

\* The worker runs or starts, and keeps what it says of chain.db.
Runs(w) == Alive(w) /\ w.posted = <<>> /\ Kept(w, disk)

\* A step that leaves chain.db alone and ends in w.
LEMMA BecomesRuns ==
  ASSUME IInv, NEW w, Runs(w), Becomes(w), UNCHANGED disk,
         peerTip' \in [Peers -> Blocks], chainLock' \in Locks \union {None}, failures' \in Nat,
         worker.phase # "stopped"
  PROVE  IInv' /\ worker' = w
<1>1. worker' = w
  <2>1. worker' = [w EXCEPT !.posted = <<>>] /\ w \in Workers /\ w.posted = <<>>
    BY DEF Becomes, Runs, Alive
  <2> QED BY <2>1 DEF Workers
<1>2. follower' = follower
  <2>1. follower' = FoldLeft(Follow, follower, <<>>)
    BY DEF Becomes, Runs
  <2> QED BY <2>1, NothingPosted
<1>3. /\ worker' \in Workers /\ worker'.posted = <<>> /\ Asking(worker') /\ worker'.phase # "stopped"
      /\ Kept(worker', disk')
  BY <1>1 DEF Runs, Alive
<1>4. Stored(disk') /\ Told(follower', disk')
  BY <1>2 DEF IInv, Followed
<1>5. IInv'
  BY <1>3, <1>4 DEF IInv, Stopped, Followed
<1> QED BY <1>1, <1>5

\* The rest of the state, which most steps leave alone.
Surroundings ==
  /\ peerTip' \in [Peers -> Blocks] /\ chainLock' \in Locks \union {None} /\ failures' \in Nat

LEMMA AsksHold ==
  ASSUME IInv, worker.phase # "stopped", NEW w, OnlyAsks(worker, w), Becomes(w), UNCHANGED disk, Surroundings
  PROVE  IInv' /\ worker'.tip = worker.tip
<1>1. Kept(worker, disk) /\ worker.posted = <<>>
  BY DEF IInv
<1>2. Alive(w) /\ SameChain(worker, w)
  BY DEF OnlyAsks
<1>3. Kept(w, disk) /\ w.posted = <<>>
  BY <1>1, <1>2, SameKept DEF SameChain
<1>4. IInv' /\ worker' = w
  BY <1>2, <1>3, BecomesRuns DEF Runs, Surroundings
<1> QED BY <1>2, <1>4 DEF SameChain

LEMMA WorkerAlive == ASSUME IInv, worker.phase # "stopped" PROVE Alive(worker) /\ Kept(worker, disk)
BY DEF IInv, Alive

LEMMA WorkerAsksItself == ASSUME IInv, worker.phase # "stopped" PROVE OnlyAsks(worker, worker)
BY WorkerAlive DEF OnlyAsks, SameChain

LEMMA AttachHolds == ASSUME IInv, Attach PROVE IInv' /\ worker'.tip = worker.tip
<1>1. worker.phase = "starting" /\ Alive(worker)
  BY WorkerAlive DEF Attach
<1>2. PICK connecting : connecting = [worker EXCEPT !.phase = "connecting"]
  OBVIOUS
<1>3. PICK syncing : syncing = [worker EXCEPT !.phase = "syncing"]
  OBVIOUS
<1>4. worker \in Workers
  BY DEF IInv
<1>5. /\ OnlyAsks(worker, connecting)
      /\ OnlyAsks(worker, syncing) /\ syncing.race = worker.race /\ syncing.ready = worker.ready
  <2>1. /\ connecting \in Workers /\ connecting.phase = "connecting" /\ connecting.requests = worker.requests
        /\ connecting.race = worker.race /\ connecting.ready = worker.ready /\ SameChain(worker, connecting)
    BY <1>2, <1>4 DEF Workers, Phases, SameChain
  <2>2. /\ syncing \in Workers /\ syncing.phase = "syncing" /\ syncing.requests = worker.requests
        /\ syncing.race = worker.race /\ syncing.ready = worker.ready /\ SameChain(worker, syncing)
    BY <1>3, <1>4 DEF Workers, Phases, SameChain
  <2> QED BY <1>1, <2>1, <2>2 DEF OnlyAsks, Alive, Asking
<1>6. Alive(syncing) /\ SameChain(worker, syncing)
  BY <1>5 DEF OnlyAsks
<1>7. PICK w : w = IF worker.ready = {} THEN connecting
                   ELSE IF worker.race = NoRace THEN StartRace(syncing)
                   ELSE Join(syncing, worker.ready)
  OBVIOUS
<1>8. OnlyAsks(worker, w)
  <2>1. CASE worker.ready = {}
    BY <1>5, <1>7, <2>1
  <2>2. CASE worker.ready # {} /\ worker.race = NoRace
    <3>1. OnlyAsks(syncing, StartRace(syncing))
      BY <1>6, StartRaceAsks
    <3> QED BY <1>6, <1>7, <2>2, <3>1, SameChainTwice
  <2>3. CASE worker.ready # {} /\ worker.race # NoRace
    <3>1. OnlyAsks(syncing, Join(syncing, worker.ready))
      BY <1>5, <1>6, <2>3, JoinAsks
    <3> QED BY <1>6, <1>7, <2>3, <3>1, SameChainTwice
  <2> QED BY <2>1, <2>2, <2>3
<1>9. Becomes(w) /\ UNCHANGED disk /\ Surroundings
  BY <1>2, <1>3, <1>7 DEF Attach, Surroundings, IInv
<1> QED BY <1>1, <1>8, <1>9, AsksHold

LEMMA CrashHolds == ASSUME IInv, Crash PROVE IInv'
<1>1. NoRace \in Races
  BY DEF NoRace, Races
<1>2. <<>> \in Windows
  <2>1. \A S : S = {} => <<>> \in [S -> Blocks]
    OBVIOUS
  <2> QED BY <2>1 DEF Windows
<1>3. Down \in Workers
  BY <1>1, <1>2, Heights DEF Down, Workers, Phases
<1>4. Down.posted = <<>> /\ Asking(Down) /\ Down.phase = "stopped"
  BY DEF Down, Asking
<1>5. worker' = Down /\ follower'.tip = 1 /\ disk' = disk
  BY DEF Crash
<1>6. failures' \in Nat /\ chainLock' \in Locks \union {None} /\ peerTip' \in [Peers -> Blocks]
  BY DEF Crash, IInv
<1> QED BY <1>3, <1>4, <1>5, <1>6 DEF IInv, Stopped, Followed

\* What Start reads from chain.db is the chain of its tip.
LEMMA LoadedIs ==
  ASSUME Stored(disk), NEW from, from = Floor(disk.tip),
         NEW loaded, loaded = [h \in {h \in DOMAIN disk.headers : from <= h /\ h <= Height[disk.tip]} |->
                                 disk.headers[h]],
         NEW window, window = IF Height[disk.tip] \in DOMAIN loaded THEN loaded
                              ELSE Recorded(loaded, {disk.tip})
  PROVE  window \in Windows /\ OnChain(window, disk.tip)
<1>1. PICK tip \in Blocks : tip = disk.tip
  BY DEF Stored
<1>2. Height[tip] \in Marks /\ from \in 1..Height[tip] /\ Marks \subseteq Nat /\ MaxHeight \in Nat
  BY <1>1, Heights, FloorIs DEF Marks
<1>3. tip = At(tip, Height[tip])
  BY <1>1, <1>2, AtBelow, ChainFacts
<1>4. /\ DOMAIN loaded = {h \in DOMAIN disk.headers : from <= h /\ h <= Height[tip]}
      /\ \A h \in DOMAIN loaded : loaded[h] = disk.headers[h]
  BY <1>1
<1>5. \A h \in DOMAIN loaded : h \in 1..Height[tip] /\ from <= h /\ loaded[h] = At(tip, h) /\ h \in Marks
  <2>1. SUFFICES ASSUME NEW h \in DOMAIN loaded
                 PROVE  h \in 1..Height[tip] /\ from <= h /\ loaded[h] = At(tip, h) /\ h \in Marks
    OBVIOUS
  <2>2. h \in DOMAIN disk.headers /\ from <= h /\ h <= Height[tip] /\ loaded[h] = disk.headers[h]
    BY <1>4
  <2>3. h \in 2..Height[tip] /\ disk.headers[h] = At(tip, h)
    BY <1>1, <2>2 DEF Stored
  <2> QED BY <1>2, <2>2, <2>3 DEF Marks
<1>6. /\ DOMAIN window \subseteq DOMAIN loaded \union {Height[tip]}
      /\ window = [h \in DOMAIN window |-> window[h]]
      /\ \A h \in DOMAIN window : window[h] = At(tip, h)
  <2>1. CASE Height[tip] \in DOMAIN loaded
    BY <1>1, <1>5, <2>1
  <2>2. CASE Height[tip] \notin DOMAIN loaded
    <3>1. window = [h \in DOMAIN loaded \union {Height[b] : b \in {tip}} |->
                      IF \E b \in {tip} : Height[b] = h THEN CHOOSE b \in {tip} : Height[b] = h ELSE loaded[h]]
      BY <1>1, <2>2 DEF Recorded
    <3>2. DOMAIN window = DOMAIN loaded \union {Height[tip]}
      BY <3>1
    <3>3. ASSUME NEW h \in DOMAIN window PROVE window[h] = At(tip, h)
      <4>1. CASE h = Height[tip]
        <5>1. window[h] = CHOOSE b \in {tip} : Height[b] = h
          BY <3>1, <3>2, <4>1
        <5>2. (CHOOSE b \in {tip} : Height[b] = h) = tip
          BY <4>1
        <5> QED BY <1>3, <4>1, <5>1, <5>2
      <4>2. CASE h # Height[tip]
        <5>1. h \in DOMAIN loaded
          BY <3>2, <4>2
        <5>2. window[h] = loaded[h]
          BY <3>1, <3>2, <4>2
        <5> QED BY <1>5, <5>1, <5>2
      <4> QED BY <4>1, <4>2
    <3>4. window = [h \in DOMAIN window |-> window[h]]
      BY <3>1
    <3> QED BY <3>2, <3>3, <3>4
  <2> QED BY <2>1, <2>2
<1>7. \A h \in DOMAIN window : h \in Marks /\ from <= h /\ h <= Height[tip] /\ h \in 1..Height[tip]
  <2>1. SUFFICES ASSUME NEW h \in DOMAIN window
                 PROVE  h \in Marks /\ from <= h /\ h <= Height[tip] /\ h \in 1..Height[tip]
    OBVIOUS
  <2>2. CASE h \in DOMAIN loaded
    <3>1. h \in 1..Height[tip] /\ from <= h /\ h \in Marks
      BY <1>5, <2>2
    <3> QED BY <1>2, <3>1
  <2>3. CASE h = Height[tip]
    BY <1>2, <2>3
  <2> QED BY <1>6, <2>2, <2>3
<1>8. \A h \in DOMAIN window : window[h] \in Blocks
  <2>1. SUFFICES ASSUME NEW h \in DOMAIN window PROVE window[h] \in Blocks
    OBVIOUS
  <2>2. h \in 1..Height[tip] /\ window[h] = At(tip, h)
    BY <1>6, <1>7
  <2>3. At(tip, h) \in Blocks
    BY <2>2, AtIs
  <2> QED BY <2>2, <2>3
<1>9. window \in Windows
  <2>1. PICK S \in SUBSET Marks : S = DOMAIN window
    BY <1>7
  <2>2. window \in [S -> Blocks]
    BY <1>6, <1>8, <2>1
  <2> QED BY <2>2 DEF Windows
<1>10. ASSUME NEW h \in DOMAIN window, NEW k \in h..Height[tip] PROVE k \in DOMAIN window
  <2>1. from \in Nat /\ Height[tip] \in Nat /\ h \in Nat /\ from <= h /\ h <= Height[tip]
    <3>1. from \in 1..Height[tip] /\ Height[tip] \in Nat
      BY <1>2
    <3>2. h \in 1..Height[tip] /\ from <= h /\ h <= Height[tip]
      BY <1>7
    <3> QED BY <3>1, <3>2
  <2>2. k = Height[tip] \/ k \in h..Height[tip] - 1
    BY <2>1
  <2>3. Height[tip] \in DOMAIN window /\ DOMAIN loaded \subseteq DOMAIN window
    <3>1. CASE Height[tip] \in DOMAIN loaded
      BY <1>1, <3>1
    <3>2. CASE Height[tip] \notin DOMAIN loaded
      BY <1>1, <3>2 DEF Recorded
    <3> QED BY <3>1, <3>2
  <2>4. CASE k = Height[tip]
    BY <2>3, <2>4
  <2>5. CASE k \in h..Height[tip] - 1
    <3>1. h # Height[tip] /\ k <= Height[tip] /\ from <= k
      BY <2>1, <2>5
    <3>2. h \in DOMAIN loaded
      BY <1>6, <3>1
    <3>3. h \in 2..Height[tip]
      BY <1>1, <1>4, <3>2 DEF Stored
    <3>4. k \in 2..Height[tip]
      BY <2>1, <2>5, <3>3
    <3>5. k \in DOMAIN disk.headers
      BY <1>1, <3>4 DEF Stored
    <3> QED BY <1>4, <2>3, <3>1, <3>5
  <2> QED BY <2>2, <2>4, <2>5
<1>11. \A h \in DOMAIN window : \A k \in h..Height[tip] : k \in DOMAIN window
  BY <1>10
<1> QED BY <1>1, <1>6, <1>7, <1>9, <1>11 DEF OnChain

LEMMA StartHolds == ASSUME IInv, Start PROVE IInv'
<1>1. PICK from : from = Floor(disk.tip)
  OBVIOUS
<1>2. PICK loaded : loaded = [h \in {h \in DOMAIN disk.headers : from <= h /\ h <= Height[disk.tip]} |->
                                disk.headers[h]]
  OBVIOUS
<1>3. PICK window : window = IF Height[disk.tip] \in DOMAIN loaded THEN loaded
                             ELSE Recorded(loaded, {disk.tip})
  OBVIOUS
<1>4. Stored(disk) /\ disk.tip \in Blocks
  BY DEF IInv, Stored
<1>5. window \in Windows /\ OnChain(window, disk.tip)
  BY <1>1, <1>2, <1>3, <1>4, LoadedIs
<1>6. PICK checks \in Seq({"verify", "drop"}) : checks = <<"verify">>
  <2>1. <<"verify">> \in Seq({"verify", "drop"})
    OBVIOUS
  <2> QED BY <2>1
<1>7. PICK none \in Races :
        none = NoRace
  BY DEF NoRace, Races
<1>8. worker' = [phase |-> "starting", ready |-> {}, tip |-> disk.tip, window |-> window,
                 finality |-> 0, pendingLock |-> chainLock,
                 askedFrom |-> {}, race |-> none, requests |-> {}, silent |-> {}, announced |-> {},
                 divergent |-> {}, dropQueued |-> FALSE, dropping |-> FALSE, quiet |-> FALSE,
                 writes |-> <<>>, checks |-> checks, posted |-> <<>>]
  BY <1>1, <1>2, <1>3, <1>6, <1>7 DEF Start, Down
<1>9. chainLock \in Locks \union {None}
  BY DEF IInv
<1>10. worker' \in Workers /\ worker'.phase = "starting" /\ worker'.posted = <<>> /\ Asking(worker')
  BY <1>4, <1>5, <1>7, <1>8, <1>9 DEF Workers, Phases, Asking
<1>11. /\ worker'.writes = <<>> /\ worker'.tip = disk.tip /\ worker'.window = window
       /\ worker'.finality = 0 /\ worker'.dropping = FALSE /\ worker'.dropQueued = FALSE
  BY <1>8
<1>12. Kept(worker', disk)
  <2>1. Locked(worker') /\ Drops(worker')
    BY <1>11 DEF Locked, Drops
  <2> QED BY <1>4, <1>5, <1>11, <2>1, NothingQueued
<1>13. Told(follower', disk)
  <2>1. PICK tip \in Blocks : tip = disk.tip
    BY <1>4
  <2>2. PICK headers : headers = disk.headers /\ DOMAIN headers = 2..Height[tip]
                       /\ \A h \in DOMAIN headers : headers[h] = At(tip, h)
    BY <1>4, <2>1 DEF Stored
  <2>3. PICK hashes : hashes = Recorded(headers, {Genesis, tip})
    OBVIOUS
  <2>4. follower' = [tip |-> Height[tip], hashes |-> hashes]
    BY <2>1, <2>2, <2>3 DEF Start
  <2>5. DOMAIN hashes = DOMAIN headers \union {Height[b] : b \in {Genesis, tip}}
    BY <2>3 DEF Recorded
  <2>6. Height[Genesis] = 1 /\ Genesis \in Chain[tip] /\ tip \in Chain[tip] /\ Height[tip] \in Nat
    BY Heights, ChainFacts
  <2>7. ASSUME NEW h \in 1..Height[tip] PROVE h \in DOMAIN hashes /\ hashes[h] = At(tip, h)
    <3>1. h = Height[Genesis] \/ h \in 2..Height[tip]
      BY <2>6
    <3>2. h \in DOMAIN hashes
      BY <2>2, <2>5, <3>1
    <3>3. hashes[h] = IF \E b \in {Genesis, tip} : Height[b] = h
                      THEN CHOOSE b \in {Genesis, tip} : Height[b] = h ELSE headers[h]
      BY <2>3, <2>5, <3>2 DEF Recorded
    <3>4. CASE \E b \in {Genesis, tip} : Height[b] = h
      <4>1. PICK x : x = CHOOSE b \in {Genesis, tip} : Height[b] = h
        OBVIOUS
      <4>2. x \in {Genesis, tip} /\ Height[x] = h
        BY <3>4, <4>1
      <4>3. x \in Chain[tip] /\ Height[x] = h
        BY <2>6, <4>2
      <4>4. x = At(tip, h)
        BY <4>3, AtIs
      <4> QED BY <3>2, <3>3, <3>4, <4>1, <4>4
    <3>5. CASE ~\E b \in {Genesis, tip} : Height[b] = h
      BY <2>2, <3>1, <3>2, <3>3, <3>5
    <3> QED BY <3>4, <3>5
  <2> QED BY <2>1, <2>4, <2>7 DEF Told
<1>14. UNCHANGED <<disk, peerTip, chainLock, failures>>
  BY DEF Start
<1> QED BY <1>4, <1>10, <1>12, <1>13, <1>14 DEF IInv, Stopped, Followed

LEMMA JustBecomes ==
  ASSUME NEW w, w \in Workers, w.posted = <<>>, worker' = w, follower' = follower
  PROVE  Becomes(w)
<1>1. w = [w EXCEPT !.posted = <<>>]
  BY DEF Workers
<1>2. follower' = FoldLeft(Follow, follower, w.posted)
  BY NothingPosted
<1> QED BY <1>1, <1>2 DEF Becomes

LEMMA PeerReadyHolds == ASSUME IInv, NEW p \in Peers, NEW late, PeerReady(p, late)
  PROVE  IInv' /\ worker'.tip = worker.tip
<1>1. worker.phase # "stopped" /\ Alive(worker) /\ worker \in Workers /\ Asking(worker)
  BY WorkerAlive DEF PeerReady, Alive
<1>2. PICK ready \in SUBSET Peers : ready = worker.ready \union {p}
  BY <1>1 DEF Workers
<1>3. PICK joined : joined = [worker EXCEPT !.ready = ready]
  OBVIOUS
<1>4. /\ joined \in Workers /\ joined.ready = ready /\ joined.requests = worker.requests
      /\ joined.race = worker.race /\ joined.phase = worker.phase /\ SameChain(worker, joined)
  BY <1>1, <1>3 DEF Workers, SameChain
<1>5. OnlyAsks(worker, joined)
  BY <1>1, <1>2, <1>4 DEF OnlyAsks, Alive, Asking
<1>6. Surroundings
  BY DEF PeerReady, Surroundings, IInv
<1>7. CASE worker.phase = "starting"
  <2>1. worker' = joined /\ follower' = follower /\ disk' = disk
    BY <1>2, <1>3, <1>7 DEF PeerReady
  <2>2. joined.posted = <<>>
    BY <1>4 DEF IInv, SameChain
  <2>3. Becomes(joined)
    BY <1>4, <2>1, <2>2, JustBecomes
  <2> QED BY <1>1, <1>5, <1>6, <2>1, <2>3, AsksHold
<1>8. CASE worker.phase # "starting"
  <2>1. PICK w : w = PeerReadied(joined, p, late)
    OBVIOUS
  <2>2. Becomes(w) /\ disk' = disk
    BY <1>2, <1>3, <1>8, <2>1 DEF PeerReady, Handler
  <2>3. OnlyAsks(joined, w)
    BY <1>2, <1>4, <1>5, <2>1, PeerReadiedAsks DEF OnlyAsks
  <2>4. OnlyAsks(worker, w)
    BY <1>4, <2>3, SameChainTwice
  <2> QED BY <1>1, <1>6, <2>2, <2>4, AsksHold
<1> QED BY <1>7, <1>8

LEMMA PeerDisconnectsHolds == ASSUME IInv, NEW p \in Peers, PeerDisconnects(p)
  PROVE  IInv' /\ worker'.tip = worker.tip
<1>1. worker.phase # "stopped"
  <2>1. worker.phase = "starting" \/ Handler(PeerGone([worker EXCEPT !.ready = @ \ {p},
                             !.requests = {r \in @ : r.peer # p}], p))
    BY DEF PeerDisconnects
  <2> QED BY <2>1 DEF Handler
<1>2. Alive(worker) /\ worker \in Workers /\ Asking(worker)
  BY <1>1, WorkerAlive DEF Alive
<1>3. PICK ready \in SUBSET Peers : ready = worker.ready \ {p}
  BY <1>2 DEF Workers
<1>4. PICK requests \in SUBSET [peer : Peers, locator : SUBSET Blocks] :
        requests = {r \in worker.requests : r.peer # p}
  BY <1>2 DEF Workers
<1>5. PICK left : left = [worker EXCEPT !.ready = ready, !.requests = requests]
  OBVIOUS
<1>6. /\ left \in Workers /\ left.ready = ready /\ left.requests = requests
      /\ left.race = worker.race /\ left.phase = worker.phase /\ SameChain(worker, left)
  BY <1>2, <1>5 DEF Workers, SameChain
<1>7. \A r \in requests : r.peer \in ready /\ r.locator # {}
  BY <1>2, <1>3, <1>4 DEF Asking
<1>8. OnlyAsks(worker, left)
  BY <1>1, <1>2, <1>6, <1>7 DEF OnlyAsks, Alive, Asking
<1>9. Surroundings
  BY DEF PeerDisconnects, Surroundings, IInv
<1>10. left = [worker EXCEPT !.ready = @ \ {p}, !.requests = {r \in @ : r.peer # p}]
  BY <1>2, <1>3, <1>4, <1>5 DEF Workers
<1>11. CASE worker.phase = "starting"
  <2>1. worker' = left /\ follower' = follower /\ disk' = disk
    BY <1>10, <1>11 DEF PeerDisconnects
  <2>2. left.posted = <<>>
    BY <1>6 DEF IInv, SameChain
  <2>3. Becomes(left)
    BY <1>6, <2>1, <2>2, JustBecomes
  <2> QED BY <1>1, <1>8, <1>9, <2>1, <2>3, AsksHold
<1>12. CASE worker.phase # "starting"
  <2>1. PICK w : w = PeerGone(left, p)
    OBVIOUS
  <2>2. Becomes(w) /\ disk' = disk
    BY <1>10, <1>12, <2>1 DEF PeerDisconnects, Handler
  <2>3. OnlyAsks(left, w)
    BY <1>8, <2>1, PeerGoneAsks DEF OnlyAsks
  <2>4. OnlyAsks(worker, w)
    BY <1>6, <2>3, SameChainTwice
  <2> QED BY <1>1, <1>9, <2>2, <2>4, AsksHold
<1> QED BY <1>11, <1>12

\* The timers: the race's, the ten minutes without a header, the poll of a still tip.
LEMMA TimersHold ==
  ASSUME IInv, RaceTimesOut \/ GoesQuiet \/ PollsStalledTip
  PROVE  IInv' /\ worker'.tip = worker.tip
<1>1. worker.phase # "stopped"
  BY DEF RaceTimesOut, GoesQuiet, PollsStalledTip, Handler
<1>2. Alive(worker) /\ worker \in Workers /\ Asking(worker)
  BY <1>1, WorkerAlive DEF Alive
<1>3. Surroundings /\ disk' = disk
  BY DEF RaceTimesOut, GoesQuiet, PollsStalledTip, Handler, Surroundings, IInv
<1>4. CASE RaceTimesOut
  <2>1. PICK silent \in SUBSET Peers : silent = worker.silent \union worker.race.racers
    BY <1>2 DEF Workers, Races
  <2>2. PICK timed : timed = [worker EXCEPT !.silent = silent]
    OBVIOUS
  <2>3. timed = [worker EXCEPT !.silent = @ \union worker.race.racers]
    BY <1>2, <2>1, <2>2 DEF Workers
  <2>4. /\ timed \in Workers /\ timed.ready = worker.ready /\ timed.requests = worker.requests
        /\ timed.race = worker.race /\ timed.phase = worker.phase /\ SameChain(worker, timed)
    BY <1>2, <2>2 DEF Workers, SameChain
  <2>5. Alive(timed)
    BY <1>1, <1>2, <2>4 DEF Alive, Asking
  <2>6. PICK w : w = Restart(timed)
    OBVIOUS
  <2>7. Becomes(w)
    BY <1>4, <2>3, <2>6 DEF RaceTimesOut, Handler
  <2>8. OnlyAsks(worker, w)
    BY <2>4, <2>5, <2>6, RestartAsks, SameChainTwice
  <2> QED BY <1>1, <1>3, <2>7, <2>8, AsksHold
<1>5. CASE GoesQuiet
  <2>1. PICK w : w = [worker EXCEPT !.quiet = TRUE]
    OBVIOUS
  <2>2. Becomes(w)
    BY <1>5, <2>1 DEF GoesQuiet, Handler
  <2>3. /\ w \in Workers /\ w.ready = worker.ready /\ w.requests = worker.requests
        /\ w.race = worker.race /\ w.phase = worker.phase /\ SameChain(worker, w)
    BY <1>2, <2>1 DEF Workers, SameChain
  <2>4. OnlyAsks(worker, w)
    BY <1>1, <1>2, <2>3 DEF OnlyAsks, Alive, Asking
  <2> QED BY <1>1, <1>3, <2>2, <2>4, AsksHold
<1>6. CASE PollsStalledTip
  <2>1. PICK w : w = Ask(worker, worker.ready)
    OBVIOUS
  <2>2. Becomes(w)
    BY <1>6, <2>1 DEF PollsStalledTip, Handler
  <2>3. OnlyAsks(worker, w)
    BY <1>2, <2>1, AskAsks
  <2> QED BY <1>1, <1>3, <2>2, <2>3, AsksHold
<1> QED BY <1>4, <1>5, <1>6

LEMMA PeerTipMoves ==
  ASSUME IInv, NEW p \in Peers, NEW b \in Blocks, peerTip' = [peerTip EXCEPT ![p] = b]
  PROVE  peerTip' \in [Peers -> Blocks]
BY DEF IInv

LEMMA BlockAnnouncedHolds ==
  ASSUME IInv, NEW p \in Peers, NEW b \in Blocks, BlockAnnounced(p, b)
  PROVE  IInv' /\ worker'.tip = worker.tip
<1>1. worker.phase # "stopped" /\ p \in worker.ready
  BY DEF BlockAnnounced, Handler
<1>2. Alive(worker)
  BY <1>1, WorkerAlive
<1>3. Surroundings /\ disk' = disk
  BY PeerTipMoves DEF BlockAnnounced, Handler, Surroundings, IInv
<1>4. PICK w : w = PeerInv(worker, p, b)
  OBVIOUS
<1>5. Becomes(w)
  BY <1>4 DEF BlockAnnounced, Handler
<1>6. OnlyAsks(worker, w)
  BY <1>1, <1>2, <1>4, PeerInvAsks
<1> QED BY <1>1, <1>3, <1>5, <1>6, AsksHold

LEMMA PeerMovesHolds ==
  ASSUME IInv, NEW p \in Peers, NEW b \in Blocks, PeerMoves(p, b)
  PROVE  IInv' /\ worker'.tip = worker.tip
<1>1. peerTip' \in [Peers -> Blocks] /\ UNCHANGED <<worker, follower, disk, chainLock, failures>>
  BY PeerTipMoves DEF PeerMoves
<1> QED BY <1>1 DEF IInv, Stopped, Followed

\* getheaders: what a peer answers is a path of the tree, or starts below it.
LEMMA AnswersIs ==
  ASSUME IInv, NEW r \in worker.requests
  PROVE  /\ r.peer \in Peers /\ Answers(r).last \in Blocks
         /\ Answers(r).after = Origin \/ Answers(r).after \in Chain[Answers(r).last]
<1>1. r.peer \in Peers /\ r.locator \in SUBSET Blocks
  BY DEF IInv, Workers
<1>2. PICK theirs \in Blocks : theirs = peerTip[r.peer]
  BY <1>1 DEF IInv
<1>3. PICK common : common = Chain[theirs] \intersect r.locator
  OBVIOUS
<1>4. common \in SUBSET Blocks /\ common \subseteq Chain[theirs]
  BY <1>1, <1>3
<1>5. PICK after : after = IF common = {} THEN Origin
                           ELSE CHOOSE b \in common : \A x \in common : Height[x] <= Height[b]
  OBVIOUS
<1>6. (after = Origin /\ Height[Origin] = 0) \/ after \in Chain[theirs]
  <2>1. CASE common = {}
    BY <1>5, <2>1, HeightOfParent
  <2>2. CASE common # {}
    <3>1. \E b \in common : \A x \in common : Height[x] <= Height[b]
      BY <1>4, <2>2, Highest
    <3>2. after \in common
      BY <1>5, <2>2, <3>1
    <3> QED BY <1>4, <3>2
  <2> QED BY <2>1, <2>2
<1>7. PICK last : last = IF after = theirs THEN theirs
                         ELSE At(theirs, Min({Height[theirs], Height[after] + MAX_HEADERS}))
  OBVIOUS
<1>8. Answers(r) = [after |-> after, last |-> last]
  BY <1>2, <1>3, <1>5, <1>7 DEF Answers
<1>9. Answers(r).after = after /\ Answers(r).last = last
  BY <1>8
<1>10. last \in Blocks /\ (after = Origin \/ after \in Chain[last])
  <2>1. CASE after = theirs
    BY <1>2, <1>7, <2>1, ChainFacts
  <2>2. CASE after # theirs
    <3>1. Height[after] \in Nat /\ Height[theirs] \in Nat \ {0} /\ MAX_HEADERS \in Nat \ {0}
          /\ Height[after] <= Height[theirs]
      <4>1. Height[theirs] \in Nat \ {0} /\ MAX_HEADERS \in Nat \ {0}
        BY Heights, TreeAssumption
      <4>2. CASE after = Origin /\ Height[Origin] = 0
        BY <4>1, <4>2
      <4>3. CASE after \in Chain[theirs]
        BY <4>1, <4>3, AtBelow
      <4> QED BY <1>6, <4>1, <4>2, <4>3
    <3>2. PICK h \in 1..Height[theirs] :
            h = Min({Height[theirs], Height[after] + MAX_HEADERS}) /\ Height[after] <= h
      <4>1. PICK m : m = Height[after] + MAX_HEADERS
        OBVIOUS
      <4>2. m \in Int /\ m >= 1 /\ Height[after] <= m /\ Height[theirs] \in Int
        BY <3>1, <4>1
      <4>3. Min({Height[theirs], m}) = IF Height[theirs] <= m THEN Height[theirs] ELSE m
        BY <4>2, MinOfTwo
      <4> QED BY <3>1, <4>1, <4>2, <4>3
    <3>3. last = At(theirs, h)
      BY <1>7, <2>2, <3>2
    <3>4. last \in Chain[theirs] /\ Height[last] = h /\ last \in Blocks
      BY <3>3, AtIs
    <3>5. after \in Chain[theirs] => after \in Chain[last]
      BY <3>2, <3>4, ChainFacts
    <3> QED BY <1>6, <3>4, <3>5
  <2> QED BY <2>1, <2>2
<1> QED BY <1>1, <1>9, <1>10

LEMMA MeetingPointIs ==
  ASSUME NEW a \in Blocks, NEW b \in Blocks
  PROVE  MeetingPoint(a, b) \in Chain[b]
<1>1. PICK common : common = Chain[a] \intersect Chain[b]
  OBVIOUS
<1>2. common \in SUBSET Blocks /\ Genesis \in common
  BY <1>1, ChainFacts
<1>3. \E x \in common : \A y \in common : Height[y] <= Height[x]
  BY <1>2, Highest
<1>4. MeetingPoint(a, b) = CHOOSE x \in common : \A y \in common : Height[y] <= Height[x]
  BY <1>1 DEF MeetingPoint
<1>5. MeetingPoint(a, b) \in common
  BY <1>3, <1>4
<1> QED BY <1>1, <1>5

\* Headers a configuration allows: nothing under way takes the tip down, and no
\* check of the branch is due.
LEMMA HeadersHold ==
  ASSUME Careful, IInv, HeadersAllowed, Idle, worker.phase # "stopped",
         NEW u, OnlyAsks(worker, u), NEW peer \in Peers,
         NEW last \in Blocks, NEW after, after = Origin \/ after \in Chain[last],
         Becomes(PeerHeaders(u, peer, after, last)), UNCHANGED disk, Surroundings
  PROVE  IInv' /\ ChainWork[worker.tip] <= ChainWork[worker'.tip]
<1>1. worker \in Workers /\ worker.posted = <<>> /\ Kept(worker, disk) /\ disk.tip \in Blocks
  BY DEF IInv, Stored
<1>2. ~RewindPending /\ (worker.writes # <<>> => worker.pendingLock = None)
  BY DEF Careful, HeadersAllowed, Allowed, LockUnchecked
<1>3. OnlyAppends(worker)
  BY <1>2 DEF RewindPending, OnlyAppends, Appends
<1>4. ~worker.dropping
  <2>1. \A i \in DOMAIN worker.writes : worker.writes[i].kind = "append"
    BY <1>3 DEF OnlyAppends, Appends
  <2> QED BY <1>1, <2>1 DEF Kept, Drops
<1>5. worker.checks = <<>>
  BY <1>4 DEF Idle
<1>6. Alive(u) /\ SameChain(worker, u)
  BY DEF OnlyAsks
<1>7. Kept(u, disk) /\ OnlyAppends(u) /\ u.checks = <<>> /\ (u.writes # <<>> => u.pendingLock = None)
      /\ u.posted = <<>> /\ OnChain(u.window, u.tip)
  <2>1. Kept(u, disk)
    BY <1>1, <1>6, SameKept
  <2> QED BY <1>1, <1>2, <1>3, <1>5, <1>6, <2>1 DEF SameChain, OnlyAppends, Appends, Kept
<1>8. PICK w : w = PeerHeaders(u, peer, after, last)
  OBVIOUS
<1>9. Heard(u, w)
  BY <1>6, <1>7, <1>8, PeerHeadersAreHeard
<1>10. Kept(w, disk)
  BY <1>1, <1>6, <1>7, <1>9, HeardKept
<1>11. Alive(w) /\ w.posted = <<>>
  BY <1>7, <1>9 DEF Heard, SameChain, Commits, Rewinds, Votes
<1>12. Becomes(w)
  BY <1>8
<1>13. IInv' /\ worker' = w
  BY <1>10, <1>11, <1>12, BecomesRuns DEF Runs, Surroundings
<1>14. w.tip \in Blocks /\ u.tip \in Chain[w.tip] /\ u.tip = worker.tip
  <2>1. u.tip = worker.tip /\ u.tip \in Blocks
    BY <1>6 DEF Alive, Workers, SameChain
  <2>2. w.tip = u.tip \/ (w.tip \in Blocks /\ u.tip \in Chain[w.tip])
    <3>1. CASE Commits(u, w)
      <4>1. PICK b \in Blocks : u.tip \in Chain[b] /\ w.tip = b
        BY <3>1 DEF Commits
      <4> QED BY <4>1
    <3>2. SameChain(u, w) \/ Rewinds(u, w) \/ Votes(u, w) => w.tip = u.tip
      <4>1. SameChain(u, w) => w.tip = u.tip
        BY DEF SameChain
      <4>2. Rewinds(u, w) => w.tip = u.tip
        BY DEF Rewinds
      <4>3. Votes(u, w) => w.tip = u.tip
        BY DEF Votes
      <4> QED BY <4>1, <4>2, <4>3
    <3>3. \/ Commits(u, w)
          \/ SameChain(u, w) \/ Rewinds(u, w) \/ Votes(u, w)
      BY <1>9 DEF Heard
    <3> QED BY <3>1, <3>2, <3>3
  <2> QED BY <2>1, <2>2, ChainFacts
<1>15. ChainWork[worker.tip] <= ChainWork[w.tip]
  <2>1. /\ ChainWork[u.tip] \in Nat /\ WorkOf(Path(u.tip, w.tip)) \in Nat
        /\ ChainWork[w.tip] = ChainWork[u.tip] + WorkOf(Path(u.tip, w.tip))
    BY <1>14, WorkAdds
  <2>2. ChainWork[u.tip] <= ChainWork[w.tip]
    BY <2>1
  <2> QED BY <1>14, <2>2
<1> QED BY <1>13, <1>15

LEMMA AnswerArrivesHolds ==
  ASSUME Careful, IInv, HeadersAllowed, NEW r \in worker.requests, AnswerArrives(r)
  PROVE  IInv' /\ ChainWork[worker.tip] <= ChainWork[worker'.tip]
<1>1. worker.phase # "stopped" /\ Idle /\ disk' = disk
  BY DEF AnswerArrives, Handler
<1>2. worker \in Workers /\ Asking(worker)
  BY DEF IInv
<1>3. PICK requests \in SUBSET [peer : Peers, locator : SUBSET Blocks] : requests = worker.requests \ {r}
  BY <1>2 DEF Workers
<1>4. PICK u : u = [worker EXCEPT !.requests = requests]
  OBVIOUS
<1>5. u = [worker EXCEPT !.requests = @ \ {r}]
  BY <1>2, <1>3, <1>4 DEF Workers
<1>6. /\ u \in Workers /\ u.ready = worker.ready /\ u.requests = requests
      /\ u.race = worker.race /\ u.phase = worker.phase /\ SameChain(worker, u)
  BY <1>2, <1>4 DEF Workers, SameChain
<1>7. OnlyAsks(worker, u)
  BY <1>1, <1>2, <1>3, <1>6 DEF OnlyAsks, Alive, Asking
<1>8. PICK answer : answer = Answers(r)
  OBVIOUS
<1>9. /\ r.peer \in Peers /\ answer.last \in Blocks
      /\ answer.after = Origin \/ answer.after \in Chain[answer.last]
  BY <1>8, AnswersIs
<1>10. Becomes(PeerHeaders(u, r.peer, answer.after, answer.last))
  BY <1>5, <1>8 DEF AnswerArrives, Handler
<1>11. Surroundings
  BY DEF AnswerArrives, Surroundings, IInv
<1> QED BY <1>1, <1>7, <1>9, <1>10, <1>11, HeadersHold

LEMMA HeadersPushedHolds ==
  ASSUME Careful, IInv, HeadersAllowed, NEW p \in Peers, NEW b \in Blocks, HeadersPushed(p, b)
  PROVE  IInv' /\ ChainWork[worker.tip] <= ChainWork[worker'.tip]
<1>1. worker.phase # "stopped" /\ Idle /\ disk' = disk
  BY DEF HeadersPushed, Handler
<1>2. OnlyAsks(worker, worker)
  BY <1>1, WorkerAsksItself
<1>3. PICK after : after = MeetingPoint(peerTip[p], b)
  OBVIOUS
<1>4. after \in Chain[b]
  BY <1>3, MeetingPointIs DEF IInv
<1>5. Becomes(PeerHeaders(worker, p, after, b))
  BY <1>3 DEF HeadersPushed, Handler
<1>6. Surroundings
  BY PeerTipMoves DEF HeadersPushed, Surroundings, IInv
<1> QED BY <1>1, <1>2, <1>4, <1>5, <1>6, HeadersHold

LEMMA ClsigHolds ==
  ASSUME Careful, IInv, NEW b \in Locks, Allowed("lock during a rewind", RewindPending), Clsig(b)
  PROVE  IInv' /\ worker'.tip = worker.tip
<1>1. Surroundings /\ disk' = disk
  BY DEF Clsig, Surroundings, IInv
<1>2. CASE worker.phase = "stopped"
  <2>1. worker' = worker /\ follower' = follower
    BY <1>2 DEF Clsig
  <2> QED BY <1>1, <1>2, <2>1 DEF IInv, Stopped, Followed, Surroundings
<1>3. CASE worker.phase # "stopped"
  <2>1. Alive(worker) /\ Kept(worker, disk) /\ worker.posted = <<>>
    BY <1>3, WorkerAlive DEF IInv
  <2>2. OnlyAppends(worker)
    BY DEF Careful, Allowed, RewindPending, OnlyAppends, Appends
  <2>3. PICK w : w = NoteChainLock(worker, b)
    OBVIOUS
  <2>4. Alive(w) /\ Kept(w, disk) /\ w.posted = worker.posted /\ w.tip = worker.tip
    BY <2>1, <2>2, <2>3, NotedKept
  <2>5. Becomes(w)
    BY <1>3, <2>3 DEF Clsig
  <2>6. IInv' /\ worker' = w
    BY <1>1, <1>3, <2>1, <2>4, <2>5, BecomesRuns DEF Runs, Surroundings
  <2> QED BY <2>4, <2>6
<1> QED BY <1>2, <1>3

LEMMA BranchCheckHolds ==
  ASSUME IInv, BranchCheck PROVE IInv' /\ worker'.tip = worker.tip
<1>1. worker.checks # <<>> /\ ~worker.dropping /\ disk' = disk
  BY DEF BranchCheck
<1>2. worker.phase # "stopped"
  BY <1>1 DEF IInv, Stopped, Down
<1>3. Alive(worker) /\ Kept(worker, disk) /\ worker.posted = <<>> /\ Stored(disk)
  BY <1>2, WorkerAlive DEF IInv
<1>4. PICK u : u = [worker EXCEPT !.checks = Tail(@)]
  OBVIOUS
<1>5. PICK w : w = IF Head(worker.checks) = "verify" THEN VerifyPendingLock(u) ELSE DropLostBranch(u, 0)
  OBVIOUS
<1>6. Alive(w) /\ Kept(w, disk) /\ w.posted = worker.posted /\ w.tip = worker.tip
  BY <1>1, <1>3, <1>4, <1>5, CheckKept
<1>7. Becomes(w)
  BY <1>4, <1>5 DEF BranchCheck
<1>8. Surroundings
  BY DEF BranchCheck, Surroundings, IInv
<1>9. IInv' /\ worker' = w
  BY <1>1, <1>2, <1>3, <1>6, <1>7, <1>8, BecomesRuns DEF Runs, Surroundings
<1> QED BY <1>6, <1>9

LEMMA WriteLandsHolds ==
  ASSUME IInv, WriteLands
  PROVE  IInv' /\ (worker.dropping \/ ChainWork[worker.tip] <= ChainWork[worker'.tip])
<1>1. worker.writes # <<>>
  BY DEF WriteLands
<1>2. worker.phase # "stopped"
  BY <1>1 DEF IInv, Stopped, Down
<1>3. Alive(worker) /\ Kept(worker, disk) /\ worker.posted = <<>> /\ Stored(disk) /\ Told(follower, disk)
  BY <1>2, WorkerAlive DEF IInv, Followed
<1>4. PICK u : u = [worker EXCEPT !.writes = Tail(@)]
  OBVIOUS
<1>5. PICK write : write = Head(worker.writes)
  OBVIOUS
<1>6. /\ Alive(u) /\ Popped(worker, u) /\ write \in Writes /\ write = worker.writes[1]
  BY <1>1, <1>3, <1>4, <1>5, Unqueued
<1>7. PICK w : w = Resumed(u, write)
  OBVIOUS
<1>8. PICK landed : landed = Written(disk, write)
  OBVIOUS
<1>9. disk' = landed /\ Becomes(w)
  BY <1>4, <1>5, <1>7, <1>8 DEF WriteLands
<1>10. /\ Landed(w, landed, follower)
       /\ worker.dropping \/ ChainWork[worker.tip] <= ChainWork[w.tip]
  <2>1. CASE write.kind = "append"
    <3>1. w = Appended(u, write)
      BY <1>7, <2>1 DEF Resumed
    <3>2. /\ Landed(Appended(u, write), Written(disk, write), follower)
          /\ Appended(u, write).tip = worker.tip
      BY <1>1, <1>3, <1>6, <2>1, AppendLands
    <3>3. worker.tip \in Blocks /\ ChainWork[worker.tip] \in Nat
      BY <1>3, ChainFacts, WorkAdds DEF Alive, Workers
    <3>4. w.tip = worker.tip
      BY <3>1, <3>2
    <3>5. ChainWork[worker.tip] <= ChainWork[w.tip]
      BY <3>3, <3>4
    <3> QED BY <1>8, <3>1, <3>2, <3>5
  <2>2. CASE write.kind = "rewind"
    <3>1. w = CommitHeaders(RewindTo(u, write.from), write.last, write.race)
      <4> DEFINE s == CHOOSE after \in {CommitHeaders(before, write.last, write.race) :
                                          before \in {RewindTo(u, write.from)}} : TRUE
      <4>1. w = s
        BY <1>7, <2>2 DEF Resumed, Then
      <4>2. s = CommitHeaders(RewindTo(u, write.from), write.last, write.race)
        OBVIOUS
      <4> QED BY <4>1, <4>2
    <3>2. /\ Landed(CommitHeaders(RewindTo(u, write.from), write.last, write.race), Written(disk, write),
                    follower)
          /\ ChainWork[worker.tip]
               <= ChainWork[CommitHeaders(RewindTo(u, write.from), write.last, write.race).tip]
      BY <1>1, <1>3, <1>6, <2>2, RewindLands
    <3> QED BY <1>8, <3>1, <3>2
  <2>3. CASE write.kind = "drop"
    <3>1. w = Dropped(u, write)
      BY <1>7, <2>3 DEF Resumed
    <3>2. Landed(Dropped(u, write), Written(disk, write), follower)
      BY <1>1, <1>3, <1>6, <2>3, DropLands
    <3>3. worker.dropping
      <4>1. 1 \in DOMAIN worker.writes
        <5>1. PICK q \in Seq(Writes) : q = worker.writes /\ q # <<>>
          BY <1>1, <1>3 DEF Alive, Workers
        <5>2. PICK n \in Nat \ {0} : Len(q) = n /\ DOMAIN q = 1..n
          BY <5>1, TailIs
        <5> QED BY <5>1, <5>2
      <4> QED BY <1>3, <1>6, <2>3, <4>1 DEF Kept, RewindLast, Appends
    <3> QED BY <1>8, <3>1, <3>2, <3>3
  <2> QED BY <1>6, <2>1, <2>2, <2>3 DEF Writes
<1>11. PICK e : w.posted = <<e>> /\ Told(Follow(follower, e), landed)
  BY <1>10 DEF Landed
<1>12. PICK v : v = [w EXCEPT !.posted = <<>>]
  OBVIOUS
<1>13. worker' = v /\ follower' = Follow(follower, e)
  <2>1. worker' = [w EXCEPT !.posted = <<>>] /\ follower' = FoldLeft(Follow, follower, w.posted)
    BY <1>9 DEF Becomes
  <2>2. FoldLeft(Follow, follower, <<e>>) = Follow(follower, e)
    BY OnePosted
  <2> QED BY <1>11, <1>12, <2>1, <2>2
<1>14. <<>> \in Seq(Events) /\ w \in Workers /\ Asking(w) /\ w.phase # "stopped"
  BY <1>10 DEF Landed, Alive
<1>15. /\ v \in Workers /\ v.posted = <<>> /\ v.requests = w.requests /\ v.ready = w.ready /\ v.race = w.race
       /\ v.phase = w.phase /\ v.tip = w.tip /\ v.window = w.window /\ v.finality = w.finality
       /\ v.pendingLock = w.pendingLock /\ v.writes = w.writes /\ v.checks = w.checks
       /\ v.dropping = w.dropping /\ v.dropQueued = w.dropQueued
  BY <1>12, <1>14 DEF Workers
<1>16. Asking(v) /\ v.phase # "stopped"
  BY <1>14, <1>15 DEF Asking
<1>17. Kept(v, landed)
  <2>1. AppendsLead(v, landed)
    BY <1>10, <1>15 DEF Landed, Kept, AppendsLead, Appends, Reached
  <2>2. RewindLast(v)
    BY <1>10, <1>15 DEF Landed, Kept, RewindLast, Appends
  <2>3. Drops(v) /\ Locked(v) /\ OnChain(v.window, v.tip)
    BY <1>10, <1>15 DEF Landed, Kept, Drops, Locked
  <2> QED BY <2>1, <2>2, <2>3 DEF Kept
<1>18. Surroundings
  BY DEF WriteLands, Surroundings, IInv
<1>19. IInv'
  BY <1>9, <1>10, <1>11, <1>13, <1>15, <1>16, <1>17, <1>18
     DEF Landed, IInv, Stopped, Followed, Surroundings
<1> QED BY <1>10, <1>13, <1>15, <1>19

LEMMA WindowFramed == ASSUME IInv PROVE WindowOnChain
<1>1. CASE worker.phase = "stopped"
  <2>1. worker.window = <<>>
    BY <1>1 DEF IInv, Stopped, Down
  <2>2. DOMAIN worker.window = {}
    BY <2>1
  <2> QED BY <2>2 DEF WindowOnChain
<1>2. CASE worker.phase # "stopped"
  BY <1>2 DEF IInv, Kept, OnChain, WindowOnChain
<1> QED BY <1>1, <1>2

LEMMA InStepHolds == ASSUME IInv PROVE InStep
<1>1. SUFFICES ASSUME worker.writes = <<>>, worker.phase # "stopped"
               PROVE  /\ disk.tip = worker.tip
                      /\ follower.tip = Height[worker.tip]
                      /\ \A h \in 1..follower.tip : h \in DOMAIN follower.hashes
                                                      /\ follower.hashes[h] = At(worker.tip, h)
  BY DEF InStep
<1>2. disk.tip = worker.tip
  <2>1. Len(worker.writes) = 0 /\ 0 \in 0..Len(worker.writes)
    BY <1>1
  <2>2. Reached(worker, disk, 0) = worker.tip
    BY <1>1, <2>1 DEF IInv, Kept, AppendsLead
  <2> QED BY <2>2 DEF Reached
<1>3. Told(follower, disk)
  BY <1>1 DEF IInv, Followed
<1> QED BY <1>2, <1>3 DEF Told

LEMMA LockHolds == ASSUME IInv PROVE LockedStays
<1>1. CASE worker.phase = "stopped"
  BY <1>1 DEF IInv, Stopped, Down, LockedStays
<1>2. CASE worker.phase # "stopped"
  BY <1>2 DEF IInv, Kept, Locked, LockedStays
<1> QED BY <1>1, <1>2

LEMMA WritesTyped ==
  ASSUME IInv
  PROVE  \A i \in DOMAIN worker.writes : worker.writes[i].from \in Chain[worker.writes[i].last]
<1>1. CASE worker.phase = "stopped"
  <2>1. DOMAIN worker.writes = {}
    BY <1>1 DEF IInv, Stopped, Down
  <2> QED BY <2>1
<1>2. CASE worker.phase # "stopped"
  <2>1. SUFFICES ASSUME NEW i \in DOMAIN worker.writes
                 PROVE  worker.writes[i].from \in Chain[worker.writes[i].last]
    OBVIOUS
  <2>2. PICK write \in Writes : write = worker.writes[i]
    BY DEF IInv, Workers
  <2>3. Kept(worker, disk)
    BY <1>2 DEF IInv
  <2>4. CASE write.kind = "append"
    BY <2>2, <2>3, <2>4 DEF Kept, AppendsLead, Appends
  <2>5. CASE write.kind = "rewind"
    BY <2>2, <2>3, <2>5 DEF Kept, RewindLast, Appends
  <2>6. CASE write.kind = "drop"
    <3>1. write.last = write.from
      BY <2>2, <2>3, <2>6 DEF Kept, RewindLast, Appends
    <3>2. write.from \in Chain[write.from]
      BY ChainFacts DEF Writes
    <3> QED BY <2>2, <3>1, <3>2
  <2> QED BY <2>4, <2>5, <2>6 DEF Writes
<1> QED BY <1>1, <1>2

LEMMA TypesHold == ASSUME IInv PROVE TypeOK
<1>1. worker \in Workers /\ Asking(worker) /\ Stored(disk)
  BY DEF IInv
<1>2. worker.phase \in {"stopped", "starting", "connecting", "syncing", "synced"}
  BY <1>1 DEF Workers, Phases
<1>3. worker.tip \in Blocks /\ Range(worker.window) \subseteq Blocks
  <2>1. worker.tip \in Blocks /\ worker.window \in Windows
    BY <1>1 DEF Workers
  <2>2. PICK S \in SUBSET Marks : worker.window \in [S -> Blocks]
    BY <2>1 DEF Windows
  <2> QED BY <2>1, <2>2 DEF Range
<1>4. worker.finality \in 0..MaxHeight
  <2>1. PICK f \in Nat : f = worker.finality
    BY <1>1 DEF Workers
  <2>2. Height[worker.tip] \in 1..MaxHeight /\ MaxHeight \in Nat
    BY <1>3, Heights
  <2>3. f > 0 => f <= Height[worker.tip]
    BY <2>1, LockHolds DEF LockedStays
  <2> QED BY <2>1, <2>2, <2>3
<1>5. /\ worker.pendingLock \in Locks \union {None}
      /\ worker.askedFrom \union worker.announced \subseteq Blocks
      /\ worker.race.from \in Blocks \union {None} /\ worker.race.racers \subseteq Peers
      /\ worker.divergent \union worker.silent \subseteq Peers
  BY <1>1 DEF Workers, Races
<1>6. \A r \in worker.requests : r.peer \in worker.ready /\ r.locator # {}
  BY <1>1 DEF Asking
<1>7. worker.dropQueued => worker.dropping \/ \E i \in DOMAIN worker.checks : worker.checks[i] = "drop"
  <2>1. CASE worker.phase = "stopped"
    BY <2>1 DEF IInv, Stopped, Down
  <2>2. CASE worker.phase # "stopped"
    BY <2>2 DEF IInv, Kept, Drops
  <2> QED BY <2>1, <2>2
<1>8. disk.tip \in Blocks /\ Range(disk.headers) \subseteq Blocks
  <2>1. disk.tip \in Blocks /\ DOMAIN disk.headers = 2..Height[disk.tip]
        /\ \A h \in DOMAIN disk.headers : disk.headers[h] = At(disk.tip, h)
    BY <1>1 DEF Stored
  <2>2. ASSUME NEW h \in DOMAIN disk.headers PROVE disk.headers[h] \in Blocks
    <3>1. h \in 1..Height[disk.tip]
      BY <2>1, Heights
    <3>2. At(disk.tip, h) \in Blocks
      BY <2>1, <3>1, AtIs
    <3> QED BY <2>1, <3>2
  <2> QED BY <2>1, <2>2 DEF Range
<1>9. follower.tip \in 1..MaxHeight
  <2>1. CASE worker.phase = "stopped"
    BY <2>1, Heights DEF IInv, Followed
  <2>2. CASE worker.phase # "stopped"
    BY <1>8, <2>2, Heights DEF IInv, Followed, Told
  <2> QED BY <2>1, <2>2
<1> QED BY <1>2, <1>3, <1>4, <1>5, <1>6, <1>7, <1>8, <1>9, WritesTyped DEF TypeOK

LEMMA InitInvariant == ASSUME Init PROVE IInv
<1>1. NoRace \in Races
  BY DEF NoRace, Races
<1>2. <<>> \in Windows
  <2>1. \A S : S = {} => <<>> \in [S -> Blocks]
    OBVIOUS
  <2> QED BY <2>1 DEF Windows
<1>3. Down \in Workers
  BY <1>1, <1>2, Heights DEF Down, Workers, Phases
<1>4. Down.posted = <<>> /\ Asking(Down) /\ Down.phase = "stopped"
  BY DEF Down, Asking
<1>5. Stored(disk)
  <2>1. disk.tip = Genesis /\ disk.headers = <<>>
    BY DEF Init
  <2>2. DOMAIN disk.headers = {} /\ 2..Height[Genesis] = {}
    BY <2>1, Heights
  <2> QED BY <2>1, <2>2, Heights DEF Stored
<1>6. worker = Down /\ follower.tip = 1 /\ peerTip \in [Peers -> Blocks] /\ chainLock = None /\ failures = 0
  BY TreeAssumption DEF Init
<1> QED BY <1>3, <1>4, <1>5, <1>6 DEF IInv, Stopped, Followed

LEMMA NextInvariant == ASSUME Careful, IInv, [Next]_vars PROVE IInv'
<1>1. CASE UNCHANGED vars
  BY <1>1 DEF vars, IInv, Stopped, Followed
<1>2. CASE Start
  BY <1>2, StartHolds
<1>3. CASE Attach
  BY <1>3, AttachHolds
<1>4. CASE Crash
  BY <1>4, CrashHolds
<1>5. CASE \E p \in Peers, late \in BOOLEAN : PeerReady(p, late)
  BY <1>5, PeerReadyHolds
<1>6. CASE \E p \in Peers : PeerDisconnects(p)
  BY <1>6, PeerDisconnectsHolds
<1>7. CASE HeadersAllowed /\ \E r \in worker.requests : AnswerArrives(r)
  BY <1>7, AnswerArrivesHolds
<1>8. CASE \E p \in Peers : \E b \in Heavier(p) :
             \/ PeerMoves(p, b)
             \/ BlockAnnounced(p, b)
             \/ HeadersAllowed /\ HeadersPushed(p, b)
  <2>1. PICK p \in Peers, b \in Blocks :
          PeerMoves(p, b) \/ BlockAnnounced(p, b) \/ (HeadersAllowed /\ HeadersPushed(p, b))
    BY <1>8 DEF Heavier
  <2> QED BY <2>1, PeerMovesHolds, BlockAnnouncedHolds, HeadersPushedHolds
<1>9. CASE RaceTimesOut \/ GoesQuiet \/ PollsStalledTip
  BY <1>9, TimersHold
<1>10. CASE \E b \in Locks : Allowed("lock during a rewind", RewindPending) /\ Clsig(b)
  BY <1>10, ClsigHolds
<1>11. CASE BranchCheck
  BY <1>11, BranchCheckHolds
<1>12. CASE WriteLands
  BY <1>12, WriteLandsHolds
<1> QED BY <1>1, <1>2, <1>3, <1>4, <1>5, <1>6, <1>7, <1>8, <1>9, <1>10, <1>11, <1>12 DEF Next

\* What a step does to the work of our chain.
Rises ==
  worker.phase # "stopped" /\ worker'.phase # "stopped" /\ ~worker.dropping =>
    ChainWork[worker'.tip] >= ChainWork[worker.tip]

LEMMA WorkSteps == ASSUME Careful, IInv, [Next]_vars PROVE Rises
<1>1. SUFFICES ASSUME worker.phase # "stopped", worker'.phase # "stopped", ~worker.dropping
               PROVE  ChainWork[worker'.tip] >= ChainWork[worker.tip]
  BY DEF Rises
<1>2. PICK work \in Nat : work = ChainWork[worker.tip]
  <2>1. worker.tip \in Blocks
    BY DEF IInv, Workers
  <2> QED BY <2>1, ChainFacts, WorkAdds
<1>3. worker'.tip = worker.tip => ChainWork[worker'.tip] >= ChainWork[worker.tip]
  BY <1>2
<1>4. CASE UNCHANGED vars
  BY <1>3, <1>4 DEF vars
<1>5. CASE Start \/ Crash
  BY <1>1, <1>5 DEF Start, Crash, Down
<1>6. CASE Attach
  BY <1>3, <1>6, AttachHolds
<1>7. CASE \E p \in Peers, late \in BOOLEAN : PeerReady(p, late)
  BY <1>3, <1>7, PeerReadyHolds
<1>8. CASE \E p \in Peers : PeerDisconnects(p)
  BY <1>3, <1>8, PeerDisconnectsHolds
<1>9. CASE HeadersAllowed /\ \E r \in worker.requests : AnswerArrives(r)
  <2>1. ChainWork[worker.tip] <= ChainWork[worker'.tip]
    BY <1>9, AnswerArrivesHolds
  <2> QED BY <2>1
<1>10. CASE \E p \in Peers : \E b \in Heavier(p) :
             \/ PeerMoves(p, b)
             \/ BlockAnnounced(p, b)
             \/ HeadersAllowed /\ HeadersPushed(p, b)
  <2>1. PICK p \in Peers, b \in Blocks :
          PeerMoves(p, b) \/ BlockAnnounced(p, b) \/ (HeadersAllowed /\ HeadersPushed(p, b))
    BY <1>10 DEF Heavier
  <2>2. CASE PeerMoves(p, b) \/ BlockAnnounced(p, b)
    BY <1>3, <2>2, PeerMovesHolds, BlockAnnouncedHolds
  <2>3. CASE HeadersAllowed /\ HeadersPushed(p, b)
    <3>1. ChainWork[worker.tip] <= ChainWork[worker'.tip]
      BY <2>3, HeadersPushedHolds
    <3> QED BY <3>1
  <2> QED BY <2>1, <2>2, <2>3
<1>11. CASE RaceTimesOut \/ GoesQuiet \/ PollsStalledTip
  BY <1>3, <1>11, TimersHold
<1>12. CASE \E b \in Locks : Allowed("lock during a rewind", RewindPending) /\ Clsig(b)
  BY <1>3, <1>12, ClsigHolds
<1>13. CASE BranchCheck
  BY <1>3, <1>13, BranchCheckHolds
<1>14. CASE WriteLands
  <2>1. ChainWork[worker.tip] <= ChainWork[worker'.tip]
    BY <1>1, <1>14, WriteLandsHolds
  <2> QED BY <2>1
<1> QED BY <1>4, <1>5, <1>6, <1>7, <1>8, <1>9, <1>10, <1>11, <1>12, <1>13, <1>14 DEF Next

\* The inductive invariant of the header sync, for every block tree, every set of
\* peers and every value of the limits, where the three situations are left out.
THEOREM Invariant == ASSUME Careful PROVE Spec => []IInv
<1>1. Init => IInv
  BY InitInvariant
<1>2. Careful /\ IInv /\ [Next]_vars => IInv'
  BY NextInvariant
<1>3. Careful
  OBVIOUS
<1> QED BY <1>1, <1>2, <1>3, PTL DEF Spec

\* Window, tip, chain.db and the filter scan's index agree on one chain: the window
\* is a run of the branch of the tip, and between writes chain.db and the scan hold
\* that branch (HeaderSyncWorker.commitHeaders, rewindTo and dropLostBranch,
\* ChainStore.appendHeaders and deleteHeadersFrom).
THEOREM ChainsAgree == ASSUME Careful PROVE Spec => []Coherent
<1>1. IInv => Coherent
  BY TypesHold, WindowFramed, InStepHolds DEF Coherent
<1> QED BY <1>1, Invariant, PTL

\* A height taken for final holds a ChainLocked block of our chain, and neither a
\* fork of more work nor the vote of the peers takes it off
\* (HeaderSyncWorker.verifyPendingLock, considerFork, dropLostBranch).
THEOREM FinalityHolds == ASSUME Careful PROVE Spec => []LockedStays
<1>1. IInv => LockedStays
  BY LockHolds
<1> QED BY <1>1, Invariant, PTL

\* As long as the worker runs, its chain is left for another one only for more work,
\* also when the fork was judged long before the rewind lands; only a lost branch is
\* dropped for less (HeaderSyncWorker.considerFork, rewindTo, commitHeaders).
THEOREM WorkRises == ASSUME Careful PROVE Spec => WorkNeverFalls
<1>1. Careful /\ IInv /\ [Next]_vars => [Rises]_vars
  BY WorkSteps
<1>2. Careful
  OBVIOUS
<1>3. WorkNeverFalls <=> [][Rises]_vars
  BY DEF WorkNeverFalls, Rises
<1> QED BY <1>1, <1>2, <1>3, Invariant, PTL DEF Spec

-----------------------------------------------------------------------------
(* chain.db as a log of headers *)

\* The block below one of a chain is the parent of it.
LEMMA ParentBelow ==
  ASSUME NEW b \in Blocks, NEW i \in 1..Height[b] - 1
  PROVE  At(b, i + 1) \in DOMAIN Parent /\ At(b, i) = Parent[At(b, i + 1)]
<1>1. i \in 1..Height[b] /\ i + 1 \in 1..Height[b] /\ i + 1 # 1
  BY Heights
<1>2. PICK x : x = At(b, i + 1) /\ x \in Chain[b] /\ Height[x] = i + 1 /\ x \in Blocks
  BY <1>1, AtIs
<1>3. x # Genesis
  BY <1>1, <1>2, Heights
<1>4. /\ Parent[x] \in Blocks /\ Chain[x] = Chain[Parent[x]] \union {x} /\ Height[x] = Height[Parent[x]] + 1
      /\ Parent[x] \in Chain[Parent[x]]
  BY <1>2, <1>3, ChainOfParent, HeightOfParent, ChainFacts
<1>5. Parent[x] \in Chain[b]
  BY <1>2, <1>4, ChainFacts
<1>6. Height[Parent[x]] = i
  BY <1>1, <1>2, <1>4, Heights
<1>7. Parent[x] = At(b, i)
  BY <1>1, <1>5, <1>6, AtIs
<1> QED BY <1>2, <1>3, <1>7, TreeAssumption

\* The chain of b, from the first block up.
Branch(b) == [i \in 1..Height[b] |-> At(b, i)]

LEMMA BranchIs ==
  ASSUME NEW b \in Blocks
  PROVE  /\ Branch(b) \in Seq(Blocks) /\ Len(Branch(b)) = Height[b] /\ Log!Linked(Branch(b))
<1>1. Height[b] \in Nat /\ \A i \in 1..Height[b] : At(b, i) \in Blocks
  BY Heights, AtIs
<1>2. Branch(b) \in Seq(Blocks) /\ Len(Branch(b)) = Height[b]
  <2>1. PICK n \in Nat : n = Height[b]
    BY <1>1
  <2>2. Branch(b) \in [1..n -> Blocks]
    BY <1>1, <2>1 DEF Branch
  <2>3. \A q \in [1..n -> Blocks] : q \in Seq(Blocks) /\ Len(q) = n
    BY <2>1
  <2> QED BY <2>1, <2>2, <2>3
<1>3. ASSUME NEW i \in 1..Height[b] - 1
      PROVE  Branch(b)[i + 1] \in DOMAIN Parent /\ Branch(b)[i] = Parent[Branch(b)[i + 1]]
  <2>1. i \in 1..Height[b] /\ i + 1 \in 1..Height[b]
    BY <1>1
  <2>2. Branch(b)[i] = At(b, i) /\ Branch(b)[i + 1] = At(b, i + 1)
    BY <2>1 DEF Branch
  <2> QED BY <2>2, ParentBelow
<1> QED BY <1>2, <1>3 DEF Log!Linked

LEMMA DiskIsBranch == ASSUME IInv PROVE DiskLog = Branch(disk.tip) /\ disk.tip \in Blocks
<1>1. Stored(disk) /\ disk.tip \in Blocks
  BY DEF IInv, Stored
<1>2. ASSUME NEW i \in 1..Height[disk.tip]
      PROVE  (IF i = 1 THEN Genesis ELSE IF i \in DOMAIN disk.headers THEN disk.headers[i] ELSE None)
               = At(disk.tip, i)
  <2>1. CASE i = 1
    <3>1. Genesis \in Chain[disk.tip] /\ Height[Genesis] = 1
      BY <1>1, ChainFacts, Heights
    <3> QED BY <1>1, <2>1, <3>1, AtIs
  <2>2. CASE i # 1
    <3>1. i \in 2..Height[disk.tip]
      BY <1>1, <2>2, Heights
    <3> QED BY <1>1, <2>2, <3>1 DEF Stored
  <2> QED BY <2>1, <2>2
<1> QED BY <1>1, <1>2 DEF DiskLog, Branch

\* A branch cut at one of its blocks is the chain of that block.
LEMMA BranchCut ==
  ASSUME NEW b \in Blocks, NEW a \in Chain[b]
  PROVE  Height[a] \in 1..Len(Branch(b)) /\ Branch(a) = SubSeq(Branch(b), 1, Height[a])
<1>1. /\ a \in Blocks /\ Height[a] \in 1..Height[b] /\ Height[b] \in Nat
      /\ \A h \in 1..Height[a] : At(a, h) = At(b, h)
  BY AtBelow, Heights
<1>2. PICK q \in Seq(Blocks) : q = Branch(b) /\ Len(q) = Height[b]
  BY BranchIs
<1>3. PICK k \in 1..Len(q) : k = Height[a]
  BY <1>1, <1>2
<1>4. SubSeq(q, 1, k) = [i \in 1..k |-> q[i]]
  OBVIOUS
<1>5. \A i \in 1..k : q[i] = At(a, i)
  <2>1. SUFFICES ASSUME NEW i \in 1..k PROVE q[i] = At(a, i)
    OBVIOUS
  <2>2. i \in 1..Height[a] /\ i \in 1..Height[b]
    BY <1>1, <1>2, <1>3
  <2> QED BY <1>1, <1>2, <2>2 DEF Branch
<1>6. Branch(a) = [i \in 1..k |-> q[i]]
  BY <1>3, <1>5 DEF Branch
<1> QED BY <1>2, <1>3, <1>4, <1>6

\* chain.db changes in one place, up or down the chain it holds.
LEMMA DiskMoves ==
  ASSUME IInv, [Next]_vars
  PROVE  disk' = disk \/ disk'.tip \in Chain[disk.tip] \/ disk.tip \in Chain[disk'.tip]
<1>1. CASE WriteLands
  <2>1. worker.writes # <<>> /\ disk' = Written(disk, Head(worker.writes))
    BY <1>1 DEF WriteLands
  <2>2. worker \in Workers /\ worker.phase # "stopped"
    BY <2>1 DEF IInv, Stopped, Down
  <2>3. Alive(worker) /\ Kept(worker, disk)
    BY <2>2, WorkerAlive
  <2>4. PICK u : u = [worker EXCEPT !.writes = Tail(@)]
    OBVIOUS
  <2>5. PICK write \in Writes : write = worker.writes[1] /\ write = Head(worker.writes)
    BY <2>1, <2>3, <2>4, Unqueued
  <2>6. 1 \in DOMAIN worker.writes
    <3>1. PICK q \in Seq(Writes) : q = worker.writes /\ q # <<>>
      BY <2>1, <2>2 DEF Workers
    <3>2. PICK n \in Nat \ {0} : Len(q) = n /\ DOMAIN q = 1..n
      BY <3>1, TailIs
    <3> QED BY <3>1, <3>2
  <2>7. CASE write.kind = "append"
    <3>1. /\ worker.writes[1].from = Reached(worker, disk, 1 - 1)
          /\ worker.writes[1].from \in Chain[worker.writes[1].last]
      BY <2>3, <2>5, <2>6, <2>7 DEF Kept, AppendsLead, Appends
    <3>2. Reached(worker, disk, 1 - 1) = disk.tip
      BY DEF Reached
    <3>3. disk'.tip = write.last
      BY <2>1, <2>5, <2>7 DEF Written
    <3> QED BY <2>5, <3>1, <3>2, <3>3
  <2>8. CASE write.kind # "append"
    <3>1. ~Appends(worker, 1)
      BY <2>5, <2>8 DEF Appends
    <3>2. disk.tip = worker.tip
      BY <2>1, <2>2, <2>3, <3>1, LastIsFirst
    <3>3. write.from \in Chain[worker.tip]
      BY <2>3, <2>5, <2>6, <3>1 DEF Kept, RewindLast
    <3>4. disk'.tip = write.from
      BY <2>1, <2>5, <2>8 DEF Written
    <3> QED BY <3>2, <3>3, <3>4
  <2> QED BY <2>7, <2>8
<1>2. CASE ~WriteLands
  <2>1. UNCHANGED vars => disk' = disk
    BY DEF vars
  <2>2. Start \/ Attach \/ Crash \/ RaceTimesOut \/ GoesQuiet \/ PollsStalledTip \/ BranchCheck => disk' = disk
    BY DEF Start, Attach, Crash, RaceTimesOut, GoesQuiet, PollsStalledTip, BranchCheck, Handler
  <2>3. \A p \in Peers, late \in BOOLEAN : PeerReady(p, late) => disk' = disk
    BY DEF PeerReady, Handler
  <2>4. \A p \in Peers : PeerDisconnects(p) => disk' = disk
    BY DEF PeerDisconnects, Handler
  <2>5. \A r \in worker.requests : AnswerArrives(r) => disk' = disk
    BY DEF AnswerArrives, Handler
  <2>6. \A p \in Peers : \A b \in Heavier(p) :
          PeerMoves(p, b) \/ BlockAnnounced(p, b) \/ HeadersPushed(p, b) => disk' = disk
    BY DEF PeerMoves, BlockAnnounced, HeadersPushed, Handler
  <2>7. \A b \in Locks : Clsig(b) => disk' = disk
    BY DEF Clsig
  <2> QED BY <1>2, <2>1, <2>2, <2>3, <2>4, <2>5, <2>6, <2>7 DEF Next
<1> QED BY <1>1, <1>2

LEMMA LogSteps == ASSUME IInv, IInv', [Next]_vars PROVE [Log!Drop \/ Log!Extend]_DiskLog
<1>1. PICK a \in Blocks : a = disk.tip /\ DiskLog = Branch(a)
  BY DiskIsBranch
<1>2. PICK b \in Blocks : b = disk'.tip /\ DiskLog' = Branch(b)
  <2>1. (DiskLog = Branch(disk.tip) /\ disk.tip \in Blocks)'
    BY DiskIsBranch, PTL
  <2> QED BY <2>1
<1>3. CASE disk' = disk
  <2>1. a = b
    BY <1>1, <1>2, <1>3
  <2> QED BY <1>1, <1>2, <2>1
<1>4. CASE b \in Chain[a]
  BY <1>1, <1>2, <1>4, BranchCut DEF Log!Drop
<1>5. CASE a \in Chain[b] /\ a # b
  <2>1. Height[a] < Height[b]
    BY <1>5, AtBelow
  <2>2. Len(Branch(a)) = Height[a] /\ Len(Branch(b)) = Height[b] /\ Log!Linked(Branch(b))
    BY BranchIs
  <2>3. Branch(a) = SubSeq(Branch(b), 1, Height[a])
    BY <1>5, BranchCut
  <2>4. Len(DiskLog') > Len(DiskLog) /\ SubSeq(DiskLog', 1, Len(DiskLog)) = DiskLog /\ Log!Linked(DiskLog')
    BY <1>1, <1>2, <2>1, <2>2, <2>3, Heights
  <2> QED BY <2>4 DEF Log!Extend
<1>6. disk' = disk \/ b \in Chain[a] \/ (a \in Chain[b] /\ a # b)
  <2>1. disk' = disk \/ b \in Chain[a] \/ a \in Chain[b]
    BY <1>1, <1>2, DiskMoves
  <2>2. a = b => b \in Chain[a]
    BY ChainFacts
  <2> QED BY <2>1, <2>2
<1> QED BY <1>3, <1>4, <1>5, <1>6

\* chain.db implements HeaderLog: it holds one chain without a gap, and changes only
\* by losing a top part or gaining linked headers on top.
THEOREM DiskIsLog == ASSUME Careful PROVE Spec => ImplementsLog
<1>1. Init => Log!Init
  <2>1. ASSUME Init PROVE Log!Init
    <3>1. IInv
      BY <2>1, InitInvariant
    <3>2. PICK b \in Blocks : DiskLog = Branch(b)
      BY <3>1, DiskIsBranch
    <3>3. Len(Branch(b)) = Height[b] /\ Log!Linked(Branch(b)) /\ Height[b] >= 1
      BY BranchIs, Heights
    <3> QED BY <3>2, <3>3 DEF Log!Init
  <2> QED BY <2>1
<1>2. IInv /\ IInv' /\ [Next]_vars => [Log!Drop \/ Log!Extend]_DiskLog
  BY LogSteps
<1> QED BY <1>1, <1>2, Invariant, PTL DEF Spec, ImplementsLog, Log!Spec
=============================================================================
