------------------------- MODULE RelayServer_proofs -------------------------
(***************************************************************************)
(* Proofs about the epoch arithmetic of hotshot_types::utils and about the  *)
(* relay server, for every epoch height above five, every length of the     *)
(* chain, and any nodes, stake tables and heights.                          *)
(***************************************************************************)
EXTENDS RelayServer, FiniteSetTheorems, TLAPS

-----------------------------------------------------------------------------
\* Division.

\* Quotient and remainder are unique.
LEMMA Remainder ==
  ASSUME NEW h \in Nat, h > 0, NEW q \in Nat, NEW r \in 0..(h - 1)
  PROVE  (h * q + r) % h = r /\ (h * q + r) \div h = q
<1> DEFINE b == h * q + r
           k == b \div h
           s == b % h
<1>1. b \in Nat
  OBVIOUS
<1>2. k \in Nat /\ s \in 0..(h - 1) /\ b = h * k + s
  <2> HIDE DEF b
  <2>1. b \div h \in Nat
    BY <1>1
  <2>2. b % h \in 0..(h - 1)
    BY <1>1
  <2>3. b = h * (b \div h) + (b % h)
    BY <1>1
  <2> QED
    BY <2>1, <2>2, <2>3
<1>3. b = h * q + r
  OBVIOUS
<1> HIDE DEF b, k, s
<1>4. \A m, n \in Nat : m < n => h * m + h <= h * n
  OBVIOUS
<1>5. h * k \in Nat /\ h * q \in Nat
  BY <1>2
<1>6. ~ (k < q) /\ ~ (q < k)
  BY <1>2, <1>3, <1>4, <1>5
<1>7. k = q
  BY <1>2, <1>6
<1>8. s = r
  BY <1>2, <1>3, <1>5, <1>7
<1> QED
  BY <1>7, <1>8 DEF b, k, s

-----------------------------------------------------------------------------
\* The chain.

\* The blocks of the earlier epochs precede the one at hand.
PlaceInv ==
  /\ height \in EpochHeights
  /\ epoch \in Nat /\ epoch >= 1
  /\ position \in 1..height
  /\ block = height * (epoch - 1) + position

\* The chain starts with the first block of the first epoch.
LEMMA InitPlace == Init => PlaceInv
<1> SUFFICES ASSUME Init PROVE PlaceInv
  OBVIOUS
<1>1. height \in Nat /\ height > 5
  BY HeightsAssumption DEF Init
<1>2. height * (epoch - 1) = 0
  BY <1>1 DEF Init
<1> QED
  BY <1>1, <1>2 DEF Init, PlaceInv

\* A new epoch adds its height to the blocks of the earlier ones.
LEMMA StepPlace == PlaceInv /\ [NextBlock]_vars => PlaceInv'
<1> SUFFICES ASSUME PlaceInv, [NextBlock]_vars PROVE PlaceInv'
  OBVIOUS
<1>1. height \in Nat /\ height > 5
  BY HeightsAssumption DEF PlaceInv
<1>2. CASE NextBlock
  <2>1. height' = height /\ block' = block + 1
    BY <1>2 DEF NextBlock
  <2>2. CASE position = height
    <3>1. epoch' = epoch + 1 /\ position' = 1
      BY <1>2, <2>2 DEF NextBlock
    <3>2. height * epoch = height * (epoch - 1) + height /\ height * (epoch - 1) \in Nat
      BY <1>1 DEF PlaceInv
    <3>3. (epoch + 1) - 1 = epoch
      BY DEF PlaceInv
    <3>4. block' = height * epoch + 1
      BY <1>1, <2>1, <2>2, <3>2 DEF PlaceInv
    <3> QED
      BY <1>1, <2>1, <3>1, <3>3, <3>4 DEF PlaceInv
  <2>3. CASE position # height
    <3>1. epoch' = epoch /\ position' = position + 1
      BY <1>2, <2>3 DEF NextBlock
    <3>2. height * (epoch - 1) \in Nat
      BY <1>1 DEF PlaceInv
    <3>3. block' = height * (epoch - 1) + (position + 1)
      BY <1>1, <2>1, <3>2 DEF PlaceInv
    <3> QED
      BY <1>1, <2>1, <2>3, <3>1, <3>3 DEF PlaceInv
  <2> QED
    BY <2>2, <2>3
<1>3. CASE UNCHANGED vars
  BY <1>3 DEF vars, PlaceInv
<1> QED
  BY <1>2, <1>3

\* Every block has its place in an epoch.
LEMMA AlwaysPlace == Spec => []PlaceInv
  BY InitPlace, StepPlace, PTL DEF Spec

\* The divisions of the source, as functions of the place of the block.
LEMMA PlaceArithmetic ==
  ASSUME PlaceInv
  PROVE  /\ height \in Nat /\ height > 5 /\ block \in Nat /\ block > 0
         /\ height * epoch \in Nat /\ block = height * epoch - height + position
         /\ block % height = IF position = height THEN 0 ELSE position
         /\ block \div height = IF position = height THEN epoch ELSE epoch - 1
         /\ \A k \in {3, 5} : (block + k) % height = 0 <=> position = height - k
<1> DEFINE q == epoch - 1
<1>1. /\ height \in Nat /\ height > 5 /\ epoch \in Nat /\ position \in 1..height
      /\ q \in Nat /\ block = height * q + position
  BY HeightsAssumption DEF PlaceInv
<1>2. height * q \in Nat /\ height * epoch = height * q + height
  BY <1>1
<1>3. block \in Nat /\ block > 0 /\ block = height * epoch - height + position
  BY <1>1, <1>2
<1>4. /\ block % height = IF position = height THEN 0 ELSE position
      /\ block \div height = IF position = height THEN epoch ELSE epoch - 1
  <2>1. CASE position = height
    <3>1. block = height * epoch + 0
      BY <1>1, <1>2, <2>1
    <3>2. 0 \in 0..(height - 1) /\ height > 0
      BY <1>1
    <3>3. (height * epoch + 0) % height = 0 /\ (height * epoch + 0) \div height = epoch
      BY <1>1, <3>2, Remainder
    <3> QED
      BY <2>1, <3>1, <3>3
  <2>2. CASE position # height
    <3>1. position \in 0..(height - 1) /\ height > 0
      BY <1>1, <2>2
    <3>2. (height * q + position) % height = position /\ (height * q + position) \div height = q
      BY <1>1, <3>1, Remainder
    <3> QED
      BY <1>1, <2>2, <3>2
  <2> QED
    BY <2>1, <2>2
<1>5. ASSUME NEW k \in {3, 5} PROVE (block + k) % height = 0 <=> position = height - k
  <2>1. CASE position + k < height
    <3>1. position + k \in 0..(height - 1) /\ height > 0 /\ position + k # 0
      BY <1>1, <2>1
    <3>2. (height * q + (position + k)) % height = position + k
      BY <1>1, <3>1, Remainder
    <3>3. block + k = height * q + (position + k)
      BY <1>1, <1>2
    <3> QED
      BY <1>1, <2>1, <3>1, <3>2, <3>3
  <2>2. CASE position + k >= height
    <3>1. position + k - height \in 0..(height - 1) /\ height > 0
      BY <1>1, <2>2
    <3>2. (height * epoch + (position + k - height)) % height = position + k - height
      BY <1>1, <3>1, Remainder
    <3>3. block + k = height * epoch + (position + k - height)
      BY <1>1, <1>2
    <3> QED
      BY <1>1, <3>2, <3>3
  <2> QED
    BY <1>1, <2>1, <2>2
<1> QED
  BY <1>1, <1>2, <1>3, <1>4, <1>5

-----------------------------------------------------------------------------

\* epoch_from_block_number counts the epochs of the chain.
LEMMA EpochNumber == PlaceInv => epoch_from_block_number(block, height) = epoch
<1> SUFFICES ASSUME PlaceInv PROVE epoch_from_block_number(block, height) = epoch
  OBVIOUS
<1>1. /\ height # 0 /\ block # 0
      /\ block % height = IF position = height THEN 0 ELSE position
      /\ block \div height = IF position = height THEN epoch ELSE epoch - 1
  BY PlaceArithmetic
<1>2. position # 0 /\ (epoch - 1) + 1 = epoch
  BY DEF PlaceInv
<1> QED
  BY <1>1, <1>2 DEF epoch_from_block_number

\* The number of a block's epoch, and the phases into which the predicates on block
\* numbers divide every epoch, are those of the chain that counts.
THEOREM PhasesAlwaysAgree == Spec => []PhasesAgree
<1>1. PlaceInv => PhasesAgree
  <2> SUFFICES ASSUME PlaceInv PROVE PhasesAgree
    OBVIOUS
  <2> DEFINE p == height * epoch
             m == block % height
  <2>1. /\ height \in Nat /\ height > 5 /\ block \in Nat /\ block > 0
        /\ p \in Nat /\ block = p - height + position
        /\ m = IF position = height THEN 0 ELSE position
        /\ (block + 5) % height = 0 <=> position = height - 5
        /\ (block + 3) % height = 0 <=> position = height - 3
        /\ position \in 1..height
    BY PlaceArithmetic DEF PlaceInv
  <2>2. /\ root_block_in_epoch(epoch, height) = p - 5
        /\ transition_block_for_epoch(epoch, height) = p - 3
    BY <2>1 DEF PlaceInv, root_block_in_epoch, transition_block_for_epoch
  <2>3. /\ is_epoch_root(block, height) <=> (block + 5) % height = 0
        /\ is_transition_block(block, height) <=> (block + 3) % height = 0
        /\ is_ge_epoch_root(block, height) <=> m = 0 \/ m >= height - 5
        /\ is_gt_epoch_root(block, height) <=> m = 0 \/ m > height - 5
        /\ is_epoch_transition(block, height) <=> m >= height - 3 \/ m = 0
        /\ is_first_transition_block(block, height) <=> m = height - 2
        /\ is_middle_transition_block(block, height) <=> height - m \in {1, 2}
        /\ is_last_block(block, height) <=> m = 0
    BY <2>1 DEF is_epoch_root, is_transition_block, is_ge_epoch_root, is_gt_epoch_root,
                is_epoch_transition, is_first_transition_block, is_middle_transition_block,
                is_last_block
  <2> HIDE DEF p, m
  <2>4. /\ position = height - 5 <=> height - position = 5
        /\ position = height - 5 <=> block = p - 5
        /\ m = 0 \/ m >= height - 5 <=> block >= p - 5
        /\ m = 0 \/ m > height - 5 <=> block > p - 5
        /\ position = height - 3 <=> block = p - 3
        /\ m >= height - 3 \/ m = 0 <=> block >= p - 3
        /\ m = height - 2 <=> height - position = 2
    BY <2>1
  <2>5. height - m \in {1, 2} <=>
          (m >= height - 3 \/ m = 0) /\ position # height - 3 /\ m # 0
    BY <2>1
  <2>6. epoch_from_block_number(block, height) = epoch
    BY EpochNumber
  <2> QED
    BY <2>2, <2>3, <2>4, <2>5, <2>6, <2>1, Zenon DEF PhasesAgree
<1> QED
  BY <1>1, AlwaysPlace, PTL

-----------------------------------------------------------------------------
\* The epoch of a block number.

\* Where a block lies in its epoch.
LEMMA EpochBounds ==
  ASSUME NEW k \in Nat, k > 0, NEW b \in Nat, b > 0
  PROVE  /\ epoch_from_block_number(b, k) \in Nat /\ epoch_from_block_number(b, k) >= 1
         /\ k * epoch_from_block_number(b, k) \in Nat
         /\ k * epoch_from_block_number(b, k) - k < b
         /\ b <= k * epoch_from_block_number(b, k)
         /\ b % k = IF b = k * epoch_from_block_number(b, k) THEN 0
                    ELSE b - (k * epoch_from_block_number(b, k) - k)
<1> DEFINE q == b \div k
           r == b % k
           e == epoch_from_block_number(b, k)
<1>1. q \in Nat /\ r \in 0..(k - 1) /\ b = k * q + r
  <2>1. b \div k \in Nat
    OBVIOUS
  <2>2. b % k \in 0..(k - 1)
    OBVIOUS
  <2>3. b = k * (b \div k) + (b % k)
    OBVIOUS
  <2> QED
    BY <2>1, <2>2, <2>3
<1>2. e = IF r = 0 THEN q ELSE q + 1
  BY DEF epoch_from_block_number
<1> HIDE DEF q, r, e
<1>3. k * (q + 1) = k * q + k /\ k * q \in Nat
  BY <1>1
<1>4. CASE r = 0
  <2>1. e = q /\ k * e = b
    BY <1>1, <1>2, <1>3, <1>4
  <2>2. q # 0
    <3>1. k * 0 = 0
      OBVIOUS
    <3> QED
      BY <2>1, <3>1
  <2> QED
    BY <1>1, <1>4, <2>1, <2>2 DEF r, e
<1>5. CASE r # 0
  <2>1. e = q + 1 /\ k * e = k * q + k
    BY <1>1, <1>2, <1>3, <1>5
  <2> DEFINE x == k * q
             y == k * e
  <2>2. x \in Nat /\ y = x + k /\ b = x + r
    BY <1>1, <1>3, <2>1
  <2> HIDE DEF x, y
  <2>3. y \in Nat /\ y - k < b /\ b <= y /\ r = IF b = y THEN 0 ELSE b - (y - k)
    BY <1>1, <1>5, <2>2
  <2>4. e \in Nat /\ e >= 1
    BY <1>1, <2>1
  <2> QED
    BY <2>3, <2>4 DEF r, e, y
<1> QED
  BY <1>4, <1>5

\* A product grows with its factor.
LEMMA NextMultiple ==
  ASSUME NEW k \in Nat, NEW m \in Nat, NEW n \in Nat, m < n
  PROVE  k * m + k <= k * n
<1>1. \A i, j \in Nat : i < j => k * i + k <= k * j
  OBVIOUS
<1> QED
  BY <1>1

\* The epochs are in the order of the blocks.
LEMMA EpochMonotone ==
  ASSUME NEW k \in Nat, k > 0, NEW b \in Nat, NEW c \in Nat, b <= c
  PROVE  epoch_from_block_number(b, k) <= epoch_from_block_number(c, k)
<1> DEFINE d == epoch_from_block_number(b, k)
           e == epoch_from_block_number(c, k)
<1>1. CASE b = 0
  <2>1. d = 1
    BY <1>1 DEF epoch_from_block_number
  <2>2. CASE c = 0
    BY <1>1, <2>1, <2>2
  <2>3. CASE c # 0
    <3>1. e \in Nat /\ e >= 1
      BY <2>3, EpochBounds
    <3> QED
      BY <2>1, <3>1
  <2> QED
    BY <2>2, <2>3
<1>2. CASE b # 0
  <2>0. b > 0 /\ c > 0
    BY <1>2
  <2>1. /\ d \in Nat /\ e \in Nat /\ k * d \in Nat /\ k * e \in Nat
        /\ k * d - k < b /\ c <= k * e
    BY <2>0, EpochBounds, Zenon
  <2>2. ASSUME e < d PROVE FALSE
    <3> HIDE DEF d, e
    <3>1. k * e + k <= k * d
      BY <2>1, <2>2, NextMultiple
    <3> DEFINE x == k * d
               y == k * e
    <3>2. x \in Nat /\ y \in Nat /\ x - k < b /\ c <= y /\ y + k <= x
      BY <2>1, <3>1
    <3> HIDE DEF x, y
    <3> QED
      BY <3>2
  <2> HIDE DEF d, e
  <2> QED
    BY <2>1, <2>2 DEF d, e
<1> QED
  BY <1>1, <1>2

\* A block ten before the end of its epoch is not behind the epoch's root.
LEMMA TenBeforeTheEnd ==
  ASSUME NEW k \in Nat, k > 5, NEW b \in Nat,
         epoch_from_block_number(b + 10, k) = epoch_from_block_number(b, k)
  PROVE  ~is_gt_epoch_root(b, k)
<1> SUFFICES ASSUME b > 0 PROVE ~is_gt_epoch_root(b, k)
  BY DEF is_gt_epoch_root
<1> DEFINE p == k * epoch_from_block_number(b, k)
           m == b % k
<1>1. /\ p \in Nat /\ p - k < b /\ b <= p
      /\ m = IF b = p THEN 0 ELSE b - (p - k)
  BY EpochBounds
<1>2. b + 10 <= p
  <2>1. b + 10 \in Nat /\ b + 10 > 0 /\ k > 0
    OBVIOUS
  <2>2. b + 10 <= k * epoch_from_block_number(b + 10, k)
    BY <2>1, EpochBounds
  <2> QED
    BY <2>2
<1> HIDE DEF p
<1>3. ~(m = 0 \/ m > k - 5)
  <2> HIDE DEF m
  <2> QED
    BY <1>1, <1>2
<1> QED
  BY <1>3 DEF is_gt_epoch_root

-----------------------------------------------------------------------------
\* The relay server.

\* The types of the server's state.
RelayTypes ==
  /\ latest.height \in Nat
  /\ bundles \in [Heights \X States -> [signers : SUBSET Node, weight : Nat]]
  /\ queue \subseteq Heights

\* The map holds the table of each of its epochs.
TablesRight == \A e \in DOMAIN known : known[e] = TableOf(e)

\* The bundle of height h and state x is short of the threshold, its weight is
\* that of its signers, and honest ones are among them only if the state is one
\* that honest nodes sign.
Counted(h, x) ==
  LET b == bundles[<<h, x>>]
      table == TableOf(EpochAt(h))
  IN  /\ b.weight = Weight(table, b.signers)
      /\ b.weight < one_honest_threshold(table)
      /\ b.signers # {} => h \in queue
      /\ \A n \in b.signers : n \notin Faulty => x = "decided" /\ h <= block /\ Signs(h)

\* The table of the epoch of the served state is still there when other blocks
\* of that epoch follow.
TableKept ==
  latest.height # 0 /\ EpochAt(latest.height + 1) = EpochAt(latest.height) =>
    EpochAt(latest.height) \in DOMAIN known

\* The server's part of the inductive invariant.
ServerOK ==
  /\ PlaceInv /\ RelayTypes /\ TablesRight /\ TableKept /\ ServedIsDecided
  /\ \A h \in Heights, x \in States : Counted(h, x)

\* What a member has posted above the served height is in its bundle.
PostedKept ==
  /\ posted \subseteq Node \X Heights
  /\ \A p \in posted :
       /\ p[2] > latest.height
       /\ EpochAt(p[2]) > 1 /\ Stake[TableOf(EpochAt(p[2]))][p[1]] > 0 =>
            p[1] \in bundles[<<p[2], "decided">>].signers

\* An inductive invariant.
Relayed == ServerOK /\ PostedKept

\* Heights and epochs.
LEMMA HeightFacts ==
  ASSUME PlaceInv
  PROVE  /\ height \in EpochHeights /\ height \in Nat /\ height > 5 /\ block \in Nat
         /\ \A h \in Nat : EpochAt(h) \in Nat /\ EpochAt(h) >= 1
         /\ \A g, h \in Nat : g <= h => EpochAt(g) <= EpochAt(h)
         /\ \A h \in Heights : h \in Nat /\ TableOf(EpochAt(h)) \in DOMAIN Stake
<1>1. height \in EpochHeights /\ height \in Nat /\ height > 5 /\ height > 0 /\ block \in Nat
  BY PlaceArithmetic DEF PlaceInv
<1>2. \A h \in Nat : EpochAt(h) \in Nat /\ EpochAt(h) >= 1
  <2> SUFFICES ASSUME NEW h \in Nat PROVE EpochAt(h) \in Nat /\ EpochAt(h) >= 1
    OBVIOUS
  <2>1. CASE h = 0
    BY <1>1, <2>1 DEF EpochAt, epoch_from_block_number
  <2>2. CASE h > 0
    BY <1>1, <2>2, EpochBounds, Zenon DEF EpochAt
  <2> QED
    BY <2>1, <2>2
<1>3. \A g, h \in Nat : g <= h => EpochAt(g) <= EpochAt(h)
  BY <1>1, EpochMonotone DEF EpochAt
<1>4. \A h \in Heights : h \in Nat /\ TableOf(EpochAt(h)) \in DOMAIN Stake
  BY <1>1, StakeAssumption DEF TableOf, EpochAt, First
<1> QED
  BY <1>1, <1>2, <1>3, <1>4

\* The units of the nodes of a table: finitely many, more with more nodes, and
\* those of different nodes apart.
LEMMA UnitFacts ==
  ASSUME NEW t \in DOMAIN Stake, NEW S \in SUBSET Node
  PROVE  /\ IsFiniteSet(Units(t, S)) /\ Weight(t, S) \in Nat
         /\ \A n \in Node \ S : Weight(t, S \union {n}) = Weight(t, S) + Stake[t][n]
         /\ \A R \in SUBSET S : Weight(t, R) <= Weight(t, S)
<1> DEFINE Of(n) == {n} \X (1..Stake[t][n])
<1>0. IsFiniteSet(S) /\ \A n \in Node : Stake[t][n] \in Nat
  BY StakeAssumption, FS_Subset
<1>1. \A n \in Node : IsFiniteSet(Of(n)) /\ Cardinality(Of(n)) = Stake[t][n]
  <2> SUFFICES ASSUME NEW n \in Node
               PROVE  IsFiniteSet(Of(n)) /\ Cardinality(Of(n)) = Stake[t][n]
    BY Zenon
  <2> DEFINE k == Stake[t][n]
             U == 1..k
  <2>1. k \in Nat
    BY <1>0
  <2> HIDE DEF k
  <2>2. IsFiniteSet(U) /\ Cardinality(U) = k
    BY <2>1, FS_Interval
  <2>3. IsFiniteSet({n}) /\ Cardinality({n}) = 1
    BY FS_Singleton, Zenon
  <2> HIDE DEF U
  <2>4. IsFiniteSet({n} \X U) /\ Cardinality({n} \X U) = 1 * k
    BY <2>2, <2>3, FS_Product, Zenon
  <2> QED
    BY <2>1, <2>4 DEF U, k
<1> HIDE DEF Of
<1>2. \A R : Units(t, R) = UNION {Of(n) : n \in R}
  BY Zenon DEF Units, Of
<1>3. IsFiniteSet(Units(t, S))
  <2> DEFINE T == {Of(n) : n \in S}
             f == [n \in S |-> Of(n)]
  <2>1. f \in Surjection(S, T)
    BY DEF Surjection
  <2> HIDE DEF f
  <2>2. IsFiniteSet(T)
    BY <1>0, <2>1, FS_Surjection, Zenon
  <2>3. \A X \in T : IsFiniteSet(X)
    BY <1>1
  <2>4. Units(t, S) = UNION T
    BY <1>2
  <2> HIDE DEF T
  <2> QED
    BY <2>2, <2>3, <2>4, FS_UNION, Zenon
<1>4. Weight(t, S) \in Nat
  BY <1>3, FS_CardinalityType DEF Weight
<1>5. ASSUME NEW n \in Node \ S PROVE Weight(t, S \union {n}) = Weight(t, S) + Stake[t][n]
  <2> DEFINE A == Units(t, S)
             B == Of(n)
  <2>1. Units(t, S \union {n}) = A \cup B
    BY <1>2
  <2>2. A \cap B = {}
    BY DEF Units, Of
  <2>3. IsFiniteSet(A) /\ IsFiniteSet(B) /\ Cardinality(B) = Stake[t][n] /\ Cardinality(A) \in Nat
    BY <1>1, <1>3, <1>4 DEF Weight
  <2> HIDE DEF A, B
  <2>4. Cardinality(A \cup B) = Cardinality(A) + Cardinality(B) - 0
    BY <2>2, <2>3, FS_Union, FS_EmptySet
  <2>5. Stake[t][n] \in Nat
    BY <1>0
  <2>6. Cardinality(A \cup B) = Cardinality(A) + Stake[t][n]
    BY <2>3, <2>4, <2>5
  <2> QED
    BY <2>1, <2>6, Zenon DEF A, Weight
<1>6. ASSUME NEW R \in SUBSET S PROVE Weight(t, R) <= Weight(t, S)
  <2>1. Units(t, R) \in SUBSET Units(t, S)
    BY <1>2
  <2> QED
    BY <1>3, <2>1, FS_Subset DEF Weight
<1> QED
  BY <1>3, <1>4, <1>5, <1>6

\* The stake of a set of nodes.
LEMMA WeightFacts ==
  ASSUME NEW t \in DOMAIN Stake, NEW S \in SUBSET Node
  PROVE  /\ Weight(t, S) \in Nat /\ Weight(t, {}) = 0
         /\ one_honest_threshold(t) \in Nat /\ one_honest_threshold(t) > 0
         /\ \A n \in Node : Stake[t][n] \in Nat
         /\ \A n \in Node \ S : Weight(t, S \union {n}) = Weight(t, S) + Stake[t][n]
         /\ Weight(t, S) >= one_honest_threshold(t) => \E n \in S : n \notin Faulty
<1>0. IsFiniteSet(Node) /\ Faulty \in SUBSET Node /\ Stake[t] \in [Node -> Nat]
  BY StakeAssumption
<1>1. \A n \in Node : Stake[t][n] \in Nat
  BY <1>0
<1>2. \A R \in SUBSET Node : Weight(t, R) \in Nat
  BY UnitFacts
<1>3. Weight(t, {}) = 0
  <2>1. Units(t, {}) = {}
    BY DEF Units
  <2> QED
    BY <2>1, FS_EmptySet DEF Weight
<1>4. one_honest_threshold(t) \in Nat /\ one_honest_threshold(t) > 0
  <2>1. Weight(t, Node) \in Nat
    BY <1>2
  <2>2. Weight(t, Node) \div 3 \in Nat
    BY <2>1
  <2> QED
    BY <2>2 DEF one_honest_threshold
<1>5. \A n \in Node \ S : Weight(t, S \union {n}) = Weight(t, S) + Stake[t][n]
  BY UnitFacts
<1>6. ASSUME Weight(t, S) >= one_honest_threshold(t), S \subseteq Faulty PROVE FALSE
  <2>1. Weight(t, S) <= Weight(t, Faulty)
    BY <1>0, <1>6, UnitFacts
  <2>2. Weight(t, Faulty) < one_honest_threshold(t)
    BY StakeAssumption
  <2>3. Weight(t, S) \in Nat /\ Weight(t, Faulty) \in Nat
    BY <1>0, <1>2
  <2> QED
    BY <1>4, <1>6, <2>1, <2>2, <2>3
<1> QED
  BY <1>1, <1>2, <1>3, <1>4, <1>5, <1>6

\* nodes is a map from epochs to their tables.
Right(nodes) == \A e \in DOMAIN nodes : nodes[e] = TableOf(e)

\* The map after the table of the epoch of h is there, if it can be.
LEMMA SyncedRight ==
  ASSUME ServerOK, NEW h \in Heights
  PROVE  LET nodes == InitGenesis
             synced == SyncStakeTable(nodes, h)
         IN  /\ Right(nodes) /\ Right(synced)
             /\ DOMAIN known \subseteq DOMAIN nodes /\ DOMAIN known \subseteq DOMAIN synced
             /\ EpochAt(h) > EpochAt(latest.height) => EpochAt(h) \in DOMAIN synced
<1> DEFINE nodes == InitGenesis
           synced == SyncStakeTable(nodes, h)
<1>0. PlaceInv /\ Right(known) /\ latest.height \in Nat
  BY DEF ServerOK, TablesRight, Right, RelayTypes
<1>1. ASSUME NEW m, Right(m), NEW e, NEW t, t = TableOf(e)
      PROVE  Right(Insert(m, e, t)) /\ DOMAIN Insert(m, e, t) = DOMAIN m \union {e}
  BY <1>1 DEF Right, Insert
<1>2. /\ EpochAt(h) \in Nat /\ EpochAt(latest.height) \in Nat /\ First \in Nat /\ h \in Nat
      /\ h <= EpochStart => EpochAt(h) <= First
  <2>1. EpochStart \in Nat
    BY StakeAssumption
  <2> QED
    BY <1>0, <2>1, HeightFacts DEF First
<1>3. TableOf(First) = 0
  BY <1>2 DEF TableOf, TableFrom
<1>4. Right(nodes) /\ DOMAIN known \subseteq DOMAIN nodes
  <2>1. CASE configured
    BY <1>0, <2>1 DEF InitGenesis
  <2>2. CASE ~configured
    <3>1. nodes = Insert(known, First, 0)
      BY <2>2 DEF InitGenesis
    <3>2. Right(Insert(known, First, 0)) /\ DOMAIN Insert(known, First, 0) = DOMAIN known \union {First}
      BY <1>0, <1>1, <1>3, Zenon
    <3> QED
      BY <3>1, <3>2
  <2> QED
    BY <2>1, <2>2
<1> HIDE DEF nodes
<1> DEFINE t == IF h >= EpochStart THEN TableOf(EpochAt(h)) ELSE 0
<1>5. t = TableOf(EpochAt(h))
  <2>1. CASE h >= EpochStart
    BY <2>1
  <2>2. CASE ~(h >= EpochStart)
    <3>1. h <= EpochStart
      BY <1>2, <2>2, StakeAssumption
    <3> QED
      BY <1>2, <2>2, <3>1 DEF TableOf, TableFrom
  <2> QED
    BY <2>1, <2>2
<1>6. CASE EpochAt(h) \in DOMAIN nodes \/ EpochAt(h) <= EpochAt(latest.height)
  BY <1>2, <1>4, <1>6 DEF SyncStakeTable, nodes
<1>7. CASE ~(EpochAt(h) \in DOMAIN nodes \/ EpochAt(h) <= EpochAt(latest.height))
  <2>1. synced = Insert(nodes, EpochAt(h), t)
    BY <1>7 DEF SyncStakeTable
  <2> HIDE DEF t, synced
  <2>2. Right(synced) /\ DOMAIN synced = DOMAIN nodes \union {EpochAt(h)}
    BY <1>1, <1>4, <1>5, <2>1, Zenon
  <2> QED
    BY <1>4, <2>2 DEF synced, nodes
<1> QED
  BY <1>6, <1>7

\* An honest node signs the decided states of blocks that it may sign.
MaySign(n, h, x) == n \notin Faulty => x = "decided" /\ h <= block /\ Signs(h)

\* The bundle of height h and state x with the signature of n.
NewBundle(n, h, x) ==
  [signers |-> bundles[<<h, x>>].signers \union {n},
   weight |-> bundles[<<h, x>>].weight + Stake[TableOf(EpochAt(h))][n]]

\* What is in a bundle once the signature of n is added; with enough weight an
\* honest node is among the signers.
LEMMA NewBundleFacts ==
  ASSUME ServerOK, NEW n \in Node, NEW h \in Heights, NEW x \in States, MaySign(n, h, x),
         n \notin bundles[<<h, x>>].signers
  PROVE  LET b == NewBundle(n, h, x)
             table == TableOf(EpochAt(h))
         IN  /\ b \in [signers : SUBSET Node, weight : Nat]
             /\ b.weight = Weight(table, b.signers)
             /\ \A m \in b.signers : MaySign(m, h, x)
             /\ b.weight >= one_honest_threshold(table) =>
                  x = "decided" /\ h <= block /\ Signs(h)
<1> DEFINE old == bundles[<<h, x>>]
           b == NewBundle(n, h, x)
           table == TableOf(EpochAt(h))
<1>1. table \in DOMAIN Stake
  BY HeightFacts DEF ServerOK
<1>2. old \in [signers : SUBSET Node, weight : Nat] /\ Counted(h, x)
  BY DEF ServerOK, RelayTypes
<1>3. old.signers \in SUBSET Node /\ old.weight \in Nat
  BY <1>2
<1>4. old.weight = Weight(table, old.signers) /\ \A m \in old.signers : MaySign(m, h, x)
  BY <1>2 DEF Counted, MaySign
<1>5. b.signers = old.signers \union {n} /\ b.weight = old.weight + Stake[table][n]
  BY DEF NewBundle
<1>6. n \in Node \ old.signers
  OBVIOUS
<1> HIDE DEF old, table
<1>7. /\ Weight(table, old.signers \union {n}) = Weight(table, old.signers) + Stake[table][n]
      /\ Stake[table][n] \in Nat
  BY <1>1, <1>3, <1>6, WeightFacts, Zenon
<1>8. b.weight = Weight(table, b.signers) /\ b.weight \in Nat /\ b.signers \in SUBSET Node
  BY <1>3, <1>4, <1>5, <1>7
<1>9. b \in [signers : SUBSET Node, weight : Nat]
  BY <1>8 DEF NewBundle
<1>10. \A m \in b.signers : MaySign(m, h, x)
  BY <1>4, <1>5
<1>11. b.weight >= one_honest_threshold(table) => x = "decided" /\ h <= block /\ Signs(h)
  <2> HIDE DEF b
  <2> SUFFICES ASSUME b.weight >= one_honest_threshold(table)
               PROVE  x = "decided" /\ h <= block /\ Signs(h)
    OBVIOUS
  <2>1. \E m \in b.signers : m \notin Faulty
    BY <1>1, <1>8, WeightFacts
  <2> QED
    BY <1>10, <2>1 DEF MaySign
<1> QED
  BY <1>8, <1>9, <1>10, <1>11 DEF table

\* What a post may do to the served state and to the bundles above it.
PostEffect(h) ==
  /\ latest'.height >= latest.height
  /\ latest'.height # latest.height =>
       latest'.height = h /\ h > latest.height /\ Signs(h)
  /\ \A g \in Heights, y \in States :
       g > latest'.height => bundles[<<g, y>>].signers \subseteq bundles'[<<g, y>>].signers

\* The operators depend on the chain's epoch height only.
LEMMA SameChain ==
  ASSUME UNCHANGED vars
  PROVE  /\ height' = height /\ block' = block /\ (PlaceInv => PlaceInv')
         /\ \A h : EpochAt(h)' = EpochAt(h) /\ TableOf(h)' = TableOf(h)
         /\ \A h : Signs(h)' = Signs(h)
  BY DEF vars, PlaceInv, EpochAt, TableOf, First, Signs

\* The bundle stays short of the threshold.
LEMMA CollectMore ==
  ASSUME ServerOK, NEW n \in Node, NEW h \in Heights, NEW x \in States, MaySign(n, h, x),
         n \notin bundles[<<h, x>>].signers, UNCHANGED vars,
         NewBundle(n, h, x).weight < one_honest_threshold(TableOf(EpochAt(h))),
         bundles' = [bundles EXCEPT ![<<h, x>>] = NewBundle(n, h, x)],
         queue' = queue \union {h}, latest' = latest,
         DOMAIN known \subseteq DOMAIN known', Right(known')
  PROVE  ServerOK' /\ PostEffect(h) /\ n \in bundles'[<<h, x>>].signers
<1> DEFINE b == NewBundle(n, h, x)
<1>1. /\ height' = height /\ block' = block /\ PlaceInv'
      /\ \A g : EpochAt(g)' = EpochAt(g) /\ TableOf(g)' = TableOf(g)
      /\ \A g : Signs(g)' = Signs(g)
  BY SameChain DEF ServerOK
<1>2. /\ b \in [signers : SUBSET Node, weight : Nat]
      /\ b.weight = Weight(TableOf(EpochAt(h)), b.signers)
      /\ \A m \in b.signers : MaySign(m, h, x)
  BY NewBundleFacts
<1>3. b.signers = bundles[<<h, x>>].signers \union {n}
  BY DEF NewBundle
<1>4. b.weight < one_honest_threshold(TableOf(EpochAt(h)))
  OBVIOUS
<1> HIDE DEF b
<1>5. /\ bundles \in [Heights \X States -> [signers : SUBSET Node, weight : Nat]]
      /\ queue \subseteq Heights /\ latest.height \in Nat
  BY DEF ServerOK, RelayTypes
<1>6. bundles' = [bundles EXCEPT ![<<h, x>>] = b]
  BY DEF b
<1>7. bundles'[<<h, x>>] = b
  BY <1>5, <1>6
<1>8. \A g \in Heights, y \in States : <<g, y>> # <<h, x>> => bundles'[<<g, y>>] = bundles[<<g, y>>]
  BY <1>5, <1>6
<1>9. RelayTypes'
  BY <1>2, <1>5, <1>6 DEF RelayTypes
<1>10. TablesRight' /\ TableKept' /\ ServedIsDecided'
  BY <1>1 DEF ServerOK, TablesRight, Right, TableKept, ServedIsDecided
<1>11. ASSUME NEW g \in Heights, NEW y \in States PROVE Counted(g, y)'
  <2>1. CASE <<g, y>> = <<h, x>>
    BY <1>1, <1>2, <1>4, <1>7, <2>1 DEF Counted, MaySign
  <2>2. CASE <<g, y>> # <<h, x>>
    <3>1. Counted(g, y) /\ bundles'[<<g, y>>] = bundles[<<g, y>>]
      BY <1>8, <2>2 DEF ServerOK
    <3> QED
      BY <1>1, <3>1 DEF Counted
  <2> QED
    BY <2>1, <2>2
<1>12. PostEffect(h)
  BY <1>3, <1>5, <1>7, <1>8 DEF PostEffect
<1>13. ServerOK'
  BY <1>1, <1>9, <1>10, <1>11 DEF ServerOK
<1> QED
  BY <1>3, <1>7, <1>12, <1>13

\* The bundle is served and what is older is forgotten.
LEMMA CollectLast ==
  ASSUME ServerOK, NEW n \in Node, NEW h \in Heights, NEW x \in States, MaySign(n, h, x),
         n \notin bundles[<<h, x>>].signers, UNCHANGED vars, h > latest.height,
         NewBundle(n, h, x).weight >= one_honest_threshold(TableOf(EpochAt(h))),
         bundles' = PruneBundles([bundles EXCEPT ![<<h, x>>] = NewBundle(n, h, x)], h),
         queue' = {g \in queue \union {h} : g > h},
         latest' = [height |-> h, state |-> x, signers |-> NewBundle(n, h, x).signers],
         NEW nodes, Right(nodes), EpochAt(h) \in DOMAIN nodes,
         known' = PruneTables(nodes, queue \union {h}, h)
  PROVE  ServerOK' /\ PostEffect(h)
<1> DEFINE b == NewBundle(n, h, x)
           all == [bundles EXCEPT ![<<h, x>>] = b]
<1>1. /\ height' = height /\ block' = block /\ PlaceInv'
      /\ \A g : EpochAt(g)' = EpochAt(g) /\ TableOf(g)' = TableOf(g)
      /\ \A g : Signs(g)' = Signs(g)
  BY SameChain DEF ServerOK
<1>2. /\ b.weight = Weight(TableOf(EpochAt(h)), b.signers)
      /\ x = "decided" /\ h <= block /\ Signs(h)
  BY NewBundleFacts
<1>3. latest'.height = h /\ latest'.state = x /\ latest'.signers = b.signers
  OBVIOUS
<1>4. b.weight >= one_honest_threshold(TableOf(EpochAt(h))) /\ bundles' = PruneBundles(all, h)
  OBVIOUS
<1>5. /\ bundles \in [Heights \X States -> [signers : SUBSET Node, weight : Nat]]
      /\ queue \subseteq Heights /\ latest.height \in Nat /\ h \in Nat
      /\ \A g \in Heights : g \in Nat
  BY StakeAssumption DEF ServerOK, RelayTypes
<1> HIDE DEF b
<1>6. \A g \in Heights, y \in States :
        bundles'[<<g, y>>] = IF g <= h THEN NoSignatures ELSE bundles[<<g, y>>]
  BY <1>4, <1>5 DEF PruneBundles
<1>a. \A g \in Heights, y \in States : g <= h => bundles'[<<g, y>>] = NoSignatures
  BY <1>6, Zenon
<1>b. \A g \in Heights, y \in States : ~(g <= h) => bundles'[<<g, y>>] = bundles[<<g, y>>]
  BY <1>6, Zenon
<1>7. RelayTypes'
  <2>1. NoSignatures \in [signers : SUBSET Node, weight : Nat]
    BY DEF NoSignatures
  <2>2. DOMAIN bundles' = Heights \X States
    BY <1>4, <1>5 DEF PruneBundles
  <2>3. bundles' = [p \in DOMAIN bundles' |-> bundles'[p]]
    BY <1>4 DEF PruneBundles
  <2>4. \A p \in Heights \X States : bundles'[p] \in [signers : SUBSET Node, weight : Nat]
    <3> TAKE p \in Heights \X States
    <3>1. PICK g \in Heights : \E y \in States : p = <<g, y>>
      OBVIOUS
    <3>2. PICK y \in States : p = <<g, y>>
      BY <3>1
    <3> QED
      BY <1>5, <1>6, <2>1, <3>2, Zenon
  <2>5. bundles' \in [Heights \X States -> [signers : SUBSET Node, weight : Nat]]
    BY <2>2, <2>3, <2>4, Zenon
  <2> QED
    BY <1>3, <1>5, <2>5, Zenon DEF RelayTypes
<1>8. Right(known') /\ (EpochAt(h + 1) = EpochAt(h) => EpochAt(h) \in DOMAIN known')
  <2>1. CASE \E g \in queue \union {h} : g > h
    BY <2>1 DEF PruneTables
  <2>2. CASE ~\E g \in queue \union {h} : g > h
    <3> DEFINE D == DOMAIN nodes \ (EpochAt(Min(queue \union {h}))..(EpochAt(h + 1) - 1))
    <3>1. known' = Restrict(nodes, D)
      BY <2>2 DEF PruneTables
    <3>2. D \subseteq DOMAIN nodes
      OBVIOUS
    <3>3. EpochAt(h + 1) = EpochAt(h) => EpochAt(h) \in D
      <4>1. EpochAt(h) \in Nat
        BY <1>5, HeightFacts DEF ServerOK
      <4> QED
        BY <4>1
    <3> HIDE DEF D
    <3> QED
      BY <3>1, <3>2, <3>3, Zenon DEF Restrict, Right
  <2> QED
    BY <2>1, <2>2
<1>9. TablesRight' /\ TableKept'
  BY <1>1, <1>3, <1>8, Zenon DEF TablesRight, TableKept, Right
<1>10. ServedIsDecided'
  BY <1>1, <1>2, <1>3, <1>4, Zenon DEF ServedIsDecided
<1>11. ASSUME NEW g \in Heights, NEW y \in States PROVE Counted(g, y)'
  <2> DEFINE t == TableOf(EpochAt(g))
  <2>1. CASE g <= h
    <3>1. t \in DOMAIN Stake
      BY HeightFacts, Zenon DEF ServerOK
    <3>2. Weight(t, {}) = 0 /\ 0 < one_honest_threshold(t)
      BY <3>1, WeightFacts
    <3>3. bundles'[<<g, y>>].signers = {} /\ bundles'[<<g, y>>].weight = 0
      <4>1. bundles'[<<g, y>>] = NoSignatures
        BY <1>a, <2>1, Zenon
      <4>2. NoSignatures.signers = {} /\ NoSignatures.weight = 0
        BY DEF NoSignatures
      <4> QED
        BY <4>1, <4>2, Zenon
    <3> QED
      BY <1>1, <3>2, <3>3, Zenon DEF Counted
  <2>2. CASE ~(g <= h)
    <3>1. Counted(g, y)
      BY Zenon DEF ServerOK
    <3>2. bundles'[<<g, y>>] = bundles[<<g, y>>]
      BY <1>b, <2>2, Zenon
    <3>3. g > h
      BY <1>5, <2>2
    <3>4. g \in queue => g \in queue'
      BY <3>3
    <3> QED
      BY <1>1, <3>1, <3>2, <3>4, Zenon DEF Counted
  <2> QED
    BY <2>1, <2>2
<1>12. PostEffect(h)
  <2>1. \A g \in Heights, y \in States :
          g > h => bundles[<<g, y>>].signers \subseteq bundles'[<<g, y>>].signers
    <3> SUFFICES ASSUME NEW g \in Heights, NEW y \in States, g > h
                 PROVE  bundles[<<g, y>>].signers \subseteq bundles'[<<g, y>>].signers
      BY Zenon
    <3>1. g > h => ~(g <= h)
      BY <1>5
    <3>2. g > h => bundles'[<<g, y>>] = bundles[<<g, y>>]
      BY <1>b, <3>1, Zenon
    <3> QED
      BY <3>2, Zenon
  <2>2. h >= latest.height
    BY <1>5
  <2> QED
    BY <1>2, <1>3, <2>1, <2>2, Zenon DEF PostEffect
<1> QED
  BY <1>1, <1>7, <1>9, <1>10, <1>11, <1>12 DEF ServerOK

\* A post that only adds tables.
LEMMA TablesOnly ==
  ASSUME ServerOK, NEW h, UNCHANGED vars, UNCHANGED <<bundles, queue, latest>>,
         DOMAIN known \subseteq DOMAIN known', Right(known')
  PROVE  ServerOK' /\ PostEffect(h)
<1>1. /\ height' = height /\ block' = block /\ PlaceInv'
      /\ \A g : EpochAt(g)' = EpochAt(g) /\ TableOf(g)' = TableOf(g)
      /\ \A g : Signs(g)' = Signs(g)
  BY SameChain DEF ServerOK
<1>2. RelayTypes'
  BY DEF ServerOK, RelayTypes
<1>3. TablesRight' /\ TableKept' /\ ServedIsDecided'
  BY <1>1 DEF ServerOK, TablesRight, Right, TableKept, ServedIsDecided
<1>4. \A g \in Heights, y \in States : Counted(g, y)'
  BY <1>1, Zenon DEF ServerOK, Counted
<1>5. PostEffect(h)
  BY DEF PostEffect, ServerOK, RelayTypes
<1> QED
  BY <1>1, <1>2, <1>3, <1>4, <1>5 DEF ServerOK

\* The server ignores nothing that an honest node signs: up to the upgrade the
\* blocks behind an epoch root are signed, but epochs have not started or the
\* root of their first epoch is still to come.
LEMMA NotIgnored ==
  ASSUME PlaceInv, NEW h \in Heights, Signs(h)
  PROVE  ~Ignored(h)
<1> SUFFICES ASSUME h > EpochStart, is_gt_epoch_root(h, height) PROVE FALSE
  BY DEF Ignored
<1>1. height \in EpochHeights /\ height \in Nat /\ height > 5
  BY HeightFacts
<1>2. h \in Nat /\ EpochStart \in Nat /\ Upgrade \in Nat
  BY StakeAssumption
<1>3. is_ge_epoch_root(h, height)
  <2>1. h % height \in Int
    BY <1>1, <1>2
  <2> QED
    BY <1>1, <2>1 DEF is_gt_epoch_root, is_ge_epoch_root
<1>4. h < Upgrade
  BY <1>2, <1>3 DEF Signs
<1>5. epoch_from_block_number(Upgrade + 10, height) = epoch_from_block_number(EpochStart, height)
  <2>1. ~(Upgrade <= EpochStart + 1)
    BY <1>2, <1>4
  <2> QED
    BY <1>1, <2>1, UpgradeAssumption
<1> DEFINE E(b) == epoch_from_block_number(b, height)
<1>6. E(EpochStart) <= E(h) /\ E(h) <= E(h + 10) /\ E(h + 10) <= E(Upgrade + 10)
  <2>1. /\ EpochStart <= h /\ h <= h + 10 /\ h + 10 <= Upgrade + 10
        /\ h + 10 \in Nat /\ Upgrade + 10 \in Nat /\ height > 0
    BY <1>1, <1>2, <1>4
  <2> QED
    BY <1>1, <1>2, <2>1, EpochMonotone
<1>7. E(EpochStart) \in Nat /\ E(h) \in Nat /\ E(h + 10) \in Nat
  <2>1. h + 10 \in Nat
    BY <1>2
  <2> QED
    BY <1>2, <2>1, HeightFacts DEF EpochAt
<1>8. E(h + 10) = E(h)
  <2> HIDE DEF E
  <2>1. E(Upgrade + 10) = E(EpochStart)
    BY <1>5 DEF E
  <2> QED
    BY <1>6, <1>7, <2>1
<1> QED
  BY <1>1, <1>2, <1>8, TenBeforeTheEnd

\* The table of the epoch of a height above the served one is there, or is
\* fetched, from the second epoch on.
LEMMA TableThere ==
  ASSUME ServerOK, NEW h \in Heights, h > latest.height, EpochAt(h) > 1
  PROVE  EpochAt(h) \in DOMAIN SyncStakeTable(InitGenesis, h)
<1>1. h \in Nat /\ latest.height \in Nat /\ latest.height + 1 \in Nat
  BY StakeAssumption DEF ServerOK, RelayTypes
<1>2. /\ EpochAt(h) \in Nat /\ EpochAt(latest.height) \in Nat /\ EpochAt(latest.height + 1) \in Nat
      /\ EpochAt(latest.height) <= EpochAt(latest.height + 1)
      /\ EpochAt(latest.height + 1) <= EpochAt(h)
  <2>1. latest.height <= latest.height + 1 /\ latest.height + 1 <= h
    BY <1>1
  <2> QED
    BY <1>1, <2>1, HeightFacts DEF ServerOK
<1>3. CASE EpochAt(h) > EpochAt(latest.height)
  BY <1>3, SyncedRight
<1>4. CASE ~(EpochAt(h) > EpochAt(latest.height))
  <2>1. EpochAt(h) = EpochAt(latest.height) /\ EpochAt(latest.height + 1) = EpochAt(latest.height)
    BY <1>2, <1>4
  <2>2. latest.height # 0
    <3>1. EpochAt(0) = 1
      BY HeightFacts DEF ServerOK, EpochAt, epoch_from_block_number
    <3> QED
      BY <2>1, <3>1
  <2>3. EpochAt(h) \in DOMAIN known
    BY <2>1, <2>2 DEF ServerOK, TableKept
  <2> QED
    BY <2>3, SyncedRight
<1> QED
  BY <1>3, <1>4

\* A request leaves the server in order, and the signature of a member is in its
\* bundle afterwards, unless its height is no longer needed.
LEMMA PostSound ==
  ASSUME ServerOK, NEW n \in Node, NEW h \in Heights, NEW x \in States, MaySign(n, h, x),
         post_signature(n, h, x), UNCHANGED vars
  PROVE  /\ ServerOK' /\ PostEffect(h)
         /\ n \notin Faulty /\ h > latest'.height /\ EpochAt(h) > 1
              /\ Stake[TableOf(EpochAt(h))][n] > 0 => n \in bundles'[<<h, x>>].signers
<1> DEFINE nodes == InitGenesis
           synced == SyncStakeTable(nodes, h)
           table == TableOf(EpochAt(h))
<1>1. /\ Right(nodes) /\ Right(synced)
      /\ DOMAIN known \subseteq DOMAIN nodes /\ DOMAIN known \subseteq DOMAIN synced
  BY SyncedRight
<1>2. h \in Nat /\ latest.height \in Nat
  BY StakeAssumption DEF ServerOK, RelayTypes
<1>3. CASE h <= latest.height /\ UNCHANGED server
  <2>1. UNCHANGED <<bundles, queue, latest>> /\ known' = known
    BY <1>3 DEF server
  <2>2. DOMAIN known \subseteq DOMAIN known' /\ Right(known')
    BY <2>1 DEF ServerOK, TablesRight, Right
  <2>3. ServerOK' /\ PostEffect(h)
    BY <2>1, <2>2, TablesOnly, Zenon
  <2>4. ~(h > latest'.height)
    BY <1>2, <1>3, <2>1
  <2> QED
    BY <2>3, <2>4
<1>4. CASE /\ h > latest.height /\ Ignored(h)
           /\ known' = nodes /\ UNCHANGED <<bundles, queue, latest>>
  <2>1. ServerOK' /\ PostEffect(h)
    <3>1. DOMAIN known \subseteq DOMAIN known' /\ Right(known') /\ UNCHANGED <<bundles, queue, latest>>
      BY <1>1, <1>4, Zenon
    <3> QED
      BY <3>1, TablesOnly, Zenon
  <2>2. n \in Faulty
    BY <1>4, NotIgnored DEF MaySign, ServerOK
  <2> QED
    BY <2>1, <2>2
<1>5. CASE /\ h > latest.height /\ Refused(n, h, x, synced)
           /\ known' = synced /\ UNCHANGED <<bundles, queue, latest>>
  <2>1. ServerOK' /\ PostEffect(h)
    <3>1. DOMAIN known \subseteq DOMAIN known' /\ Right(known') /\ UNCHANGED <<bundles, queue, latest>>
      BY <1>1, <1>5, Zenon
    <3> QED
      BY <3>1, TablesOnly, Zenon
  <2>2. ASSUME EpochAt(h) > 1, Stake[table][n] > 0
        PROVE  n \in bundles[<<h, x>>].signers
    <3>1. EpochAt(h) \in DOMAIN synced
      BY <1>5, <2>2, TableThere
    <3>2. synced[EpochAt(h)] = table
      BY <1>1, <3>1, Zenon DEF Right
    <3> HIDE DEF synced, table
    <3>3. ~(Stake[synced[EpochAt(h)]][n] = 0)
      BY <2>2, <3>2
    <3> QED
      BY <1>5, <3>1, <3>3 DEF Refused
  <2> QED
    BY <1>5, <2>1, <2>2
<1>6. CASE h > latest.height /\ ~Refused(n, h, x, synced) /\ Collect(n, h, x, synced)
  <2>1. EpochAt(h) \in DOMAIN synced /\ n \notin bundles[<<h, x>>].signers
    BY <1>6 DEF Refused
  <2>2. synced[EpochAt(h)] = table
    BY <1>1, <2>1, Zenon DEF Right
  <2> HIDE DEF synced
  <2>3. \/ /\ NewBundle(n, h, x).weight >= one_honest_threshold(table)
           /\ latest' = [height |-> h, state |-> x, signers |-> NewBundle(n, h, x).signers]
           /\ known' = PruneTables(synced, queue \union {h}, h)
           /\ bundles' = PruneBundles([bundles EXCEPT ![<<h, x>>] = NewBundle(n, h, x)], h)
           /\ queue' = {g \in queue \union {h} : g > h}
        \/ /\ ~(NewBundle(n, h, x).weight >= one_honest_threshold(table))
           /\ known' = synced
           /\ bundles' = [bundles EXCEPT ![<<h, x>>] = NewBundle(n, h, x)]
           /\ queue' = queue \union {h} /\ latest' = latest
    BY <1>6, <2>2, Zenon DEF Collect, NewBundle
  <2>4. CASE NewBundle(n, h, x).weight >= one_honest_threshold(table)
    <3>1. ServerOK' /\ PostEffect(h)
      BY <1>1, <1>6, <2>1, <2>3, <2>4, CollectLast, Zenon
    <3>2. latest'.height = h
      BY <2>3, <2>4
    <3> QED
      BY <1>2, <3>1, <3>2
  <2>5. CASE ~(NewBundle(n, h, x).weight >= one_honest_threshold(table))
    <3>1. NewBundle(n, h, x).weight < one_honest_threshold(table)
      <4>1. table \in DOMAIN Stake
        BY HeightFacts DEF ServerOK
      <4>2. one_honest_threshold(table) \in Nat
        BY <4>1, WeightFacts
      <4>3. NewBundle(n, h, x).weight \in Nat
        BY <2>1, NewBundleFacts
      <4> HIDE DEF table
      <4> QED
        BY <2>5, <4>2, <4>3
    <3>2. ServerOK' /\ PostEffect(h) /\ n \in bundles'[<<h, x>>].signers
      BY <1>1, <2>1, <2>3, <2>5, <3>1, CollectMore, Zenon
    <3> QED
      BY <3>2
  <2> QED
    BY <2>4, <2>5
<1> QED
  BY <1>3, <1>4, <1>5, <1>6, Zenon DEF post_signature

\* What a request does keeps the posted signatures of other heights, and those of
\* the same height that are still needed.
LEMMA OthersKept ==
  ASSUME Relayed, ServerOK', NEW h, PostEffect(h), UNCHANGED vars,
         NEW p \in posted, p[2] > latest'.height
  PROVE  EpochAt(p[2])' > 1 /\ Stake[TableOf(EpochAt(p[2]))'][p[1]] > 0 =>
           p[1] \in bundles'[<<p[2], "decided">>].signers
<1>1. p[2] \in Heights /\ "decided" \in States
  BY DEF Relayed, PostedKept, States
<1>2. EpochAt(p[2])' = EpochAt(p[2]) /\ TableOf(EpochAt(p[2]))' = TableOf(EpochAt(p[2]))
  BY SameChain DEF Relayed, ServerOK, vars, EpochAt, TableOf, First
<1>3. bundles[<<p[2], "decided">>].signers \subseteq bundles'[<<p[2], "decided">>].signers
  BY <1>1 DEF PostEffect
<1> QED
  BY <1>2, <1>3 DEF Relayed, PostedKept

\* An honest node's post: its signature is added to what is kept.
LEMMA HandleDecideRelayed ==
  ASSUME Relayed, NEW n \in Node \ Faulty, NEW h \in Heights, HandleDecide(n, h)
  PROVE  Relayed' /\ PostEffect(h)
<1>1. /\ n \in Node /\ n \notin Faulty /\ "decided" \in States /\ ServerOK
      /\ MaySign(n, h, "decided") /\ post_signature(n, h, "decided") /\ UNCHANGED vars
  BY DEF Relayed, HandleDecide, MaySign, States
<1>2. /\ ServerOK' /\ PostEffect(h)
      /\ n \notin Faulty /\ h > latest'.height /\ EpochAt(h) > 1
           /\ Stake[TableOf(EpochAt(h))][n] > 0 => n \in bundles'[<<h, "decided">>].signers
  BY <1>1, PostSound, Zenon
<1>3. posted' = {p \in posted \union {<<n, h>>} : p[2] > latest'.height}
  BY DEF HandleDecide
<1>4. posted' \subseteq Node \X Heights
  BY <1>1, <1>3 DEF Relayed, PostedKept
<1>5. EpochAt(h)' = EpochAt(h) /\ TableOf(EpochAt(h))' = TableOf(EpochAt(h))
  BY <1>1 DEF vars, EpochAt, TableOf, First
<1>6. ASSUME NEW p \in posted'
      PROVE  /\ p[2] > latest'.height
             /\ EpochAt(p[2])' > 1 /\ Stake[TableOf(EpochAt(p[2]))'][p[1]] > 0 =>
                  p[1] \in bundles'[<<p[2], "decided">>].signers
  <2>1. p[2] > latest'.height /\ (p \in posted \/ p = <<n, h>>)
    BY <1>3
  <2>2. CASE p \in posted
    BY <1>1, <1>2, <2>1, <2>2, OthersKept
  <2>3. CASE p = <<n, h>>
    BY <1>1, <1>2, <1>5, <2>1, <2>3
  <2> QED
    BY <2>1, <2>2, <2>3
<1> QED
  BY <1>2, <1>4, <1>6 DEF Relayed, PostedKept

\* A faulty node's post: whatever it signs, what honest nodes posted is kept.
LEMMA FaultyPostRelayed ==
  ASSUME Relayed, NEW n \in Faulty, NEW h \in Heights, NEW x \in States, FaultyPost(n, h, x)
  PROVE  Relayed' /\ PostEffect(h)
<1>1. /\ n \in Node /\ ServerOK
      /\ MaySign(n, h, x) /\ post_signature(n, h, x) /\ UNCHANGED vars
  BY StakeAssumption DEF Relayed, FaultyPost, MaySign
<1>2. ServerOK' /\ PostEffect(h)
  BY <1>1, PostSound, Zenon
<1>3. posted' = {p \in posted : p[2] > latest'.height}
  BY DEF FaultyPost
<1>4. posted' \subseteq Node \X Heights
  BY <1>3 DEF Relayed, PostedKept
<1>5. ASSUME NEW p \in posted'
      PROVE  /\ p[2] > latest'.height
             /\ EpochAt(p[2])' > 1 /\ Stake[TableOf(EpochAt(p[2]))'][p[1]] > 0 =>
                  p[1] \in bundles'[<<p[2], "decided">>].signers
  <2>1. p[2] > latest'.height /\ p \in posted
    BY <1>3
  <2> QED
    BY <1>1, <1>2, <2>1, OthersKept
<1> QED
  BY <1>2, <1>4, <1>5 DEF Relayed, PostedKept

\* A new block makes more heights decided; the server is not involved.
LEMMA DecideRelayed ==
  ASSUME Relayed, [NextBlock]_vars, UNCHANGED <<server, posted>>
  PROVE  Relayed'
<1>1. PlaceInv' /\ height' = height
  BY StepPlace DEF Relayed, ServerOK, NextBlock, vars
<1>2. block \in Nat /\ block' \in Nat /\ block' >= block
  <2>1. block \in Nat
    BY HeightFacts DEF Relayed, ServerOK
  <2> QED
    BY <2>1 DEF NextBlock, vars
<1>3. /\ known' = known /\ bundles' = bundles /\ queue' = queue /\ latest' = latest
      /\ configured' = configured /\ posted' = posted
  BY DEF server
<1>4. RelayTypes' /\ TablesRight' /\ TableKept'
  BY <1>1, <1>3 DEF Relayed, ServerOK, RelayTypes, TablesRight, TableKept, EpochAt, TableOf, First
<1>5. ServedIsDecided'
  BY <1>1, <1>2, <1>3 DEF Relayed, ServerOK, RelayTypes, ServedIsDecided, EpochAt, TableOf, First
<1>6. ASSUME NEW h \in Heights, NEW x \in States PROVE Counted(h, x)'
  <2>1. Counted(h, x) /\ h \in Nat
    BY StakeAssumption DEF Relayed, ServerOK
  <2>2. /\ TableOf(EpochAt(h))' = TableOf(EpochAt(h)) /\ Signs(h)' = Signs(h)
        /\ h <= block => h <= block'
    BY <1>1, <1>2, <2>1 DEF EpochAt, TableOf, First, Signs
  <2> QED
    BY <1>3, <2>1, <2>2, Zenon DEF Counted
<1>7. PostedKept'
  BY <1>1, <1>3 DEF Relayed, PostedKept, EpochAt, TableOf, First
<1> QED
  BY <1>1, <1>4, <1>5, <1>6, <1>7 DEF Relayed, ServerOK

\* The server starts without tables and signatures.
LEMMA InitRelayed == RelayInit => Relayed
<1> SUFFICES ASSUME RelayInit PROVE Relayed
  OBVIOUS
<1>1. PlaceInv
  BY InitPlace DEF RelayInit
<1>2. RelayTypes
  BY DEF RelayInit, RelayTypes, NoSignatures, States
<1>3. TablesRight /\ TableKept /\ ServedIsDecided /\ PostedKept
  BY DEF RelayInit, TablesRight, TableKept, ServedIsDecided, PostedKept
<1>4. ASSUME NEW h \in Heights, NEW x \in States PROVE Counted(h, x)
  <2>1. bundles[<<h, x>>] = NoSignatures
    BY DEF RelayInit
  <2>2. TableOf(EpochAt(h)) \in DOMAIN Stake
    BY <1>1, HeightFacts
  <2>3. Weight(TableOf(EpochAt(h)), {}) = 0 /\ 0 < one_honest_threshold(TableOf(EpochAt(h)))
    BY <2>2, WeightFacts
  <2> QED
    BY <2>1, <2>3 DEF Counted, NoSignatures
<1> QED
  BY <1>1, <1>2, <1>3, <1>4 DEF Relayed, ServerOK

\* Relayed is inductive.
LEMMA RelayStep == Relayed /\ [RelayNext]_relayVars => Relayed'
<1> SUFFICES ASSUME Relayed, [RelayNext]_relayVars PROVE Relayed'
  OBVIOUS
<1>1. CASE Decide
  BY <1>1, DecideRelayed DEF Decide
<1>2. CASE \E n \in Node \ Faulty, h \in Heights : HandleDecide(n, h)
  BY <1>2, HandleDecideRelayed
<1>3. CASE \E n \in Faulty, h \in Heights, x \in States : FaultyPost(n, h, x)
  BY <1>3, FaultyPostRelayed
<1>4. CASE UNCHANGED relayVars
  BY <1>4, DecideRelayed DEF relayVars
<1> QED
  BY <1>1, <1>2, <1>3, <1>4 DEF RelayNext

\* Relayed holds in every behaviour of the server and the signers.
LEMMA AlwaysRelayed == RelaySpec => []Relayed
  BY InitRelayed, RelayStep, PTL DEF RelaySpec

\* The server only ever serves the decided state of a decided block, signed by
\* nodes with enough stake in the table of its epoch.
THEOREM ServedAlwaysDecided == RelaySpec => []ServedIsDecided
<1>1. Relayed => ServedIsDecided
  BY DEF Relayed, ServerOK
<1> QED
  BY <1>1, AlwaysRelayed, PTL

\* However requests are ordered, and whatever the faulty nodes post, no signature
\* is lost that the server still needs.
THEOREM NothingNeededEverLost == RelaySpec => []NothingNeededIsLost
<1>1. Relayed => NothingNeededIsLost
  <2> SUFFICES ASSUME Relayed, NEW p \in posted,
                      EpochAt(p[2]) > 1, Stake[TableOf(EpochAt(p[2]))][p[1]] > 0
               PROVE  /\ p[1] \in bundles[<<p[2], "decided">>].signers
                      /\ p[2] \in queue
                      /\ Weight(TableOf(EpochAt(p[2])), bundles[<<p[2], "decided">>].signers)
                           < one_honest_threshold(TableOf(EpochAt(p[2])))
    BY DEF NothingNeededIsLost
  <2>1. p[1] \in bundles[<<p[2], "decided">>].signers /\ p[2] \in Heights
    BY DEF Relayed, PostedKept
  <2>2. Counted(p[2], "decided")
    BY <2>1 DEF Relayed, ServerOK, States
  <2> QED
    BY <2>1, <2>2 DEF Counted
<1> QED
  BY <1>1, AlwaysRelayed, PTL

\* The height of the served bundle only grows and is never that of an epoch root
\* or behind it from the upgrade on.
THEOREM ServesAsExpected == RelaySpec => ServesAsProversExpect
<1> DEFINE Expected == latest'.height # latest.height =>
                         /\ latest'.height > latest.height
                         /\ latest'.height >= Upgrade => ~is_ge_epoch_root(latest'.height, height)
<1>1. ASSUME Relayed, [RelayNext]_relayVars PROVE [Expected]_relayVars
  <2>1. ASSUME NEW h, PostEffect(h) PROVE Expected
    BY <2>1 DEF PostEffect, Signs
  <2>2. CASE Decide \/ UNCHANGED relayVars
    BY <2>2 DEF Decide, server, relayVars
  <2>3. CASE \E n \in Node \ Faulty, h \in Heights : HandleDecide(n, h)
    BY <1>1, <2>1, <2>3, HandleDecideRelayed
  <2>4. CASE \E n \in Faulty, h \in Heights, x \in States : FaultyPost(n, h, x)
    BY <1>1, <2>1, <2>4, FaultyPostRelayed
  <2> QED
    BY <1>1, <2>2, <2>3, <2>4 DEF RelayNext
<1> QED
  BY <1>1, AlwaysRelayed, PTL DEF RelaySpec, ServesAsProversExpect
=============================================================================
