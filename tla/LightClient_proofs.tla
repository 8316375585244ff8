------------------------- MODULE LightClient_proofs -------------------------
(***************************************************************************)
(* Proofs about the light client contract, for every epoch height above     *)
(* five and every configuration that LightClientAssumption allows, and      *)
(* about the provers that call it: whatever they have read, and however     *)
(* their calls interleave, the contract never gets ahead of the relay       *)
(* server, and a bundle's proof is only in vain if the contract has moved   *)
(* on.                                                                      *)
(***************************************************************************)
EXTENDS StateProver, Integers, WellFoundedInduction, TLAPS

-----------------------------------------------------------------------------
\* Epoch arithmetic: divisions and remainders as bounds.

\* Division with remainder.
LEMMA Division ==
  ASSUME NEW b \in Nat, NEW h \in Nat, h > 0
  PROVE  /\ b \div h \in Nat
         /\ b % h \in 0..(h - 1)
         /\ b = h * (b \div h) + (b % h)
<1>1. b \div h \in Nat
  OBVIOUS
<1>2. b % h \in 0..(h - 1)
  OBVIOUS
<1>3. b = h * (b \div h) + (b % h)
  OBVIOUS
<1> QED
  BY <1>1, <1>2, <1>3

\* A multiple of the epoch height with a larger factor is larger by an epoch.
LEMMA Multiples ==
  \A h, k, l \in Nat : k < l => h * k + h <= h * l
OBVIOUS

\* An epoch consists of the blocks behind the last one of the epoch before it,
\* up to its own last one; block 0 belongs to the first epoch.
LEMMA EpochBounds ==
  ASSUME NEW b \in Nat
  PROVE  /\ EpochFromBlockNumber(b) \in Nat /\ EpochFromBlockNumber(b) >= 1
         /\ b <= BlocksPerEpoch * EpochFromBlockNumber(b)
         /\ b > 0 => BlocksPerEpoch * EpochFromBlockNumber(b) - BlocksPerEpoch < b
<1> DEFINE h == BlocksPerEpoch
           q == b \div h
           r == b % h
<1>1. h \in Nat /\ h > 0
  BY LightClientAssumption
<1>2. q \in Nat /\ r \in 0..(h - 1) /\ b = h * q + r
  BY <1>1, Division
<1>3. h * (q + 1) = h * q + h
  BY <1>1, <1>2
<1>4. CASE b = 0
  BY <1>1, <1>4 DEF EpochFromBlockNumber
<1>5. CASE b # 0 /\ r = 0
  <2>1. EpochFromBlockNumber(b) = q
    BY <1>5 DEF EpochFromBlockNumber
  <2>2. q # 0
    BY <1>1, <1>2, <1>5
  <2> HIDE DEF q, r, h
  <2>3. h * q - h < b /\ b <= h * q
    BY <1>1, <1>2, <1>5
  <2> QED
    BY <1>2, <2>1, <2>2, <2>3 DEF h
<1>6. CASE b # 0 /\ r # 0
  <2>1. EpochFromBlockNumber(b) = q + 1
    BY <1>6 DEF EpochFromBlockNumber
  <2> HIDE DEF q, r, h
  <2>2. h * (q + 1) - h < b /\ b <= h * (q + 1)
    BY <1>1, <1>2, <1>3, <1>6
  <2> QED
    BY <1>2, <2>1, <2>2 DEF h
<1> QED
  BY <1>4, <1>5, <1>6

\* Later blocks are in later epochs or in the same one.
LEMMA EpochMonotone ==
  ASSUME NEW b \in Nat, NEW c \in Nat, b <= c
  PROVE  EpochFromBlockNumber(b) <= EpochFromBlockNumber(c)
<1> DEFINE h == BlocksPerEpoch
           k == EpochFromBlockNumber(b)
           l == EpochFromBlockNumber(c)
<1>1. k \in Nat /\ k >= 1 /\ (b > 0 => h * k - h < b) /\ l \in Nat /\ l >= 1 /\ c <= h * l
  BY EpochBounds
<1>2. b = 0 => k = 1
  BY DEF EpochFromBlockNumber
<1>3. h \in Nat
  BY LightClientAssumption
<1>4. l < k => h * l + h <= h * k
  BY <1>1, <1>3, Multiples
<1> HIDE DEF k, l, h
<1>5. h * l \in Nat /\ h * k \in Nat
  BY <1>1, <1>3
<1>6. ~ (l < k)
  BY <1>1, <1>2, <1>3, <1>4, <1>5
<1> QED
  BY <1>1, <1>6 DEF k, l

\* The block is in the epoch whose bounds it meets.
LEMMA EpochUnique ==
  ASSUME NEW b \in Nat, NEW k \in Nat, b > 0,
         BlocksPerEpoch * k - BlocksPerEpoch < b, b <= BlocksPerEpoch * k
  PROVE  EpochFromBlockNumber(b) = k
<1> DEFINE h == BlocksPerEpoch
           l == EpochFromBlockNumber(b)
<1>1. l \in Nat /\ b <= h * l /\ h * l - h < b
  BY EpochBounds
<1>2. h \in Nat
  BY LightClientAssumption
<1>3. (l < k => h * l + h <= h * k) /\ (k < l => h * k + h <= h * l)
  BY <1>1, <1>2, Multiples
<1> HIDE DEF l
<1>4. h * l \in Nat /\ h * k \in Nat
  BY <1>1, <1>2
<1>5. ~ (l < k) /\ ~ (k < l)
  BY <1>1, <1>2, <1>3, <1>4
<1> QED
  BY <1>1, <1>5 DEF l

\* A block is an epoch root if it is five blocks before the last one.
LEMMA RootIs ==
  ASSUME NEW b \in Nat
  PROVE  IsEpochRoot(b) <=> b > 0 /\ b = BlocksPerEpoch * EpochFromBlockNumber(b) - 5
<1> DEFINE h == BlocksPerEpoch
           k == EpochFromBlockNumber(b)
           m == (b + 5) \div h
<1>1. h \in Nat /\ h > 5
  BY LightClientAssumption
<1>2. k \in Nat
  BY EpochBounds
<1>3. ASSUME b = h * k - 5 PROVE (b + 5) % h = 0
  <2> HIDE DEF k
  <2>1. b + 5 = h * k + 0
    BY <1>1, <1>2, <1>3
  <2>2. (h * k + 0) % h = 0
    BY <1>1, <1>2
  <2> QED
    BY <2>1, <2>2
<1>4. ASSUME b > 0, (b + 5) % h = 0 PROVE b = h * k - 5
  <2>1. m \in Nat /\ b + 5 = h * m
    <3>1. b + 5 \in Nat
      OBVIOUS
    <3>2. m \in Nat /\ b + 5 = h * m + ((b + 5) % h)
      BY <1>1, <3>1, Division
    <3>3. h * m \in Nat
      BY <1>1, <3>2
    <3> QED
      BY <1>4, <3>2, <3>3
  <2> HIDE DEF m
  <2>2. h * m \in Nat
    BY <1>1, <2>1
  <2>3. h * m - h < b /\ b <= h * m
    BY <1>1, <2>1, <2>2
  <2>4. k = m
    BY <1>4, <2>1, <2>3, EpochUnique
  <2> QED
    BY <2>1, <2>2, <2>4
<1> QED
  BY <1>3, <1>4 DEF IsEpochRoot

\* A block is behind the root if it is later than that.
LEMMA BehindRoot ==
  ASSUME NEW b \in Nat
  PROVE  /\ IsGtEpochRoot(b) <=> b > 0 /\ b > BlocksPerEpoch * EpochFromBlockNumber(b) - 5
         /\ is_ge_epoch_root(b, BlocksPerEpoch)
              <=> b > 0 /\ b >= BlocksPerEpoch * EpochFromBlockNumber(b) - 5
<1> DEFINE h == BlocksPerEpoch
           q == b \div h
           r == b % h
           k == EpochFromBlockNumber(b)
<1>1. h \in Nat /\ h > 5
  BY LightClientAssumption
<1>2. q \in Nat /\ r \in 0..(h - 1) /\ b = h * q + r
  BY <1>1, Division
<1>3. IsGtEpochRoot(b) <=> b # 0 /\ (r = 0 \/ r > h - 5)
  BY DEF IsGtEpochRoot
<1>4. is_ge_epoch_root(b, BlocksPerEpoch) <=> b # 0 /\ (r = 0 \/ r >= h - 5)
  BY <1>1 DEF is_ge_epoch_root
<1>5. b # 0 => k = IF r = 0 THEN q ELSE q + 1
  BY DEF EpochFromBlockNumber
<1>6. h * q \in Nat /\ h * (q + 1) = h * q + h
  BY <1>1, <1>2
<1> HIDE DEF q, r, k
<1>7. CASE r = 0
  <2>1. b # 0 => b = h * k
    BY <1>2, <1>5, <1>6, <1>7
  <2>2. b # 0 => h * k \in Nat
    BY <1>5, <1>6, <1>7
  <2> QED
    BY <1>1, <1>3, <1>4, <1>7, <2>1, <2>2 DEF k
<1>8. CASE r # 0
  <2>1. b # 0 => h * k = h * q + h
    BY <1>5, <1>6, <1>8
  <2>2. b = h * q + r /\ b # 0 => h * k = b - r + h
    BY <1>1, <1>2, <1>6, <2>1
  <2>3. b # 0 => (b > h * k - 5 <=> r > h - 5) /\ (b >= h * k - 5 <=> r >= h - 5)
    BY <1>1, <1>2, <2>2
  <2> QED
    BY <1>1, <1>3, <1>4, <1>8, <2>3 DEF k
<1> QED
  BY <1>7, <1>8

\* The contract computes with epochs as HotShot does.
LEMMA SameArithmetic ==
  ASSUME NEW b \in Nat
  PROVE  /\ epoch_from_block_number(b, BlocksPerEpoch) = EpochFromBlockNumber(b)
         /\ is_epoch_root(b, BlocksPerEpoch) <=> IsEpochRoot(b)
         /\ is_gt_epoch_root(b, BlocksPerEpoch) <=> IsGtEpochRoot(b)
<1>1. BlocksPerEpoch # 0
  BY LightClientAssumption
<1> QED
  BY <1>1 DEF epoch_from_block_number, EpochFromBlockNumber, is_epoch_root, IsEpochRoot,
              is_gt_epoch_root, IsGtEpochRoot

\* The root of an epoch is a block of that epoch.
LEMMA RootBlock ==
  ASSUME NEW e \in Nat, e >= 1
  PROVE  LET b == BlocksPerEpoch * e - 5
         IN  /\ b \in Nat /\ b > 0 /\ EpochFromBlockNumber(b) = e
             /\ IsEpochRoot(b) /\ ~IsGtEpochRoot(b)
             /\ root_block_in_epoch(e, BlocksPerEpoch) = b
<1> DEFINE h == BlocksPerEpoch
           b == h * e - 5
<1>1. h \in Nat /\ h > 5
  BY LightClientAssumption
<1>2. h * e \in Nat /\ h * e >= h
  <2>1. h * e = h * (e - 1) + h /\ h * (e - 1) \in Nat
    BY <1>1
  <2> QED
    BY <1>1, <2>1
<1>3. b \in Nat /\ b > 0 /\ h * e - h < b /\ b <= h * e
  BY <1>1, <1>2
<1>4. EpochFromBlockNumber(b) = e
  BY <1>3, EpochUnique
<1>5. IsEpochRoot(b) /\ ~IsGtEpochRoot(b)
  BY <1>3, <1>4, RootIs, BehindRoot
<1>6. root_block_in_epoch(e, BlocksPerEpoch) = b
  BY <1>1 DEF root_block_in_epoch
<1> QED
  BY <1>3, <1>4, <1>5, <1>6

-----------------------------------------------------------------------------
\* The configuration.

\* HotShot upgrades before the root of the first epoch, and a start block in it
\* or in an earlier epoch is not behind the root of its epoch.
LEMMA Configuration ==
  /\ First \in Nat /\ First >= 1
  /\ EpochFromBlockNumber(EpochStart) = First
  /\ EpochFromBlockNumber(Upgrade) = First
  /\ Upgrade < BlocksPerEpoch * First - 5
  /\ \A b \in Starts : EpochFromBlockNumber(b) <= First
                         => b <= BlocksPerEpoch * EpochFromBlockNumber(b) - 5
<1>1. BlocksPerEpoch \in Nat /\ BlocksPerEpoch > 5 /\ EpochStart \in Starts /\ Starts \subseteq Nat
        /\ Upgrade \in Nat
  BY LightClientAssumption
<1>2. EpochFromBlockNumber(EpochStart) = First /\ EpochFromBlockNumber(Upgrade) = First
  BY <1>1, SameArithmetic, LightClientAssumption DEF First
<1>3. First \in Nat /\ First >= 1
  BY <1>1, <1>2, EpochBounds
<1>4. BlocksPerEpoch * First - 5 \in Nat /\ BlocksPerEpoch * First - 5 > 0
  BY <1>3, RootBlock
<1>5. Upgrade < BlocksPerEpoch * First - 5
  <2>1. ~is_ge_epoch_root(Upgrade, BlocksPerEpoch)
    BY LightClientAssumption
  <2>2. ~ (Upgrade > 0 /\ Upgrade >= BlocksPerEpoch * First - 5)
    BY <1>1, <1>2, <2>1, BehindRoot
  <2> QED
    BY <1>1, <1>4, <2>2
<1>6. ASSUME NEW b \in Starts, EpochFromBlockNumber(b) <= First
      PROVE  b <= BlocksPerEpoch * EpochFromBlockNumber(b) - 5
  <2>1. b \in Nat /\ EpochFromBlockNumber(b) \in Nat /\ EpochFromBlockNumber(b) >= 1
    BY <1>1, EpochBounds
  <2>2. ~is_gt_epoch_root(b, BlocksPerEpoch)
    BY <1>6, <2>1, SameArithmetic, LightClientAssumption
  <2>3. ~ (b > 0 /\ b > BlocksPerEpoch * EpochFromBlockNumber(b) - 5)
    BY <2>1, <2>2, SameArithmetic, BehindRoot
  <2>4. BlocksPerEpoch * EpochFromBlockNumber(b) - 5 \in Nat
    BY <2>1, RootBlock
  <2> QED
    BY <2>1, <2>3, <2>4
<1> QED
  BY <1>2, <1>3, <1>5, <1>6

\* The root of a later epoch is later.
LEMMA RootsAscend ==
  ASSUME NEW d \in Nat, NEW e \in Nat, d <= e
  PROVE  BlocksPerEpoch * d - 5 <= BlocksPerEpoch * e - 5
<1>1. BlocksPerEpoch \in Nat
  BY LightClientAssumption
<1>2. d < e => BlocksPerEpoch * d + BlocksPerEpoch <= BlocksPerEpoch * e
  BY <1>1, Multiples
<1>3. BlocksPerEpoch * d \in Nat /\ BlocksPerEpoch * e \in Nat
  BY <1>1
<1> QED
  BY <1>1, <1>2, <1>3

\* The roots that the contract takes for roots with a new table are those that
\* HotShot signs with a new table, and no block before is signed with one.
LEMMA RootsAreSigned ==
  ASSUME NEW h \in Nat
  PROVE  /\ IsEpochRoot(h) /\ EpochFromBlockNumber(h) >= First => h >= Upgrade
         /\ EpochFromBlockNumber(h) < First => h < Upgrade
         /\ \A b \in Starts :
              IsEpochRoot(h) /\ EpochFromBlockNumber(b) <= First
                /\ EpochFromBlockNumber(b) <= EpochFromBlockNumber(h) => h >= b
<1> DEFINE e == EpochFromBlockNumber(h)
<1>1. e \in Nat /\ BlocksPerEpoch * e \in Nat /\ Upgrade \in Nat
  BY EpochBounds, LightClientAssumption
<1>2. IsEpochRoot(h) => h = BlocksPerEpoch * e - 5
  BY RootIs
<1>3. IsEpochRoot(h) /\ e >= First => h >= Upgrade
  <2>1. First \in Nat /\ BlocksPerEpoch * First \in Nat /\ Upgrade < BlocksPerEpoch * First - 5
    BY Configuration, LightClientAssumption
  <2>2. e >= First => BlocksPerEpoch * First - 5 <= BlocksPerEpoch * e - 5
    BY <1>1, <2>1, RootsAscend
  <2> QED
    BY <1>1, <1>2, <2>1, <2>2
<1>4. e < First => h < Upgrade
  <2>1. Upgrade <= h => First <= e
    BY <1>1, EpochMonotone, Configuration
  <2> QED
    BY <1>1, <2>1, Configuration
<1>5. ASSUME NEW b \in Starts, IsEpochRoot(h), EpochFromBlockNumber(b) <= First,
             EpochFromBlockNumber(b) <= e
      PROVE  h >= b
  <2> DEFINE d == EpochFromBlockNumber(b)
  <2>1. b \in Nat
    BY LightClientAssumption
  <2>2. d \in Nat /\ BlocksPerEpoch * d \in Nat
    BY <2>1, EpochBounds, LightClientAssumption
  <2>3. b <= BlocksPerEpoch * d - 5
    BY <1>5, Configuration
  <2>4. BlocksPerEpoch * d - 5 <= BlocksPerEpoch * e - 5
    BY <1>1, <1>5, <2>2, RootsAscend
  <2> QED
    BY <1>1, <1>2, <1>5, <2>1, <2>2, <2>3, <2>4
<1> QED
  BY <1>3, <1>4, <1>5, Zenon

-----------------------------------------------------------------------------
\* The invariant.

\* The history is the tail of the NewState events, which have growing heights
\* and blocks and end with the finalized state.
HistoryInv ==
  /\ Len(history) = Len(emitted)
  /\ \A i \in firstIndex..Len(emitted) :
       history[i].height = emitted[i].height /\ history[i].block = emitted[i].block
  /\ \A i, j \in 1..Len(emitted) :
       i < j => emitted[i].height < emitted[j].height /\ emitted[i].block <= emitted[j].block
  /\ \A i \in 1..Len(emitted) : emitted[i].height <= finalized /\ emitted[i].block <= now
  /\ finalized = 0 \/ \E i \in 1..Len(emitted) : emitted[i].height = finalized

\* From the first epoch on, the finalized state is not behind the root.
NotBehindRoot == EpochFromBlockNumber(finalized) >= First => ~IsGtEpochRoot(finalized)

EpochInv == VotingTableIsCurrent /\ EveryRootFinalized /\ NotBehindRoot

-----------------------------------------------------------------------------
\* Stake tables and epochs.

\* An update leaves the contract with the table for the update after it.
LEMMA VotingStep ==
  ASSUME TypeOK, NEW p, NEW h \in Nat, NEW next,
         Configured \/ EpochFromBlockNumber(h) < First,
         NewFinalizedState(p, h, next)
  PROVE  VotingTableIsCurrent'
<1> DEFINE e == EpochFromBlockNumber(h)
           signed == IF h >= epochStart /\ IsEpochRoot(h) THEN next ELSE voting
<1>1. epochStart \in Starts /\ epochStart \in Nat
  BY LightClientAssumption DEF TypeOK
<1>2. e \in Nat /\ First \in Nat /\ FirstEpoch \in Nat
  BY <1>1, EpochBounds, Configuration DEF FirstEpoch
<1>3. finalized' = h /\ voting' = NextVoting(h, next) /\ QuorumSigned(h, voting, signed)
  BY Zenon DEF NewFinalizedState, Acceptable, VerifyProof
<1>4. /\ voting = TableOf(e)
      /\ h >= Upgrade /\ IsEpochRoot(h) => signed = TableOf(e + 1)
      /\ ~ (h >= Upgrade /\ IsEpochRoot(h)) => signed = voting
  BY <1>3, SameArithmetic DEF QuorumSigned
<1>5. VotingTableIsCurrent' <=>
        NextVoting(h, next) = TableOf(IF e >= First /\ IsEpochRoot(h) THEN e + 1 ELSE e)
  BY <1>3 DEF VotingTableIsCurrent, UpdateEpoch, IsEpochRoot, EpochFromBlockNumber, TableOf
<1>6. CASE e < First
  <2>1. h < Upgrade
    BY <1>6, RootsAreSigned
  <2>2. signed = voting
    BY <1>4, <2>1, LightClientAssumption
  <2>3. e >= FirstEpoch /\ IsEpochRoot(h) => h >= epochStart
    BY <1>1, <1>2, <1>6, RootsAreSigned DEF FirstEpoch
  <2>4. NextVoting(h, next) = voting
    BY <2>2, <2>3 DEF NextVoting
  <2> QED
    BY <1>2, <1>4, <1>5, <1>6, <2>4
<1>7. CASE e >= First
  <2>1. Configured /\ FirstEpoch = First
    BY <1>2, <1>7, Configuration DEF Configured, FirstEpoch
  <2>2. IsEpochRoot(h) => h >= Upgrade /\ h >= epochStart
    BY <1>1, <1>2, <1>7, <2>1, RootsAreSigned DEF FirstEpoch
  <2>3. NextVoting(h, next) = IF IsEpochRoot(h) THEN TableOf(e + 1) ELSE voting
    BY <1>4, <1>7, <2>1, <2>2 DEF NextVoting
  <2> QED
    BY <1>4, <1>5, <1>7, <2>3
<1> QED
  BY <1>2, <1>6, <1>7

\* What is appended to a sequence, and what was there before.
LEMMA AppendFacts ==
  ASSUME NEW S, NEW s \in Seq(S), NEW x \in S
  PROVE  /\ Append(s, x) \in Seq(S) /\ Len(Append(s, x)) = Len(s) + 1
         /\ DOMAIN Append(s, x) = 1..(Len(s) + 1)
         /\ Append(s, x)[Len(s) + 1] = x
         /\ \A i \in 1..Len(s) : Append(s, x)[i] = s[i]
OBVIOUS

\* The elements of a sequence, and a sequence with one of them replaced.
LEMMA ElementFacts ==
  ASSUME NEW S, NEW s \in Seq(S)
  PROVE  /\ Len(s) \in Nat /\ DOMAIN s = 1..Len(s)
         /\ \A i \in 1..Len(s) : s[i] \in S
         /\ \A k \in 1..Len(s), x \in S :
              /\ [s EXCEPT ![k] = x] \in Seq(S)
              /\ Len([s EXCEPT ![k] = x]) = Len(s)
              /\ \A i \in 1..Len(s) : i # k => [s EXCEPT ![k] = x][i] = s[i]
<1>1. Len(s) \in Nat /\ DOMAIN s = 1..Len(s) /\ \A i \in 1..Len(s) : s[i] \in S
  OBVIOUS
<1>2. ASSUME NEW k \in 1..Len(s), NEW x \in S
      PROVE  /\ [s EXCEPT ![k] = x] \in Seq(S)
             /\ Len([s EXCEPT ![k] = x]) = Len(s)
             /\ \A i \in 1..Len(s) : i # k => [s EXCEPT ![k] = x][i] = s[i]
  OBVIOUS
<1> QED
  BY <1>1, <1>2

\* An update enters a new epoch only from the root of the last one, and is not
\* behind a root itself.
LEMMA RootStep ==
  ASSUME TypeOK, HistoryInv, EpochInv, NEW p, NEW h \in Nat, NEW next,
         Configured \/ EpochFromBlockNumber(h) < First,
         NewFinalizedState(p, h, next)
  PROVE  EveryRootFinalized' /\ NotBehindRoot'
<1> DEFINE e == EpochFromBlockNumber(h)
           last == EpochFromBlockNumber(finalized)
           new == [height |-> h, block |-> now]
<1>1. finalized \in Nat /\ e \in Nat /\ last \in Nat /\ last >= 1 /\ First \in Nat
  BY EpochBounds, Configuration, Zenon DEF TypeOK
<1>2. finalized' = h /\ h > finalized /\ EpochChecks(h)
  BY Zenon DEF NewFinalizedState, Acceptable
<1>3. last <= e
  BY <1>1, <1>2, EpochMonotone
<1>4. e >= First => Configured /\ FirstEpoch = First
  BY <1>1, Configuration DEF Configured, FirstEpoch
<1>5. NotBehindRoot'
  BY <1>2, <1>4 DEF NotBehindRoot, EpochChecks, EpochFromBlockNumber, IsGtEpochRoot
<1>6. emitted \in Seq([height : Nat, block : Nat]) /\ new \in [height : Nat, block : Nat]
        /\ emitted' = Append(emitted, new)
  BY DEF TypeOK, NewFinalizedState
<1>7. DOMAIN emitted = 1..Len(emitted) /\ DOMAIN emitted \subseteq DOMAIN emitted'
        /\ \A i \in DOMAIN emitted : emitted'[i] = emitted[i]
  <2> HIDE DEF new
  <2> QED
    BY <1>6, AppendFacts
<1>8. ASSUME NEW d \in First..(e - 1)
      PROVE  \E i \in DOMAIN emitted : emitted[i].height = root_block_in_epoch(d, BlocksPerEpoch)
  <2>1. CASE d < last
    BY <1>1, <1>8, <2>1 DEF EpochInv, EveryRootFinalized
  <2>2. CASE d >= last
    <3>1. e > First /\ e >= First
      BY <1>1, <1>8
    <3>2. e < last + 2 /\ (e = last + 1 => IsEpochRoot(finalized))
      BY <1>2, <1>4, <3>1 DEF EpochChecks
    <3>3. d = last /\ IsEpochRoot(finalized)
      BY <1>1, <1>8, <2>2, <3>2
    <3>4. finalized = root_block_in_epoch(d, BlocksPerEpoch)
      BY <1>1, <3>3, RootIs, RootBlock
    <3>5. finalized # 0
      BY <1>1, <3>3, RootIs
    <3> QED
      BY <1>7, <3>4, <3>5 DEF HistoryInv
  <2> QED
    BY <1>1, <1>8, <2>1, <2>2
<1>9. EpochFromBlockNumber(finalized)' = e
  BY <1>2 DEF EpochFromBlockNumber
<1>10. ASSUME NEW d \in First..(e - 1)
       PROVE  \E i \in DOMAIN emitted' : emitted'[i].height = root_block_in_epoch(d, BlocksPerEpoch)
  BY <1>7, <1>8, Zenon
<1> QED
  BY <1>5, <1>9, <1>10, Zenon DEF EveryRootFinalized

\* The update is recorded at the end of the history.
LEMMA HistoryStep ==
  ASSUME TypeOK, HistoryInv, NEW p, NEW h \in Nat, NEW next, NewFinalizedState(p, h, next)
  PROVE  /\ history' \in Seq(Entry)
         /\ firstIndex' \in 1..Len(history')
         /\ emitted' \in Seq([height : Nat, block : Nat])
         /\ HistoryInv'
<1> DEFINE old == history # << >> /\ now - history[firstIndex].time > retention
           entry == [block |-> now, time |-> now, height |-> h]
           pruned == IF old THEN [history EXCEPT ![firstIndex] = Zero] ELSE history
           new == [height |-> h, block |-> now]
           n == Len(emitted)
<1>1. h > finalized /\ finalized' = h /\ now' = now /\ emitted' = Append(emitted, new)
  BY Zenon DEF NewFinalizedState, Acceptable
<1>2. history' = Append(pruned, entry) /\ firstIndex' = IF old THEN firstIndex + 1 ELSE firstIndex
  BY Zenon DEF NewFinalizedState, UpdateStateHistory
<1>3. now \in Nat /\ finalized \in Nat
  BY LightClientAssumption DEF TypeOK
<1>4. entry \in Entry /\ Zero \in Entry /\ new \in [height : Nat, block : Nat]
  BY <1>3 DEF Entry, Zero
<1>5. history \in Seq(Entry) /\ emitted \in Seq([height : Nat, block : Nat])
        /\ Len(history) = n /\ n \in Nat
  BY DEF TypeOK, HistoryInv
<1>6. pruned \in Seq(Entry) /\ Len(pruned) = n
        /\ \A i \in 1..n : ~ (old /\ i = firstIndex) => pruned[i] = history[i]
  <2> HIDE DEF old
  <2>1. CASE old
    <3>1. firstIndex \in 1..Len(history)
      BY <2>1 DEF TypeOK, old
    <3> QED
      BY <1>4, <1>5, <2>1, <3>1, ElementFacts
  <2>2. CASE ~old
    BY <1>5, <2>2
  <2> QED
    BY <2>1, <2>2
<1>7. firstIndex \in 1..n \/ (n = 0 /\ firstIndex = 1 /\ ~ old)
  BY <1>5 DEF TypeOK
<1> HIDE DEF pruned, old, entry, new
<1>8. /\ history' \in Seq(Entry) /\ Len(history') = n + 1
      /\ history'[n + 1] = entry /\ \A i \in 1..n : history'[i] = pruned[i]
  BY <1>2, <1>4, <1>6, AppendFacts
<1>9. /\ emitted' \in Seq([height : Nat, block : Nat]) /\ Len(emitted') = n + 1
      /\ emitted'[n + 1] = new /\ \A i \in 1..n : emitted'[i] = emitted[i]
  BY <1>1, <1>4, <1>5, AppendFacts
<1>10. firstIndex' \in 1..(n + 1)
  BY <1>2, <1>5, <1>7
<1>11. \A i \in firstIndex'..(n + 1) : history'[i].height = emitted'[i].height
                                         /\ history'[i].block = emitted'[i].block
  <2> SUFFICES ASSUME NEW i \in firstIndex'..(n + 1)
               PROVE  history'[i].height = emitted'[i].height /\ history'[i].block = emitted'[i].block
    OBVIOUS
  <2>1. CASE i = n + 1
    BY <1>8, <1>9, <2>1 DEF entry, new
  <2>2. CASE i # n + 1
    <3>1. i \in 1..n /\ i \in firstIndex..n /\ ~ (old /\ i = firstIndex)
      BY <1>2, <1>5, <1>7, <1>10, <2>2
    <3>2. history'[i] = history[i] /\ emitted'[i] = emitted[i]
      BY <1>6, <1>8, <1>9, <3>1
    <3> QED
      BY <3>1, <3>2 DEF HistoryInv
  <2> QED
    BY <2>1, <2>2
<1>12. \A i \in 1..n : emitted[i].height \in Nat /\ emitted[i].height <= finalized
                         /\ emitted[i].block \in Nat /\ emitted[i].block <= now
  <2>1. \A i \in 1..n : emitted[i] \in [height : Nat, block : Nat]
    BY <1>5, ElementFacts, Zenon
  <2>2. \A i \in 1..n : emitted[i].height \in Nat /\ emitted[i].block \in Nat
    BY <2>1
  <2> QED
    BY <2>2 DEF HistoryInv
<1>13. \A i, j \in 1..(n + 1) : i < j => emitted'[i].height < emitted'[j].height
                                           /\ emitted'[i].block <= emitted'[j].block
  <2> SUFFICES ASSUME NEW i \in 1..(n + 1), NEW j \in 1..(n + 1), i < j
               PROVE  emitted'[i].height < emitted'[j].height /\ emitted'[i].block <= emitted'[j].block
    OBVIOUS
  <2>0. \A k \in 1..(n + 1) : k # n + 1 => k \in 1..n
    <3>1. \A m \in Nat : \A k \in 1..(m + 1) : k # m + 1 => k \in 1..m
      OBVIOUS
    <3> QED
      BY <1>5, <3>1, Zenon
  <2>1. i \in 1..n /\ emitted'[i] = emitted[i]
    <3>1. i # n + 1
      BY <1>5
    <3> QED
      BY <1>9, <2>0, <3>1, Zenon
  <2>2. CASE j = n + 1
    BY <1>1, <1>3, <1>9, <1>12, <2>1, <2>2 DEF new
  <2>3. CASE j # n + 1
    <3>1. j \in 1..n /\ emitted'[j] = emitted[j]
      BY <1>9, <2>0, <2>3, Zenon
    <3> QED
      BY <2>1, <3>1 DEF HistoryInv
  <2> QED
    BY <2>2, <2>3
<1>14. \A i \in 1..(n + 1) : emitted'[i].height <= finalized' /\ emitted'[i].block <= now'
  <2> SUFFICES ASSUME NEW i \in 1..(n + 1)
               PROVE  emitted'[i].height <= finalized' /\ emitted'[i].block <= now'
    OBVIOUS
  <2>1. CASE i = n + 1
    BY <1>1, <1>3, <1>9, <2>1 DEF new
  <2>2. CASE i # n + 1
    <3>1. i \in 1..n
      BY <1>5, <2>2
    <3> QED
      BY <1>1, <1>3, <1>9, <1>12, <3>1
  <2> QED
    BY <2>1, <2>2
<1>15. \E i \in 1..(n + 1) : emitted'[i].height = finalized'
  BY <1>1, <1>5, <1>9 DEF new
<1> QED
  BY <1>8, <1>9, <1>10, <1>11, <1>13, <1>14, <1>15 DEF HistoryInv

-----------------------------------------------------------------------------
\* The invariant holds.

LightInv == TypeOK /\ HistoryInv /\ EpochInv

\* The contract starts in the first epoch or an earlier one.
LEMMA InitInv == Init => LightInv
<1> SUFFICES ASSUME Init PROVE LightInv
  OBVIOUS
<1>1. TypeOK
  BY LightClientAssumption DEF Init, TypeOK
<1>2. HistoryInv
  BY DEF Init, HistoryInv
<1>3. EpochFromBlockNumber(finalized) = 1 /\ ~IsEpochRoot(finalized) /\ ~IsGtEpochRoot(finalized)
  BY DEF Init, EpochFromBlockNumber, IsEpochRoot, IsGtEpochRoot
<1>4. First \in Nat /\ First >= 1
  BY Configuration
<1>5. VotingTableIsCurrent
  BY <1>3, <1>4 DEF Init, VotingTableIsCurrent, UpdateEpoch, TableOf
<1>6. EveryRootFinalized
  BY <1>3, <1>4 DEF EveryRootFinalized
<1> QED
  BY <1>1, <1>2, <1>3, <1>5, <1>6 DEF LightInv, EpochInv, NotBehindRoot

\* An update of the state preserves the invariant.
LEMMA UpdateInv ==
  ASSUME LightInv, NEW p \in Prover, NEW h \in Nat,
         Configured \/ EpochFromBlockNumber(h) < First,
         NEW next \in 0..(EpochFromBlockNumber(h) + 1), NewFinalizedState(p, h, next)
  PROVE  LightInv'
<1>1. h \in Nat /\ TypeOK /\ HistoryInv /\ EpochInv
  BY DEF LightInv
<1>2. VotingTableIsCurrent'
  BY <1>1, VotingStep
<1>3. EveryRootFinalized' /\ NotBehindRoot'
  BY <1>1, RootStep
<1>4. /\ history' \in Seq(Entry) /\ firstIndex' \in 1..Len(history')
      /\ emitted' \in Seq([height : Nat, block : Nat]) /\ HistoryInv'
  BY <1>1, HistoryStep
<1>5. finalized' = h /\ UNCHANGED <<epochStart, permitted, retention, now>>
  BY Zenon DEF NewFinalizedState
<1>6. voting' \in Nat
  <2>1. next \in Nat
    BY <1>1, EpochBounds
  <2>2. voting' \in {next, voting}
    BY DEF NewFinalizedState, NextVoting
  <2> QED
    BY <1>1, <2>1, <2>2 DEF TypeOK
<1>7. TypeOK'
  BY <1>1, <1>4, <1>5, <1>6 DEF TypeOK
<1> QED
  BY <1>2, <1>3, <1>4, <1>7 DEF LightInv, EpochInv

\* The properties of epochs and history depend on these variables only.
LEMMA OtherInv ==
  ASSUME LightInv, TypeOK', now' >= now,
         UNCHANGED <<finalized, voting, history, firstIndex, emitted>>
  PROVE  LightInv'
<1>1. EpochInv'
  BY Zenon DEF LightInv, EpochInv, VotingTableIsCurrent, EveryRootFinalized, NotBehindRoot, UpdateEpoch,
               EpochFromBlockNumber, IsEpochRoot, IsGtEpochRoot, TableOf
<1>2. HistoryInv'
  <2>1. now \in Nat /\ now' \in Nat /\ \A i \in 1..Len(emitted) : emitted[i].block \in Nat
    <3>0. emitted \in Seq([height : Nat, block : Nat])
      BY DEF LightInv, TypeOK
    <3>1. \A i \in 1..Len(emitted) : emitted[i] \in [height : Nat, block : Nat]
      BY <3>0, ElementFacts, Zenon
    <3>2. now \in Nat /\ now' \in Nat
      BY LightClientAssumption DEF LightInv, TypeOK
    <3> QED
      BY <3>1, <3>2
  <2>2. \A i \in 1..Len(emitted) : emitted[i].block <= now'
    BY <2>1 DEF LightInv, HistoryInv
  <2> QED
    BY <2>2, Zenon DEF LightInv, HistoryInv
<1> QED
  BY <1>1, <1>2 DEF LightInv

\* Every step preserves the invariant.
LEMMA StepInv == LightInv /\ [Next]_lightClientVars => LightInv'
<1> SUFFICES ASSUME LightInv, [Next]_lightClientVars PROVE LightInv'
  OBVIOUS
<1>0. TypeOK /\ now \in Nat
  BY LightClientAssumption DEF LightInv, TypeOK
<1>1. ASSUME NEW p \in Prover, NEW h \in Heights, Configured \/ EpochFromBlockNumber(h) < First,
             NEW next \in 0..(EpochFromBlockNumber(h) + 1), NewFinalizedState(p, h, next)
      PROVE  LightInv'
  <2>1. h \in Nat
    BY LightClientAssumption
  <2> QED
    BY <1>1, <2>1, UpdateInv
<1>2. ASSUME NEW p \in Prover, SetPermissionedProver(p) PROVE LightInv'
  <2>1. TypeOK' /\ now' = now /\ UNCHANGED <<finalized, voting, history, firstIndex, emitted>>
    BY <1>0, <1>2 DEF SetPermissionedProver, TypeOK
  <2> QED
    BY <1>0, <2>1, OtherInv
<1>3. CASE DisablePermissionedProverMode
  <2>1. TypeOK' /\ now' = now /\ UNCHANGED <<finalized, voting, history, firstIndex, emitted>>
    BY <1>0, <1>3 DEF DisablePermissionedProverMode, TypeOK
  <2> QED
    BY <1>0, <2>1, OtherInv
<1>4. ASSUME NEW r \in Retentions, SetStateHistoryRetentionPeriod(r) PROVE LightInv'
  <2>1. TypeOK' /\ now' = now /\ UNCHANGED <<finalized, voting, history, firstIndex, emitted>>
    BY <1>0, <1>4 DEF SetStateHistoryRetentionPeriod, TypeOK
  <2> QED
    BY <1>0, <2>1, OtherInv
<1>5. ASSUME NEW b \in Starts, UpdateEpochStartBlock(b) PROVE LightInv'
  <2>1. TypeOK' /\ now' = now /\ UNCHANGED <<finalized, voting, history, firstIndex, emitted>>
    BY <1>0, <1>5 DEF UpdateEpochStartBlock, TypeOK
  <2> QED
    BY <1>0, <2>1, OtherInv
<1>6. CASE Tick
  <2>1. TypeOK' /\ now' >= now /\ UNCHANGED <<finalized, voting, history, firstIndex, emitted>>
    BY <1>0, <1>6, LightClientAssumption DEF Tick, contract, TypeOK
  <2> QED
    BY <2>1, OtherInv
<1>7. CASE UNCHANGED lightClientVars
  <2>1. TypeOK' /\ now' = now /\ UNCHANGED <<finalized, voting, history, firstIndex, emitted>>
    BY <1>0, <1>7 DEF lightClientVars, contract, TypeOK
  <2> QED
    BY <1>0, <2>1, OtherInv
<1> QED
  BY <1>1, <1>2, <1>3, <1>4, <1>5, <1>6, <1>7, Zenon DEF Next

\* The invariant holds in every state.
LEMMA AlwaysInv == Spec => []LightInv
  BY InitInv, StepInv, PTL DEF Spec

\* The stake table that newFinalizedState verifies against is that of the epoch
\* of the next update, for every epoch height and every start block that
\* LightClientAssumption allows.
THEOREM VotesWithCurrentTable == Spec => []VotingTableIsCurrent
<1>1. LightInv => VotingTableIsCurrent
  BY DEF LightInv, EpochInv
<1> QED
  BY <1>1, AlwaysInv, PTL

\* The root of every epoch since the activation is finalized before a later
\* state is.
THEOREM NoRootIsSkipped == Spec => []EveryRootFinalized
<1>1. LightInv => EveryRootFinalized
  BY DEF LightInv, EpochInv
<1> QED
  BY <1>1, AlwaysInv, PTL

-----------------------------------------------------------------------------
\* The contract is never stuck.

\* The root of the epoch that the next update belongs to, or of the one after
\* it, is accepted.
LEMMA NextRootAccepted == LightInv => CanAdvance
<1> SUFFICES ASSUME LightInv, Configured PROVE CanAdvance
  BY DEF CanAdvance
<1> DEFINE last == EpochFromBlockNumber(finalized)
           e == IF finalized >= BlocksPerEpoch * last - 5 THEN last + 1 ELSE last
           h == BlocksPerEpoch * e - 5
           next == IF e >= First THEN TableOf(e + 1) ELSE voting
<1>1. finalized \in Nat /\ voting \in Nat /\ BlocksPerEpoch \in Nat /\ BlocksPerEpoch > 5
        /\ epochStart \in Starts /\ epochStart \in Nat /\ Upgrade \in Nat
  BY LightClientAssumption DEF LightInv, TypeOK
<1>2. last \in Nat /\ last >= 1 /\ First \in Nat
        /\ finalized <= BlocksPerEpoch * last
        /\ (finalized > 0 => BlocksPerEpoch * last - BlocksPerEpoch < finalized)
  BY <1>1, EpochBounds, Configuration
<1>3. e \in Nat /\ e >= 1 /\ e \in {last, last + 1}
  BY <1>2
<1>4. h \in Nat /\ EpochFromBlockNumber(h) = e /\ IsEpochRoot(h) /\ ~IsGtEpochRoot(h)
  BY <1>3, RootBlock
<1>5. BlocksPerEpoch * (last + 1) = BlocksPerEpoch * last + BlocksPerEpoch
        /\ BlocksPerEpoch * last \in Nat
  BY <1>1, <1>2
<1>6. finalized = 0 => last = 1
  BY DEF EpochFromBlockNumber
<1>7. finalized < h /\ h <= finalized + 2 * BlocksPerEpoch
  <2>1. CASE finalized >= BlocksPerEpoch * last - 5
    <3>1. h = BlocksPerEpoch * last + BlocksPerEpoch - 5
      <4>1. e = last + 1
        BY <2>1, Zenon
      <4>2. h = BlocksPerEpoch * (last + 1) - 5
        BY <4>1, Zenon
      <4>3. BlocksPerEpoch * (last + 1) - 5 = BlocksPerEpoch * last + BlocksPerEpoch - 5
        BY <1>1, <1>2, <1>5
      <4> QED
        BY <4>2, <4>3, Zenon
    <3> QED
      BY <1>1, <1>2, <1>5, <2>1, <3>1
  <2>2. CASE ~ (finalized >= BlocksPerEpoch * last - 5)
    <3>1. h = BlocksPerEpoch * last - 5
      BY <2>2
    <3>2. finalized = 0 => BlocksPerEpoch * last = BlocksPerEpoch
      BY <1>1, <1>6
    <3> QED
      BY <1>1, <1>2, <1>5, <2>2, <3>1, <3>2
  <2> QED
    BY <2>1, <2>2
<1>8. FirstEpoch = First
  BY Configuration DEF Configured, FirstEpoch
<1>9. e = last + 1 /\ last >= First => IsEpochRoot(finalized)
  <2> SUFFICES ASSUME e = last + 1, last >= First PROVE IsEpochRoot(finalized)
    OBVIOUS
  <2>1. finalized >= BlocksPerEpoch * last - 5
    BY <1>2
  <2>2. BlocksPerEpoch * last - 5 > 0
    BY <1>2, RootBlock
  <2>3. ~IsGtEpochRoot(finalized)
    BY DEF LightInv, EpochInv, NotBehindRoot
  <2>4. finalized = BlocksPerEpoch * last - 5 /\ finalized > 0
    BY <1>1, <1>5, <2>1, <2>2, <2>3, BehindRoot
  <2> QED
    BY <1>1, <2>4, RootIs
<1> HIDE DEF e, h
<1>10. EpochChecks(h)
  BY <1>2, <1>3, <1>4, <1>8, <1>9 DEF EpochChecks
<1>11. voting = TableOf(e)
  <2>1. voting = TableOf(UpdateEpoch)
    BY DEF LightInv, EpochInv, VotingTableIsCurrent
  <2>2. UpdateEpoch = IF last >= First /\ IsEpochRoot(finalized) THEN last + 1 ELSE last
    BY DEF UpdateEpoch
  <2>3. last < First => TableOf(last) = 0 /\ TableOf(last + 1) = 0
    BY <1>2 DEF TableOf
  <2>4. e = last => ~ (last >= First /\ IsEpochRoot(finalized))
    BY <1>1, <1>2, <1>5, RootIs DEF e
  <2> QED
    BY <1>2, <1>3, <1>9, <2>1, <2>2, <2>3, <2>4
<1>12. VerifyProof(h, next)
  <2>1. CASE e >= First
    <3>1. h >= Upgrade /\ h >= epochStart
      BY <1>1, <1>2, <1>3, <1>4, <1>8, <2>1, RootsAreSigned DEF FirstEpoch
    <3>2. QuorumSigned(h, voting, TableOf(e + 1))
      BY <1>4, <1>11, <3>1, SameArithmetic DEF QuorumSigned
    <3> QED
      BY <1>4, <2>1, <3>1, <3>2 DEF VerifyProof
  <2>2. CASE e < First
    <3>1. ~ (h >= Upgrade)
      BY <1>1, <1>4, <2>2, RootsAreSigned
    <3>2. QuorumSigned(h, voting, voting)
      BY <1>4, <1>11, <3>1, SameArithmetic DEF QuorumSigned
    <3>3. ~ (e >= First)
      BY <1>2, <1>3, <2>2
    <3> QED
      BY <3>2, <3>3 DEF VerifyProof
  <2> QED
    BY <1>2, <1>3, <2>1, <2>2
<1>13. Acceptable(h, next) /\ next \in {TableOf(EpochFromBlockNumber(h) + 1), voting}
  BY <1>4, <1>7, <1>10, <1>12 DEF Acceptable
<1>14. h \in (finalized + 1)..(finalized + 2 * BlocksPerEpoch)
  BY <1>1, <1>4, <1>7
<1> QED
  BY <1>13, <1>14, Zenon DEF CanAdvance

\* Whatever was submitted before, some state that a quorum signs within the next
\* two epochs is accepted.
THEOREM NeverStuck == Spec => []CanAdvance
  BY NextRootAccepted, AlwaysInv, PTL

-----------------------------------------------------------------------------
\* What the view functions answer.

\* A set of numbers has a least element.
LEMMA LeastExists ==
  ASSUME NEW S, S \subseteq Nat, S # {}
  PROVE  \E x \in S : \A y \in S : x <= y
<1>1. \E x \in S : \A y \in S : ~ (<<y, x>> \in OpToRel(<, Nat))
  BY WFMin, NatLessThanWellFounded, Zenon
<1>2. \A x, y \in S : ~ (<<y, x>> \in OpToRel(<, Nat)) => x <= y
  BY DEF OpToRel
<1> QED
  BY <1>1, <1>2, Zenon

\* A bounded set of numbers has a greatest element.
LEMMA GreatestExists ==
  ASSUME NEW n \in Nat, NEW S, S \subseteq 0..n, S # {}
  PROVE  \E x \in S : \A y \in S : y <= x
<1> DEFINE T == {n - k : k \in S}
<1>1. \A k \in S : n - k \in Nat
  OBVIOUS
<1>2. T \subseteq Nat /\ T # {}
  BY <1>1, Zenon
<1>3. PICK t \in T : \A u \in T : t <= u
  BY <1>2, LeastExists, Zenon
<1>4. PICK x \in S : t = n - x
  BY <1>3, Zenon
<1>5. \A y \in S : n - x <= n - y
  BY <1>3, <1>4
<1>6. \A y \in S : y <= x
  BY <1>5
<1> QED
  BY <1>6, Zenon

\* The kept entries are those of the updates emitted since; the last one is the
\* finalized state.
LEMMA KeptEntries ==
  ASSUME LightInv, history # << >>
  PROVE  /\ Len(history) \in Nat /\ Len(emitted) = Len(history)
         /\ firstIndex \in Nat /\ 1 <= firstIndex /\ firstIndex <= Len(history)
         /\ \A i \in 1..Len(history) : emitted[i].height \in Nat /\ emitted[i].block \in Nat
         /\ \A i \in firstIndex..Len(history) :
              history[i].height = emitted[i].height /\ history[i].block = emitted[i].block
         /\ \A i, j \in 1..Len(history) :
              i < j => emitted[i].height < emitted[j].height /\ emitted[i].block <= emitted[j].block
         /\ finalized \in Nat /\ now \in Nat /\ MaxTime \in Nat
         /\ finalized > 0 => emitted[Len(history)].height = finalized
<1>1. /\ Len(history) \in Nat /\ Len(emitted) = Len(history)
      /\ firstIndex \in Nat /\ 1 <= firstIndex /\ firstIndex <= Len(history)
      /\ finalized \in Nat /\ now \in Nat /\ MaxTime \in Nat
  BY LightClientAssumption DEF LightInv, TypeOK, HistoryInv
<1>2. emitted \in Seq([height : Nat, block : Nat])
  BY DEF LightInv, TypeOK
<1>3. \A i \in 1..Len(history) : emitted[i] \in [height : Nat, block : Nat]
  BY <1>1, <1>2, ElementFacts, Zenon
<1>4. \A i \in 1..Len(history) : emitted[i].height \in Nat /\ emitted[i].block \in Nat
  BY <1>3
<1>5. /\ \A i \in firstIndex..Len(history) :
           history[i].height = emitted[i].height /\ history[i].block = emitted[i].block
      /\ \A i, j \in 1..Len(history) :
           i < j => emitted[i].height < emitted[j].height /\ emitted[i].block <= emitted[j].block
      /\ \A i \in 1..Len(history) : emitted[i].height <= finalized
      /\ finalized = 0 \/ \E i \in 1..Len(history) : emitted[i].height = finalized
  BY <1>1 DEF LightInv, HistoryInv
<1>6. ASSUME finalized > 0 PROVE emitted[Len(history)].height = finalized
  <2>1. PICK i \in 1..Len(history) : emitted[i].height = finalized
    BY <1>1, <1>5, <1>6
  <2>2. Len(history) \in 1..Len(history)
    BY <1>1
  <2>3. ~ (i < Len(history))
    BY <1>1, <1>4, <1>5, <2>1, <2>2
  <2> QED
    BY <1>1, <2>1, <2>3
<1> QED
  BY <1>1, <1>4, <1>5, <1>6

\* getHotShotCommitment finds the first kept entry above the height.
LEMMA CommitmentFound == LightInv => CommitmentCovers
<1> SUFFICES ASSUME LightInv, history # << >>, NEW h \in 0..(finalized - 1)
             PROVE  /\ GetHotShotCommitment(h) > h
                    /\ \A i \in firstIndex..Len(emitted) :
                         emitted[i].height > h => GetHotShotCommitment(h) <= emitted[i].height
  BY DEF CommitmentCovers
<1> DEFINE n == Len(history)
           S == {i \in firstIndex..n : history[i].height > h}
           Found(i) == history[i].height > h /\ \A j \in firstIndex..(i - 1) : history[j].height <= h
           c == CHOOSE i \in firstIndex..n : Found(i)
<1>1. /\ n \in Nat /\ Len(emitted) = n
      /\ firstIndex \in Nat /\ 1 <= firstIndex /\ firstIndex <= n
      /\ \A i \in 1..n : emitted[i].height \in Nat
      /\ \A i \in firstIndex..n : history[i].height = emitted[i].height
      /\ \A i, j \in 1..n : i < j => emitted[i].height < emitted[j].height
      /\ finalized \in Nat
      /\ finalized > 0 => emitted[n].height = finalized
  BY KeptEntries
<1>2. h \in Nat /\ h < finalized
  BY <1>1
<1> HIDE DEF n
<1>3. S \subseteq Nat /\ n \in S
  BY <1>1, <1>2
<1>4. PICK x \in S : \A y \in S : x <= y
  BY <1>3, LeastExists, Zenon
<1>5. x \in firstIndex..n /\ Found(x)
  <2>1. x \in firstIndex..n /\ history[x].height > h
    BY <1>4
  <2>2. ASSUME NEW j \in firstIndex..(x - 1) PROVE history[j].height <= h
    <3>1. j \in firstIndex..n /\ ~ (x <= j)
      BY <1>1, <2>1
    <3>2. ~ (history[j].height > h)
      BY <1>4, <3>1
    <3>3. history[j].height \in Nat
      BY <1>1, <3>1
    <3> QED
      BY <1>2, <3>2, <3>3
  <2> QED
    BY <2>1, <2>2, Zenon
<1>6. c \in firstIndex..n /\ Found(c)
  BY <1>5, Zenon
<1>7. GetHotShotCommitment(h) = history[c].height
  BY Zenon DEF GetHotShotCommitment, n
<1> HIDE DEF c
<1>8. ASSUME NEW i \in firstIndex..n, emitted[i].height > h
      PROVE  history[c].height <= emitted[i].height
  <2>1. ~ (i \in firstIndex..(c - 1))
    BY <1>1, <1>2, <1>6, <1>8
  <2>2. c <= i /\ c \in 1..n /\ i \in 1..n
    BY <1>1, <1>6, <2>1
  <2>3. history[c].height = emitted[c].height
    BY <1>1, <1>6
  <2> QED
    BY <1>1, <2>2, <2>3
<1> QED
  BY <1>1, <1>6, <1>7, <1>8, Zenon

\* lagOverEscapeHatchThreshold finds the last kept entry that is not after the
\* block.
LEMMA LastUpdateFound == LightInv => EscapeHatchExact
<1> SUFFICES ASSUME LightInv, history # << >>,
                    NEW b \in history[firstIndex].block..now, NEW threshold \in 0..MaxTime
             PROVE  LagOverEscapeHatchThreshold(b, threshold) <=>
                      ~\E i \in DOMAIN emitted :
                          emitted[i].block <= b /\ emitted[i].block + threshold >= b
  BY DEF EscapeHatchExact
<1> DEFINE n == Len(history)
           S == {i \in firstIndex..n : history[i].block <= b}
           Found(i) == history[i].block <= b /\ \A j \in (i + 1)..n : history[j].block > b
           c == CHOOSE i \in firstIndex..n : Found(i)
<1>1. /\ n \in Nat /\ Len(emitted) = n
      /\ firstIndex \in Nat /\ 1 <= firstIndex /\ firstIndex <= n
      /\ \A i \in 1..n : emitted[i].block \in Nat
      /\ \A i \in firstIndex..n : history[i].block = emitted[i].block
      /\ \A i, j \in 1..n : i < j => emitted[i].block <= emitted[j].block
      /\ now \in Nat /\ MaxTime \in Nat
  BY KeptEntries
<1>2. DOMAIN emitted = 1..n
  BY <1>1, ElementFacts DEF LightInv, TypeOK
<1>3. b \in Nat /\ history[firstIndex].block <= b /\ threshold \in Nat
  BY <1>1
<1> HIDE DEF n
<1>4. S \subseteq 0..n /\ firstIndex \in S
  BY <1>1, <1>3
<1>5. PICK x \in S : \A y \in S : y <= x
  BY <1>1, <1>4, GreatestExists, Zenon
<1>6. x \in firstIndex..n /\ Found(x)
  <2>1. x \in firstIndex..n /\ history[x].block <= b
    BY <1>5
  <2>2. ASSUME NEW j \in (x + 1)..n PROVE history[j].block > b
    <3>1. j \in firstIndex..n /\ ~ (j <= x)
      BY <1>1, <2>1
    <3>2. ~ (history[j].block <= b)
      BY <1>5, <3>1
    <3>3. history[j].block \in Nat
      BY <1>1, <3>1
    <3> QED
      BY <1>3, <3>2, <3>3
  <2> QED
    BY <2>1, <2>2, Zenon
<1>7. c \in firstIndex..n /\ Found(c)
  BY <1>6, Zenon
<1>8. LagOverEscapeHatchThreshold(b, threshold) <=> b - history[c].block > threshold
  BY Zenon DEF LagOverEscapeHatchThreshold, n
<1> HIDE DEF c
<1>9. history[c].block = emitted[c].block /\ emitted[c].block \in Nat /\ c \in 1..n
  BY <1>1, <1>7
<1>10. ASSUME ~ (b - history[c].block > threshold)
       PROVE  emitted[c].block <= b /\ emitted[c].block + threshold >= b
  BY <1>3, <1>7, <1>9, <1>10
<1>11. ASSUME b - history[c].block > threshold, NEW i \in 1..n, emitted[i].block <= b
       PROVE  ~ (emitted[i].block + threshold >= b)
  <2>1. i \in firstIndex..n => history[i].block <= b
    BY <1>1, <1>11
  <2>2. ~ (i \in (c + 1)..n)
    BY <1>1, <1>3, <1>7, <2>1
  <2>3. emitted[i].block <= emitted[c].block
    BY <1>1, <1>7, <1>9, <2>2
  <2>4. emitted[i].block \in Nat
    BY <1>1
  <2> QED
    BY <1>3, <1>9, <1>11, <2>3, <2>4
<1> QED
  BY <1>2, <1>8, <1>9, <1>10, <1>11, Zenon

\* getHotShotCommitment answers with the first kept height above the one asked
\* for, never with a deleted entry.
THEOREM CommitmentAlwaysCovers == Spec => []CommitmentCovers
  BY CommitmentFound, AlwaysInv, PTL

\* lagOverEscapeHatchThreshold is exact although old entries are deleted.
THEOREM EscapeHatchAlwaysExact == Spec => []EscapeHatchExact
  BY LastUpdateFound, AlwaysInv, PTL

\* The storage of the contract keeps its types; the first index is that of an
\* entry once there is one.
THEOREM LightClientTypeCorrect == Spec => []TypeOK
<1>1. LightInv => TypeOK
  BY DEF LightInv
<1> QED
  BY <1>1, AlwaysInv, PTL

-----------------------------------------------------------------------------
\* The provers.

\* The inductive invariant.

\* What the relay server publishes: nothing from an epoch root on.
Publishable(b) == b >= Upgrade => ~is_ge_epoch_root(b, BlocksPerEpoch)

\* UpdateEpoch of a contract whose last state is f.
UpdateEpochAt(f) ==
  IF EpochFromBlockNumber(f) >= First /\ IsEpochRoot(f)
    THEN EpochFromBlockNumber(f) + 1 ELSE EpochFromBlockNumber(f)

ProverState ==
  [pc : {"idle", "read", "fetch", "advance", "finish", "submit"}, epoch : Nat, fin : Nat,
   table : Nat, bundle : Nat, next : Nat, goal : Nat]

\* A contract whose next update belongs to epoch u is in epoch e, or e has the
\* genesis table anyway.
Entered(e, u) == e <= First \/ e <= u

\* The bundle that a prover works on, b being the latest one.
BundleInv(s, b) ==
  /\ s.bundle <= b /\ Publishable(s.bundle)
  /\ s.pc # "submit" => s.bundle >= EpochStart

\* advance_epoch: the local table is that of the next root, and the contract
\* has the roots before it.
AdvanceInv(s, u) ==
  /\ s.goal = EpochFromBlockNumber(s.bundle)
  /\ First <= s.next /\ s.next <= s.goal
  /\ TableOf(s.epoch) = TableOf(s.next)
  /\ Entered(s.next, u)

\* Behind advance_epoch: the local table is that of the bundle, and so is the
\* contract's epoch.
FinishInv(s, u) ==
  /\ TableOf(s.epoch) = TableOf(EpochFromBlockNumber(s.bundle))
  /\ Entered(EpochFromBlockNumber(s.bundle), u)

\* A prover in state s, with f the finalized height of the contract.
LocalInv(s, f, u, b) ==
  /\ s.fin <= f
  /\ s.epoch = 0 \/ b >= EpochStart
  /\ s.pc \in {"advance", "finish", "submit"} => BundleInv(s, b)
  /\ s.pc = "advance" => AdvanceInv(s, u)
  /\ s.pc \in {"finish", "submit"} => FinishInv(s, u)

SyncInv ==
  /\ LightInv /\ Configured
  /\ bundle \in Nat /\ Publishable(bundle) /\ NeverAheadOfBundle
  /\ prover \in [Prover -> ProverState]
  /\ \A p \in Prover : LocalInv(prover[p], finalized, UpdateEpoch, bundle)

-----------------------------------------------------------------------------
\* Epochs of contract and bundle.

\* What is published from the first epoch on precedes the root of its epoch.
LEMMA BeforeRoot ==
  ASSUME NEW b \in Nat, Publishable(b), EpochFromBlockNumber(b) >= First
  PROVE  /\ b < BlocksPerEpoch * EpochFromBlockNumber(b) - 5
         /\ ~IsGtEpochRoot(b) /\ ~IsEpochRoot(b) /\ ~is_ge_epoch_root(b, BlocksPerEpoch)
<1> DEFINE e == EpochFromBlockNumber(b)
           root == BlocksPerEpoch * e - 5
<1>1. e \in Nat /\ e >= 1 /\ First \in Nat /\ Upgrade \in Nat
  BY EpochBounds, Configuration, LightClientAssumption
<1>2. root \in Nat /\ root > 0
  BY <1>1, RootBlock
<1>3. ~is_ge_epoch_root(b, BlocksPerEpoch)
  <2>1. CASE b >= Upgrade
    BY <2>1 DEF Publishable
  <2>2. CASE ~ (b >= Upgrade)
    <3>1. e <= First
      BY <1>1, <2>2, EpochMonotone, Configuration
    <3>2. e = First
      BY <1>1, <3>1
    <3>3. b < root
      <4>1. Upgrade < root
        BY <3>2, Configuration
      <4> QED
        BY <1>1, <1>2, <2>2, <4>1
    <3> QED
      BY <1>2, <3>3, BehindRoot
  <2> QED
    BY <2>1, <2>2
<1>4. ~ (b > 0 /\ b >= root)
  BY <1>3, BehindRoot
<1>5. b < root
  BY <1>2, <1>4
<1> HIDE DEF root
<1>6. ~ (b > root) /\ ~ (b = root)
  BY <1>2, <1>5
<1> QED
  BY <1>3, <1>5, <1>6, BehindRoot, RootIs DEF root

\* The epoch of the next update is a number, and that of the last state or the
\* next one.
LEMMA AtBounds ==
  ASSUME NEW f \in Nat
  PROVE  /\ UpdateEpochAt(f) \in Nat
         /\ EpochFromBlockNumber(f) \in Nat
         /\ EpochFromBlockNumber(f) <= UpdateEpochAt(f)
         /\ UpdateEpochAt(f) <= EpochFromBlockNumber(f) + 1
<1>1. EpochFromBlockNumber(f) \in Nat
  BY EpochBounds
<1> QED
  BY <1>1 DEF UpdateEpochAt

\* An accepted state never takes the contract to an earlier epoch.
LEMMA AtMonotone ==
  ASSUME NEW f \in Nat, NEW g \in Nat, f <= g,
         EpochFromBlockNumber(g) >= First => ~IsGtEpochRoot(g)
  PROVE  UpdateEpochAt(f) <= UpdateEpochAt(g)
<1> DEFINE d == EpochFromBlockNumber(f)
           e == EpochFromBlockNumber(g)
<1>1. d \in Nat /\ e \in Nat /\ d <= e /\ First \in Nat
  BY EpochBounds, EpochMonotone, Configuration
<1>2. /\ UpdateEpochAt(f) <= d + 1 /\ UpdateEpochAt(f) \in Nat
      /\ e <= UpdateEpochAt(g) /\ UpdateEpochAt(g) \in Nat
  BY AtBounds
<1>3. CASE d < e
  <2> HIDE DEF d, e
  <2> QED
    BY <1>1, <1>2, <1>3
<1>4. CASE d = e /\ ~ (d >= First /\ IsEpochRoot(f))
  <2>1. UpdateEpochAt(f) = d
    BY <1>4 DEF UpdateEpochAt
  <2> QED
    BY <1>2, <1>4, <2>1
<1>5. CASE d = e /\ d >= First /\ IsEpochRoot(f)
  <2>1. f > 0 /\ f = BlocksPerEpoch * d - 5
    BY <1>5, RootIs
  <2>2. ~ (g > 0 /\ g > BlocksPerEpoch * e - 5)
    BY <1>5, BehindRoot
  <2>3. f = g
    BY <1>5, <2>1, <2>2
  <2> QED
    BY <1>2, <2>3
<1> QED
  BY <1>1, <1>3, <1>4, <1>5

\* A contract that is behind the bundle is not past the bundle's epoch.
LEMMA AtMostBundle ==
  ASSUME NEW f \in Nat, NEW b \in Nat, f < b, Publishable(b)
  PROVE  UpdateEpochAt(f) <= EpochFromBlockNumber(b)
<1> DEFINE d == EpochFromBlockNumber(f)
           e == EpochFromBlockNumber(b)
<1>1. d \in Nat /\ e \in Nat /\ d <= e /\ First \in Nat
  BY EpochBounds, EpochMonotone, Configuration
<1>2. CASE ~ (d >= First /\ IsEpochRoot(f))
  BY <1>1, <1>2 DEF UpdateEpochAt
<1>3. CASE d >= First /\ IsEpochRoot(f)
  <2>1. f = BlocksPerEpoch * d - 5
    BY <1>3, RootIs
  <2>2. b < BlocksPerEpoch * e - 5
    BY <1>1, <1>3, BeforeRoot
  <2>3. d # e
    BY <2>1, <2>2
  <2>4. UpdateEpochAt(f) = d + 1
    BY <1>3 DEF UpdateEpochAt
  <2> HIDE DEF d, e
  <2>5. d + 1 <= e
    BY <1>1, <2>3
  <2> QED
    BY <2>4, <2>5 DEF e
<1> QED
  BY <1>2, <1>3

\* The prover and the contract agree on the contract's epoch once the contract
\* has reached the start block.
LEMMA EpochsAgree ==
  ASSUME NEW f \in Nat
  PROVE  /\ EpochStart \in Nat
         /\ f >= EpochStart => /\ EpochOf(f) = EpochFromBlockNumber(f)
                               /\ EpochFromBlockNumber(f) >= First
                               /\ ContractEpoch(f) = UpdateEpochAt(f)
         /\ ~ (f >= EpochStart) => EpochFromBlockNumber(f) <= First /\ ContractEpoch(f) = 0
         /\ ContractEpoch(f) \in Nat
<1>1. EpochStart \in Nat
  BY LightClientAssumption
<1>2. EpochFromBlockNumber(EpochStart) = First
  BY Configuration
<1>3. ASSUME f >= EpochStart
      PROVE  /\ EpochOf(f) = EpochFromBlockNumber(f)
             /\ EpochFromBlockNumber(f) >= First
             /\ ContractEpoch(f) = UpdateEpochAt(f)
  <2>1. First <= EpochFromBlockNumber(f)
    BY <1>1, <1>2, <1>3, EpochMonotone
  <2>2. EpochFromBlockNumber(f) \in Nat /\ First \in Nat
    BY EpochBounds, Configuration
  <2>3. EpochOf(f) = EpochFromBlockNumber(f)
    BY <1>3, SameArithmetic DEF EpochOf
  <2>4. is_epoch_root(f, BlocksPerEpoch) <=> IsEpochRoot(f)
    BY SameArithmetic
  <2>5. EpochFromBlockNumber(f) >= First
    BY <2>1, <2>2
  <2>6. ContractEpoch(f) = UpdateEpochAt(f)
    BY <1>3, <2>3, <2>4, <2>5, Zenon DEF ContractEpoch, UpdateEpochAt
  <2> QED
    BY <2>3, <2>5, <2>6
<1>4. ASSUME ~ (f >= EpochStart)
      PROVE  EpochFromBlockNumber(f) <= First /\ ContractEpoch(f) = 0
  <2>1. EpochFromBlockNumber(f) <= First
    BY <1>1, <1>2, <1>4, EpochMonotone
  <2> QED
    BY <1>4, <2>1 DEF ContractEpoch, EpochOf
<1>5. ContractEpoch(f) \in Nat
  BY <1>3, <1>4, AtBounds
<1> QED
  BY <1>1, <1>3, <1>4, <1>5

\* UpdateEpoch is that of the finalized state, before and after a step.
LEMMA UpdateEpochIs ==
  UpdateEpoch = UpdateEpochAt(finalized) /\ UpdateEpoch' = UpdateEpochAt(finalized')
BY DEF UpdateEpoch, UpdateEpochAt, EpochFromBlockNumber, IsEpochRoot

-----------------------------------------------------------------------------
\* Steps.

\* What a prover knows stays true while the contract and the relay server move
\* on.
LEMMA LocalKept ==
  ASSUME NEW s \in ProverState, NEW f \in Nat, NEW g \in Nat, f <= g,
         NEW u \in Nat, NEW v \in Nat, u <= v, NEW b \in Nat, NEW c \in Nat, b <= c,
         LocalInv(s, f, u, b)
  PROVE  LocalInv(s, g, v, c)
<1>0. EpochStart \in Nat /\ s.fin \in Nat /\ s.bundle \in Nat /\ s.next \in Nat /\ First \in Nat
        /\ EpochFromBlockNumber(s.bundle) \in Nat
  BY LightClientAssumption, Configuration, EpochBounds DEF ProverState
<1>1. s.fin <= g /\ (s.epoch = 0 \/ c >= EpochStart)
  BY <1>0 DEF LocalInv
<1>2. s.pc \in {"advance", "finish", "submit"} => BundleInv(s, c)
  BY <1>0 DEF LocalInv, BundleInv
<1>3. s.pc = "advance" => AdvanceInv(s, v)
  BY <1>0 DEF LocalInv, AdvanceInv, Entered
<1>4. s.pc \in {"finish", "submit"} => FinishInv(s, v)
  BY <1>0 DEF LocalInv, FinishInv, Entered
<1> QED
  BY <1>1, <1>2, <1>3, <1>4 DEF LocalInv

\* A prover goes to state t while contract and relay server do not fall back.
LEMMA ProverMoves ==
  ASSUME SyncInv, NEW p \in Prover, NEW t \in ProverState, Set(p, t),
         LightInv', Configured', bundle' = bundle, finalized' <= bundle,
         finalized <= finalized', UpdateEpoch <= UpdateEpoch',
         LocalInv(t, finalized', UpdateEpoch', bundle)
  PROVE  SyncInv'
<1>1. /\ finalized \in Nat /\ finalized' \in Nat /\ bundle \in Nat
      /\ prover \in [Prover -> ProverState]
  BY DEF SyncInv, LightInv, TypeOK
<1>2. UpdateEpoch \in Nat /\ UpdateEpoch' \in Nat
  BY <1>1, UpdateEpochIs, AtBounds
<1>3. prover' = [prover EXCEPT ![p] = t] /\ prover' \in [Prover -> ProverState]
  BY <1>1 DEF Set
<1>4. ASSUME NEW q \in Prover PROVE LocalInv(prover'[q], finalized', UpdateEpoch', bundle')
  <2>1. CASE q = p
    <3>1. prover'[q] = t
      BY <1>1, <1>3, <2>1
    <3> QED
      BY <3>1
  <2>2. CASE q # p
    <3>1. prover'[q] = prover[q] /\ prover[q] \in ProverState
      BY <1>1, <1>3, <2>2
    <3>2. LocalInv(prover[q], finalized, UpdateEpoch, bundle)
      BY DEF SyncInv
    <3>3. LocalInv(prover[q], finalized', UpdateEpoch', bundle)
      BY <1>1, <1>2, <3>1, <3>2, LocalKept
    <3> QED
      BY <3>1, <3>3
  <2> QED
    BY <2>1, <2>2
<1>5. (\A q \in Prover : LocalInv(prover[q], finalized, UpdateEpoch, bundle))'
  BY <1>4
<1>6. NeverAheadOfBundle' /\ bundle' \in Nat /\ Publishable(bundle)'
  BY <1>1 DEF NeverAheadOfBundle, SyncInv, Publishable
<1> QED
  BY <1>3, <1>5, <1>6 DEF SyncInv

\* The contract stays as it is.
LEMMA ContractStays ==
  ASSUME SyncInv, UNCHANGED lightClientVars
  PROVE  /\ LightInv' /\ Configured' /\ finalized' = finalized
         /\ UpdateEpoch' = UpdateEpoch
         /\ finalized \in Nat /\ UpdateEpoch \in Nat
<1>1. LightInv'
  BY StepInv DEF SyncInv
<1>2. finalized' = finalized /\ epochStart' = epochStart
  BY DEF lightClientVars, contract
<1>3. finalized \in Nat
  BY DEF SyncInv, LightInv, TypeOK
<1> QED
  BY <1>1, <1>2, <1>3, UpdateEpochIs, AtBounds DEF SyncInv, Configured

\* A step of a prover that does not touch the contract.
LEMMA LocalStep ==
  ASSUME SyncInv, NEW p \in Prover, NEW t \in ProverState, Set(p, t),
         UNCHANGED <<lightClientVars, bundle>>,
         LocalInv(t, finalized, UpdateEpoch, bundle)
  PROVE  SyncInv'
<1>1. /\ LightInv' /\ Configured' /\ finalized' = finalized /\ UpdateEpoch' = UpdateEpoch
      /\ finalized \in Nat /\ UpdateEpoch \in Nat
  BY ContractStays
<1>2. bundle' = bundle /\ finalized' <= bundle
  BY <1>1 DEF SyncInv, NeverAheadOfBundle
<1>3. finalized <= finalized' /\ UpdateEpoch <= UpdateEpoch'
  BY <1>1
<1>4. LocalInv(t, finalized', UpdateEpoch', bundle)
  BY <1>1
<1> QED
  BY <1>1, <1>2, <1>3, <1>4, ProverMoves

\* The contract takes a state that is not ahead of the bundle.
LEMMA ContractMoves ==
  ASSUME SyncInv, NEW p \in Prover, NEW h \in Nat, NEW next \in 0..(EpochFromBlockNumber(h) + 1),
         NewFinalizedState(p, h, next)
  PROVE  /\ LightInv' /\ Configured' /\ finalized' = h /\ finalized <= finalized'
         /\ UpdateEpoch <= UpdateEpoch'
<1>1. LightInv /\ Configured /\ finalized \in Nat
  BY DEF SyncInv, LightInv, TypeOK
<1>2. LightInv'
  BY <1>1, UpdateInv
<1>3. finalized' = h /\ h > finalized /\ epochStart' = epochStart
  BY DEF NewFinalizedState, Acceptable
<1>4. EpochFromBlockNumber(h) >= First => ~IsGtEpochRoot(h)
  <2>1. NotBehindRoot'
    BY <1>2 DEF LightInv, EpochInv
  <2> QED
    BY <1>3, <2>1 DEF NotBehindRoot, EpochFromBlockNumber, IsGtEpochRoot
<1>5. finalized <= h
  BY <1>1, <1>3
<1>6. UpdateEpochAt(finalized) <= UpdateEpochAt(h)
  BY <1>1, <1>4, <1>5, AtMonotone
<1> QED
  BY <1>1, <1>2, <1>3, <1>5, <1>6, UpdateEpochIs DEF Configured

\* A prover that starts sync_state again, with a local table it may have.
LEMMA BackToIdle ==
  ASSUME NEW e \in Nat, NEW f \in Nat, NEW u, NEW b, e = 0 \/ b >= EpochStart
  PROVE  Idle(e) \in ProverState /\ LocalInv(Idle(e), f, u, b)
BY DEF Idle, ProverState, LocalInv

\* What the invariant says of one prover.
LEMMA OneProver ==
  ASSUME SyncInv, NEW p \in Prover
  PROVE  /\ prover[p] \in ProverState
         /\ LocalInv(prover[p], finalized, UpdateEpoch, bundle)
         /\ finalized \in Nat /\ UpdateEpoch \in Nat /\ bundle \in Nat /\ finalized <= bundle
         /\ EpochStart \in Nat /\ First \in Nat /\ First >= 1
<1>1. finalized \in Nat /\ bundle \in Nat /\ finalized <= bundle
  BY DEF SyncInv, LightInv, TypeOK, NeverAheadOfBundle
<1>2. UpdateEpoch \in Nat
  BY <1>1, UpdateEpochIs, AtBounds
<1> QED
  BY <1>1, <1>2, LightClientAssumption, Configuration DEF SyncInv

\* The two reads of the contract.
LEMMA ReadStep ==
  ASSUME SyncInv, NEW p \in Prover, ReadFinalized(p) \/ ReadVoting(p)
  PROVE  SyncInv'
<1>1. /\ prover[p] \in ProverState /\ LocalInv(prover[p], finalized, UpdateEpoch, bundle)
      /\ finalized \in Nat /\ UpdateEpoch \in Nat /\ bundle \in Nat
  BY OneProver
<1>2. CASE ReadFinalized(p)
  <2> DEFINE t == [prover[p] EXCEPT !.pc = "read", !.fin = finalized]
  <2>0. t \in ProverState /\ t.pc = "read" /\ t.fin = finalized /\ t.epoch = prover[p].epoch
    BY <1>1, Zenon DEF ProverState
  <2> HIDE DEF t
  <2>1. t \in ProverState /\ LocalInv(t, finalized, UpdateEpoch, bundle)
    BY <1>1, <2>0 DEF LocalInv
  <2>2. Set(p, t) /\ UNCHANGED <<lightClientVars, bundle>>
    BY <1>2 DEF ReadFinalized, t
  <2> QED
    BY <2>1, <2>2, LocalStep
<1>3. CASE ReadVoting(p)
  <2> DEFINE t == [prover[p] EXCEPT !.pc = "fetch", !.table = voting]
  <2>0. voting \in Nat
    BY DEF SyncInv, LightInv, TypeOK
  <2>1. t \in ProverState /\ LocalInv(t, finalized, UpdateEpoch, bundle)
    BY <1>1, <2>0, Zenon DEF ProverState, LocalInv
  <2>2. Set(p, t) /\ UNCHANGED <<lightClientVars, bundle>>
    BY <1>3 DEF ReadVoting
  <2> QED
    BY <2>1, <2>2, LocalStep
<1> QED
  BY <1>2, <1>3

\* The latest bundle, and what is to be done for it.
LEMMA FetchStep ==
  ASSUME SyncInv, NEW p \in Prover, FetchLatest(p)
  PROVE  SyncInv'
<1> DEFINE s == prover[p]
           epoch == ContractEpoch(s.fin)
           e == EpochFromBlockNumber(bundle)
           direct == [s EXCEPT !.pc = "submit", !.bundle = bundle]
           behind == [s EXCEPT !.pc = "advance", !.bundle = bundle, !.epoch = epoch,
                               !.next = Larger(epoch, First), !.goal = EpochOf(bundle)]
           there == [s EXCEPT !.pc = "finish", !.bundle = bundle, !.epoch = epoch]
<1>1. /\ s \in ProverState /\ LocalInv(s, finalized, UpdateEpoch, bundle)
      /\ finalized \in Nat /\ UpdateEpoch \in Nat /\ bundle \in Nat /\ finalized <= bundle
      /\ EpochStart \in Nat /\ First \in Nat /\ First >= 1
  BY OneProver
<1>2. /\ s.fin \in Nat /\ s.epoch \in Nat /\ s.fin <= finalized
      /\ s.epoch = 0 \/ bundle >= EpochStart
  BY <1>1 DEF ProverState, LocalInv
<1>3. /\ epoch \in Nat /\ e \in Nat /\ UpdateEpochAt(s.fin) \in Nat
      /\ s.fin >= EpochStart => epoch = UpdateEpochAt(s.fin)
      /\ ~ (s.fin >= EpochStart) => epoch = 0
      /\ bundle >= EpochStart => EpochOf(bundle) = e /\ e >= First
      /\ ~ (bundle >= EpochStart) => e <= First
  BY <1>1, <1>2, EpochsAgree, AtBounds
<1>4. epoch = 0 \/ bundle >= EpochStart
  BY <1>1, <1>2, <1>3
<1>5. UpdateEpochAt(s.fin) <= UpdateEpoch
  <2>1. EpochFromBlockNumber(finalized) >= First => ~IsGtEpochRoot(finalized)
    BY DEF SyncInv, LightInv, EpochInv, NotBehindRoot
  <2> QED
    BY <1>1, <1>2, <2>1, AtMonotone, UpdateEpochIs
<1>6. UNCHANGED <<lightClientVars, bundle>> /\ Publishable(bundle)
  BY DEF FetchLatest, SyncInv
<1>7. CASE s.fin >= bundle
  <2>1. Set(p, Idle(s.epoch))
    BY <1>7 DEF FetchLatest
  <2> QED
    BY <1>1, <1>2, <1>6, <2>1, BackToIdle, LocalStep
<1>8. CASE ~ (s.fin >= bundle) /\ bundle < EpochStart
  <2>1. Set(p, direct)
    BY <1>8 DEF FetchLatest
  <2>2. s.epoch = 0 /\ e <= First
    BY <1>1, <1>2, <1>3, <1>8
  <2>3. /\ direct \in ProverState
        /\ direct.fin = s.fin /\ direct.pc = "submit" /\ direct.bundle = bundle /\ direct.epoch = s.epoch
    BY <1>1, Zenon DEF ProverState
  <2>4. TableOf(0) = 0 /\ TableOf(e) = 0
    BY <1>1, <1>3, <2>2 DEF TableOf
  <2> HIDE DEF direct, e
  <2>5. LocalInv(direct, finalized, UpdateEpoch, bundle)
    <3>1. BundleInv(direct, bundle)
      BY <1>1, <1>6, <2>3 DEF BundleInv
    <3>2. FinishInv(direct, UpdateEpoch)
      BY <2>2, <2>3, <2>4, Zenon DEF FinishInv, Entered, e
    <3>3. direct.fin <= finalized /\ direct.epoch = 0 /\ direct.pc # "advance"
      BY <1>2, <2>2, <2>3
    <3> QED
      BY <3>1, <3>2, <3>3, Zenon DEF LocalInv
  <2> QED
    BY <1>6, <2>1, <2>3, <2>5, LocalStep
<1>9. CASE ~ (s.fin >= bundle) /\ ~ (bundle < EpochStart) /\ EpochOf(bundle) > epoch
  <2>1. Set(p, behind)
    BY <1>9 DEF FetchLatest
  <2> DEFINE next == Larger(epoch, First)
  <2>2. bundle >= EpochStart /\ EpochOf(bundle) = e /\ e >= First /\ epoch < e
    BY <1>1, <1>3, <1>9
  <2> HIDE DEF epoch, e
  <2>3. /\ next \in Nat /\ First <= next /\ next <= e
        /\ next = epoch \/ (next = First /\ epoch <= First)
    BY <1>1, <1>3, <2>2 DEF Larger
  <2>4. TableOf(epoch) = TableOf(next)
    BY <1>1, <1>3, <2>3 DEF TableOf
  <2>5. Entered(next, UpdateEpoch)
    <3>1. epoch <= UpdateEpoch
      BY <1>1, <1>3, <1>5
    <3> QED
      BY <1>1, <2>3, <3>1 DEF Entered
  <2> HIDE DEF next
  <2>6. /\ behind \in ProverState
        /\ behind.fin = s.fin /\ behind.pc = "advance" /\ behind.bundle = bundle
        /\ behind.epoch = epoch /\ behind.next = next /\ behind.goal = e
    BY <1>1, <1>3, <2>2, <2>3, Zenon DEF ProverState, next
  <2> HIDE DEF behind
  <2>7. BundleInv(behind, bundle)
    BY <1>1, <1>6, <2>2, <2>6 DEF BundleInv
  <2>8. AdvanceInv(behind, UpdateEpoch)
    BY <2>3, <2>4, <2>5, <2>6 DEF AdvanceInv, e
  <2>9. LocalInv(behind, finalized, UpdateEpoch, bundle)
    BY <1>2, <2>2, <2>6, <2>7, <2>8 DEF LocalInv
  <2> QED
    BY <1>6, <2>1, <2>6, <2>9, LocalStep
<1>10. CASE ~ (s.fin >= bundle) /\ ~ (bundle < EpochStart) /\ ~ (EpochOf(bundle) > epoch)
  <2>1. Set(p, there)
    BY <1>10 DEF FetchLatest
  <2>2. bundle >= EpochStart /\ e >= First /\ e <= epoch
    BY <1>1, <1>3, <1>10
  <2>3. epoch = UpdateEpochAt(s.fin)
    BY <1>1, <1>3, <2>2
  <2>4. UpdateEpochAt(s.fin) <= e
    BY <1>1, <1>2, <1>6, <1>10, AtMostBundle
  <2> HIDE DEF epoch, e
  <2>5. epoch = e /\ e <= UpdateEpoch
    BY <1>1, <1>3, <1>5, <2>2, <2>3, <2>4
  <2>6. /\ there \in ProverState
        /\ there.fin = s.fin /\ there.pc = "finish" /\ there.bundle = bundle /\ there.epoch = e
    BY <1>1, <1>3, <2>5, Zenon DEF ProverState
  <2> HIDE DEF there
  <2>7. BundleInv(there, bundle)
    BY <1>1, <1>6, <2>2, <2>6 DEF BundleInv
  <2>8. FinishInv(there, UpdateEpoch)
    BY <2>5, <2>6 DEF FinishInv, Entered, e
  <2>9. LocalInv(there, finalized, UpdateEpoch, bundle)
    BY <1>2, <2>2, <2>6, <2>7, <2>8 DEF LocalInv
  <2> QED
    BY <1>6, <2>1, <2>6, <2>9, LocalStep
<1> QED
  BY <1>7, <1>8, <1>9, <1>10

\* The root of an epoch before that of the bundle takes the contract to the
\* next epoch, and not past the bundle.
LEMMA RootTaken ==
  ASSUME SyncInv, NEW p \in Prover, prover[p].pc = "advance", EpochsLeft(prover[p]),
         NewFinalizedState(p, root_block_in_epoch(prover[p].next, BlocksPerEpoch),
                           TableOf(prover[p].next + 1))
  PROVE  /\ LightInv' /\ Configured' /\ finalized <= finalized' /\ UpdateEpoch <= UpdateEpoch'
         /\ finalized' <= bundle /\ UpdateEpoch' = prover[p].next + 1
<1> DEFINE s == prover[p]
           h == BlocksPerEpoch * s.next - 5
           e == EpochFromBlockNumber(s.bundle)
<1>1. /\ s \in ProverState /\ LocalInv(s, finalized, UpdateEpoch, bundle)
      /\ finalized \in Nat /\ UpdateEpoch \in Nat /\ bundle \in Nat
      /\ EpochStart \in Nat /\ First \in Nat /\ First >= 1
  BY OneProver
<1>2. s.next \in Nat /\ s.bundle \in Nat /\ s.goal = e /\ First <= s.next /\ s.bundle <= bundle
        /\ s.bundle >= EpochStart
  BY <1>1 DEF ProverState, LocalInv, BundleInv, AdvanceInv
<1>3. s.next < e /\ s.next >= 1
  BY <1>1, <1>2 DEF EpochsLeft
<1>4. /\ h \in Nat /\ h > 0 /\ EpochFromBlockNumber(h) = s.next /\ IsEpochRoot(h)
      /\ root_block_in_epoch(s.next, BlocksPerEpoch) = h
  BY <1>2, <1>3, RootBlock
<1>5. h <= s.bundle
  <2>1. /\ e \in Nat /\ e >= 1 /\ BlocksPerEpoch \in Nat /\ BlocksPerEpoch > 5
        /\ s.bundle > 0 => BlocksPerEpoch * e - BlocksPerEpoch < s.bundle
    BY <1>2, EpochBounds, LightClientAssumption
  <2>2. BlocksPerEpoch * s.next + BlocksPerEpoch <= BlocksPerEpoch * e
    BY <1>2, <1>3, <2>1, Multiples
  <2>3. BlocksPerEpoch * s.next \in Nat /\ BlocksPerEpoch * e \in Nat
    BY <1>2, <2>1
  <2>4. s.bundle # 0
    <3>1. s.bundle = 0 => e = 1
      BY DEF EpochFromBlockNumber
    <3> QED
      BY <1>2, <1>3, <3>1
  <2> HIDE DEF e
  <2> QED
    BY <1>2, <2>1, <2>2, <2>3, <2>4
<1>6. TableOf(s.next + 1) \in 0..(EpochFromBlockNumber(h) + 1)
  BY <1>1, <1>2, <1>4 DEF TableOf
<1>7. NewFinalizedState(p, h, TableOf(s.next + 1))
  BY <1>4
<1> HIDE DEF h
<1>8. /\ LightInv' /\ Configured' /\ finalized' = h /\ finalized <= finalized'
      /\ UpdateEpoch <= UpdateEpoch'
  BY <1>4, <1>6, <1>7, ContractMoves
<1>9. UpdateEpoch' = s.next + 1
  <2>1. s.next >= First
    BY <1>1, <1>2
  <2>2. UpdateEpochAt(h) = s.next + 1
    BY <1>4, <2>1 DEF UpdateEpochAt
  <2> QED
    BY <1>8, <2>2, UpdateEpochIs
<1> QED
  BY <1>1, <1>2, <1>4, <1>5, <1>8, <1>9

\* So does the bundle itself.
LEMMA BundleTaken ==
  ASSUME SyncInv, NEW p \in Prover, prover[p].pc = "submit",
         Accepts(p, prover[p].bundle, prover[p].table),
         NewFinalizedState(p, prover[p].bundle, prover[p].table)
  PROVE  /\ LightInv' /\ Configured' /\ finalized <= finalized' /\ UpdateEpoch <= UpdateEpoch'
         /\ finalized' <= bundle
<1> DEFINE s == prover[p]
           e == EpochFromBlockNumber(s.bundle)
<1>1. /\ s \in ProverState /\ LocalInv(s, finalized, UpdateEpoch, bundle)
      /\ First \in Nat
  BY OneProver
<1>2. s.bundle \in Nat /\ s.table \in Nat /\ s.bundle <= bundle
  BY <1>1 DEF ProverState, LocalInv, BundleInv
<1>3. s.table = TableOf(e)
  BY <1>2, SameArithmetic DEF Accepts, CanProve, QuorumSigned
<1>4. e \in Nat
  BY <1>2, EpochBounds
<1>5. s.table \in 0..(e + 1)
  BY <1>1, <1>3, <1>4 DEF TableOf
<1> QED
  BY <1>2, <1>5, ContractMoves

\* A round of advance_epoch.
LEMMA AdvanceStep ==
  ASSUME SyncInv, NEW p \in Prover, AdvanceEpoch(p)
  PROVE  SyncInv'
<1> DEFINE s == prover[p]
           root == root_block_in_epoch(s.next, BlocksPerEpoch)
           next == TableOf(s.next + 1)
           t == [s EXCEPT !.epoch = SyncedEpoch(s), !.table = next, !.next = @ + 1]
<1>1. /\ s \in ProverState /\ LocalInv(s, finalized, UpdateEpoch, bundle)
      /\ finalized \in Nat /\ UpdateEpoch \in Nat /\ bundle \in Nat
      /\ EpochStart \in Nat /\ First \in Nat /\ First >= 1
  BY OneProver
<1>2. s.pc = "advance" /\ EpochsLeft(s) /\ bundle' = bundle
  BY DEF AdvanceEpoch
<1>3. /\ s.fin \in Nat /\ s.epoch \in Nat /\ s.next \in Nat /\ s.bundle \in Nat /\ s.goal \in Nat
      /\ s.fin <= finalized /\ BundleInv(s, bundle) /\ AdvanceInv(s, UpdateEpoch)
      /\ s.epoch = 0 \/ bundle >= EpochStart
  BY <1>1, <1>2, Zenon DEF ProverState, LocalInv
<1>4. CASE NewFinalizedState(p, root, next) /\ Set(p, t)
  <2>1. /\ LightInv' /\ Configured' /\ finalized <= finalized' /\ UpdateEpoch <= UpdateEpoch'
        /\ finalized' <= bundle /\ UpdateEpoch' = s.next + 1
    BY <1>2, <1>4, RootTaken
  <2>2. next \in Nat
    BY <1>1, <1>3 DEF TableOf
  <2>3. /\ t \in ProverState /\ t.pc = "advance" /\ t.fin = s.fin /\ t.epoch = s.next + 1
        /\ t.next = s.next + 1 /\ t.bundle = s.bundle /\ t.goal = s.goal
    <3> HIDE DEF next
    <3>1. SyncedEpoch(s) = s.next + 1 /\ s.next + 1 \in Nat
      BY <1>3 DEF SyncedEpoch
    <3>2. t = [s EXCEPT !.epoch = s.next + 1, !.table = next, !.next = s.next + 1]
      BY <1>1, <3>1 DEF ProverState
    <3> HIDE DEF t
    <3>3. t \in ProverState
      BY <1>1, <2>2, <3>1, <3>2, Zenon DEF ProverState
    <3> QED
      BY <1>1, <1>2, <3>2, <3>3 DEF ProverState
  <2> HIDE DEF t
  <2>4. finalized' \in Nat /\ t.fin <= finalized'
    BY <1>1, <1>3, <2>1, <2>3 DEF LightInv, TypeOK
  <2>5. BundleInv(t, bundle) /\ bundle >= EpochStart
    BY <1>1, <1>2, <1>3, <2>3 DEF BundleInv
  <2>6. AdvanceInv(t, UpdateEpoch')
    BY <1>1, <1>2, <1>3, <2>1, <2>3 DEF AdvanceInv, Entered, EpochsLeft
  <2>7. LocalInv(t, finalized', UpdateEpoch', bundle)
    BY <2>3, <2>4, <2>5, <2>6 DEF LocalInv
  <2> QED
    BY <1>2, <1>4, <2>1, <2>3, <2>7, ProverMoves
<1>5. CASE Set(p, Idle(s.epoch)) /\ UNCHANGED lightClientVars
  BY <1>1, <1>2, <1>3, <1>5, BackToIdle, LocalStep, Zenon
<1> QED
  BY <1>4, <1>5 DEF AdvanceEpoch

\* The end of advance_epoch, and the choice behind it.
LEMMA FinishStep ==
  ASSUME SyncInv, NEW p \in Prover, Advanced(p) \/ Finish(p)
  PROVE  SyncInv'
<1> DEFINE s == prover[p]
           e == EpochFromBlockNumber(s.bundle)
<1>1. /\ s \in ProverState /\ LocalInv(s, finalized, UpdateEpoch, bundle)
      /\ finalized \in Nat /\ UpdateEpoch \in Nat /\ bundle \in Nat
      /\ EpochStart \in Nat /\ First \in Nat
  BY OneProver
<1>2. /\ s.bundle \in Nat /\ s.next \in Nat /\ s.fin <= finalized
      /\ s.epoch = 0 \/ bundle >= EpochStart
      /\ s.pc \in {"advance", "finish"} => BundleInv(s, bundle)
  BY <1>1 DEF ProverState, LocalInv
<1>3. /\ e \in Nat
      /\ s.bundle >= EpochStart => EpochOf(s.bundle) = e /\ e >= First
  BY <1>2, EpochBounds, EpochsAgree
<1>4. CASE Advanced(p)
  <2> DEFINE t == [s EXCEPT !.pc = "finish"]
  <2>1. s.pc = "advance" /\ ~EpochsLeft(s) /\ UNCHANGED <<lightClientVars, bundle>>
    BY <1>4 DEF Advanced
  <2>2. BundleInv(s, bundle) /\ AdvanceInv(s, UpdateEpoch)
    BY <1>1, <2>1, Zenon DEF LocalInv
  <2>3. s.bundle >= EpochStart /\ s.goal = e /\ s.next = e
    BY <1>2, <1>3, <2>1, <2>2 DEF BundleInv, AdvanceInv, EpochsLeft
  <2>4. Set(p, t)
    <3>1. ~ (s.goal > EpochOf(s.bundle))
      BY <1>3, <2>3
    <3> QED
      BY <1>4, <3>1 DEF Advanced
  <2>5. /\ t \in ProverState /\ t.pc = "finish" /\ t.fin = s.fin /\ t.epoch = s.epoch
        /\ t.bundle = s.bundle
    BY <1>1 DEF ProverState
  <2> HIDE DEF t
  <2>6. BundleInv(t, bundle)
    BY <2>2, <2>3, <2>5 DEF BundleInv
  <2>7. FinishInv(t, UpdateEpoch)
    BY <2>2, <2>3, <2>5 DEF AdvanceInv, FinishInv
  <2>8. LocalInv(t, finalized, UpdateEpoch, bundle)
    BY <1>2, <2>5, <2>6, <2>7 DEF LocalInv
  <2> QED
    BY <2>1, <2>4, <2>5, <2>8, LocalStep
<1>5. CASE Finish(p)
  <2> DEFINE t == [s EXCEPT !.pc = "submit"]
  <2>1. s.pc = "finish" /\ UNCHANGED <<lightClientVars, bundle>>
    BY <1>5 DEF Finish
  <2>2. BundleInv(s, bundle) /\ FinishInv(s, UpdateEpoch)
    BY <1>1, <2>1 DEF LocalInv
  <2>3. ~is_ge_epoch_root(s.bundle, BlocksPerEpoch)
    BY <1>2, <1>3, <2>1, <2>2, BeforeRoot DEF BundleInv
  <2>4. Set(p, t)
    BY <1>5, <2>3 DEF Finish
  <2>5. /\ t \in ProverState /\ t.pc = "submit" /\ t.fin = s.fin /\ t.epoch = s.epoch
        /\ t.bundle = s.bundle
    BY <1>1 DEF ProverState
  <2> HIDE DEF t
  <2>6. BundleInv(t, bundle)
    BY <2>2, <2>5 DEF BundleInv
  <2>7. FinishInv(t, UpdateEpoch)
    BY <2>2, <2>5 DEF FinishInv
  <2>8. LocalInv(t, finalized, UpdateEpoch, bundle)
    BY <1>2, <2>5, <2>6, <2>7 DEF LocalInv
  <2> QED
    BY <2>1, <2>4, <2>5, <2>8, LocalStep
<1> QED
  BY <1>4, <1>5

\* The bundle is submitted, or its proof is not accepted.
LEMMA SubmitStep ==
  ASSUME SyncInv, NEW p \in Prover, Submit(p)
  PROVE  SyncInv'
<1> DEFINE s == prover[p]
<1>1. /\ s \in ProverState /\ LocalInv(s, finalized, UpdateEpoch, bundle)
      /\ finalized \in Nat /\ UpdateEpoch \in Nat /\ bundle \in Nat
  BY OneProver
<1>2. s.epoch \in Nat /\ (s.epoch = 0 \/ bundle >= EpochStart)
  BY <1>1 DEF ProverState, LocalInv
<1>3. s.pc = "submit" /\ Set(p, Idle(s.epoch)) /\ bundle' = bundle
  BY DEF Submit
<1>4. CASE Accepts(p, s.bundle, s.table) /\ NewFinalizedState(p, s.bundle, s.table)
  <2>1. /\ LightInv' /\ Configured' /\ finalized <= finalized' /\ UpdateEpoch <= UpdateEpoch'
        /\ finalized' <= bundle
    BY <1>3, <1>4, BundleTaken
  <2>2. finalized' \in Nat
    BY <2>1 DEF LightInv, TypeOK
  <2> QED
    BY <1>2, <1>3, <2>1, <2>2, BackToIdle, ProverMoves
<1>5. CASE UNCHANGED lightClientVars
  BY <1>1, <1>2, <1>3, <1>5, BackToIdle, LocalStep
<1> QED
  BY <1>4, <1>5 DEF Submit

\* Failed calls, lost answers and restarts.
LEMMA FailureStep ==
  ASSUME SyncInv, NEW p \in Prover, CallFails(p) \/ AnswerLost(p) \/ Restart(p)
  PROVE  SyncInv'
<1> DEFINE s == prover[p]
<1>1. /\ s \in ProverState /\ LocalInv(s, finalized, UpdateEpoch, bundle)
      /\ finalized \in Nat /\ UpdateEpoch \in Nat /\ bundle \in Nat
  BY OneProver
<1>2. s.epoch \in Nat /\ (s.epoch = 0 \/ bundle >= EpochStart)
  BY <1>1 DEF ProverState, LocalInv
<1>3. CASE CallFails(p)
  <2>1. Set(p, Idle(s.epoch)) /\ UNCHANGED <<lightClientVars, bundle>>
    BY <1>3 DEF CallFails
  <2> QED
    BY <1>1, <1>2, <2>1, BackToIdle, LocalStep
<1>4. CASE Restart(p)
  <2>1. Set(p, Idle(0)) /\ UNCHANGED <<lightClientVars, bundle>>
    BY <1>4, Zenon DEF Restart
  <2> QED
    BY <1>1, <2>1, BackToIdle, LocalStep
<1>5. CASE AnswerLost(p)
  <2>1. Set(p, Idle(s.epoch)) /\ bundle' = bundle
    BY <1>5, Zenon DEF AnswerLost
  <2>2. /\ LightInv' /\ Configured' /\ finalized <= finalized' /\ UpdateEpoch <= UpdateEpoch'
        /\ finalized' <= bundle
    BY <1>5, RootTaken, BundleTaken, Zenon DEF AnswerLost
  <2>3. finalized' \in Nat
    BY <2>2 DEF LightInv, TypeOK
  <2> QED
    BY <1>2, <2>1, <2>2, <2>3, BackToIdle, ProverMoves, Zenon
<1> QED
  BY <1>3, <1>4, <1>5

\* The relay server moves on.
LEMMA PublishStep ==
  ASSUME SyncInv, NEW h \in Heights, PublishBundle(h)
  PROVE  SyncInv'
<1>1. /\ LightInv' /\ Configured' /\ finalized' = finalized /\ UpdateEpoch' = UpdateEpoch
      /\ finalized \in Nat /\ UpdateEpoch \in Nat
  BY ContractStays DEF PublishBundle
<1>2. h \in Nat /\ bundle \in Nat /\ bundle <= h /\ bundle' = h /\ prover' = prover
  BY LightClientAssumption DEF PublishBundle, SyncInv
<1>3. NeverAheadOfBundle' /\ Publishable(bundle)'
  BY <1>1, <1>2 DEF NeverAheadOfBundle, Publishable, PublishBundle, SyncInv
<1>4. ASSUME NEW q \in Prover PROVE LocalInv(prover[q], finalized, UpdateEpoch, h)
  <2>1. prover[q] \in ProverState /\ LocalInv(prover[q], finalized, UpdateEpoch, bundle)
    BY DEF SyncInv
  <2> QED
    BY <1>1, <1>2, <2>1, LocalKept
<1>5. (\A q \in Prover : LocalInv(prover[q], finalized, UpdateEpoch, bundle))'
  BY <1>1, <1>2, <1>4
<1> QED
  BY <1>1, <1>2, <1>3, <1>5 DEF SyncInv

\* The provers start with a contract at genesis and no bundle.
LEMMA InitSync == ProverInit => SyncInv
<1> SUFFICES ASSUME ProverInit PROVE SyncInv
  OBVIOUS
<1>1. LightInv /\ Configured /\ finalized = 0 /\ bundle = 0
  BY InitInv DEF ProverInit, Init
<1>2. Publishable(bundle)
  BY <1>1 DEF Publishable, is_ge_epoch_root
<1>3. Idle(0) \in ProverState /\ LocalInv(Idle(0), finalized, UpdateEpoch, bundle)
  BY <1>1, BackToIdle
<1>4. prover = [p \in Prover |-> Idle(0)]
  BY DEF ProverInit
<1> QED
  BY <1>1, <1>2, <1>3, <1>4 DEF SyncInv, NeverAheadOfBundle

\* Every step preserves the invariant.
LEMMA StepSync == SyncInv /\ [ProverNext]_vars => SyncInv'
<1> SUFFICES ASSUME SyncInv, [ProverNext]_vars PROVE SyncInv'
  OBVIOUS
<1>1. ASSUME NEW p \in Prover, SyncStep(p) PROVE SyncInv'
  BY <1>1, ReadStep, FetchStep, AdvanceStep, FinishStep, SubmitStep, Zenon DEF SyncStep
<1>2. ASSUME NEW p \in Prover, CallFails(p) \/ AnswerLost(p) \/ Restart(p) PROVE SyncInv'
  BY <1>2, FailureStep, Zenon
<1>3. ASSUME NEW h \in Heights, PublishBundle(h) PROVE SyncInv'
  BY <1>3, PublishStep
<1>4. CASE UNCHANGED vars
  <2>1. UNCHANGED lightClientVars /\ bundle' = bundle /\ prover' = prover
    BY <1>4 DEF vars
  <2>2. /\ LightInv' /\ Configured' /\ finalized' = finalized /\ UpdateEpoch' = UpdateEpoch
    BY <2>1, ContractStays
  <2> QED
    BY <2>1, <2>2 DEF SyncInv, NeverAheadOfBundle, Publishable
<1> QED
  BY <1>1, <1>2, <1>3, <1>4, Zenon DEF ProverNext

\* The invariant holds in every state.
LEMMA AlwaysSync == ProverSpec => []SyncInv
  BY InitSync, StepSync, PTL DEF ProverSpec

-----------------------------------------------------------------------------

\* The contract never gets ahead of the relay server's latest bundle.
THEOREM ContractFollowsBundle == ProverSpec => []NeverAheadOfBundle
<1>1. SyncInv => NeverAheadOfBundle
  BY DEF SyncInv
<1> QED
  BY <1>1, AlwaysSync, PTL

\* A prover that has come to submit the bundle has a proof that the contract
\* accepts, unless the contract has moved on.
LEMMA ProofFits == SyncInv => BundleProofFits
<1> SUFFICES ASSUME SyncInv, NEW p \in Prover, prover[p].pc = "submit",
                    ~ (finalized >= prover[p].bundle), voting = prover[p].table
             PROVE  Accepts(p, prover[p].bundle, prover[p].table)
  BY DEF BundleProofFits
<1> DEFINE s == prover[p]
           b == s.bundle
           e == EpochFromBlockNumber(b)
           last == EpochFromBlockNumber(finalized)
<1>1. /\ s \in ProverState /\ LocalInv(s, finalized, UpdateEpoch, bundle)
      /\ finalized \in Nat /\ UpdateEpoch \in Nat /\ First \in Nat
  BY OneProver
<1>2. b \in Nat /\ Publishable(b) /\ TableOf(s.epoch) = TableOf(e) /\ Entered(e, UpdateEpoch)
  BY <1>1 DEF ProverState, LocalInv, BundleInv, FinishInv
<1>3. finalized < b
  BY <1>1, <1>2
<1>4. e \in Nat /\ last \in Nat /\ UpdateEpoch <= e
  BY <1>1, <1>2, <1>3, EpochBounds, AtMostBundle, UpdateEpochIs
<1>5. UpdateEpoch = IF last >= First /\ IsEpochRoot(finalized) THEN last + 1 ELSE last
  BY UpdateEpochIs DEF UpdateEpochAt
<1>6. e > First => UpdateEpoch = e
  BY <1>1, <1>2, <1>4 DEF Entered
<1>7. voting = TableOf(e)
  <2>1. voting = TableOf(UpdateEpoch)
    BY DEF SyncInv, LightInv, EpochInv, VotingTableIsCurrent
  <2>2. ~ (e > First) => TableOf(UpdateEpoch) = 0 /\ TableOf(e) = 0
    BY <1>1, <1>4 DEF TableOf
  <2> QED
    BY <1>6, <2>1, <2>2
<1>8. e >= First => ~IsGtEpochRoot(b)
  BY <1>2, BeforeRoot
<1>9. FirstEpoch = First
  BY Configuration DEF SyncInv, Configured, FirstEpoch
<1>10. QuorumSigned(b, voting, voting)
  <2>1. ~ (b >= Upgrade /\ is_ge_epoch_root(b, BlocksPerEpoch))
    BY <1>2 DEF Publishable
  <2>2. ~ (b >= Upgrade /\ is_epoch_root(b, BlocksPerEpoch))
    <3>1. is_epoch_root(b, BlocksPerEpoch) => is_ge_epoch_root(b, BlocksPerEpoch)
      <4>1. BlocksPerEpoch * e - 5 \in Int
        BY <1>4, LightClientAssumption
      <4> QED
        BY <1>2, <4>1, SameArithmetic, RootIs, BehindRoot
    <3> QED
      BY <2>1, <3>1
  <2>3. epoch_from_block_number(b, BlocksPerEpoch) = e
    BY <1>2, SameArithmetic
  <2> QED
    BY <1>7, <2>1, <2>2, <2>3 DEF QuorumSigned
<1>11. CanProve(p, b, s.table)
  BY <1>2, <1>7, <1>10 DEF CanProve
<1>12. VerifyProof(b, s.table)
  BY <1>10 DEF VerifyProof
<1>13. EpochChecks(b)
  <2>1. e > First => e < last + 2 /\ (e = last + 1 => IsEpochRoot(finalized))
    <3> HIDE DEF e, last
    <3> QED
      BY <1>4, <1>5, <1>6
  <2> QED
    BY <1>8, <1>9, <2>1, Zenon DEF EpochChecks
<1>14. b > finalized
  BY <1>1, <1>2, <1>3
<1> QED
  BY <1>11, <1>12, <1>13, <1>14 DEF Accepts, Acceptable

\* The proof of a bundle's state is only in vain if another prover has moved the
\* contract on since it was read.
THEOREM BundleProofAlwaysFits == ProverSpec => []BundleProofFits
  BY ProofFits, AlwaysSync, PTL
=============================================================================
