----------------------------- MODULE StakeTable -----------------------------
(***************************************************************************)
(* The StakeTable contract (StakeTable.sol and its V2) and what the nodes   *)
(* make of its events: every node replays the log with                      *)
(* validators_from_l1_events and takes the active set from the result with  *)
(* select_active_validator_set.                                             *)
(*                                                                          *)
(* A transaction that reverts changes nothing, so an action is what a       *)
(* successful call does.  Delegators have approved the contract.            *)
(***************************************************************************)
EXTENDS Naturals, Sequences, FiniteSets, FiniteSetsExt, Functions

CONSTANTS
  Validator,   \* the accounts that may register
  Delegator,   \* the accounts that hold tokens
  Key,         \* BLS keys
  Funds,       \* tokens each delegator starts with
  Amounts,     \* the amounts of a single delegation or undelegation
  Escrows,     \* the exit escrow periods the owner may set
  MaxTime,     \* bound on block.timestamp
  MaxEvents,   \* bound on the event log
  MaxActive,   \* size of the active set (100)
  TargetStake, \* VID_TARGET_TOTAL_STAKE
  Authentic    \* whether a V2 event may carry, or lack, a valid Schnorr signature

ASSUME StakeTableAssumption ==
  /\ IsFiniteSet(Validator) /\ IsFiniteSet(Delegator)
  /\ Funds \in Nat /\ Amounts \subseteq Nat /\ MaxTime \in Nat \ {0} /\ MaxEvents \in Nat
  /\ MaxActive \in Nat \ {0} /\ TargetStake \in Nat \ {0}
  /\ Escrows \subseteq Nat /\ Escrows # {} /\ Authentic \subseteq BOOLEAN

VARIABLES
  version,        \* 1 for StakeTable, 2 for StakeTableV2
  status,         \* validators[v].status
  delegatedAmount,\* validators[v].delegatedAmount
  blsKeys,        \* the keys ever used
  exits,          \* validatorExits: when the delegations to v unlock, 0 if v is not exited
  delegations,    \* delegations[v][d]
  undelegations,  \* undelegations[v][d]
  escrow,         \* exitEscrowPeriod
  now,            \* block.timestamp
  wallet,         \* token balance of each delegator
  held,           \* token balance of the contract
  log             \* the events emitted so far

vars == <<version, status, delegatedAmount, blsKeys, exits, delegations, undelegations,
          escrow, now, wallet, held, log>>

None == [amount |-> 0, unlocksAt |-> 0]

Emit(e) == Len(log) < MaxEvents /\ log' = Append(log, e)

\* delegations or undelegations m with the entry of v and d replaced by x.
With(m, v, d, x) == [m EXCEPT ![v] = [@ EXCEPT ![d] = x]]

-----------------------------------------------------------------------------
\* The checks the operations share.

EnsureValidatorActive(v) == status[v] = "Active"

EnsureValidatorNotRegistered(v) == status[v] = "Unknown"

\* Mutant: the key need not be new.
EnsureAnyKey(k) == TRUE

EnsureNewKey(k) == k \notin blsKeys

\* Mutant: a second undelegation replaces the pending one.
AnyUndelegation(d, v) == TRUE

NoUndelegation(d, v) == undelegations[v][d].amount = 0

\* Mutant: the balance checked is that of all the delegators.
EnsureTotalBalance(d, v, amount) == amount <= delegatedAmount[v]

EnsureBalance(d, v, amount) == amount <= delegations[v][d]

-----------------------------------------------------------------------------
\* The operations of the contract.

\* What both versions of the registration do.
AddValidator(v, k) ==
  /\ EnsureValidatorNotRegistered(v)
  /\ EnsureNewKey(k)
  /\ blsKeys' = blsKeys \cup {k}
  /\ status' = [status EXCEPT ![v] = "Active"]
  /\ delegatedAmount' = [delegatedAmount EXCEPT ![v] = 0]
  /\ UNCHANGED <<version, exits, delegations, undelegations, escrow, now, wallet, held>>

RegisterValidator(v, k) ==
  /\ version = 1
  /\ AddValidator(v, k)
  /\ Emit([kind |-> "Register", validator |-> v, key |-> k])

RegisterValidatorV2(v, k, auth) ==
  /\ version = 2
  /\ AddValidator(v, k)
  /\ Emit([kind |-> "RegisterV2", validator |-> v, key |-> k, auth |-> auth])

\* Mutant: the delegated amount of an exited validator is kept.
DeregisterKeepingStake(v) ==
  /\ EnsureValidatorActive(v)
  /\ status' = [status EXCEPT ![v] = "Exited"]
  /\ exits' = [exits EXCEPT ![v] = now + escrow]
  /\ Emit([kind |-> "Deregister", validator |-> v])
  /\ UNCHANGED <<version, blsKeys, delegatedAmount, delegations, undelegations, escrow, now,
                 wallet, held>>

DeregisterValidator(v) ==
  /\ EnsureValidatorActive(v)
  /\ status' = [status EXCEPT ![v] = "Exited"]
  /\ exits' = [exits EXCEPT ![v] = now + escrow]
  /\ delegatedAmount' = [delegatedAmount EXCEPT ![v] = 0]
  /\ Emit([kind |-> "Deregister", validator |-> v])
  /\ UNCHANGED <<version, blsKeys, delegations, undelegations, escrow, now, wallet, held>>

Delegate(d, v, amount) ==
  /\ EnsureValidatorActive(v)
  /\ amount > 0
  /\ amount <= wallet[d]
  /\ wallet' = [wallet EXCEPT ![d] = @ - amount]
  /\ held' = held + amount
  /\ delegatedAmount' = [delegatedAmount EXCEPT ![v] = @ + amount]
  /\ delegations' = With(delegations, v, d, delegations[v][d] + amount)
  /\ Emit([kind |-> "Delegate", validator |-> v, delegator |-> d, amount |-> amount])
  /\ UNCHANGED <<version, status, blsKeys, exits, undelegations, escrow, now>>

Undelegate(d, v, amount) ==
  /\ EnsureValidatorActive(v)
  /\ amount > 0
  /\ NoUndelegation(d, v)
  /\ EnsureBalance(d, v, amount)
  /\ delegations' = With(delegations, v, d, delegations[v][d] - amount)
  /\ undelegations' = With(undelegations, v, d, [amount |-> amount, unlocksAt |-> now + escrow])
  /\ delegatedAmount' = [delegatedAmount EXCEPT ![v] = @ - amount]
  /\ Emit([kind |-> "Undelegate", validator |-> v, delegator |-> d, amount |-> amount])
  /\ UNCHANGED <<version, status, blsKeys, exits, escrow, now, wallet, held>>

ClaimWithdrawal(d, v) ==
  LET amount == undelegations[v][d].amount
  IN  /\ amount # 0
      /\ now >= undelegations[v][d].unlocksAt
      /\ undelegations' = With(undelegations, v, d, None)
      /\ wallet' = [wallet EXCEPT ![d] = @ + amount]
      /\ held' = held - amount
      /\ UNCHANGED <<version, status, delegatedAmount, blsKeys, exits, delegations, escrow, now, log>>

ClaimValidatorExit(d, v) ==
  LET amount == delegations[v][d]
  IN  /\ exits[v] # 0
      /\ now >= exits[v]
      /\ amount # 0
      /\ delegations' = With(delegations, v, d, 0)
      /\ wallet' = [wallet EXCEPT ![d] = @ + amount]
      /\ held' = held - amount
      /\ UNCHANGED <<version, status, delegatedAmount, blsKeys, exits, undelegations, escrow, now, log>>

\* What both versions of the key update do: the keys themselves are only in
\* the event.
ReplaceKey(v, k) ==
  /\ EnsureValidatorActive(v)
  /\ EnsureNewKey(k)
  /\ blsKeys' = blsKeys \cup {k}
  /\ UNCHANGED <<version, status, delegatedAmount, exits, delegations, undelegations, escrow,
                 now, wallet, held>>

UpdateConsensusKeys(v, k) ==
  /\ version = 1
  /\ ReplaceKey(v, k)
  /\ Emit([kind |-> "KeyUpdate", validator |-> v, key |-> k])

UpdateConsensusKeysV2(v, k, auth) ==
  /\ version = 2
  /\ ReplaceKey(v, k)
  /\ Emit([kind |-> "KeyUpdateV2", validator |-> v, key |-> k, auth |-> auth])

\* The proxy is pointed to StakeTableV2, which keeps the storage.
UpgradeToV2 ==
  /\ version = 1
  /\ version' = 2
  /\ UNCHANGED <<status, delegatedAmount, blsKeys, exits, delegations, undelegations, escrow,
                 now, wallet, held, log>>

UpdateExitEscrowPeriod(p) ==
  /\ version = 2
  /\ escrow' = p
  /\ UNCHANGED <<version, status, delegatedAmount, blsKeys, exits, delegations, undelegations,
                 now, wallet, held, log>>

\* Time passes between two L1 blocks.
Tick ==
  /\ now < MaxTime
  /\ now' = now + 1
  /\ UNCHANGED <<version, status, delegatedAmount, blsKeys, exits, delegations, undelegations,
                 escrow, wallet, held, log>>

-----------------------------------------------------------------------------

Init ==
  /\ version = 1
  /\ status = [v \in Validator |-> "Unknown"]
  /\ delegatedAmount = [v \in Validator |-> 0]
  /\ blsKeys = {}
  /\ exits = [v \in Validator |-> 0]
  /\ delegations = [v \in Validator |-> [d \in Delegator |-> 0]]
  /\ undelegations = [v \in Validator |-> [d \in Delegator |-> None]]
  /\ escrow \in Escrows
  /\ now = 1
  /\ wallet = [d \in Delegator |-> Funds]
  /\ held = 0
  /\ log = << >>

Next ==
  \/ \E v \in Validator, k \in Key :
       \/ RegisterValidator(v, k)
       \/ UpdateConsensusKeys(v, k)
       \/ \E auth \in Authentic : RegisterValidatorV2(v, k, auth) \/ UpdateConsensusKeysV2(v, k, auth)
  \/ \E v \in Validator : DeregisterValidator(v)
  \/ \E v \in Validator, d \in Delegator :
       \/ \E amount \in Amounts : Delegate(d, v, amount) \/ Undelegate(d, v, amount)
       \/ ClaimWithdrawal(d, v)
       \/ ClaimValidatorExit(d, v)
  \/ UpgradeToV2
  \/ \E p \in Escrows : UpdateExitEscrowPeriod(p)
  \/ Tick

Spec == Init /\ [][Next]_vars

-----------------------------------------------------------------------------
\* The replay of the events by a node.

Failed == [failed |-> TRUE]

Registrations == {"Register", "RegisterV2"}

KeyUpdates == {"KeyUpdate", "KeyUpdateV2"}

\* StakeTableEvents::from_l1_logs drops what is not authenticated; sort_events
\* puts the events back into the order in which they were emitted.
Authenticated(e) == e.kind \in {"RegisterV2", "KeyUpdateV2"} => e.auth

\* The replay state s holds what is known of each validator, the number and the
\* keys of the registrations.  The validators are an IndexMap, which keeps them
\* in the order of their registration also when one is removed.
ApplyRegister(s, e) ==
  LET v == e.validator
      new == [key |-> e.key, stake |-> 0, delegators |-> << >>, order |-> s.registered]
  IN  IF e.key \in s.keys \/ v \in DOMAIN s.info THEN Failed
      ELSE [registered |-> s.registered + 1,
            info |-> [w \in DOMAIN s.info \cup {v} |-> IF w = v THEN new ELSE s.info[w]],
            keys |-> s.keys \cup {e.key}]

ApplyDeregister(s, e) == [s EXCEPT !.info = Restrict(@, DOMAIN @ \ {e.validator})]

\* The replay state s with the stake of v and its delegators replaced.
WithStake(s, v, stake, delegators) ==
  [s EXCEPT !.info[v] = [key |-> @.key, stake |-> stake, delegators |-> delegators,
                         order |-> @.order]]

ApplyDelegate(s, e) ==
  LET old == s.info[e.validator]
      ds == old.delegators
      before(d) == IF d \in DOMAIN ds THEN ds[d] ELSE 0
      add(d) == IF d = e.delegator THEN e.amount ELSE 0
  IN  WithStake(s, e.validator, old.stake + e.amount,
                [d \in DOMAIN ds \cup {e.delegator} |-> before(d) + add(d)])

\* Mutant: the delegator's own stake is not reduced.
ApplyUndelegateStakeOnly(s, e) ==
  LET old == s.info[e.validator]
  IN  IF old.stake < e.amount THEN Failed
      ELSE WithStake(s, e.validator, old.stake - e.amount, old.delegators)

ApplyUndelegate(s, e) ==
  LET old == s.info[e.validator]
      ds == old.delegators
      d == e.delegator
  IN  IF old.stake < e.amount \/ d \notin DOMAIN ds THEN Failed
      ELSE IF ds[d] < e.amount THEN Failed
      ELSE WithStake(s, e.validator, old.stake - e.amount,
                     IF ds[d] = e.amount THEN Restrict(ds, DOMAIN ds \ {d})
                     ELSE [ds EXCEPT ![d] = @ - e.amount])

\* The new key is not added to the keys of the registrations.
ApplyKeyUpdate(s, e) ==
  IF e.key \in s.keys THEN Failed
  ELSE [s EXCEPT !.info[e.validator] = [@ EXCEPT !.key = e.key]]

\* One event; the first error ends the replay.
Apply(s, e) ==
  CASE s = Failed -> Failed
    [] s # Failed /\ e.kind \in Registrations -> ApplyRegister(s, e)
    [] s # Failed /\ e.kind \notin Registrations ->
         CASE e.validator \notin DOMAIN s.info -> Failed
           [] OTHER ->
                CASE e.kind = "Deregister" -> ApplyDeregister(s, e)
                  [] e.kind = "Delegate" -> ApplyDelegate(s, e)
                  [] e.kind = "Undelegate" -> ApplyUndelegate(s, e)
                  [] e.kind \in KeyUpdates -> ApplyKeyUpdate(s, e)

ApplyAuthenticated(s, e) == IF Authenticated(e) THEN Apply(s, e) ELSE s

Empty == [registered |-> 0, info |-> << >>, keys |-> {}]

\* validators_from_l1_events: the events are applied from the first to the last.
Replay(events) ==
  MapThenFoldSet(LAMBDA e, s : ApplyAuthenticated(s, e), Empty,
                 LAMBDA i : events[i], LAMBDA S : Max(S), DOMAIN events)

\* The validators that select_active_validator_set does not drop at once.
Staked(r) == {v \in DOMAIN r.info : r.info[v].stake > 0 /\ DOMAIN r.info[v].delegators # {}}

\* Mutant: the smallest stakes come first.
SmallestFirst(r, v, w) == r.info[v].stake < r.info[w].stake

LargestFirst(r, v, w) == r.info[v].stake > r.info[w].stake

\* The least stake that is accepted: the maximal one divided by the VID target.
MinimumStake(r) == Max({r.info[v].stake : v \in Staked(r)}) \div TargetStake

Valid(r) == {v \in Staked(r) : r.info[v].stake >= MinimumStake(r)}

\* The sort is stable: equal stakes stay in the order of the IndexMap.
Precedes(r, v, w) ==
  \/ LargestFirst(r, v, w)
  \/ ~LargestFirst(r, w, v) /\ r.info[v].order < r.info[w].order

\* select_active_validator_set: the first MaxActive of the valid ones.  With
\* nothing staked the code returns an error, here the empty set.
ActiveSet(r) ==
  IF Staked(r) = {} THEN {}
  ELSE {v \in Valid(r) : Cardinality({w \in Valid(r) : Precedes(r, w, v)}) < MaxActive}

-----------------------------------------------------------------------------
\* Properties.

Event ==
  [kind : {"Register", "KeyUpdate"}, validator : Validator, key : Key]
    \cup [kind : {"RegisterV2", "KeyUpdateV2"}, validator : Validator, key : Key, auth : BOOLEAN]
    \cup [kind : {"Deregister"}, validator : Validator]
    \cup [kind : {"Delegate", "Undelegate"}, validator : Validator, delegator : Delegator,
          amount : Nat \ {0}]

\* The types of the contract's storage and of its event log.
TypeOK ==
  /\ version \in 1..2
  /\ status \in [Validator -> {"Unknown", "Active", "Exited"}]
  /\ delegatedAmount \in [Validator -> Nat]
  /\ blsKeys \subseteq Key
  /\ exits \in [Validator -> Nat]
  /\ delegations \in [Validator -> [Delegator -> Nat]]
  /\ undelegations \in [Validator -> [Delegator -> [amount : Nat, unlocksAt : Nat]]]
  /\ escrow \in Escrows
  /\ now \in 1..MaxTime
  /\ wallet \in [Delegator -> Nat]
  /\ held \in Nat
  /\ log \in Seq(Event)

Total(f, S) == SumFunctionOnSet(f, S)

\* What the contract owes d at v.
Owed(v) == [d \in Delegator |-> delegations[v][d] + undelegations[v][d].amount]

\* The contract holds exactly the tokens its tables promise to pay out: the
\* delegations (which claimValidatorExit pays once the validator has left) and
\* the pending undelegations (which claimWithdrawal pays).
Solvent == held = Total([v \in Validator |-> Total(Owed(v), Delegator)], Validator)

\* delegatedAmount, which no operation recomputes, is the sum of the delegations
\* to an active validator, and 0 for one that left although its delegations stay
\* in the table until they are claimed.
StakeAccounting ==
  \A v \in Validator :
    delegatedAmount[v] = IF status[v] = "Active" THEN Total(delegations[v], Delegator) ELSE 0

\* The validators whose registration lacks a valid Schnorr signature, which the
\* contract leaves to the nodes to check: from_l1_logs drops the event, and the
\* validator cannot register again.
Dropped ==
  {v \in Validator : \E e \in Range(log) :
                       e.kind \in Registrations /\ e.validator = v /\ ~Authenticated(e)}

\* An event that the nodes keep is about a validator that they do not know.
Orphaned ==
  \E e \in Range(log) :
    e.kind \notin Registrations /\ Authenticated(e) /\ e.validator \in Dropped

\* The nodes see the contract's state: replaying the log yields the active
\* validators but those that were dropped, and gives each the stake and the
\* delegators that the contract has for it.  The replay fails in one case only,
\* and then always, for every node and for good: a validator whose registration
\* was dropped takes part in a later event.
ReplayAgrees ==
  LET r == Replay(log)
  IN  IF Orphaned THEN r = Failed
      ELSE /\ r # Failed
           /\ DOMAIN r.info = {v \in Validator : status[v] = "Active"} \ Dropped
           /\ \A v \in DOMAIN r.info :
                /\ r.info[v].stake = delegatedAmount[v]
                /\ r.info[v].delegators
                     = Restrict(delegations[v], {d \in Delegator : delegations[v][d] > 0})

\* Two validators of a replayed table never have the same BLS key, although
\* validators_from_l1_events does not record the keys of updates: the committee
\* is a map from keys and would lose one of them.
KeysDistinct ==
  LET r == Replay(log)
  IN  r # Failed =>
        \A v, w \in DOMAIN r.info : r.info[v].key = r.info[w].key => v = w

\* The set the nodes select has the size it can have, holds only validators
\* with stake in the contract, and leaves out nobody with more stake than one
\* of its members.  Which of several validators with equal stake is left out is
\* not part of it.
ActiveSetIsTop ==
  LET r == Replay(log)
      eligible == {v \in Validator : /\ status[v] = "Active" /\ delegatedAmount[v] > 0
                                     /\ \A w \in Validator :
                                          delegatedAmount[v] >= delegatedAmount[w] \div TargetStake}
  IN  r # Failed =>
        /\ ActiveSet(r) \subseteq eligible
        /\ Cardinality(ActiveSet(r)) = Min({MaxActive, Cardinality(eligible)})
        /\ \A v \in ActiveSet(r), w \in Validator \ ActiveSet(r) :
             delegatedAmount[v] >= delegatedAmount[w]
=============================================================================
