-------------------------- MODULE StakeReplay_proofs -------------------------
(***************************************************************************)
(* Proofs about what the nodes make of the StakeTable contract's events:    *)
(* the replayed table, its keys and the validators selected from it.        *)
(***************************************************************************)
EXTENDS StakeTable_proofs

-----------------------------------------------------------------------------
\* Keys.

\* The keys of the replayed validators are keys the contract has recorded, and
\* no two of them are the same.
KeysKnown ==
  LET r == Replay(log)
  IN  r # Failed =>
        /\ IsTable(r)
        /\ \A v \in DOMAIN r.info : r.info[v].key \in blsKeys
        /\ \A v, w \in DOMAIN r.info : r.info[v].key = r.info[w].key => v = w

\* An event that brings a key brings one that the contract had not recorded.
LEMMA KeysKnownMore ==
  ASSUME KeysKnown, log \in Seq(Event), NEW e \in Event, log' = Append(log, e),
         blsKeys \subseteq blsKeys',
         e.kind \in Registrations \cup KeyUpdates => e.key \notin blsKeys /\ e.key \in blsKeys'
  PROVE  KeysKnown'
<1> DEFINE s == Replay(log)
           t == Replay(log')
<1>0. t = ApplyAuthenticated(s, e)
  BY ReplayMore
<1>1. s # Failed => /\ IsTable(s)
                    /\ \A v \in DOMAIN s.info : s.info[v].key \in blsKeys
                    /\ \A v, w \in DOMAIN s.info : s.info[v].key = s.info[w].key => v = w
  BY Zenon DEF KeysKnown
<1>2. e.validator \in Validator
  BY EventFields
<1> HIDE DEF s, t
<1> SUFFICES ASSUME t # Failed
             PROVE  /\ IsTable(t)
                    /\ \A v \in DOMAIN t.info : t.info[v].key \in blsKeys'
                    /\ \A v, w \in DOMAIN t.info : t.info[v].key = t.info[w].key => v = w
  BY Zenon DEF KeysKnown, t
<1>3. CASE ~Authenticated(e)
  <2>1. t = s
    BY <1>0, <1>3, Zenon DEF ApplyAuthenticated
  <2> QED
    BY <1>1, <2>1
<1>4. CASE Authenticated(e)
  <2>1. t = Apply(s, e)
    BY <1>0, <1>4, Zenon DEF ApplyAuthenticated
  <2>2. s # Failed
    <3> SUFFICES ASSUME s = Failed PROVE FALSE
      OBVIOUS
    <3>1. Apply(Failed, e) = Failed
      BY DEF Apply
    <3> QED
      BY <2>1, <3>1, Zenon
  <2>3. /\ IsTable(s)
        /\ \A v \in DOMAIN s.info : s.info[v].key \in blsKeys
        /\ \A v, w \in DOMAIN s.info : s.info[v].key = s.info[w].key => v = w
    BY <1>1, <2>2, Zenon
  <2>4. CASE e.kind \in Registrations
    <3>1. t = ApplyRegister(s, e)
      BY <2>1, <2>2, <2>4, ApplyCases, Zenon
    <3>2. e.key \notin s.keys /\ e.validator \notin DOMAIN s.info
      BY <3>1, Zenon DEF ApplyRegister
    <3>3. e.key \in Key /\ e.key \notin blsKeys /\ e.key \in blsKeys'
      BY <2>4, EventFields
    <3>4. Registered(s, e, t)
      BY <1>2, <2>3, <3>1, <3>2, <3>3, RegisterEffect, Zenon
    <3> QED
      BY <2>3, <3>2, <3>3, <3>4 DEF Registered
  <2>5. CASE e.kind \notin Registrations
    <3>1. e.validator \in DOMAIN s.info
      BY <2>1, <2>2, <2>5, ApplyCases, Zenon
    <3>2. CASE e.kind = "Deregister"
      <4>1. t = ApplyDeregister(s, e)
        BY <2>1, <2>2, <3>1, <3>2, ApplyCases, Zenon
      <4>2. Deregistered(s, e, t)
        BY <2>3, <3>1, <4>1, DeregisterEffect, Zenon
      <4> QED
        BY <2>3, <4>2 DEF Deregistered
    <3>3. CASE e.kind = "Delegate"
      <4>1. t = ApplyDelegate(s, e)
        BY <2>1, <2>2, <3>1, <3>3, ApplyCases, Zenon
      <4>2. e.delegator \in Delegator /\ e.amount \in Nat \ {0}
        BY <3>3, EventFields
      <4>3. Delegated(s, e, t)
        BY <2>3, <3>1, <4>1, <4>2, DelegateEffect, Zenon
      <4>4. /\ IsTable(t) /\ DOMAIN t.info = DOMAIN s.info
            /\ \A w \in DOMAIN s.info : t.info[w].key = s.info[w].key
        BY <4>3, Zenon DEF Delegated
      <4> QED
        BY <2>3, <4>4
    <3>4. CASE e.kind = "Undelegate"
      <4>1. t = ApplyUndelegate(s, e)
        BY <2>1, <2>2, <3>1, <3>4, ApplyCases, Zenon
      <4>2. e.delegator \in Delegator /\ e.amount \in Nat \ {0}
        BY <3>4, EventFields
      <4>3. Undelegated(s, e, t)
        BY <2>3, <3>1, <4>1, <4>2, UndelegateEffect, Zenon
      <4>4. /\ IsTable(t) /\ DOMAIN t.info = DOMAIN s.info
            /\ \A w \in DOMAIN s.info : t.info[w].key = s.info[w].key
        BY <4>3, Zenon DEF Undelegated
      <4> QED
        BY <2>3, <4>4
    <3>5. CASE e.kind \in KeyUpdates
      <4>1. t = ApplyKeyUpdate(s, e)
        BY <2>1, <2>2, <3>1, <3>5, ApplyCases, Zenon
      <4>2. e.key \in Key /\ e.key \notin blsKeys /\ e.key \in blsKeys'
        BY <3>5, EventFields
      <4>3. e.key \notin s.keys
        BY <4>1, Zenon DEF ApplyKeyUpdate
      <4>4. KeyUpdated(s, e, t)
        BY <2>3, <3>1, <4>1, <4>2, <4>3, KeyUpdateEffect, Zenon
      <4> QED
        BY <2>3, <4>2, <4>4 DEF KeyUpdated
    <3> QED
      BY <2>5, <3>2, <3>3, <3>4, <3>5, EventFields
  <2> QED
    BY <2>4, <2>5, Zenon
<1> QED
  BY <1>3, <1>4, Zenon

\* Every call that emits a key records it first, under either version.
LEMMA KeysKnownStep == Books /\ KeysKnown /\ [Next]_vars => KeysKnown'
<1> SUFFICES ASSUME Books, KeysKnown, [Next]_vars PROVE KeysKnown'
  OBVIOUS
<1>0. log \in Seq(Event)
  BY DEF Books, TypeOK
<1>1. ASSUME NEW v \in Validator, NEW k \in Key, RegisterValidator(v, k) PROVE KeysKnown'
  <2> DEFINE e == [kind |-> "Register", validator |-> v, key |-> k]
  <2>1. e \in Event /\ e.key = k
    BY DEF Event
  <2>2. log' = Append(log, e) /\ k \notin blsKeys /\ blsKeys' = blsKeys \cup {k}
    BY <1>1 DEF RegisterValidator, AddValidator, Emit, EnsureNewKey
  <2> HIDE DEF e
  <2> QED
    BY <1>0, <2>1, <2>2, KeysKnownMore
<1>2. ASSUME NEW v \in Validator, NEW k \in Key, UpdateConsensusKeys(v, k) PROVE KeysKnown'
  <2> DEFINE e == [kind |-> "KeyUpdate", validator |-> v, key |-> k]
  <2>1. e \in Event /\ e.key = k
    BY DEF Event
  <2>2. log' = Append(log, e) /\ k \notin blsKeys /\ blsKeys' = blsKeys \cup {k}
    BY <1>2 DEF UpdateConsensusKeys, ReplaceKey, Emit, EnsureNewKey
  <2> HIDE DEF e
  <2> QED
    BY <1>0, <2>1, <2>2, KeysKnownMore
<1>3. ASSUME NEW v \in Validator, NEW k \in Key, NEW auth \in Authentic,
             RegisterValidatorV2(v, k, auth)
      PROVE  KeysKnown'
  <2> DEFINE e == [kind |-> "RegisterV2", validator |-> v, key |-> k, auth |-> auth]
  <2>1. e \in Event /\ e.key = k
    BY StakeTableAssumption DEF Event
  <2>2. log' = Append(log, e) /\ k \notin blsKeys /\ blsKeys' = blsKeys \cup {k}
    BY <1>3 DEF RegisterValidatorV2, AddValidator, Emit, EnsureNewKey
  <2> HIDE DEF e
  <2> QED
    BY <1>0, <2>1, <2>2, KeysKnownMore
<1>4. ASSUME NEW v \in Validator, NEW k \in Key, NEW auth \in Authentic,
             UpdateConsensusKeysV2(v, k, auth)
      PROVE  KeysKnown'
  <2> DEFINE e == [kind |-> "KeyUpdateV2", validator |-> v, key |-> k, auth |-> auth]
  <2>1. e \in Event /\ e.key = k
    BY StakeTableAssumption DEF Event
  <2>2. log' = Append(log, e) /\ k \notin blsKeys /\ blsKeys' = blsKeys \cup {k}
    BY <1>4 DEF UpdateConsensusKeysV2, ReplaceKey, Emit, EnsureNewKey
  <2> HIDE DEF e
  <2> QED
    BY <1>0, <2>1, <2>2, KeysKnownMore
<1>5. ASSUME NEW v \in Validator, DeregisterValidator(v) PROVE KeysKnown'
  <2> DEFINE e == [kind |-> "Deregister", validator |-> v]
  <2>1. e \in Event /\ e.kind \notin Registrations \cup KeyUpdates
    BY DEF Event, Registrations, KeyUpdates
  <2>2. log' = Append(log, e) /\ blsKeys' = blsKeys
    BY <1>5 DEF DeregisterValidator, Emit
  <2> HIDE DEF e
  <2> QED
    BY <1>0, <2>1, <2>2, KeysKnownMore
<1>6. ASSUME NEW v \in Validator, NEW d \in Delegator, NEW amount \in Amounts,
             Delegate(d, v, amount)
      PROVE  KeysKnown'
  <2> DEFINE e == [kind |-> "Delegate", validator |-> v, delegator |-> d, amount |-> amount]
  <2>1. e \in Event /\ e.kind \notin Registrations \cup KeyUpdates
    BY <1>6, StakeTableAssumption DEF Event, Registrations, KeyUpdates, Delegate
  <2>2. log' = Append(log, e) /\ blsKeys' = blsKeys
    BY <1>6 DEF Delegate, Emit
  <2> HIDE DEF e
  <2> QED
    BY <1>0, <2>1, <2>2, KeysKnownMore
<1>7. ASSUME NEW v \in Validator, NEW d \in Delegator, NEW amount \in Amounts,
             Undelegate(d, v, amount)
      PROVE  KeysKnown'
  <2> DEFINE e == [kind |-> "Undelegate", validator |-> v, delegator |-> d, amount |-> amount]
  <2>1. e \in Event /\ e.kind \notin Registrations \cup KeyUpdates
    BY <1>7, StakeTableAssumption DEF Event, Registrations, KeyUpdates, Undelegate
  <2>2. log' = Append(log, e) /\ blsKeys' = blsKeys
    BY <1>7 DEF Undelegate, Emit
  <2> HIDE DEF e
  <2> QED
    BY <1>0, <2>1, <2>2, KeysKnownMore
<1>8. ASSUME UNCHANGED <<log, blsKeys>> PROVE KeysKnown'
  BY <1>8 DEF KeysKnown
<1>9. ASSUME NEW v \in Validator, NEW d \in Delegator,
             ClaimWithdrawal(d, v) \/ ClaimValidatorExit(d, v)
      PROVE  KeysKnown'
  BY <1>8, <1>9 DEF ClaimWithdrawal, ClaimValidatorExit
<1>10. ASSUME \/ UpgradeToV2 \/ \E p \in Escrows : UpdateExitEscrowPeriod(p)
              \/ Tick \/ UNCHANGED vars
       PROVE  KeysKnown'
  BY <1>8, <1>10 DEF UpgradeToV2, UpdateExitEscrowPeriod, Tick, vars
<1> QED
  BY <1>1, <1>2, <1>3, <1>4, <1>5, <1>6, <1>7, <1>9, <1>10, Zenon DEF Next

\* Two validators of a replayed table never share a BLS key, although the replay
\* does not record the keys of updates: also when some of the V2 events fail
\* their authentication and are dropped.
THEOREM KeysAlwaysDistinct == Spec => []KeysDistinct
<1>1. Init => KeysKnown
  BY ReplayNothing, EmptyIsTable DEF Init, KeysKnown
<1>2. KeysKnown => KeysDistinct
  BY Zenon DEF KeysKnown, KeysDistinct
<1> QED
  BY <1>1, <1>2, InitBooks, BooksStep, KeysKnownStep, PTL DEF Spec

-----------------------------------------------------------------------------
\* The replayed table and the contract's storage.

\* The delegators of v and their stakes, as a node should know them.
Stakers(v) == Restrict(delegations[v], {d \in Delegator : delegations[v][d] > 0})

\* r is the contract's storage as the nodes see it.
Mirrors(r) ==
  /\ IsTable(r)
  /\ r.keys \subseteq blsKeys
  /\ DOMAIN r.info = {v \in Validator : status[v] = "Active"} \ Dropped
  /\ \A v \in DOMAIN r.info :
       r.info[v].stake = delegatedAmount[v] /\ r.info[v].delegators = Stakers(v)

Mirrored == Mirrors(Replay(log))

\* An authentic event is applied.
LEMMA ReplayApply ==
  ASSUME log \in Seq(Event), Mirrored, NEW e \in Event, log' = Append(log, e), Authenticated(e)
  PROVE  /\ Replay(log') = Apply(Replay(log), e)
         /\ Replay(log) # Failed /\ IsTable(Replay(log))
<1>1. Replay(log') = ApplyAuthenticated(Replay(log), e)
  BY ReplayMore
<1>2. IsTable(Replay(log))
  BY Zenon DEF Mirrored, Mirrors
<1> QED
  BY <1>1, <1>2, TableNotFailed, Zenon DEF ApplyAuthenticated

\* The stakers of a validator whose delegations did not change.
LEMMA SameStakers ==
  ASSUME NEW v, delegations'[v] = delegations[v]
  PROVE  Stakers(v)' = Stakers(v)
  BY DEF Stakers

\* A validator registers, under either version.
LEMMA RegisterMirrored ==
  ASSUME Books, Mirrored, NEW v \in Validator, v \notin Dropped, Dropped' = Dropped,
         NEW k \in Key, AddValidator(v, k),
         NEW e \in Event, e.kind \in Registrations, e.validator = v, e.key = k,
         Authenticated(e), log' = Append(log, e)
  PROVE  Mirrored'
<1> DEFINE s == Replay(log)
           t == Replay(log')
<1>1. t = Apply(s, e) /\ s # Failed /\ IsTable(s) /\ Mirrors(s)
  BY ReplayApply DEF Books, TypeOK, Mirrored
<1> HIDE DEF s, t
<1>2. t = ApplyRegister(s, e)
  BY <1>1, ApplyCases, Zenon
<1>3. /\ s.keys \subseteq blsKeys /\ DOMAIN s.info = {w \in Validator : status[w] = "Active"} \ Dropped
      /\ \A w \in DOMAIN s.info :
           s.info[w].stake = delegatedAmount[w] /\ s.info[w].delegators = Stakers(w)
  BY <1>1, Zenon DEF Mirrors
<1>4. status[v] = "Unknown" /\ k \notin blsKeys /\ blsKeys' = blsKeys \cup {k}
  BY DEF AddValidator, EnsureValidatorNotRegistered, EnsureNewKey
<1>5. e.key \notin s.keys /\ e.validator \notin DOMAIN s.info
  BY <1>3, <1>4
<1>6. Registered(s, e, t)
  BY <1>1, <1>2, <1>5, RegisterEffect, Zenon
<1>7. /\ IsTable(t) /\ DOMAIN t.info = DOMAIN s.info \cup {v}
      /\ t.keys = s.keys \cup {k}
      /\ \A w \in DOMAIN s.info : t.info[w] = s.info[w]
      /\ t.info[v].stake = 0 /\ t.info[v].delegators = << >>
  BY <1>6, Zenon DEF Registered
<1>8. /\ status' = [status EXCEPT ![v] = "Active"]
      /\ delegatedAmount' = [delegatedAmount EXCEPT ![v] = 0]
      /\ status \in [Validator -> {"Unknown", "Active", "Exited"}]
      /\ delegatedAmount \in [Validator -> Nat]
      /\ delegations' = delegations
  BY DEF AddValidator, Books, TypeOK
<1>9. DOMAIN t.info = {w \in Validator : status'[w] = "Active"} \ Dropped'
  BY <1>3, <1>7, <1>8
<1>10. \A w \in DOMAIN t.info :
         t.info[w].stake = delegatedAmount'[w] /\ t.info[w].delegators = Stakers(w)'
  <2> TAKE w \in DOMAIN t.info
  <2>1. Stakers(w)' = Stakers(w)
    BY <1>8, SameStakers
  <2>2. CASE w = v
    <3>1. {d \in Delegator : delegations[v][d] > 0} = {}
      BY <1>4 DEF Books, NothingBeforeRegistration
    <3>2. Stakers(v) = [d \in {} |-> delegations[v][d]]
      BY <3>1, Zenon DEF Stakers, Restrict
    <3>3. [d \in {} |-> delegations[v][d]] = << >>
      OBVIOUS
    <3>4. delegatedAmount'[v] = 0
      BY <1>8
    <3> QED
      BY <1>7, <2>1, <2>2, <3>2, <3>3, <3>4, Zenon
  <2>3. CASE w # v
    <3>1. w \in DOMAIN s.info
      BY <1>7, <2>3
    <3>2. delegatedAmount'[w] = delegatedAmount[w]
      BY <1>8, <2>3
    <3> QED
      BY <1>3, <1>7, <2>1, <3>1, <3>2, Zenon
  <2> QED
    BY <2>2, <2>3, Zenon
<1>11. t.keys \subseteq blsKeys'
  BY <1>3, <1>4, <1>7
<1> QED
  BY <1>7, <1>9, <1>10, <1>11, Zenon DEF Mirrored, Mirrors, t

\* deregisterValidator, and the event it emits.
LEMMA DeregisterMirrored ==
  ASSUME Books, Mirrored, NEW v \in Validator, v \notin Dropped, Dropped' = Dropped,
         DeregisterValidator(v)
  PROVE  Mirrored'
<1> DEFINE e == [kind |-> "Deregister", validator |-> v]
           s == Replay(log)
           t == Replay(log')
<1>0. e \in Event /\ e.kind = "Deregister" /\ e.validator = v /\ Authenticated(e)
  BY DEF Event, Authenticated
<1>a. log' = Append(log, e)
  BY DEF DeregisterValidator, Emit
<1> HIDE DEF e
<1>1. t = Apply(s, e) /\ s # Failed /\ IsTable(s) /\ Mirrors(s)
  BY <1>0, <1>a, ReplayApply DEF Books, TypeOK, Mirrored
<1> HIDE DEF s, t
<1>3. /\ s.keys \subseteq blsKeys /\ DOMAIN s.info = {w \in Validator : status[w] = "Active"} \ Dropped
      /\ \A w \in DOMAIN s.info :
           s.info[w].stake = delegatedAmount[w] /\ s.info[w].delegators = Stakers(w)
  BY <1>1, Zenon DEF Mirrors
<1>4. v \in DOMAIN s.info
  BY <1>3 DEF DeregisterValidator, EnsureValidatorActive
<1>5. t = ApplyDeregister(s, e)
  BY <1>0, <1>1, <1>4, ApplyCases, Zenon
<1>6. Deregistered(s, e, t)
  BY <1>0, <1>1, <1>4, <1>5, DeregisterEffect, Zenon
<1>7. /\ IsTable(t) /\ DOMAIN t.info = DOMAIN s.info \ {v} /\ t.keys = s.keys
      /\ \A w \in DOMAIN t.info : t.info[w] = s.info[w]
  BY <1>0, <1>6, Zenon DEF Deregistered
<1>8. /\ status' = [status EXCEPT ![v] = "Exited"]
      /\ delegatedAmount' = [delegatedAmount EXCEPT ![v] = 0]
      /\ status \in [Validator -> {"Unknown", "Active", "Exited"}]
      /\ delegatedAmount \in [Validator -> Nat]
      /\ delegations' = delegations /\ blsKeys' = blsKeys
  BY DEF DeregisterValidator, Books, TypeOK
<1>9. DOMAIN t.info = {w \in Validator : status'[w] = "Active"} \ Dropped'
  BY <1>3, <1>7, <1>8
<1>10. \A w \in DOMAIN t.info :
         t.info[w].stake = delegatedAmount'[w] /\ t.info[w].delegators = Stakers(w)'
  <2> TAKE w \in DOMAIN t.info
  <2>1. Stakers(w)' = Stakers(w)
    BY <1>8, SameStakers
  <2>2. delegatedAmount'[w] = delegatedAmount[w] /\ w \in DOMAIN s.info
    BY <1>3, <1>7, <1>8
  <2> QED
    BY <1>3, <1>7, <2>1, <2>2, Zenon
<1> QED
  BY <1>3, <1>7, <1>8, <1>9, <1>10, Zenon DEF Mirrored, Mirrors, t

\* delegate, and the event it emits: the new delegator is entered, or the
\* old one's entry grows.
LEMMA DelegateMirrored ==
  ASSUME Books, Mirrored, NEW v \in Validator, v \notin Dropped, Dropped' = Dropped,
         NEW d \in Delegator, NEW amount \in Amounts,
         Delegate(d, v, amount)
  PROVE  Mirrored'
<1> DEFINE e == [kind |-> "Delegate", validator |-> v, delegator |-> d, amount |-> amount]
           s == Replay(log)
           t == Replay(log')
<1>b. amount \in Nat \ {0}
  BY StakeTableAssumption DEF Delegate
<1>0. /\ e \in Event /\ e.kind = "Delegate" /\ e.validator = v /\ Authenticated(e)
      /\ e.delegator = d /\ e.amount = amount
  BY <1>b DEF Event, Authenticated
<1>a. log' = Append(log, e)
  BY DEF Delegate, Emit
<1> HIDE DEF e
<1>1. t = Apply(s, e) /\ s # Failed /\ IsTable(s) /\ Mirrors(s)
  BY <1>0, <1>a, ReplayApply DEF Books, TypeOK, Mirrored
<1> HIDE DEF s, t
<1>3. /\ s.keys \subseteq blsKeys /\ DOMAIN s.info = {w \in Validator : status[w] = "Active"} \ Dropped
      /\ \A w \in DOMAIN s.info :
           s.info[w].stake = delegatedAmount[w] /\ s.info[w].delegators = Stakers(w)
  BY <1>1, Zenon DEF Mirrors
<1>4. v \in DOMAIN s.info
  BY <1>3 DEF Delegate, EnsureValidatorActive
<1>5. t = ApplyDelegate(s, e)
  BY <1>0, <1>1, <1>4, ApplyCases, Zenon
<1>6. Delegated(s, e, t)
  BY <1>0, <1>1, <1>4, <1>5, <1>b, DelegateEffect, Zenon
<1> DEFINE ds == Stakers(v)
<1>7. /\ IsTable(t) /\ DOMAIN t.info = DOMAIN s.info /\ t.keys = s.keys
      /\ \A w \in DOMAIN s.info : w # v => t.info[w] = s.info[w]
      /\ t.info[v].stake = s.info[v].stake + amount
      /\ t.info[v].delegators = [c \in DOMAIN ds \cup {d} |->
            (IF c \in DOMAIN ds THEN ds[c] ELSE 0) + (IF c = d THEN amount ELSE 0)]
  <2>1. s.info[v].delegators = ds
    BY <1>3, <1>4, Zenon
  <2> HIDE DEF ds
  <2> QED
    BY <1>0, <1>6, <2>1, Zenon DEF Delegated
<1>8. /\ status' = status /\ blsKeys' = blsKeys
      /\ delegatedAmount' = [delegatedAmount EXCEPT ![v] = @ + amount]
      /\ delegatedAmount \in [Validator -> Nat]
      /\ delegations \in [Validator -> [Delegator -> Nat]]
      /\ delegations' = With(delegations, v, d, delegations[v][d] + amount)
  BY DEF Delegate, Books, TypeOK
<1>9. /\ \A w \in Validator : w # v => delegations'[w] = delegations[w]
      /\ \A c \in Delegator : c # d => delegations'[v][c] = delegations[v][c]
      /\ delegations'[v][d] = delegations[v][d] + amount
      /\ \A c \in Delegator : delegations[v][c] \in Nat
  BY <1>8 DEF With
<1>10. t.info[v].delegators = Stakers(v)'
  <2> DEFINE P == {c \in Delegator : delegations[v][c] > 0}
             Q == {c \in Delegator : delegations'[v][c] > 0}
  <2>1. DOMAIN ds = P /\ \A c \in P : ds[c] = delegations[v][c]
    BY DEF Stakers, Restrict
  <2>2. Stakers(v)' = [c \in Q |-> delegations'[v][c]]
    BY DEF Stakers, Restrict
  <2>3. P \cup {d} = Q
    BY <1>b, <1>9
  <2>4. \A c \in Q : (IF c \in P THEN ds[c] ELSE 0) + (IF c = d THEN amount ELSE 0)
                       = delegations'[v][c]
    <3> TAKE c \in Q
    <3> HIDE DEF ds
    <3>1. c \in Delegator /\ delegations[v][c] \in Nat
      BY <1>9
    <3>2. (IF c \in P THEN ds[c] ELSE 0) = delegations[v][c]
      BY <2>1, <3>1
    <3> HIDE DEF P, Q
    <3> QED
      BY <1>b, <1>9, <3>1, <3>2
  <2> HIDE DEF P, Q, ds
  <2>5. [c \in DOMAIN ds \cup {d} |->
           (IF c \in DOMAIN ds THEN ds[c] ELSE 0) + (IF c = d THEN amount ELSE 0)]
          = [c \in Q |-> delegations'[v][c]]
    BY <2>1, <2>3, <2>4, Zenon
  <2> QED
    BY <1>7, <2>2, <2>5, Zenon
<1>11. \A w \in DOMAIN t.info :
         t.info[w].stake = delegatedAmount'[w] /\ t.info[w].delegators = Stakers(w)'
  <2> TAKE w \in DOMAIN t.info
  <2>2. CASE w = v
    BY <1>3, <1>4, <1>7, <1>8, <1>10, <2>2, Zenon
  <2>3. CASE w # v
    <3>1. w \in Validator /\ w \in DOMAIN s.info
      BY <1>3, <1>7
    <3>2. Stakers(w)' = Stakers(w)
      BY <1>9, <2>3, <3>1, SameStakers
    <3>3. delegatedAmount'[w] = delegatedAmount[w]
      BY <1>8, <2>3
    <3> QED
      BY <1>3, <1>7, <2>3, <3>1, <3>2, <3>3, Zenon
  <2> QED
    BY <2>2, <2>3, Zenon
<1> QED
  BY <1>3, <1>7, <1>8, <1>11, Zenon DEF Mirrored, Mirrors, t

\* undelegate, and the event it emits: a delegator with nothing left is removed.
LEMMA UndelegateMirrored ==
  ASSUME Books, Mirrored, NEW v \in Validator, v \notin Dropped, Dropped' = Dropped,
         NEW d \in Delegator, NEW amount \in Amounts,
         Undelegate(d, v, amount)
  PROVE  Mirrored'
<1> DEFINE e == [kind |-> "Undelegate", validator |-> v, delegator |-> d, amount |-> amount]
           s == Replay(log)
           t == Replay(log')
<1>b. amount \in Nat \ {0}
  BY StakeTableAssumption DEF Undelegate
<1>0. /\ e \in Event /\ e.kind = "Undelegate" /\ e.validator = v /\ Authenticated(e)
      /\ e.delegator = d /\ e.amount = amount
  BY <1>b DEF Event, Authenticated
<1>a. log' = Append(log, e)
  BY DEF Undelegate, Emit
<1> HIDE DEF e
<1>1. t = Apply(s, e) /\ s # Failed /\ IsTable(s) /\ Mirrors(s)
  BY <1>0, <1>a, ReplayApply DEF Books, TypeOK, Mirrored
<1> HIDE DEF s, t
<1>3. /\ s.keys \subseteq blsKeys /\ DOMAIN s.info = {w \in Validator : status[w] = "Active"} \ Dropped
      /\ \A w \in DOMAIN s.info :
           s.info[w].stake = delegatedAmount[w] /\ s.info[w].delegators = Stakers(w)
  BY <1>1, Zenon DEF Mirrors
<1>4. v \in DOMAIN s.info
  BY <1>3 DEF Undelegate, EnsureValidatorActive
<1>5. t = ApplyUndelegate(s, e)
  BY <1>0, <1>1, <1>4, ApplyCases, Zenon
<1>6. Undelegated(s, e, t)
  BY <1>0, <1>1, <1>4, <1>5, <1>b, UndelegateEffect, Zenon
<1> DEFINE ds == Stakers(v)
           P == {c \in Delegator : delegations[v][c] > 0}
<1>8. /\ status' = status /\ blsKeys' = blsKeys
      /\ delegatedAmount' = [delegatedAmount EXCEPT ![v] = @ - amount]
      /\ delegatedAmount \in [Validator -> Nat]
      /\ delegations \in [Validator -> [Delegator -> Nat]]
      /\ delegations' = With(delegations, v, d, delegations[v][d] - amount)
      /\ amount <= delegations[v][d]
  BY Zenon DEF Undelegate, Books, TypeOK, EnsureBalance
<1>9. /\ \A w \in Validator : w # v => delegations'[w] = delegations[w]
      /\ \A c \in Delegator : c # d => delegations'[v][c] = delegations[v][c]
      /\ delegations'[v][d] = delegations[v][d] - amount
      /\ \A c \in Delegator : delegations[v][c] \in Nat
  BY <1>8 DEF With
<1>c. DOMAIN ds = P /\ (\A c \in P : ds[c] = delegations[v][c]) /\ d \in P
        /\ ds = [c \in P |-> delegations[v][c]]
  BY <1>b, <1>8, <1>9 DEF Stakers, Restrict
<1>d. s.info[v].delegators = ds /\ s.info[v].stake = delegatedAmount[v]
  BY <1>3, <1>4, Zenon
<1>e. ~(delegatedAmount[v] < amount)
  <2>1. delegatedAmount[v] = Total(delegations[v], Delegator)
    BY <1>3, <1>4 DEF Books, StakeAccounting
  <2>2. delegations[v][d] <= Total(delegations[v], Delegator)
          /\ Total(delegations[v], Delegator) \in Nat
    BY DelegationFacts DEF Books
  <2> QED
    BY <1>b, <1>8, <1>9, <2>1, <2>2
<1>f. ~(ds[d] < amount)
  <2> HIDE DEF ds
  <2> QED
    BY <1>b, <1>8, <1>9, <1>c
<1>7. /\ IsTable(t) /\ DOMAIN t.info = DOMAIN s.info /\ t.keys = s.keys
      /\ \A w \in DOMAIN s.info : w # v => t.info[w] = s.info[w]
      /\ t.info[v].stake = s.info[v].stake - amount
      /\ t.info[v].delegators = IF ds[d] = amount THEN Restrict(ds, DOMAIN ds \ {d})
                                ELSE [ds EXCEPT ![d] = @ - amount]
  <2> HIDE DEF ds, P
  <2> QED
    BY <1>0, <1>6, <1>c, <1>d, <1>e, <1>f, Zenon DEF Undelegated
<1>10. t.info[v].delegators = Stakers(v)'
  <2> DEFINE Q == {c \in Delegator : delegations'[v][c] > 0}
  <2>2. Stakers(v)' = [c \in Q |-> delegations'[v][c]]
    BY DEF Stakers, Restrict
  <2>3. CASE ds[d] = amount
    <3>1. delegations[v][d] = amount
      BY <1>c, <2>3, Zenon
    <3>2. P \ {d} = Q
      BY <1>9, <1>b, <3>1
    <3>3. \A c \in Q : ds[c] = delegations'[v][c]
      <4> HIDE DEF ds
      <4> QED BY <1>9, <1>c, <3>2
    <3> HIDE DEF P, Q, ds
    <3>4. Restrict(ds, DOMAIN ds \ {d}) = [c \in Q |-> delegations'[v][c]]
      BY <1>c, <3>2, <3>3, Zenon DEF Restrict
    <3> QED
      BY <1>7, <2>2, <2>3, <3>4, Zenon
  <2>4. CASE ds[d] # amount
    <3>1. delegations[v][d] # amount
      BY <1>c, <2>4, Zenon
    <3>b. amount <= delegations[v][d] /\ delegations[v][d] \in Nat
      BY <1>8, <1>9, Zenon
    <3>a. amount < delegations[v][d]
      BY <1>b, <3>1, <3>b
    <3>2. P = Q
      BY <1>9, <1>b, <3>a
    <3>3. [ds EXCEPT ![d] = ds[d] - amount] = [c \in Q |-> delegations'[v][c]]
      <4>1. \A c \in P : c # d => ds[c] = delegations'[v][c]
        <5> HIDE DEF ds
        <5> QED BY <1>9, <1>c
      <4>2. ds[d] - amount = delegations'[v][d]
        <5> HIDE DEF ds, P
        <5> QED BY <1>9, <1>c
      <4>3. [ds EXCEPT ![d] = ds[d] - amount] = [c \in P |-> IF c = d THEN ds[d] - amount ELSE ds[c]]
        <5> HIDE DEF ds, P
        <5>1. ds = [c \in P |-> ds[c]]
          BY <1>c, Zenon
        <5> QED BY <5>1
      <4> HIDE DEF ds, P, Q
      <4> QED
        BY <3>2, <4>1, <4>2, <4>3
    <3> HIDE DEF P, Q, ds
    <3> QED
      BY <1>7, <2>2, <2>4, <3>3, Zenon
  <2> QED
    BY <2>3, <2>4, Zenon
<1>11. \A w \in DOMAIN t.info :
         t.info[w].stake = delegatedAmount'[w] /\ t.info[w].delegators = Stakers(w)'
  <2> TAKE w \in DOMAIN t.info
  <2>2. CASE w = v
    BY <1>3, <1>4, <1>7, <1>8, <1>10, <2>2
  <2>3. CASE w # v
    <3>1. w \in Validator /\ w \in DOMAIN s.info
      BY <1>3, <1>7
    <3>2. Stakers(w)' = Stakers(w)
      BY <1>9, <2>3, <3>1, SameStakers
    <3>3. delegatedAmount'[w] = delegatedAmount[w]
      BY <1>8, <2>3
    <3> QED
      BY <1>3, <1>7, <2>3, <3>1, <3>2, <3>3, Zenon
  <2> QED
    BY <2>2, <2>3, Zenon
<1> QED
  BY <1>3, <1>7, <1>8, <1>11, Zenon DEF Mirrored, Mirrors, t

\* A key update, under either version.
LEMMA KeyUpdateMirrored ==
  ASSUME Books, Mirrored, NEW v \in Validator, v \notin Dropped, Dropped' = Dropped,
         NEW k \in Key, ReplaceKey(v, k),
         NEW e \in Event, e.kind \in KeyUpdates, e.validator = v, e.key = k,
         Authenticated(e), log' = Append(log, e)
  PROVE  Mirrored'
<1> DEFINE s == Replay(log)
           t == Replay(log')
<1>1. t = Apply(s, e) /\ s # Failed /\ IsTable(s) /\ Mirrors(s)
  BY ReplayApply DEF Books, TypeOK, Mirrored
<1> HIDE DEF s, t
<1>3. /\ s.keys \subseteq blsKeys /\ DOMAIN s.info = {w \in Validator : status[w] = "Active"} \ Dropped
      /\ \A w \in DOMAIN s.info :
           s.info[w].stake = delegatedAmount[w] /\ s.info[w].delegators = Stakers(w)
  BY <1>1, Zenon DEF Mirrors
<1>4. v \in DOMAIN s.info /\ e.key \notin s.keys
  BY <1>3 DEF ReplaceKey, EnsureValidatorActive, EnsureNewKey
<1>5. t = ApplyKeyUpdate(s, e)
  BY <1>1, <1>4, ApplyCases, Zenon
<1>6. KeyUpdated(s, e, t)
  BY <1>1, <1>4, <1>5, KeyUpdateEffect, Zenon
<1>7. /\ IsTable(t) /\ DOMAIN t.info = DOMAIN s.info /\ t.keys = s.keys
      /\ \A w \in DOMAIN s.info :
           t.info[w].stake = s.info[w].stake /\ t.info[w].delegators = s.info[w].delegators
  BY <1>6, Zenon DEF KeyUpdated
<1>8. /\ status' = status /\ delegatedAmount' = delegatedAmount /\ delegations' = delegations
      /\ blsKeys \subseteq blsKeys'
  BY DEF ReplaceKey
<1>9. \A w : Stakers(w)' = Stakers(w)
  BY <1>8, SameStakers
<1>10. t.keys \subseteq blsKeys'
  BY <1>3, <1>7, <1>8
<1> QED
  BY <1>3, <1>7, <1>8, <1>9, <1>10, Zenon DEF Mirrored, Mirrors, t

\* A step after which the nodes know no more than before, and which leaves the
\* accounts of the validators they know as they are.
LEMMA QuietMirrored ==
  ASSUME Mirrored, Replay(log)' = Replay(log), blsKeys \subseteq blsKeys',
         {v \in Validator : status'[v] = "Active"} \ Dropped'
           = {v \in Validator : status[v] = "Active"} \ Dropped,
         \A v \in {w \in Validator : status[w] = "Active"} \ Dropped :
           delegatedAmount'[v] = delegatedAmount[v] /\ delegations'[v] = delegations[v]
  PROVE  Mirrored'
<1> DEFINE s == Replay(log)
<1>1. Mirrors(s)
  BY DEF Mirrored
<1>2. Replay(log)' = s
  OBVIOUS
<1> HIDE DEF s
<1>3. /\ s.keys \subseteq blsKeys' /\ IsTable(s)
      /\ DOMAIN s.info = {v \in Validator : status'[v] = "Active"} \ Dropped'
  BY <1>1 DEF Mirrors
<1>4. \A v \in DOMAIN s.info :
        s.info[v].stake = delegatedAmount'[v] /\ s.info[v].delegators = Stakers(v)'
  <2> SUFFICES ASSUME NEW v \in DOMAIN s.info
               PROVE  s.info[v].stake = delegatedAmount'[v] /\ s.info[v].delegators = Stakers(v)'
    BY Zenon
  <2>1. /\ v \in {w \in Validator : status[w] = "Active"} \ Dropped
        /\ s.info[v].stake = delegatedAmount[v] /\ s.info[v].delegators = Stakers(v)
    BY <1>1, Zenon DEF Mirrors
  <2>2. delegatedAmount'[v] = delegatedAmount[v] /\ delegations'[v] = delegations[v]
    BY <2>1, Zenon
  <2>3. Stakers(v)' = Stakers(v)
    BY <2>2, SameStakers
  <2> QED
    BY <2>1, <2>2, <2>3, Zenon
<1> QED
  BY <1>2, <1>3, <1>4, Zenon DEF Mirrored, Mirrors

-----------------------------------------------------------------------------
\* The registrations that the nodes drop.

\* The events of a longer log.
LEMMA RangeMore ==
  ASSUME log \in Seq(Event), NEW e \in Event, log' = Append(log, e)
  PROVE  Range(log)' = Range(log) \cup {e}
<1>1. /\ DOMAIN log' = DOMAIN log \cup {Len(log) + 1} /\ log'[Len(log) + 1] = e
      /\ \A i \in DOMAIN log : log'[i] = log[i]
  OBVIOUS
<1> QED
  BY <1>1, Zenon DEF Range

\* Whom one more event adds to the dropped, and when it is an orphan.
LEMMA DroppedMore ==
  ASSUME log \in Seq(Event), NEW e \in Event, log' = Append(log, e)
  PROVE  /\ Dropped \subseteq Dropped'
         /\ Dropped' \subseteq Dropped \cup {e.validator}
         /\ Orphaned => Orphaned'
         /\ e.kind \in Registrations /\ ~Authenticated(e) => e.validator \in Dropped'
         /\ e.kind \notin Registrations \/ Authenticated(e) => Dropped' = Dropped
         /\ e.kind \notin Registrations /\ Authenticated(e) /\ e.validator \in Dropped => Orphaned'
         /\ Orphaned' => \/ Orphaned
                         \/ /\ e.kind \notin Registrations /\ Authenticated(e)
                            /\ e.validator \in Dropped
                         \/ /\ e.validator \in Dropped' \ Dropped
                            /\ \E x \in Range(log) : x.validator = e.validator
<1> DEFINE Lacking(x, v) == x.kind \in Registrations /\ x.validator = v /\ ~Authenticated(x)
           Kept(x) == x.kind \notin Registrations /\ Authenticated(x)
<1>1. Range(log)' = Range(log) \cup {e} /\ e.validator \in Validator
  BY RangeMore, EventFields, Zenon
<1>2. \A v : v \in Dropped <=> v \in Validator /\ \E x \in Range(log) : Lacking(x, v)
  BY Zenon DEF Dropped
<1>3. \A v : v \in Dropped' <=> v \in Validator /\ \E x \in Range(log)' : Lacking(x, v)
  BY Zenon DEF Dropped
<1>4. Orphaned <=> \E x \in Range(log) : Kept(x) /\ x.validator \in Dropped
  BY Zenon DEF Orphaned
<1>5. Orphaned' <=> \E x \in Range(log)' : Kept(x) /\ x.validator \in Dropped'
  BY Zenon DEF Orphaned
<1>6. \A v : v \in Dropped' <=> v \in Dropped \/ (v \in Validator /\ Lacking(e, v))
  <2> SUFFICES ASSUME NEW v
               PROVE  v \in Dropped' <=> v \in Dropped \/ (v \in Validator /\ Lacking(e, v))
    BY Zenon
  <2>1. (\E x \in Range(log)' : Lacking(x, v)) <=> (\E x \in Range(log) : Lacking(x, v)) \/ Lacking(e, v)
    <3> HIDE DEF Lacking
    <3> QED BY <1>1
  <2> HIDE DEF Lacking
  <2> QED BY <1>2, <1>3, <2>1, Zenon
<1>7. Orphaned' <=> \/ \E x \in Range(log) : Kept(x) /\ x.validator \in Dropped'
                    \/ Kept(e) /\ e.validator \in Dropped'
  <2> HIDE DEF Kept
  <2> QED BY <1>1, <1>5, Zenon
<1>8. Dropped \subseteq Dropped' /\ Dropped' \subseteq Dropped \cup {e.validator}
  <2> HIDE DEF Kept
  <2> QED BY <1>6
<1>9. e.kind \in Registrations /\ ~Authenticated(e) => e.validator \in Dropped'
  BY <1>1, <1>6, Zenon
<1>10. e.kind \notin Registrations \/ Authenticated(e) => Dropped' = Dropped
  <2> SUFFICES ASSUME e.kind \notin Registrations \/ Authenticated(e)
               PROVE  \A v : v \in Dropped' <=> v \in Dropped
    BY Zenon
  <2> QED BY <1>6, Zenon
<1>11. Orphaned => Orphaned'
  BY <1>4, <1>7, <1>8, Zenon
<1>12. Kept(e) /\ e.validator \in Dropped => Orphaned'
  BY <1>7, <1>8, Zenon
<1>13. ASSUME Orphaned', ~Orphaned
       PROVE  \/ Kept(e) /\ e.validator \in Dropped
              \/ /\ e.validator \in Dropped' \ Dropped
                 /\ \E x \in Range(log) : x.validator = e.validator
  <2>1. CASE Kept(e) /\ e.validator \in Dropped'
    BY <1>10, <2>1, Zenon
  <2>2. CASE \E x \in Range(log) : Kept(x) /\ x.validator \in Dropped'
    BY <1>4, <1>8, <1>13, <2>2, Zenon
  <2> QED
    BY <1>7, <1>13, <2>1, <2>2, Zenon
<1> QED
  BY <1>8, <1>9, <1>10, <1>11, <1>12, <1>13, Zenon

\* The inductive invariant.  Only registered validators have events; until one
\* whose registration was dropped takes part in an event, the nodes have the
\* contract's storage but for the dropped, which have no stake.
Agrees ==
  /\ \A e \in Range(log) : status[e.validator] # "Unknown"
  /\ Orphaned => Replay(log) = Failed
  /\ ~Orphaned => Mirrored /\ \A v \in Dropped : delegatedAmount[v] = 0

\* A dropped validator has registered.
LEMMA DroppedRegistered ==
  ASSUME Agrees
  PROVE  \A v \in Dropped : status[v] # "Unknown"
  BY Zenon DEF Agrees, Dropped

\* The replay has failed for good.
LEMMA FailedStays ==
  ASSUME log \in Seq(Event), NEW e \in Event, log' = Append(log, e), Replay(log) = Failed
  PROVE  Replay(log)' = Failed
<1>1. Replay(log)' = ApplyAuthenticated(Replay(log), e)
  BY ReplayMore
<1> QED
  BY <1>1 DEF ApplyAuthenticated, Apply

\* An event of an active validator that the nodes apply.
LEMMA EventAgrees ==
  ASSUME Books, Agrees, NEW e \in Event, log' = Append(log, e),
         e.kind \notin Registrations, Authenticated(e), status[e.validator] = "Active",
         \A w \in Validator : status[w] # "Unknown" => status'[w] # "Unknown",
         \A w \in Validator : w # e.validator => delegatedAmount'[w] = delegatedAmount[w],
         Mirrored /\ e.validator \notin Dropped /\ Dropped' = Dropped => Mirrored'
  PROVE  Agrees'
<1>0. log \in Seq(Event) /\ e.validator \in Validator
  BY EventFields DEF Books, TypeOK
<1>1. Range(log)' = Range(log) \cup {e} /\ Range(log) \subseteq Event
  <2>1. Range(log) \subseteq Event
    BY <1>0 DEF Range
  <2> QED
    BY <1>0, <2>1, RangeMore
<1>2. /\ Dropped' = Dropped
      /\ Orphaned' <=> Orphaned \/ e.validator \in Dropped
  BY <1>0, DroppedMore, Zenon
<1>3. \A x \in Range(log)' : status'[x.validator] # "Unknown"
  <2>1. \A x \in Range(log) : x.validator \in Validator /\ status[x.validator] # "Unknown"
    BY <1>1, EventFields, Zenon DEF Agrees
  <2>2. status'[e.validator] # "Unknown"
    BY <1>0
  <2> QED
    BY <1>1, <2>1, <2>2, Zenon
<1>4. CASE Orphaned
  <2>1. Replay(log)' = Failed
    BY <1>0, <1>4, FailedStays DEF Agrees
  <2> QED
    BY <1>2, <1>3, <1>4, <2>1, Zenon DEF Agrees
<1>5. CASE ~Orphaned /\ e.validator \in Dropped
  <2>1. Mirrored
    BY <1>5, Zenon DEF Agrees
  <2>2. Replay(log)' = Apply(Replay(log), e) /\ Replay(log) # Failed
    BY <1>0, <2>1, ReplayApply
  <2>3. e.validator \notin DOMAIN Replay(log).info
    BY <1>5, <2>1 DEF Mirrored, Mirrors
  <2>4. Replay(log)' = Failed
    BY <2>2, <2>3, ApplyCases, Zenon
  <2> QED
    BY <1>2, <1>3, <1>5, <2>4, Zenon DEF Agrees
<1>6. CASE ~Orphaned /\ e.validator \notin Dropped
  <2>1. Mirrored /\ \A w \in Dropped : delegatedAmount[w] = 0
    BY <1>6, Zenon DEF Agrees
  <2>2. Mirrored'
    BY <1>2, <1>6, <2>1
  <2>3. \A w \in Dropped : w \in Validator /\ w # e.validator
    BY <1>6, Zenon DEF Dropped
  <2>4. \A w \in Dropped' : delegatedAmount'[w] = 0
    BY <1>2, <2>1, <2>3, Zenon
  <2> QED
    BY <1>2, <1>3, <1>6, <2>2, <2>4, Zenon DEF Agrees
<1> QED
  BY <1>4, <1>5, <1>6, Zenon

\* A registration, under either version.
LEMMA RegistrationAgrees ==
  ASSUME Books, Agrees, NEW v \in Validator, NEW k \in Key, AddValidator(v, k),
         NEW e \in Event, e.kind \in Registrations, e.validator = v, e.key = k,
         log' = Append(log, e)
  PROVE  Agrees'
<1>0. /\ log \in Seq(Event)
      /\ status \in [Validator -> {"Unknown", "Active", "Exited"}]
      /\ delegatedAmount \in [Validator -> Nat]
  BY DEF Books, TypeOK
<1>1. /\ status[v] = "Unknown" /\ status' = [status EXCEPT ![v] = "Active"]
      /\ delegatedAmount' = [delegatedAmount EXCEPT ![v] = 0]
      /\ delegations' = delegations /\ blsKeys \subseteq blsKeys'
  BY DEF AddValidator, EnsureValidatorNotRegistered
<1>2. Range(log)' = Range(log) \cup {e} /\ Range(log) \subseteq Event
  <2>1. Range(log) \subseteq Event
    BY <1>0 DEF Range
  <2> QED
    BY <1>0, <2>1, RangeMore
<1>3. v \notin Dropped /\ \A x \in Range(log) : x.validator # v
  BY <1>1, DroppedRegistered, Zenon DEF Agrees
<1>4. \A x \in Range(log)' : status'[x.validator] # "Unknown"
  <2>1. \A x \in Range(log) : x.validator \in Validator /\ status[x.validator] # "Unknown"
    BY <1>2, EventFields, Zenon DEF Agrees
  <2>2. status'[v] = "Active" /\ \A w \in Validator : w # v => status'[w] = status[w]
    BY <1>0, <1>1
  <2> QED
    BY <1>2, <1>3, <2>1, <2>2
<1>5. Orphaned' <=> Orphaned
  BY <1>0, <1>3, DroppedMore, Zenon
<1>6. \A w \in Validator : w # v => delegatedAmount'[w] = delegatedAmount[w]
  BY <1>0, <1>1
<1>7. delegatedAmount'[v] = 0
  BY <1>0, <1>1
<1>8. CASE Orphaned
  <2>1. Replay(log)' = Failed
    BY <1>0, <1>8, FailedStays DEF Agrees
  <2> QED
    BY <1>4, <1>5, <1>8, <2>1, Zenon DEF Agrees
<1>9. CASE ~Orphaned
  <2>1. Mirrored /\ \A w \in Dropped : delegatedAmount[w] = 0
    BY <1>9, Zenon DEF Agrees
  <2>2. \A w \in Dropped' : delegatedAmount'[w] = 0
    <3>1. \A w \in Dropped' : w \in Dropped \/ w = v
      BY <1>0, DroppedMore, Zenon
    <3>2. \A w \in Dropped : w \in Validator
      BY Zenon DEF Dropped
    <3> QED
      BY <1>6, <1>7, <2>1, <3>1, <3>2, Zenon
  <2>3. CASE Authenticated(e)
    <3>1. Dropped' = Dropped
      BY <1>0, <2>3, DroppedMore, Zenon
    <3>2. Mirrored'
      BY <1>3, <2>1, <2>3, <3>1, RegisterMirrored
    <3> QED
      BY <1>4, <1>5, <1>9, <2>2, <3>2, Zenon DEF Agrees
  <2>4. CASE ~Authenticated(e)
    <3>1. Dropped' = Dropped \cup {v}
      <4>1. /\ Dropped \subseteq Dropped' /\ Dropped' \subseteq Dropped \cup {v} /\ v \in Dropped'
        BY <1>0, <2>4, DroppedMore, Zenon
      <4> QED
        BY <4>1
    <3>2. Replay(log)' = Replay(log)
      BY <1>0, <2>4, ReplayMore DEF ApplyAuthenticated
    <3>3. {w \in Validator : status'[w] = "Active"} \ Dropped'
            = {w \in Validator : status[w] = "Active"} \ Dropped
      BY <1>0, <1>1, <3>1
    <3>4. \A w \in {x \in Validator : status[x] = "Active"} \ Dropped :
            delegatedAmount'[w] = delegatedAmount[w] /\ delegations'[w] = delegations[w]
      BY <1>1, <1>6
    <3>5. Mirrored'
      BY <1>1, <2>1, <3>2, <3>3, <3>4, QuietMirrored, Zenon
    <3> QED
      BY <1>4, <1>5, <1>9, <2>2, <3>5, Zenon DEF Agrees
  <2> QED
    BY <2>3, <2>4
<1> QED
  BY <1>8, <1>9

\* A step of which the nodes see nothing.
LEMMA QuietAgrees ==
  ASSUME Agrees, UNCHANGED <<status, delegatedAmount>>, blsKeys \subseteq blsKeys',
         \A v \in Validator : status[v] = "Active" => delegations'[v] = delegations[v],
         Replay(log)' = Replay(log), Dropped' = Dropped, Orphaned' <=> Orphaned,
         \A e \in Range(log)' : status[e.validator] # "Unknown"
  PROVE  Agrees'
<1>1. CASE Orphaned
  BY <1>1, Zenon DEF Agrees
<1>2. CASE ~Orphaned
  <2>1. Mirrored /\ \A v \in Dropped : delegatedAmount[v] = 0
    BY <1>2, Zenon DEF Agrees
  <2>2. Mirrored'
    BY <2>1, QuietMirrored
  <2>3. \A v \in Dropped' : delegatedAmount'[v] = 0
    BY <2>1, Zenon
  <2> QED
    BY <1>2, <2>2, <2>3, Zenon DEF Agrees
<1> QED
  BY <1>1, <1>2

\* A step that emits nothing.
LEMMA SilentAgrees ==
  ASSUME Agrees, UNCHANGED <<log, status, delegatedAmount, blsKeys>>,
         \A v \in Validator : status[v] = "Active" => delegations'[v] = delegations[v]
  PROVE  Agrees'
<1>1. Dropped' = Dropped
  BY DEF Dropped
<1>2. Orphaned' <=> Orphaned
  BY <1>1 DEF Orphaned
<1>3. Replay(log)' = Replay(log) /\ Range(log)' = Range(log)
  OBVIOUS
<1>4. \A e \in Range(log)' : status[e.validator] # "Unknown"
  BY <1>3, Zenon DEF Agrees
<1> QED
  BY <1>1, <1>2, <1>3, <1>4, QuietAgrees

\* A key update, under either version: without a signature it is dropped.
LEMMA UpdateAgrees ==
  ASSUME Books, Agrees, NEW v \in Validator, NEW k \in Key, ReplaceKey(v, k),
         NEW e \in Event, e.kind \in KeyUpdates, e.validator = v, e.key = k,
         log' = Append(log, e)
  PROVE  Agrees'
<1>0. e.kind \notin Registrations /\ log \in Seq(Event)
  BY DEF KeyUpdates, Registrations, Books, TypeOK
<1>1. /\ status' = status /\ delegatedAmount' = delegatedAmount /\ delegations' = delegations
      /\ blsKeys \subseteq blsKeys' /\ status[v] = "Active"
  BY DEF ReplaceKey, EnsureValidatorActive
<1>2. CASE Authenticated(e)
  <2>1. Mirrored /\ v \notin Dropped /\ Dropped' = Dropped => Mirrored'
    BY <1>2, KeyUpdateMirrored
  <2> QED
    BY <1>0, <1>1, <1>2, <2>1, EventAgrees
<1>3. CASE ~Authenticated(e)
  <2>1. Dropped' = Dropped /\ (Orphaned' <=> Orphaned)
    BY <1>0, <1>3, DroppedMore, Zenon
  <2>2. Replay(log)' = Replay(log)
    BY <1>0, <1>3, ReplayMore DEF ApplyAuthenticated
  <2>3. \A x \in Range(log)' : status[x.validator] # "Unknown"
    BY <1>0, <1>1, RangeMore DEF Agrees
  <2> QED
    BY <1>1, <2>1, <2>2, <2>3, QuietAgrees
<1> QED
  BY <1>2, <1>3

\* deregisterValidator, and the event it emits.
LEMMA DeregisterAgrees ==
  ASSUME Books, Agrees, NEW v \in Validator, DeregisterValidator(v)
  PROVE  Agrees'
<1> DEFINE e == [kind |-> "Deregister", validator |-> v]
<1>1. /\ e \in Event /\ e.kind \notin Registrations /\ e.validator = v /\ Authenticated(e)
      /\ log' = Append(log, e)
  BY DEF Event, Registrations, Authenticated, DeregisterValidator, Emit
<1>2. /\ status[v] = "Active"
      /\ \A w \in Validator : status[w] # "Unknown" => status'[w] # "Unknown"
      /\ \A w \in Validator : w # v => delegatedAmount'[w] = delegatedAmount[w]
  BY DEF DeregisterValidator, EnsureValidatorActive, Books, TypeOK
<1>3. Mirrored /\ v \notin Dropped /\ Dropped' = Dropped => Mirrored'
  BY DeregisterMirrored
<1> HIDE DEF e
<1> QED
  BY <1>1, <1>2, <1>3, EventAgrees

\* delegate, and the event it emits.
LEMMA DelegateAgrees ==
  ASSUME Books, Agrees, NEW v \in Validator, NEW d \in Delegator, NEW amount \in Amounts,
         Delegate(d, v, amount)
  PROVE  Agrees'
<1> DEFINE e == [kind |-> "Delegate", validator |-> v, delegator |-> d, amount |-> amount]
<1>a. /\ amount > 0 /\ log' = Append(log, e) /\ status[v] = "Active" /\ status' = status
      /\ delegatedAmount' = [delegatedAmount EXCEPT ![v] = @ + amount]
      /\ delegatedAmount \in [Validator -> Nat]
  BY Zenon DEF Delegate, Emit, EnsureValidatorActive, Books, TypeOK
<1>0. amount \in Nat \ {0}
  BY <1>a, StakeTableAssumption
<1>1. /\ e \in Event /\ e.kind \notin Registrations /\ e.validator = v /\ Authenticated(e)
      /\ log' = Append(log, e)
  BY <1>a, <1>0 DEF Event, Registrations, Authenticated
<1>2. \A w \in Validator : w # v => delegatedAmount'[w] = delegatedAmount[w]
  BY <1>a, Zenon
<1>3. Mirrored /\ v \notin Dropped /\ Dropped' = Dropped => Mirrored'
  BY DelegateMirrored, Zenon
<1> HIDE DEF e
<1> QED
  BY <1>a, <1>1, <1>2, <1>3, EventAgrees

\* undelegate, and the event it emits.
LEMMA UndelegateAgrees ==
  ASSUME Books, Agrees, NEW v \in Validator, NEW d \in Delegator, NEW amount \in Amounts,
         Undelegate(d, v, amount)
  PROVE  Agrees'
<1> DEFINE e == [kind |-> "Undelegate", validator |-> v, delegator |-> d, amount |-> amount]
<1>a. /\ amount > 0 /\ log' = Append(log, e) /\ status[v] = "Active" /\ status' = status
      /\ delegatedAmount' = [delegatedAmount EXCEPT ![v] = @ - amount]
      /\ delegatedAmount \in [Validator -> Nat]
  BY Zenon DEF Undelegate, Emit, EnsureValidatorActive, Books, TypeOK
<1>0. amount \in Nat \ {0}
  BY <1>a, StakeTableAssumption
<1>1. /\ e \in Event /\ e.kind \notin Registrations /\ e.validator = v /\ Authenticated(e)
      /\ log' = Append(log, e)
  BY <1>a, <1>0 DEF Event, Registrations, Authenticated
<1>2. \A w \in Validator : w # v => delegatedAmount'[w] = delegatedAmount[w]
  BY <1>a, Zenon
<1>3. Mirrored /\ v \notin Dropped /\ Dropped' = Dropped => Mirrored'
  BY UndelegateMirrored, Zenon
<1> HIDE DEF e
<1> QED
  BY <1>a, <1>1, <1>2, <1>3, EventAgrees

\* Agrees is inductive.
LEMMA AgreesStep ==
  ASSUME Books, Agrees, [Next]_vars
  PROVE  Agrees'
<1>1. ASSUME NEW v \in Validator, NEW k \in Key, RegisterValidator(v, k) PROVE Agrees'
  <2> DEFINE e == [kind |-> "Register", validator |-> v, key |-> k]
  <2>1. e \in Event /\ e.kind \in Registrations /\ e.validator = v /\ e.key = k
    BY DEF Event, Registrations
  <2>2. log' = Append(log, e) /\ AddValidator(v, k)
    BY <1>1 DEF RegisterValidator, Emit
  <2> HIDE DEF e
  <2> QED
    BY <2>1, <2>2, RegistrationAgrees, Zenon
<1>2. ASSUME NEW v \in Validator, NEW k \in Key, UpdateConsensusKeys(v, k) PROVE Agrees'
  <2> DEFINE e == [kind |-> "KeyUpdate", validator |-> v, key |-> k]
  <2>1. e \in Event /\ e.kind \in KeyUpdates /\ e.validator = v /\ e.key = k
    BY DEF Event, KeyUpdates
  <2>2. log' = Append(log, e) /\ ReplaceKey(v, k)
    BY <1>2 DEF UpdateConsensusKeys, Emit
  <2> HIDE DEF e
  <2> QED
    BY <2>1, <2>2, UpdateAgrees
<1>3. ASSUME NEW v \in Validator, NEW k \in Key, NEW auth \in Authentic,
             RegisterValidatorV2(v, k, auth)
      PROVE  Agrees'
  <2> DEFINE e == [kind |-> "RegisterV2", validator |-> v, key |-> k, auth |-> auth]
  <2>0. auth \in BOOLEAN
    BY StakeTableAssumption, Zenon
  <2>1. e \in Event /\ e.kind \in Registrations /\ e.validator = v /\ e.key = k
    BY <2>0, Zenon DEF Event, Registrations
  <2>2. log' = Append(log, e) /\ AddValidator(v, k)
    BY <1>3 DEF RegisterValidatorV2, Emit
  <2> HIDE DEF e
  <2> QED
    BY <2>1, <2>2, RegistrationAgrees
<1>4. ASSUME NEW v \in Validator, NEW k \in Key, NEW auth \in Authentic,
             UpdateConsensusKeysV2(v, k, auth)
      PROVE  Agrees'
  <2> DEFINE e == [kind |-> "KeyUpdateV2", validator |-> v, key |-> k, auth |-> auth]
  <2>0. auth \in BOOLEAN
    BY StakeTableAssumption, Zenon
  <2>1. e \in Event /\ e.kind \in KeyUpdates /\ e.validator = v /\ e.key = k
    BY <2>0, Zenon DEF Event, KeyUpdates
  <2>2. log' = Append(log, e) /\ ReplaceKey(v, k)
    BY <1>4 DEF UpdateConsensusKeysV2, Emit
  <2> HIDE DEF e
  <2> QED
    BY <2>1, <2>2, UpdateAgrees
<1>5. ASSUME NEW v \in Validator, NEW d \in Delegator, ClaimWithdrawal(d, v) PROVE Agrees'
  BY <1>5, SilentAgrees DEF ClaimWithdrawal
<1>6. ASSUME NEW v \in Validator, NEW d \in Delegator, ClaimValidatorExit(d, v) PROVE Agrees'
  <2>1. status[v] = "Exited"
    BY <1>6 DEF ClaimValidatorExit, Books, ExitsOnlyOnceGone
  <2>2. \A w \in Validator : status[w] = "Active" => delegations'[w] = delegations[w]
    BY <1>6, <2>1 DEF ClaimValidatorExit, With, Books, TypeOK
  <2>3. UNCHANGED <<log, status, delegatedAmount, blsKeys>>
    BY <1>6 DEF ClaimValidatorExit
  <2> QED
    BY <2>2, <2>3, SilentAgrees
<1>7. ASSUME \/ UpgradeToV2 \/ \E p \in Escrows : UpdateExitEscrowPeriod(p)
             \/ Tick \/ UNCHANGED vars
      PROVE  Agrees'
  <2>1. UNCHANGED <<log, status, delegatedAmount, blsKeys, delegations>>
    BY <1>7 DEF UpgradeToV2, UpdateExitEscrowPeriod, Tick, vars
  <2> QED
    BY <2>1, SilentAgrees
<1> QED
  BY <1>1, <1>2, <1>3, <1>4, <1>5, <1>6, <1>7, DeregisterAgrees, DelegateAgrees,
     UndelegateAgrees, Zenon DEF Next

\* Nothing is registered and nothing is logged.
LEMMA InitAgrees == Init => Agrees
<1> SUFFICES ASSUME Init PROVE Agrees
  OBVIOUS
<1>1. Replay(log) = Empty
  BY ReplayNothing DEF Init
<1>2. {v \in Validator : status[v] = "Active"} = {}
  BY DEF Init
<1>3. Range(log) = {}
  BY DEF Init, Range
<1>4. Dropped = {} /\ ~Orphaned
  BY <1>3, Zenon DEF Dropped, Orphaned
<1>5. Mirrored
  BY <1>1, <1>2, <1>4, EmptyIsTable DEF Mirrored, Mirrors
<1> QED
  BY <1>3, <1>4, <1>5, Zenon DEF Agrees

\* What the nodes replay is what the contract has, whichever V2 events lack a
\* signature: the active validators, but for those whose registration the nodes
\* drop, with their stakes and their delegators.  The replay fails only when a
\* dropped validator takes part in a later event, and then it fails for good.
THEOREM ReplayAlwaysAgrees == Spec => []ReplayAgrees
<1>1. Agrees => ReplayAgrees
  <2> SUFFICES ASSUME Agrees PROVE ReplayAgrees
    OBVIOUS
  <2>1. CASE Orphaned
    BY <2>1, Zenon DEF Agrees, ReplayAgrees
  <2>2. CASE ~Orphaned
    <3>1. Mirrors(Replay(log)) /\ Replay(log) # Failed
      BY <2>2, TableNotFailed, Zenon DEF Agrees, Mirrored, Mirrors
    <3> QED
      BY <2>2, <3>1, Zenon DEF Mirrors, ReplayAgrees, Stakers
  <2> QED
    BY <2>1, <2>2
<1>2. Books /\ Agrees /\ [Next]_vars => Agrees'
  BY AgreesStep, Zenon
<1> QED
  BY <1>1, <1>2, InitBooks, BooksStep, InitAgrees, PTL DEF Spec

-----------------------------------------------------------------------------
\* Integer division respects the order.
LEMMA DivMonotone ==
  ASSUME NEW a \in Nat, NEW b \in Nat, a <= b, NEW t \in Nat \ {0}
  PROVE  a \div t <= b \div t
<1> DEFINE p == a \div t
           q == b \div t
<1>1. p \in Nat /\ q \in Nat
  OBVIOUS
<1>2. t * p <= a /\ b < t * q + t
  OBVIOUS
<1>3. ASSUME q < p PROVE FALSE
  <2> HIDE DEF p, q
  <2>1. q + 1 <= p
    BY <1>1, <1>3
  <2>2. t * (q + 1) <= t * p
    BY <1>1, <2>1
  <2>3. t * (q + 1) = t * q + t
    BY <1>1
  <2> DEFINE x == t * p
             y == t * q
             z == t * (q + 1)
  <2>4. x \in Nat /\ y \in Nat /\ z \in Nat
    BY <1>1
  <2>5. x <= a /\ b < y + t /\ z <= x /\ z = y + t
    BY <1>2, <2>2, <2>3
  <2> HIDE DEF x, y, z
  <2> QED BY <2>4, <2>5
<1> HIDE DEF p, q
<1>4. p <= q
  BY <1>1, <1>3
<1> QED BY <1>4 DEF p, q

-----------------------------------------------------------------------------
\* Ranks: R is a relation on V, and the rank of v the number of those before it.

Ahead(R, V, v) == {w \in V : <<w, v>> \in R}

Rank(R, V, v) == Cardinality(Ahead(R, V, v))

IsStrictOrder(R, V) ==
  /\ \A v \in V : <<v, v>> \notin R
  /\ \A u, v, w \in V : <<u, v>> \in R /\ <<v, w>> \in R => <<u, w>> \in R
  /\ \A v, w \in V : v = w \/ <<v, w>> \in R \/ <<w, v>> \in R

\* Every number below the size of V is a rank.
EveryRankTaken(R, V) == \A i \in 0..(Cardinality(V) - 1) : \E v \in V : Rank(R, V, v) = i

\* A rank is a number below the size of the set.
LEMMA RankType ==
  ASSUME NEW V, IsFiniteSet(V), NEW R, IsStrictOrder(R, V), NEW v \in V
  PROVE  Rank(R, V, v) \in Nat /\ Rank(R, V, v) < Cardinality(V)
<1>1. Ahead(R, V, v) \in SUBSET V /\ v \notin Ahead(R, V, v)
  BY DEF Ahead, IsStrictOrder
<1>2. /\ IsFiniteSet(Ahead(R, V, v)) /\ Cardinality(Ahead(R, V, v)) <= Cardinality(V)
      /\ Cardinality(V) = Cardinality(Ahead(R, V, v)) => V = Ahead(R, V, v)
  BY <1>1, FS_Subset
<1>3. Cardinality(Ahead(R, V, v)) \in Nat /\ Cardinality(V) \in Nat
  BY <1>2, FS_CardinalityType
<1>4. Cardinality(V) # Cardinality(Ahead(R, V, v))
  BY <1>1, <1>2
<1> QED
  BY <1>2, <1>3, <1>4 DEF Rank

\* Who comes first has the smaller rank.
LEMMA RankGrows ==
  ASSUME NEW V, IsFiniteSet(V), NEW R, IsStrictOrder(R, V), NEW v \in V, NEW w \in V,
         <<v, w>> \in R
  PROVE  Rank(R, V, v) < Rank(R, V, w)
<1> DEFINE A == Ahead(R, V, v)
           B == Ahead(R, V, w)
<1>1. A \in SUBSET B /\ v \in B /\ v \notin A /\ B \in SUBSET V
  BY DEF Ahead, IsStrictOrder
<1> HIDE DEF A, B
<1>2. IsFiniteSet(B)
  BY <1>1, FS_Subset, Zenon
<1>3. /\ IsFiniteSet(A) /\ Cardinality(A) <= Cardinality(B)
      /\ Cardinality(B) = Cardinality(A) => B = A
  BY <1>1, <1>2, FS_Subset
<1>4. Cardinality(A) \in Nat /\ Cardinality(B) \in Nat
  BY <1>2, <1>3, FS_CardinalityType
<1>5. Cardinality(A) # Cardinality(B)
  BY <1>1, <1>3
<1>6. Cardinality(A) < Cardinality(B)
  BY <1>3, <1>4, <1>5
<1> QED
  BY <1>6 DEF Rank, A, B

\* Every number below the size of the set is a rank, and of one member only.
LEMMA RanksOnce ==
  ASSUME NEW V, IsFiniteSet(V), NEW R, IsStrictOrder(R, V)
  PROVE  /\ \A v, w \in V : Rank(R, V, v) = Rank(R, V, w) => v = w
         /\ EveryRankTaken(R, V)
<1> DEFINE n == Cardinality(V)
           f == [v \in V |-> Rank(R, V, v)]
           I == 0..(n - 1)
<1>0. n \in Nat
  BY FS_CardinalityType
<1>1. \A v \in V : Rank(R, V, v) \in Nat /\ Rank(R, V, v) < n
  BY RankType, Zenon
<1>2. \A v, w \in V : Rank(R, V, v) = Rank(R, V, w) => v = w
  <2> SUFFICES ASSUME NEW v \in V, NEW w \in V, v # w PROVE Rank(R, V, v) # Rank(R, V, w)
    OBVIOUS
  <2>1. <<v, w>> \in R \/ <<w, v>> \in R
    BY DEF IsStrictOrder
  <2>2. Rank(R, V, v) < Rank(R, V, w) \/ Rank(R, V, w) < Rank(R, V, v)
    BY <2>1, RankGrows, Zenon
  <2> QED
    BY <1>1, <2>2
<1>3. IsFiniteSet(I) /\ Cardinality(I) = n
  <2>1. 0 \in Int /\ n - 1 \in Int /\ (0 > n - 1 => n = 0) /\ (n - 1) - 0 + 1 = n
    BY <1>0
  <2> HIDE DEF n
  <2> QED
    BY <2>1, FS_Interval
<1>4. f \in Injection(V, I)
  <2>1. f \in [V -> I]
    BY <1>0, <1>1
  <2> QED
    BY <1>2, <2>1 DEF Injection, IsInjective
<1>5. f \in Surjection(V, I)
  <2> HIDE DEF f, I
  <2> QED
    BY <1>3, <1>4, FS_Injection
<1>6. \A i \in I : \E v \in V : f[v] = i
  <2> HIDE DEF f, I
  <2> QED
    BY <1>5, Zenon DEF Surjection
<1> QED
  BY <1>2, <1>6 DEF EveryRankTaken

\* How many have a rank below m.
LEMMA TopSize ==
  ASSUME NEW V, IsFiniteSet(V), NEW R, IsStrictOrder(R, V), NEW m \in Nat
  PROVE  Cardinality({v \in V : Rank(R, V, v) < m})
           = IF m <= Cardinality(V) THEN m ELSE Cardinality(V)
<1> DEFINE n == Cardinality(V)
           A == {v \in V : Rank(R, V, v) < m}
           I == 0..(m - 1)
           f == [v \in A |-> Rank(R, V, v)]
<1>0. n \in Nat
  BY FS_CardinalityType
<1>1. \A v \in V : Rank(R, V, v) \in Nat /\ Rank(R, V, v) < n
  BY RankType, Zenon
<1>2. CASE m > n
  <2>1. A = V
    BY <1>0, <1>1, <1>2
  <2> QED
    BY <1>0, <1>2, <2>1
<1>3. CASE m <= n
  <2>1. f \in [A -> I]
    BY <1>1
  <2>2. f \in Injection(A, I)
    BY <2>1, RanksOnce DEF Injection, IsInjective
  <2>3. f \in Surjection(A, I)
    <3>1. \A i \in I : \E v \in V : Rank(R, V, v) = i /\ i < m
      <4> TAKE i \in I
      <4>1. i \in 0..(n - 1) /\ i < m
        BY <1>0, <1>3
      <4>2. \A j \in 0..(n - 1) : \E v \in V : Rank(R, V, v) = j
        BY RanksOnce DEF EveryRankTaken
      <4> QED
        BY <4>1, <4>2, Zenon
    <3>2. \A i \in I : \E v \in A : f[v] = i
      BY <3>1
    <3> HIDE DEF f, A, I
    <3> QED
      BY <2>1, <3>2, Zenon DEF Surjection
  <2>4. IsFiniteSet(A)
    <3>1. A \in SUBSET V
      OBVIOUS
    <3> HIDE DEF A
    <3> QED
      BY <3>1, FS_Subset
  <2>5. Cardinality(I) = m
    <3>1. 0 \in Int /\ m - 1 \in Int /\ (0 > m - 1 => m = 0) /\ (m - 1) - 0 + 1 = m
      OBVIOUS
    <3> QED
      BY <3>1, FS_Interval
  <2>6. Cardinality(I) = Cardinality(A)
    <3> HIDE DEF f, A, I
    <3>1. ExistsBijection(A, I)
      BY <2>2, <2>3, Zenon DEF ExistsBijection, Bijection
    <3> QED
      BY <2>4, <3>1, FS_Bijection
  <2> QED
    BY <1>3, <2>5, <2>6
<1> QED
  BY <1>0, <1>2, <1>3

-----------------------------------------------------------------------------
\* The validators the nodes select.

\* Who comes before whom, as a relation.
Precedence(r) == {p \in Valid(r) \X Valid(r) : Precedes(r, p[1], p[2])}

\* The stable sort is an order in which nobody ties: equal stakes are in the
\* order of registration.
LEMMA PrecedenceIsOrder ==
  ASSUME NEW r, IsTable(r)
  PROVE  /\ IsStrictOrder(Precedence(r), Valid(r)) /\ IsFiniteSet(Valid(r))
         /\ \A v, w \in Valid(r) : <<v, w>> \in Precedence(r) <=> Precedes(r, v, w)
<1>1. Valid(r) \in SUBSET DOMAIN r.info /\ DOMAIN r.info \in SUBSET Validator
  BY DEF Valid, Staked, IsTable
<1>2. \A v \in Valid(r) : r.info[v].stake \in Nat /\ r.info[v].order \in Nat
  BY <1>1 DEF IsTable, IsEntry
<1>3. \A v, w \in Valid(r) : r.info[v].order = r.info[w].order => v = w
  BY <1>1 DEF IsTable
<1>4. \A v, w \in Valid(r) : <<v, w>> \in Precedence(r) <=> Precedes(r, v, w)
  BY DEF Precedence
<1>5. IsStrictOrder(Precedence(r), Valid(r))
  <2>1. \A v \in Valid(r) : ~Precedes(r, v, v)
    BY <1>2 DEF Precedes, LargestFirst
  <2>2. \A u, v, w \in Valid(r) : Precedes(r, u, v) /\ Precedes(r, v, w) => Precedes(r, u, w)
    BY <1>2 DEF Precedes, LargestFirst
  <2>3. \A v, w \in Valid(r) : v = w \/ Precedes(r, v, w) \/ Precedes(r, w, v)
    <3> SUFFICES ASSUME NEW v \in Valid(r), NEW w \in Valid(r), v # w
                 PROVE  Precedes(r, v, w) \/ Precedes(r, w, v)
      OBVIOUS
    <3>1. r.info[v].order # r.info[w].order
      BY <1>3
    <3> DEFINE sv == r.info[v].stake
               sw == r.info[w].stake
               ov == r.info[v].order
               ow == r.info[w].order
    <3>2. sv \in Nat /\ sw \in Nat /\ ov \in Nat /\ ow \in Nat
      BY <1>2
    <3>3. /\ Precedes(r, v, w) <=> (sv > sw \/ (~(sw > sv) /\ ov < ow))
          /\ Precedes(r, w, v) <=> (sw > sv \/ (~(sv > sw) /\ ow < ov))
      BY Zenon DEF Precedes, LargestFirst
    <3> HIDE DEF sv, sw, ov, ow
    <3>4. ov # ow => ov < ow \/ ow < ov
      BY <3>2
    <3>5. sv > sw => ~(sw > sv)
      BY <3>2
    <3> QED
      BY <3>1, <3>3, <3>4, <3>5, Zenon DEF ov, ow
  <2> QED
    BY <1>4, <2>1, <2>2, <2>3, Zenon DEF IsStrictOrder
<1>6. IsFiniteSet(Valid(r))
  BY <1>1, StakeTableAssumption, FS_Subset
<1> QED
  BY <1>4, <1>5, <1>6

\* The selected validators by their rank.
LEMMA ActiveSetByRank ==
  ASSUME NEW r, IsTable(r), Staked(r) # {}
  PROVE  ActiveSet(r) = {v \in Valid(r) : Rank(Precedence(r), Valid(r), v) < MaxActive}
<1>1. \A v \in Valid(r) :
        Ahead(Precedence(r), Valid(r), v) = {w \in Valid(r) : Precedes(r, w, v)}
  BY PrecedenceIsOrder DEF Ahead
<1>2. ActiveSet(r) = {v \in Valid(r) : Cardinality({w \in Valid(r) : Precedes(r, w, v)}) < MaxActive}
  BY Zenon DEF ActiveSet
<1>3. \A v \in Valid(r) : Rank(Precedence(r), Valid(r), v)
                            = Cardinality({w \in Valid(r) : Precedes(r, w, v)})
  BY <1>1, Zenon DEF Rank
<1> QED
  BY <1>2, <1>3, Zenon

\* The validators with stake, in the table and in the contract.
LEMMA StakedFacts ==
  ASSUME Books, NEW r, Mirrors(r), \A x \in Dropped : delegatedAmount[x] = 0
  PROVE  /\ Staked(r) = {v \in Validator : status[v] = "Active" /\ delegatedAmount[v] > 0}
         /\ \A v \in Staked(r) : r.info[v].stake = delegatedAmount[v]
         /\ \A v \in Validator \ Staked(r) : delegatedAmount[v] = 0
         /\ delegatedAmount \in [Validator -> Nat]
<1>0. delegatedAmount \in [Validator -> Nat] /\ delegations \in [Validator -> [Delegator -> Nat]]
  BY DEF Books, TypeOK
<1>1. /\ DOMAIN r.info = {v \in Validator : status[v] = "Active"} \ Dropped
      /\ \A v \in DOMAIN r.info :
           r.info[v].stake = delegatedAmount[v] /\ r.info[v].delegators = Stakers(v)
  BY Zenon DEF Mirrors
<1>2. ASSUME NEW v \in Validator, status[v] = "Active", delegatedAmount[v] > 0
      PROVE  DOMAIN Stakers(v) # {}
  <2> SUFFICES ASSUME DOMAIN Stakers(v) = {} PROVE FALSE
    OBVIOUS
  <2>1. \A d \in Delegator : delegations[v][d] = 0
    BY <1>0 DEF Stakers, Restrict
  <2>2. Total(delegations[v], Delegator) = 0
    BY <2>1, SumZero, StakeTableAssumption DEF Total
  <2> QED
    BY <1>2, <2>2 DEF Books, StakeAccounting
<1>3. \A v \in Validator : status[v] # "Active" => delegatedAmount[v] = 0
  BY DEF Books, StakeAccounting
<1>4. Staked(r) = {v \in Validator : status[v] = "Active" /\ delegatedAmount[v] > 0}
  <2>1. ASSUME NEW v \in Staked(r)
        PROVE  v \in Validator /\ status[v] = "Active" /\ delegatedAmount[v] > 0
    BY <1>1 DEF Staked
  <2>2. ASSUME NEW v \in Validator, status[v] = "Active", delegatedAmount[v] > 0
        PROVE  v \in Staked(r)
    BY <1>1, <1>2, <2>2 DEF Staked
  <2> QED
    BY <2>1, <2>2
<1>5. \A v \in Staked(r) : r.info[v].stake = delegatedAmount[v]
  BY <1>1, <1>4
<1>6. \A v \in Validator \ Staked(r) : delegatedAmount[v] = 0
  BY <1>0, <1>3, <1>4
<1> QED
  BY <1>0, <1>4, <1>5, <1>6

\* The largest stake exists, and the minimum is a fraction of it.
LEMMA LargestStake ==
  ASSUME Books, NEW r, Mirrors(r), \A x \in Dropped : delegatedAmount[x] = 0,
         Staked(r) # {}
  PROVE  \E top \in Staked(r) :
           /\ MinimumStake(r) = delegatedAmount[top] \div TargetStake
           /\ \A w \in Validator : delegatedAmount[w] <= delegatedAmount[top]
<1> DEFINE T == {r.info[v].stake : v \in Staked(r)}
           b == Total(delegatedAmount, Validator)
<1>1. /\ Staked(r) \subseteq Validator
      /\ \A v \in Staked(r) : r.info[v].stake = delegatedAmount[v]
      /\ \A v \in Validator \ Staked(r) : delegatedAmount[v] = 0
      /\ delegatedAmount \in [Validator -> Nat]
  BY StakedFacts
<1>2. b \in Nat /\ \A v \in Validator : delegatedAmount[v] <= b
  BY <1>1, StakeTableAssumption, SumType, SumAtLeast DEF Total
<1>3. T \in SUBSET Nat /\ T # {} /\ \A m \in T : m <= b
  BY <1>1, <1>2
<1>4. \E n \in T : \A m \in T : m <= n
  <2> HIDE DEF T, b
  <2> QED BY <1>2, <1>3, LargestMember, Zenon
<1>5. Max(T) \in T /\ \A m \in T : m <= Max(T)
  <2>1. \E n \in T : \A m \in T : n >= m
    BY <1>3, <1>4
  <2>2. Max(T) \in T /\ \A m \in T : Max(T) >= m
    <3> HIDE DEF T
    <3> QED BY <2>1 DEF Max
  <2> QED
    BY <1>3, <2>2, Zenon
<1>6. PICK top \in Staked(r) : Max(T) = r.info[top].stake
  BY <1>5, Zenon
<1>7. \A w \in Validator : delegatedAmount[w] <= delegatedAmount[top]
  <2> TAKE w \in Validator
  <2>1. CASE w \in Staked(r)
    BY <1>1, <1>5, <1>6, <2>1
  <2>2. CASE w \notin Staked(r)
    BY <1>1, <2>2
  <2> QED
    BY <2>1, <2>2
<1>8. MinimumStake(r) = delegatedAmount[top] \div TargetStake
  BY <1>1, <1>6 DEF MinimumStake
<1> QED
  BY <1>7, <1>8

\* Whom ActiveSetIsTop calls eligible.
Eligible ==
  {v \in Validator : /\ status[v] = "Active" /\ delegatedAmount[v] > 0
                     /\ \A w \in Validator :
                          delegatedAmount[v] >= delegatedAmount[w] \div TargetStake}

\* The nodes' minimum accepts the eligible validators.
LEMMA ValidIsEligible ==
  ASSUME Books, NEW r, Mirrors(r), \A x \in Dropped : delegatedAmount[x] = 0,
         Staked(r) # {}
  PROVE  Valid(r) = Eligible
<1>1. /\ Staked(r) = {v \in Validator : status[v] = "Active" /\ delegatedAmount[v] > 0}
      /\ \A v \in Staked(r) : r.info[v].stake = delegatedAmount[v]
      /\ delegatedAmount \in [Validator -> Nat]
  BY StakedFacts
<1>2. PICK top \in Staked(r) :
           /\ MinimumStake(r) = delegatedAmount[top] \div TargetStake
           /\ \A w \in Validator : delegatedAmount[w] <= delegatedAmount[top]
  BY LargestStake
<1> DEFINE share(w) == delegatedAmount[w] \div TargetStake
<1>3. \A w \in Validator : share(w) \in Nat /\ share(w) <= share(top)
  <2> TAKE w \in Validator
  <2>1. /\ delegatedAmount[w] \in Nat /\ delegatedAmount[top] \in Nat
        /\ delegatedAmount[w] <= delegatedAmount[top] /\ TargetStake \in Nat \ {0}
    BY <1>1, <1>2, StakeTableAssumption
  <2>2. share(w) <= share(top)
    BY <2>1, DivMonotone
  <2>3. share(w) \in Nat
    BY <2>1
  <2> QED
    BY <2>2, <2>3
<1>4. \A v \in Staked(r) :
        delegatedAmount[v] >= share(top) <=> \A w \in Validator : delegatedAmount[v] >= share(w)
  <2> TAKE v \in Staked(r)
  <2>1. delegatedAmount[v] \in Nat /\ top \in Validator
    BY <1>1
  <2> HIDE DEF share
  <2> QED
    BY <1>3, <2>1
<1>5. \A v \in Staked(r) : v \in Valid(r) <=> delegatedAmount[v] >= share(top)
  BY <1>1, <1>2 DEF Valid
<1>6. \A v : v \in Eligible <=> /\ v \in Staked(r)
                                /\ \A w \in Validator : delegatedAmount[v] >= share(w)
  BY <1>1, Zenon DEF Eligible
<1>7. \A v : v \in Valid(r) => v \in Staked(r)
  BY DEF Valid
<1> HIDE DEF share
<1> QED
  BY <1>4, <1>5, <1>6, <1>7

\* The selection from a table that mirrors the contract.
LEMMA SelectionIsTop ==
  ASSUME Books, NEW r, Mirrors(r), \A x \in Dropped : delegatedAmount[x] = 0
  PROVE  /\ ActiveSet(r) \subseteq Eligible
         /\ Cardinality(ActiveSet(r)) = Min({MaxActive, Cardinality(Eligible)})
         /\ \A v \in ActiveSet(r), w \in Validator \ ActiveSet(r) :
              delegatedAmount[v] >= delegatedAmount[w]
<1>0. /\ Staked(r) = {v \in Validator : status[v] = "Active" /\ delegatedAmount[v] > 0}
      /\ \A v \in Staked(r) : r.info[v].stake = delegatedAmount[v]
      /\ \A v \in Validator \ Staked(r) : delegatedAmount[v] = 0
      /\ delegatedAmount \in [Validator -> Nat]
  BY StakedFacts
<1>a. MaxActive \in Nat \ {0}
  BY StakeTableAssumption
<1>m. \A a, b \in Nat : Min({a, b}) = IF a <= b THEN a ELSE b
  BY DEF Min
<1>1. CASE Staked(r) = {}
  <2>1. ActiveSet(r) = {} /\ Eligible = {}
    BY <1>0, <1>1 DEF ActiveSet, Eligible
  <2>2. Cardinality({}) = 0
    BY FS_EmptySet
  <2>3. Min({MaxActive, 0}) = 0
    BY <1>a, <1>m
  <2> QED
    BY <2>1, <2>2, <2>3
<1>2. CASE Staked(r) # {}
  <2> DEFINE V == Valid(r)
             R == Precedence(r)
             A == {v \in V : Rank(R, V, v) < MaxActive}
  <2>1. V = Eligible /\ IsTable(r)
    BY <1>2, ValidIsEligible DEF Mirrors
  <2>2. ActiveSet(r) = A
    BY <1>2, <2>1, ActiveSetByRank
  <2>3. /\ IsStrictOrder(R, V) /\ IsFiniteSet(V)
        /\ \A v, w \in V : <<v, w>> \in R <=> Precedes(r, v, w)
    BY <2>1, PrecedenceIsOrder
  <2>4. \A v, w \in V : Precedes(r, w, v) => Rank(R, V, w) < Rank(R, V, v)
    <3> HIDE DEF R, V
    <3> QED
      BY <2>3, RankGrows, Zenon
  <2>5. \A v \in V : Rank(R, V, v) \in Nat
    <3> HIDE DEF R, V
    <3> QED
      BY <2>3, RankType, Zenon
  <2>6. Cardinality(A) = IF MaxActive <= Cardinality(V) THEN MaxActive ELSE Cardinality(V)
    <3>1. MaxActive \in Nat
      BY <1>a
    <3> HIDE DEF R, V
    <3> QED
      BY <2>3, <3>1, TopSize
  <2>7. Cardinality(V) \in Nat
    BY <2>3, FS_CardinalityType
  <2>8. Cardinality(ActiveSet(r)) = Min({MaxActive, Cardinality(Eligible)})
    BY <1>a, <1>m, <2>1, <2>2, <2>6, <2>7
  <2>9. ActiveSet(r) \subseteq Eligible
    BY <2>1, <2>2
  <2>10. ASSUME NEW v \in A, NEW w \in Validator \ A
         PROVE  delegatedAmount[v] >= delegatedAmount[w]
    <3>0. /\ v \in V /\ v \in Staked(r) /\ r.info[v].stake = delegatedAmount[v]
          /\ delegatedAmount[v] \in Nat /\ delegatedAmount[w] \in Nat
      BY <1>0 DEF Valid
    <3>1. CASE w \notin Staked(r)
      BY <1>0, <3>0, <3>1
    <3>2. CASE w \in Staked(r) /\ w \notin V
      <4>1. MinimumStake(r) \in Nat
        <5>1. PICK top \in Staked(r) : MinimumStake(r) = delegatedAmount[top] \div TargetStake
          BY <1>2, LargestStake
        <5>2. delegatedAmount[top] \in Nat /\ TargetStake \in Nat \ {0}
          BY <1>0, StakeTableAssumption
        <5> QED
          BY <5>1, <5>2
      <4>2. r.info[w].stake = delegatedAmount[w] /\ ~(r.info[w].stake >= MinimumStake(r))
        BY <1>0, <3>2 DEF Valid
      <4>3. r.info[v].stake >= MinimumStake(r)
        BY DEF Valid
      <4> QED
        BY <3>0, <4>1, <4>2, <4>3
    <3>3. CASE w \in V
      <4>1. ~(Rank(R, V, w) < MaxActive) /\ Rank(R, V, v) < MaxActive
        BY <3>3
      <4>2. ~Precedes(r, w, v)
        <5>1. Rank(R, V, w) \in Nat /\ Rank(R, V, v) \in Nat
          BY <2>5, <3>0, <3>3
        <5>2. ~(Rank(R, V, w) < Rank(R, V, v))
          BY <1>a, <4>1, <5>1
        <5> QED
          BY <2>4, <3>0, <3>3, <5>2
      <4>3. r.info[w].stake = delegatedAmount[w]
        BY <1>0, <3>3 DEF Valid
      <4> QED
        BY <3>0, <4>2, <4>3 DEF Precedes, LargestFirst
    <3> QED
      BY <3>1, <3>2, <3>3, Zenon
  <2> QED
    BY <2>2, <2>8, <2>9, <2>10, Zenon
<1> QED
  BY <1>1, <1>2

\* The validators every node selects are the ones that the contract's storage
\* entitles: as many as there is room for, all with the minimum stake, and none
\* left out with more stake than one of them.
THEOREM ActiveSetAlwaysTop == Spec => []ActiveSetIsTop
<1>1. Books /\ Agrees => ActiveSetIsTop
  <2> SUFFICES ASSUME Books, Agrees PROVE ActiveSetIsTop
    OBVIOUS
  <2>1. CASE Orphaned
    BY <2>1, Zenon DEF Agrees, ActiveSetIsTop
  <2>2. CASE ~Orphaned
    <3>1. Mirrors(Replay(log)) /\ \A v \in Dropped : delegatedAmount[v] = 0
      BY <2>2, Zenon DEF Agrees, Mirrored
    <3> QED
      BY <3>1, SelectionIsTop, Zenon DEF ActiveSetIsTop, Eligible
  <2> QED
    BY <2>1, <2>2
<1>2. Books /\ Agrees /\ [Next]_vars => Agrees'
  BY AgreesStep, Zenon
<1> QED
  BY <1>1, <1>2, InitBooks, BooksStep, InitAgrees, PTL DEF Spec
=============================================================================
