------------------------ MODULE InheritanceVault_proofs ------------------------
(***************************************************************************)
(* Proofs about the whole contract, for every set of owners, heirs and     *)
(* assets and every bound: the clocks and the claims of the vaults are     *)
(* sound, a veto always leaves the heir a cool-down, and what the contract *)
(* does to custody is what CreditLane allows, so that the facts proved     *)
(* there hold of the contract.  Then what a step makes of one vault: who   *)
(* can change a vault at all, what each call leaves of it, and from that   *)
(* the properties that compare a vault with itself a step later, and the   *)
(* open list.                                                              *)
(***************************************************************************)
EXTENDS InheritanceVault, MoneyRules_proofs

USE VaultAssumption

-----------------------------------------------------------------------------
(* One vault at time t.                                                     *)

LiveStates == {STATE_ACTIVE, STATE_CLAIM_PENDING}

\* All that is true of a vault on its own: the parts of the invariant.
SoundClock(v, t) ==
    v.state \in LiveStates =>
        /\ v.inactivityPeriod > 0
        /\ v.deadline <= Smaller(t + v.inactivityPeriod, v.absoluteDeadline)

SoundValue(v) == v.balance > 0 <=> v.state \in LiveStates

SoundClaim(v, t) ==
    /\ v.state = STATE_CLAIM_PENDING =>
          /\ t >= v.deadline
          /\ v.claimInitiatedAt \in 1..t
          /\ v.claimRecipient \in Accounts
          /\ v.lockedFeeBps <= v.feeBps
    /\ v.state = STATE_ACTIVE => v.claimInitiatedAt = 0 /\ v.claimRecipient = NoOne

Sound(v, t) ==
    /\ v \in VaultRecords
    /\ SoundClock(v, t)
    /\ SoundValue(v)
    /\ SoundClaim(v, t)

\* The five states are different from each other.
LEMMA StatesDiffer ==
  /\ STATE_NONE \notin LiveStates /\ STATE_SETTLED \notin LiveStates /\ STATE_CLOSED \notin LiveStates
  /\ STATE_ACTIVE # STATE_CLAIM_PENDING
BY DEF LiveStates, STATE_NONE, STATE_ACTIVE, STATE_CLAIM_PENDING, STATE_SETTLED, STATE_CLOSED

\* The deadline an owner's action sets.
LEMMA ResetClockFacts ==
  ASSUME NEW v \in VaultRecords, now \in Nat
  PROVE  /\ ResetClock(v) \in VaultRecords
         /\ NextDeadline(v) \in Nat
         /\ NextDeadline(v) <= now + v.inactivityPeriod
         /\ NextDeadline(v) <= v.absoluteDeadline
         /\ ResetClock(v).deadline = NextDeadline(v)
         /\ ResetClock(v).state = v.state
BY DEF VaultRecords, ResetClock, NextDeadline, Smaller

-----------------------------------------------------------------------------
(* What the functions make of one vault.                                    *)

\* Every owner's action that ends a claim, or finds none, and sets the clock
\* leaves the vault sound, whatever it did to period, horizon, heir and chain.
LEMMA ResetAndClearIsSound ==
  ASSUME now \in Nat \ {0}, NEW v \in VaultRecords, v.state \in LiveStates,
         v.inactivityPeriod > 0, v.balance > 0,
         v.state = STATE_ACTIVE => v.claimInitiatedAt = 0 /\ v.claimRecipient = NoOne
  PROVE  Sound(ResetClock(ClearPending(v)), now)
<1> DEFINE w == ClearPending(v)
<1>1. /\ w \in VaultRecords /\ w.state = STATE_ACTIVE
      /\ w.claimInitiatedAt = 0 /\ w.claimRecipient = NoOne
      /\ w.inactivityPeriod = v.inactivityPeriod /\ w.balance = v.balance
  BY DEF ClearPending, WithoutClaim, VaultRecords, LiveStates, AnyAddress,
         STATE_NONE, STATE_ACTIVE, STATE_CLAIM_PENDING, STATE_SETTLED, STATE_CLOSED
<1> HIDE DEF w
<1>2. /\ ResetClock(w) \in VaultRecords
      /\ ResetClock(w) = [w EXCEPT !.deadline = Smaller(now + w.inactivityPeriod, w.absoluteDeadline)]
  BY <1>1, ResetClockFacts DEF ResetClock, NextDeadline
<1>3. Sound(ResetClock(w), now)
  BY <1>1, <1>2, StatesDiffer
     DEF Sound, SoundClock, SoundValue, SoundClaim, VaultRecords, LiveStates, Smaller
<1> QED
  BY <1>3 DEF w

\* A check-in, of whatever kind.
LEMMA ResetIsSound ==
  ASSUME now \in Nat \ {0}, NEW v, Sound(v, now), v.state = STATE_ACTIVE
  PROVE  Sound(ResetClock(v), now)
BY ResetAndClearIsSound, StatesDiffer DEF Sound, SoundClock, SoundValue, SoundClaim, LiveStates, ClearPending

\* A claim started on an expired vault leaves it sound.
LEMMA InitiateIsSound ==
  ASSUME now \in Nat \ {0}, NEW v, Sound(v, now), v.state = STATE_ACTIVE, now >= v.deadline,
         FeeTypeOK, NEW to \in AnyAddress, to \notin {NoOne, Self}, PayeeAllowed(to)
  PROVE  Sound([v EXCEPT !.lockedFeeBps = FeeToLock(v), !.claimRecipient = to,
                         !.claimInitiatedAt = now, !.state = STATE_CLAIM_PENDING], now)
<1>1. FeeToLock(v) \in 0..MAX_CLAIM_FEE_BPS /\ FeeToLock(v) <= v.feeBps
  <2>1. v.feeBps \in 0..MAX_CLAIM_FEE_BPS
    BY DEF Sound, VaultRecords
  <2>2. ClaimFeeBps \in 0..MAX_CLAIM_FEE_BPS
    BY DEF ClaimFeeBps, RateAt, FeeTypeOK
  <2> QED
    BY <2>1, <2>2, FeeAssumption DEF FeeToLock, Smaller
<1>2. to \in Accounts
  BY DEF AnyAddress, Payable, PayeeAllowed
<1> DEFINE w == [v EXCEPT !.lockedFeeBps = FeeToLock(v), !.claimRecipient = to,
                          !.claimInitiatedAt = now, !.state = STATE_CLAIM_PENDING]
<1>3. w \in VaultRecords
  BY <1>1 DEF VaultRecords, Sound
<1>4. SoundClock(w, now) /\ SoundValue(w)
  BY StatesDiffer DEF VaultRecords, Sound, SoundClock, SoundValue, LiveStates
<1>5. SoundClaim(w, now)
  BY <1>1, <1>2, StatesDiffer DEF VaultRecords, Sound, SoundClaim
<1> QED
  BY <1>3, <1>4, <1>5 DEF Sound

\* A claim given up leaves the vault sound.
LEMMA CancelIsSound ==
  ASSUME now \in Nat \ {0}, NEW v, Sound(v, now), v.state = STATE_CLAIM_PENDING
  PROVE  Sound(WithoutClaim(v), now)
BY StatesDiffer
   DEF WithoutClaim, Sound, SoundClock, SoundValue, SoundClaim, VaultRecords, LiveStates, AnyAddress

\* A vault that ends with nothing in it.
LEMMA EndIsSound ==
  ASSUME NEW v \in VaultRecords, v.balance = 0, v.state \in {STATE_SETTLED, STATE_CLOSED}, NEW t
  PROVE  Sound(v, t)
BY DEF Sound, SoundClock, SoundValue, SoundClaim, VaultRecords, LiveStates,
       STATE_NONE, STATE_ACTIVE, STATE_CLAIM_PENDING, STATE_SETTLED, STATE_CLOSED

-----------------------------------------------------------------------------
(* All the vaults.                                                          *)

VaultTypes ==
    /\ vault \in [Keys -> VaultRecords]
    /\ vaultCount \in [Owners -> 0..MaxVaults]
    /\ openIds \in [Owners -> Seq(VaultIds)]
    /\ creationPaused \in BOOLEAN
    /\ tally \in [created : Nat, settled : Nat, closed : Nat]

\* The inductive invariant: every vault is sound at this time, and an id that
\* was not given out yet has no vault.
VaultsSound ==
    /\ ClockTypeOK
    /\ VaultTypes
    /\ \A k \in Keys : Sound(vault[k], now)
    /\ \A k \in Keys : ~Exists(k) => vault[k].state = STATE_NONE

\* Time only helps: a sound vault stays sound as time goes by.
LEMMA SoundLater ==
  ASSUME NEW v, NEW t \in Nat, Sound(v, t)
  PROVE  Sound(v, t + 1)
<1>1. v \in VaultRecords
  BY DEF Sound
<1>2. SoundClock(v, t + 1)
  BY <1>1 DEF Sound, SoundClock, VaultRecords, Smaller
<1>3. SoundClaim(v, t + 1)
  BY <1>1 DEF Sound, SoundClaim, VaultRecords
<1> QED
  BY <1>1, <1>2, <1>3 DEF Sound

\* A step that changes one vault, to one that is sound.
LEMMA BecomesKeeps ==
  ASSUME VaultsSound, NEW k \in Keys, Exists(k), NEW w, Sound(w, now), Becomes(k, w),
         UNCHANGED <<now, vaultCount, openIds, creationPaused, tally>>
  PROVE  VaultsSound'
<1>1. vault' \in [Keys -> VaultRecords]
  BY DEF VaultsSound, VaultTypes, Becomes, Sound
<1>2. ASSUME NEW j \in Keys
      PROVE  /\ Sound(vault'[j], now')
             /\ ~Exists(j)' => vault'[j].state = STATE_NONE
  <2>1. CASE j = k
    <3>1. vault'[j] = w /\ Exists(j)'
      BY <2>1 DEF VaultsSound, VaultTypes, Becomes, Exists
    <3> QED
      BY <3>1
  <2>2. CASE j # k
    <3>1. vault'[j] = vault[j] /\ (Exists(j)' <=> Exists(j))
      BY <2>2 DEF VaultsSound, VaultTypes, Becomes, Exists
    <3> QED
      BY <3>1 DEF VaultsSound
  <2> QED
    BY <2>1, <2>2
<1> QED
  BY <1>1, <1>2 DEF VaultsSound, VaultTypes, ClockTypeOK

\* The slot of a vault in the open list is no part of its soundness.
LEMMA MovedIsSound ==
  ASSUME NEW v, NEW t, Sound(v, t), NEW slot \in 0..MAX_OPEN_VAULTS
  PROVE  Sound([v EXCEPT !.openIndex = slot], t)
BY DEF Sound, SoundClock, SoundValue, SoundClaim, VaultRecords

\* A vault leaves the open list as one that is sound, and another is moved.
LEMMA LeaveOpenKeeps ==
  ASSUME VaultsSound, NEW k \in Keys, Exists(k), NEW w, Sound(w, now), LeaveOpen(k, w),
         UNCHANGED <<now, vaultCount, creationPaused>>,
         tally' \in [created : Nat, settled : Nat, closed : Nat]
  PROVE  VaultsSound'
<1> DEFINE ids == openIds[k[1]]
           moved == [vault[MovedKey(k)] EXCEPT !.openIndex =
                        IF MovedKey(k) = k THEN @ ELSE vault[k].openIndex]
<1>1. /\ k[1] \in Owners /\ ids \in Seq(VaultIds) /\ ids # <<>>
      /\ Len(ids) \in Nat \ {0}
  BY DEF VaultsSound, VaultTypes, Keys, LeaveOpen
<1>2. MovedKey(k) \in Keys
  BY <1>1 DEF MovedKey, Keys
<1>3. /\ vault[k] \in VaultRecords /\ vault[k].openIndex \in 0..MAX_OPEN_VAULTS
      /\ vault[MovedKey(k)] \in VaultRecords
      /\ vault[MovedKey(k)].openIndex \in 0..MAX_OPEN_VAULTS
  <2>1. vault[k] \in VaultRecords /\ vault[MovedKey(k)] \in VaultRecords
    BY <1>2 DEF VaultsSound, VaultTypes
  <2> QED
    BY <2>1 DEF VaultRecords
<1>4. Sound(moved, now) /\ moved.state = vault[MovedKey(k)].state
  <2>1. Sound(vault[MovedKey(k)], now)
    BY <1>2 DEF VaultsSound
  <2>2. moved.state = vault[MovedKey(k)].state
    BY <1>3 DEF VaultRecords
  <2> QED
    BY <1>3, <2>1, <2>2, MovedIsSound
<1>5. vault' = [[vault EXCEPT ![MovedKey(k)] = moved] EXCEPT ![k] = w]
  BY DEF LeaveOpen
<1>6. moved \in VaultRecords /\ w \in VaultRecords
  BY <1>4 DEF Sound
<1> HIDE DEF moved
<1>7. vault' \in [Keys -> VaultRecords]
  BY <1>2, <1>5, <1>6 DEF VaultsSound, VaultTypes
<1>8. openIds' \in [Owners -> Seq(VaultIds)]
  <2>1. [i \in 1..(Len(ids) - 1) |-> IF i = vault[k].openIndex + 1 THEN ids[Len(ids)] ELSE ids[i]]
          \in Seq(VaultIds)
    BY <1>1
  <2> QED
    BY <1>1, <2>1 DEF LeaveOpen, OpenIdsWithout, VaultsSound, VaultTypes
<1>9. ASSUME NEW j \in Keys
      PROVE  /\ Sound(vault'[j], now')
             /\ ~Exists(j)' => vault'[j].state = STATE_NONE
  <2>0. Exists(j)' <=> Exists(j)
    BY DEF Exists
  <2>1. CASE j = k
    <3>1. vault'[j] = w
      BY <1>2, <1>5, <2>1 DEF VaultsSound, VaultTypes
    <3> QED
      BY <2>0, <2>1, <3>1
  <2>2. CASE j # k /\ j = MovedKey(k)
    <3>1. vault'[j] = moved
      BY <1>2, <1>5, <2>2 DEF VaultsSound, VaultTypes
    <3> QED
      BY <1>4, <2>0, <2>2, <3>1 DEF VaultsSound
  <2>3. CASE j # k /\ j # MovedKey(k)
    <3>1. vault'[j] = vault[j]
      BY <1>2, <1>5, <2>3 DEF VaultsSound, VaultTypes
    <3> QED
      BY <2>0, <3>1 DEF VaultsSound
  <2> QED
    BY <2>1, <2>2, <2>3
<1> QED
  BY <1>7, <1>8, <1>9 DEF VaultsSound, VaultTypes, ClockTypeOK

-----------------------------------------------------------------------------
(* The invariant, one lemma per action.                                     *)

\* What an action may assume of the vault it is about.
LEMMA LiveFacts ==
  ASSUME VaultsSound, NEW k \in Keys
  PROVE  /\ now \in Nat \ {0}
         /\ Sound(vault[k], now)
         /\ vault[k] \in VaultRecords
         /\ Active(k) => Exists(k) /\ vault[k].state = STATE_ACTIVE /\ vault[k].state \in LiveStates
         /\ Pending(k) => Exists(k) /\ vault[k].state = STATE_CLAIM_PENDING
                                    /\ vault[k].state \in LiveStates
         /\ Live(k) => /\ Exists(k) /\ vault[k].state \in LiveStates
                       /\ vault[k].inactivityPeriod > 0 /\ vault[k].balance > 0
                       /\ vault[k].state = STATE_ACTIVE =>
                             vault[k].claimInitiatedAt = 0 /\ vault[k].claimRecipient = NoOne
<1>1. now \in Nat \ {0} /\ Sound(vault[k], now)
  BY DEF VaultsSound, ClockTypeOK
<1> QED
  BY <1>1 DEF Active, Pending, Live, LiveStates, Sound, SoundClock, SoundValue, SoundClaim

\* The tally keeps its type.
LEMMA TallyTyped ==
  ASSUME NEW c \in [created : Nat, settled : Nat, closed : Nat]
  PROVE  /\ [c EXCEPT !.created = @ + 1] \in [created : Nat, settled : Nat, closed : Nat]
         /\ [c EXCEPT !.settled = @ + 1] \in [created : Nat, settled : Nat, closed : Nat]
         /\ [c EXCEPT !.closed = @ + 1] \in [created : Nat, settled : Nat, closed : Nat]
OBVIOUS

\* createVault keeps the invariant: only the new vault and the lists change.
LEMMA CreateVaultKeeps ==
  ASSUME VaultsSound, FeeTypeOK, NEW o \in Owners, NEW t \in Tokens, NEW amount \in Deposits,
         NEW arrived \in Arrivals(amount), NEW beneficiary \in Heirs,
         NEW period, NEW window, NEW horizon \in Dates,
         CreateVault(o, t, amount, arrived, beneficiary, period, window, horizon)
  PROVE  VaultsSound'
<1> DEFINE k == <<o, vaultCount[o]>>
           v == [NoVault EXCEPT
                    !.state = STATE_ACTIVE,
                    !.openIndex = Len(openIds[o]),
                    !.feeBps = ClaimFeeBps,
                    !.beneficiary = beneficiary,
                    !.inactivityPeriod = period,
                    !.token = t,
                    !.absoluteDeadline = horizon,
                    !.challengeWindow = window,
                    !.balance = Received(amount, arrived)]
<1>1. /\ period \in MIN_INACTIVITY..MAX_INACTIVITY
      /\ window \in MIN_CHALLENGE..MAX_CHALLENGE
      /\ Len(openIds[o]) < MAX_OPEN_VAULTS
      /\ vaultCount[o] < MaxVaults
      /\ Deposit(t, amount, arrived)
  BY DEF CreateVault
<1>2. /\ now' = now
      /\ creationPaused' = creationPaused
      /\ tally' = [tally EXCEPT !.created = @ + 1]
  BY DEF CreateVault
<1>3. /\ vaultCount' = [vaultCount EXCEPT ![o] = @ + 1]
      /\ openIds' = [openIds EXCEPT ![o] = Append(@, vaultCount[o])]
  BY DEF CreateVault
<1>4. vault' = [vault EXCEPT ![k] = ResetClock(v)]
  BY DEF CreateVault, Becomes
<1>5. vaultCount[o] \in Nat /\ vaultCount[o] \in VaultIds /\ k \in Keys
  BY <1>1 DEF VaultsSound, VaultTypes, Keys, VaultIds
<1>6. period \in Nat \ {0} /\ window \in Nat /\ horizon \in Nat /\ beneficiary \in AnyAddress
  BY <1>1, MaxTimeAssumption DEF Dates
<1>7. Received(amount, arrived) \in Nat \ {0}
  <2>1. amount \in Nat \ {0}
    BY <1>1, LaneAssumption DEF Deposit, Pull
  <2>2. arrived \in Nat \ {0}
    <3>1. CASE arrived \in 1..amount
      BY <2>1, <3>1
    <3>2. ASSUME NEW g \in Gifts, arrived = amount + g
          PROVE  arrived \in Nat \ {0}
      BY <2>1, <3>2, LaneAssumption
    <3> QED
      BY <3>1, <3>2 DEF Arrivals
  <2> QED
    BY <2>1, <2>2 DEF Received, Smaller
<1>8. Len(openIds[o]) \in 0..MAX_OPEN_VAULTS
  <2>1. openIds[o] \in Seq(VaultIds)
    BY DEF VaultsSound, VaultTypes
  <2> QED
    BY <1>1, <2>1
<1>9. ClaimFeeBps \in 0..MAX_CLAIM_FEE_BPS
  BY DEF ClaimFeeBps, RateAt, FeeTypeOK
<1>10. /\ v \in VaultRecords /\ v.state = STATE_ACTIVE /\ v.inactivityPeriod > 0 /\ v.balance > 0
       /\ v.claimInitiatedAt = 0 /\ v.claimRecipient = NoOne
  <2> DEFINE received == Received(amount, arrived)
             slot == Len(openIds[o])
             rate == ClaimFeeBps
  <2>1. received \in Nat \ {0} /\ slot \in 0..MAX_OPEN_VAULTS /\ rate \in 0..MAX_CLAIM_FEE_BPS
    BY <1>7, <1>8, <1>9
  <2> HIDE DEF received, slot, rate
  <2> DEFINE u == [NoVault EXCEPT !.state = STATE_ACTIVE, !.openIndex = slot, !.feeBps = rate,
                                  !.beneficiary = beneficiary]
  <2>2. v = [u EXCEPT !.inactivityPeriod = period, !.token = t, !.absoluteDeadline = horizon,
                      !.challengeWindow = window, !.balance = received]
    BY DEF received, slot, rate
  <2>3. NoVault \in VaultRecords /\ NoVault.claimInitiatedAt = 0 /\ NoVault.claimRecipient = NoOne
    BY FeeAssumption, LaneAssumption DEF VaultRecords, NoVault, AnyAddress
  <2> HIDE DEF v
  <2>4. /\ u \in VaultRecords /\ u.state = STATE_ACTIVE
        /\ u.claimInitiatedAt = 0 /\ u.claimRecipient = NoOne
    BY <1>6, <2>1, <2>3 DEF VaultRecords
  <2> HIDE DEF u
  <2> QED
    <3>1. period \in Nat /\ horizon \in Nat /\ window \in Nat /\ received \in Nat
      BY <1>6, <2>1
    <3>2. /\ v \in VaultRecords
          /\ v.state = u.state
          /\ v.claimInitiatedAt = u.claimInitiatedAt /\ v.claimRecipient = u.claimRecipient
          /\ v.inactivityPeriod = period /\ v.balance = received
      <4>1. t \in Tokens
        OBVIOUS
      <4>2. v \in VaultRecords
        BY <2>2, <2>4, <3>1, <4>1 DEF VaultRecords
      <4>3. v.state = u.state
        BY <2>2, <2>4 DEF VaultRecords
      <4>4. v.claimInitiatedAt = u.claimInitiatedAt /\ v.claimRecipient = u.claimRecipient
        BY <2>2, <2>4 DEF VaultRecords
      <4>5. v.inactivityPeriod = period /\ v.balance = received
        BY <2>2, <2>4 DEF VaultRecords
      <4> QED
        BY <4>2, <4>3, <4>4, <4>5
    <3> QED
      BY <1>6, <2>1, <2>4, <3>2
<1> HIDE DEF v
<1>11. Sound(ResetClock(v), now)
  <2>1. ClearPending(v) = v /\ v.state \in LiveStates /\ now \in Nat \ {0}
    BY <1>10, StatesDiffer DEF ClearPending, LiveStates, VaultsSound, ClockTypeOK
  <2> QED
    BY <1>10, <2>1, ResetAndClearIsSound
<1>12. vault' \in [Keys -> VaultRecords]
  BY <1>4, <1>5, <1>11 DEF VaultsSound, VaultTypes, Sound
<1>13. vaultCount' \in [Owners -> 0..MaxVaults]
  BY <1>1, <1>3, <1>5 DEF VaultsSound, VaultTypes
<1>14. openIds' \in [Owners -> Seq(VaultIds)]
  BY <1>3, <1>5 DEF VaultsSound, VaultTypes
<1>15. tally' \in [created : Nat, settled : Nat, closed : Nat]
  BY <1>2, TallyTyped DEF VaultsSound, VaultTypes
<1>16. ASSUME NEW j \in Keys
      PROVE  /\ Sound(vault'[j], now')
             /\ ~Exists(j)' => vault'[j].state = STATE_NONE
  <2>1. CASE j = k
    <3>1. vault'[j] = ResetClock(v)
      BY <1>4, <1>5, <2>1 DEF VaultsSound, VaultTypes
    <3>2. Exists(j)'
      <4>1. j[1] = o /\ j[2] = vaultCount[o] /\ vaultCount'[o] = vaultCount[o] + 1
        BY <1>3, <2>1 DEF VaultsSound, VaultTypes
      <4> QED
        BY <1>5, <4>1 DEF Exists
    <3> QED
      BY <1>2, <1>11, <3>1, <3>2
  <2>2. CASE j # k
    <3>1. vault'[j] = vault[j]
      BY <1>4, <2>2 DEF VaultsSound, VaultTypes
    <3>2. Exists(j) => Exists(j)'
      <4>1. /\ j[1] \in Owners /\ j[2] \in Nat
            /\ vaultCount[j[1]] \in Nat
            /\ vaultCount'[j[1]] = IF j[1] = o THEN vaultCount[o] + 1 ELSE vaultCount[j[1]]
        BY <1>3 DEF VaultsSound, VaultTypes, Keys, VaultIds
      <4> QED
        BY <4>1 DEF Exists
    <3> QED
      BY <1>2, <3>1, <3>2 DEF VaultsSound
  <2> QED
    BY <2>1, <2>2
<1> QED
  BY <1>2, <1>12, <1>13, <1>14, <1>15, <1>16 DEF VaultsSound, VaultTypes, ClockTypeOK

\* So does topUp,
LEMMA TopUpKeeps ==
  ASSUME VaultsSound, NEW k \in Keys, NEW amount \in Deposits, NEW arrived \in Arrivals(amount),
         TopUp(k, amount, arrived)
  PROVE  VaultsSound'
<1> DEFINE w == [vault[k] EXCEPT !.balance = @ + Received(amount, arrived)]
<1>1. Received(amount, arrived) \in Nat
  <2>1. amount \in Nat /\ arrived \in Nat
    BY LaneAssumption DEF Arrivals
  <2> QED
    BY <2>1 DEF Received, Smaller
<1>2. Sound(w, now)
  BY <1>1, LiveFacts, StatesDiffer
     DEF TopUp, Sound, SoundClock, SoundValue, SoundClaim, VaultRecords, LiveStates
<1> QED
  BY <1>2, LiveFacts, BecomesKeeps DEF TopUp

\* checkIn,
LEMMA CheckInKeeps ==
  ASSUME VaultsSound, NEW k \in Keys, CheckIn(k)
  PROVE  VaultsSound'
BY LiveFacts, ResetIsSound, BecomesKeeps DEF CheckIn, OwnVaultOnly

\* checkInMany,
LEMMA CheckInManyKeeps ==
  ASSUME VaultsSound, NEW o \in Owners, NEW ids, CheckInMany(o, ids)
  PROVE  VaultsSound'
<1>1. UNCHANGED <<now, vaultCount, openIds, creationPaused, tally>>
  BY DEF CheckInMany, OwnVaultOnly
<1>2. ASSUME NEW j \in Keys
      PROVE  /\ Sound(vault'[j], now) /\ vault'[j] \in VaultRecords
             /\ ~Exists(j) => vault'[j].state = STATE_NONE
  <2>1. CASE j[1] = o /\ j[2] \in Refreshable(o, ids)
    <3>1. j = <<o, j[2]>> /\ vault'[j] = ResetClock(vault[j])
      BY <2>1 DEF CheckInMany, Keys
    <3>2. Active(j)
      BY <2>1, <3>1 DEF Refreshable
    <3> QED
      BY <3>1, <3>2, LiveFacts, ResetIsSound DEF Sound
  <2>2. CASE ~(j[1] = o /\ j[2] \in Refreshable(o, ids))
    <3>1. vault'[j] = vault[j]
      BY <2>2 DEF CheckInMany
    <3> QED
      BY <3>1, LiveFacts DEF VaultsSound
  <2> QED
    BY <2>1, <2>2
<1>3. vault' \in [Keys -> VaultRecords]
  BY <1>2 DEF CheckInMany
<1>4. \A j \in Keys : Exists(j)' <=> Exists(j)
  BY <1>1 DEF Exists
<1> QED
  BY <1>1, <1>2, <1>3, <1>4 DEF VaultsSound, VaultTypes, ClockTypeOK

\* A chain is written into a vault.
LEMMA ChainTyped ==
  ASSUME NEW v \in VaultRecords, NEW anchor \in Links \cup {NoValue}, NEW count \in Nat, NEW epoch \in Nat
  PROVE  /\ [v EXCEPT !.hbEpoch = epoch, !.hbAnchor = anchor, !.hbLeft = count] \in VaultRecords
         /\ [v EXCEPT !.hbAnchor = anchor, !.hbLeft = count] \in VaultRecords
<1> DEFINE Anchors == Links \cup {NoValue}
<1>1. anchor \in Anchors
  OBVIOUS
<1>2. VaultRecords = [
    state : {STATE_NONE, STATE_ACTIVE, STATE_CLAIM_PENDING, STATE_SETTLED, STATE_CLOSED},
    openIndex : 0..MAX_OPEN_VAULTS, feeBps : 0..MAX_CLAIM_FEE_BPS,
    beneficiary : AnyAddress, deadline : Nat, inactivityPeriod : Nat,
    token : Tokens, absoluteDeadline : Nat, challengeWindow : Nat,
    balance : Nat, claimInitiatedAt : Nat, claimRecipient : AnyAddress,
    lockedFeeBps : 0..MAX_CLAIM_FEE_BPS, hbAnchor : Anchors,
    hbLeft : Nat, hbEpoch : Nat]
  BY DEF VaultRecords
<1> HIDE DEF Anchors
<1> QED
  BY <1>1, <1>2

\* An owner's action on a live vault that changes its period, its horizon, its
\* heir or its chain, sets the clock and ends the claim there is.
LEMMA RenewedKeeps ==
  ASSUME VaultsSound, NEW k \in Keys, Live(k), NEW w \in VaultRecords,
         w.state = vault[k].state, w.balance = vault[k].balance, w.inactivityPeriod > 0,
         w.claimInitiatedAt = vault[k].claimInitiatedAt,
         w.claimRecipient = vault[k].claimRecipient,
         Becomes(k, ResetClock(ClearPending(w))), OwnVaultOnly
  PROVE  VaultsSound'
<1>1. Exists(k) /\ now \in Nat \ {0}
  BY LiveFacts
<1>2. Sound(ResetClock(ClearPending(w)), now)
  BY <1>1, LiveFacts, ResetAndClearIsSound
<1> QED
  BY <1>1, <1>2, BecomesKeeps DEF OwnVaultOnly

\* setCheckInChain,
LEMMA SetCheckInChainKeeps ==
  ASSUME VaultsSound, NEW k \in Keys, NEW anchor \in Links \cup {NoValue}, NEW count \in 0..MAX_HB_COUNT,
         SetCheckInChain(k, anchor, count)
  PROVE  VaultsSound'
<1> DEFINE w == [vault[k] EXCEPT !.hbEpoch = @ + 1, !.hbAnchor = anchor, !.hbLeft = count]
<1>1. /\ Live(k) /\ OwnVaultOnly
      /\ Becomes(k, ResetClock(ClearPending(w)))
  BY DEF SetCheckInChain
<1>2. vault[k] \in VaultRecords /\ vault[k].inactivityPeriod > 0
  BY <1>1, LiveFacts
<1>3. w \in VaultRecords
  <2>1. vault[k].hbEpoch + 1 \in Nat /\ count \in Nat
    BY <1>2 DEF VaultRecords
  <2> QED
    BY <1>2, <2>1, ChainTyped
<1>4. /\ w.state = vault[k].state /\ w.balance = vault[k].balance
      /\ w.inactivityPeriod = vault[k].inactivityPeriod
      /\ w.claimInitiatedAt = vault[k].claimInitiatedAt
      /\ w.claimRecipient = vault[k].claimRecipient
  BY <1>2 DEF VaultRecords
<1> HIDE DEF w
<1> QED
  BY <1>1, <1>2, <1>3, <1>4, RenewedKeeps

\* setBeneficiary,
LEMMA SetBeneficiaryKeeps ==
  ASSUME VaultsSound, NEW k \in Keys, NEW newBeneficiary \in Heirs, SetBeneficiary(k, newBeneficiary)
  PROVE  VaultsSound'
<1> DEFINE w == [vault[k] EXCEPT !.beneficiary = newBeneficiary]
<1>1. /\ Live(k) /\ OwnVaultOnly
      /\ Becomes(k, ResetClock(ClearPending(w)))
  BY DEF SetBeneficiary
<1>2. vault[k] \in VaultRecords /\ vault[k].inactivityPeriod > 0
  BY <1>1, LiveFacts
<1>3. /\ w \in VaultRecords
      /\ w.state = vault[k].state /\ w.balance = vault[k].balance
      /\ w.inactivityPeriod = vault[k].inactivityPeriod
      /\ w.claimInitiatedAt = vault[k].claimInitiatedAt
      /\ w.claimRecipient = vault[k].claimRecipient
  BY <1>2 DEF VaultRecords
<1> HIDE DEF w
<1> QED
  BY <1>1, <1>2, <1>3, RenewedKeeps

\* setInactivityPeriod,
LEMMA SetInactivityPeriodKeeps ==
  ASSUME VaultsSound, NEW k \in Keys, NEW newPeriod, SetInactivityPeriod(k, newPeriod)
  PROVE  VaultsSound'
<1> DEFINE w == [vault[k] EXCEPT !.inactivityPeriod = newPeriod]
<1>1. /\ Live(k) /\ OwnVaultOnly /\ newPeriod \in Nat \ {0}
      /\ Becomes(k, ResetClock(ClearPending(w)))
  BY DEF SetInactivityPeriod
<1>2. vault[k] \in VaultRecords
  BY LiveFacts
<1>3. /\ w \in VaultRecords
      /\ w.state = vault[k].state /\ w.balance = vault[k].balance
      /\ w.inactivityPeriod = newPeriod
      /\ w.claimInitiatedAt = vault[k].claimInitiatedAt
      /\ w.claimRecipient = vault[k].claimRecipient
  BY <1>1, <1>2 DEF VaultRecords
<1> HIDE DEF w
<1> QED
  BY <1>1, <1>3, RenewedKeeps

\* extendHorizon,
LEMMA ExtendHorizonKeeps ==
  ASSUME VaultsSound, NEW k \in Keys, NEW newHorizon \in Dates, ExtendHorizon(k, newHorizon)
  PROVE  VaultsSound'
<1> DEFINE w == [vault[k] EXCEPT !.absoluteDeadline = newHorizon]
<1>1. /\ Live(k) /\ OwnVaultOnly
      /\ Becomes(k, ResetClock(ClearPending(w)))
  BY DEF ExtendHorizon
<1>2. vault[k] \in VaultRecords /\ vault[k].inactivityPeriod > 0
  BY <1>1, LiveFacts
<1>3. newHorizon \in Nat
  BY MaxTimeAssumption DEF Dates
<1>4. /\ w \in VaultRecords
      /\ w.state = vault[k].state /\ w.balance = vault[k].balance
      /\ w.inactivityPeriod = vault[k].inactivityPeriod
      /\ w.claimInitiatedAt = vault[k].claimInitiatedAt
      /\ w.claimRecipient = vault[k].claimRecipient
  BY <1>2, <1>3 DEF VaultRecords
<1> HIDE DEF w
<1> QED
  BY <1>1, <1>2, <1>4, RenewedKeeps

\* checkInByChain,
LEMMA CheckInByChainKeeps ==
  ASSUME VaultsSound, NEW k \in Keys, NEW preimage \in Links \cup {NoValue}, CheckInByChain(k, preimage)
  PROVE  VaultsSound'
<1> DEFINE w == [vault[k] EXCEPT !.hbAnchor = preimage, !.hbLeft = @ - 1]
<1>1. /\ Active(k) /\ vault[k].hbLeft > 0 /\ OwnVaultOnly
      /\ Becomes(k, ResetClock(w))
  BY DEF CheckInByChain
<1>2. vault[k] \in VaultRecords /\ Live(k) /\ vault[k].inactivityPeriod > 0
      /\ vault[k].state = STATE_ACTIVE
  BY <1>1, LiveFacts DEF Live, Active
<1>3. w \in VaultRecords
  <2>1. vault[k].hbLeft - 1 \in Nat
    BY <1>1, <1>2 DEF VaultRecords
  <2> QED
    BY <1>2, <2>1, ChainTyped
<1>4. /\ w.state = vault[k].state /\ w.balance = vault[k].balance
      /\ w.inactivityPeriod = vault[k].inactivityPeriod
      /\ w.claimInitiatedAt = vault[k].claimInitiatedAt
      /\ w.claimRecipient = vault[k].claimRecipient
  BY <1>2 DEF VaultRecords
<1>5. ClearPending(w) = w
  BY <1>2, <1>4, StatesDiffer DEF ClearPending
<1> HIDE DEF w
<1> QED
  BY <1>1, <1>2, <1>3, <1>4, <1>5, RenewedKeeps

\* claim,
LEMMA ClaimKeeps ==
  ASSUME VaultsSound, FeeTypeOK, NEW k \in Keys, NEW caller, NEW to \in Recipients,
         InitiateClaim(caller, k, to)
  PROVE  VaultsSound'
<1>1. /\ Active(k) /\ now >= vault[k].deadline
      /\ to \in AnyAddress /\ to \notin {NoOne, Self} /\ PayeeAllowed(to)
      /\ OwnVaultOnly
  BY VaultAssumption DEF InitiateClaim
<1>2. Sound([vault[k] EXCEPT !.lockedFeeBps = FeeToLock(vault[k]), !.claimRecipient = to,
                             !.claimInitiatedAt = now, !.state = STATE_CLAIM_PENDING], now)
  BY <1>1, LiveFacts, InitiateIsSound
<1> QED
  BY <1>1, <1>2, LiveFacts, BecomesKeeps DEF InitiateClaim, OwnVaultOnly

\* cancelClaim,
LEMMA CancelKeeps ==
  ASSUME VaultsSound, NEW k \in Keys, NEW caller, BeneficiaryCancelClaim(caller, k)
  PROVE  VaultsSound'
<1>1. /\ Pending(k) /\ Becomes(k, WithoutClaim(vault[k])) /\ OwnVaultOnly
  BY DEF BeneficiaryCancelClaim
<1>2. Sound(WithoutClaim(vault[k]), now)
  BY <1>1, LiveFacts, CancelIsSound
<1> QED
  BY <1>1, <1>2, LiveFacts, BecomesKeeps DEF OwnVaultOnly

\* abortClaim,
LEMMA AbortKeeps ==
  ASSUME VaultsSound, NEW k \in Keys, AbortClaim(k)
  PROVE  VaultsSound'
<1>1. /\ Pending(k) /\ Becomes(k, ResetClock(WithoutClaim(vault[k]))) /\ OwnVaultOnly
  BY DEF AbortClaim
<1>2. Live(k) /\ vault[k] \in VaultRecords /\ ClearPending(vault[k]) = WithoutClaim(vault[k])
  BY <1>1, LiveFacts DEF Live, Pending, ClearPending
<1> QED
  BY <1>1, <1>2, LiveFacts, RenewedKeeps

\* A part is taken of what a live vault holds.
LEMMA PartTakenIsSound ==
  ASSUME NEW v, NEW t, Sound(v, t), v.state \in LiveStates, NEW left \in Nat \ {0}
  PROVE  Sound([v EXCEPT !.balance = left], t)
BY DEF Sound, SoundClock, SoundValue, SoundClaim, VaultRecords

\* Past the horizon the clock cannot move, so a claim that is left standing
\* stands on a lapsed deadline.
LEMMA ResetPastHorizonIsSound ==
  ASSUME now \in Nat \ {0}, NEW v, Sound(v, now), v.state \in LiveStates, now >= v.absoluteDeadline
  PROVE  Sound(ResetClock(v), now)
<1> DEFINE w == ResetClock(v)
<1>1. v \in VaultRecords /\ v.inactivityPeriod \in Nat \ {0} /\ v.absoluteDeadline \in Nat
  BY DEF Sound, SoundClock, VaultRecords
<1>2. w \in VaultRecords
  BY <1>1, ResetClockFacts
<1>3. /\ w.deadline = v.absoluteDeadline
      /\ w.state = v.state /\ w.inactivityPeriod = v.inactivityPeriod /\ w.balance = v.balance
      /\ w.absoluteDeadline = v.absoluteDeadline
      /\ w.claimInitiatedAt = v.claimInitiatedAt /\ w.claimRecipient = v.claimRecipient
      /\ w.lockedFeeBps = v.lockedFeeBps /\ w.feeBps = v.feeBps
  <2>1. NextDeadline(v) = v.absoluteDeadline
    BY <1>1 DEF NextDeadline, Smaller
  <2> QED
    BY <1>1, <2>1 DEF ResetClock, VaultRecords
<1> HIDE DEF w
<1>4. SoundClock(w, now) /\ SoundValue(w) /\ SoundClaim(w, now)
  BY <1>1, <1>3 DEF Sound, SoundClock, SoundValue, SoundClaim, Smaller
<1>5. Sound(w, now)
  BY <1>2, <1>4 DEF Sound
<1> QED
  BY <1>5 DEF w

\* The order in which the claim is ended and the clock set does not matter.
LEMMA ClearAfterReset ==
  ASSUME now \in Nat, NEW v \in VaultRecords
  PROVE  ClearPending(ResetClock(v)) = ResetClock(ClearPending(v))
<1>1. CASE v.state = STATE_CLAIM_PENDING
  <2>1. ResetClock(v).state = STATE_CLAIM_PENDING
    BY <1>1, ResetClockFacts
  <2>2. NextDeadline(WithoutClaim(v)) = NextDeadline(v)
    BY DEF NextDeadline, WithoutClaim, VaultRecords
  <2>3. ResetClock(WithoutClaim(v)) = WithoutClaim(ResetClock(v))
    BY <2>2 DEF ResetClock, WithoutClaim, VaultRecords
  <2> QED
    BY <1>1, <2>1, <2>3 DEF ClearPending
<1>2. CASE v.state # STATE_CLAIM_PENDING
  <2>1. ResetClock(v).state # STATE_CLAIM_PENDING
    BY <1>2, ResetClockFacts
  <2> QED
    BY <1>2, <2>1 DEF ClearPending
<1> QED
  BY <1>1, <1>2

\* withdraw, in part and in full,
LEMMA WithdrawKeeps ==
  ASSUME VaultsSound, NEW k \in Keys, NEW to \in Recipients, NEW amount, Withdraw(k, amount, to)
  PROVE  VaultsSound'
<1> DEFINE rest == [vault[k] EXCEPT !.balance = @ - amount]
           taken == ResetClock(rest)
           ended == [WithoutClaim(taken) EXCEPT !.state = STATE_CLOSED]
<1>1. /\ Live(k) /\ amount \in 1..vault[k].balance
      /\ UNCHANGED <<now, vaultCount, creationPaused>>
      /\ \/ /\ amount = vault[k].balance
            /\ LeaveOpen(k, ended)
            /\ tally' = [tally EXCEPT !.closed = @ + 1]
         \/ /\ amount < vault[k].balance
            /\ Becomes(k, IF HorizonReached(k) THEN taken ELSE ClearPending(taken))
            /\ UNCHANGED <<openIds, tally>>
  BY DEF Withdraw
<1>2. /\ now \in Nat \ {0} /\ Exists(k) /\ vault[k] \in VaultRecords
      /\ Sound(vault[k], now) /\ vault[k].state \in LiveStates
      /\ vault[k].inactivityPeriod > 0
      /\ vault[k].state = STATE_ACTIVE =>
            vault[k].claimInitiatedAt = 0 /\ vault[k].claimRecipient = NoOne
  BY <1>1, LiveFacts
<1>3. vault[k].balance \in Nat /\ vault[k].balance - amount \in Nat
  BY <1>1, <1>2 DEF VaultRecords
<1>4. /\ rest \in VaultRecords /\ rest.balance = vault[k].balance - amount
      /\ rest.state = vault[k].state /\ rest.inactivityPeriod = vault[k].inactivityPeriod
      /\ rest.absoluteDeadline = vault[k].absoluteDeadline
      /\ rest.claimInitiatedAt = vault[k].claimInitiatedAt
      /\ rest.claimRecipient = vault[k].claimRecipient
  BY <1>2, <1>3 DEF VaultRecords
<1>5. CASE amount = vault[k].balance /\ LeaveOpen(k, ended) /\ tally' = [tally EXCEPT !.closed = @ + 1]
  <2>1. ended \in VaultRecords /\ ended.balance = 0 /\ ended.state = STATE_CLOSED
    <3>1. taken \in VaultRecords /\ taken.balance = 0
      <4>1. taken \in VaultRecords
        BY <1>2, <1>4, ResetClockFacts
      <4>2. taken.balance = rest.balance
        BY <1>4 DEF ResetClock, VaultRecords
      <4> QED
        BY <1>3, <1>4, <1>5, <4>1, <4>2
    <3> HIDE DEF taken
    <3> QED
      BY <3>1, ZenonT(60) DEF WithoutClaim, VaultRecords, AnyAddress
  <2>2. Sound(ended, now)
    BY <2>1, EndIsSound
  <2>3. tally' \in [created : Nat, settled : Nat, closed : Nat]
    BY <1>5, TallyTyped DEF VaultsSound, VaultTypes
  <2> QED
    BY <1>1, <1>2, <1>5, <2>2, <2>3, LeaveOpenKeeps
<1>6. CASE /\ amount < vault[k].balance
           /\ Becomes(k, IF HorizonReached(k) THEN taken ELSE ClearPending(taken))
           /\ UNCHANGED <<openIds, tally>>
  <2>1. rest.balance \in Nat \ {0}
    BY <1>1, <1>3, <1>4, <1>6
  <2>2. Sound(rest, now)
    BY <1>2, <1>3, <1>4, <2>1, PartTakenIsSound
  <2> HIDE DEF rest
  <2>3. CASE HorizonReached(k)
    <3>1. Sound(taken, now)
      BY <1>2, <1>4, <2>2, <2>3, ResetPastHorizonIsSound DEF HorizonReached
    <3>2. Becomes(k, taken)
      BY <1>6, <2>3
    <3> QED
      BY <1>1, <1>2, <1>6, <3>1, <3>2, BecomesKeeps
  <2>4. CASE ~HorizonReached(k)
    <3>1. Sound(ClearPending(taken), now)
      BY <1>2, <1>4, <2>1, ResetAndClearIsSound, ClearAfterReset
    <3>2. Becomes(k, ClearPending(taken))
      BY <1>6, <2>4
    <3> QED
      BY <1>1, <1>2, <1>6, <3>1, <3>2, BecomesKeeps
  <2> QED
    BY <2>3, <2>4
<1> QED
  BY <1>1, <1>5, <1>6

\* finalizeClaim,
LEMMA FinalizeKeeps ==
  ASSUME VaultsSound, NEW k \in Keys, FinalizeClaim(k)
  PROVE  VaultsSound'
<1> DEFINE ended == [vault[k] EXCEPT !.balance = 0, !.state = STATE_SETTLED]
<1>1. /\ Pending(k) /\ LeaveOpen(k, ended)
      /\ tally' = [tally EXCEPT !.settled = @ + 1]
      /\ UNCHANGED <<now, vaultCount, creationPaused>>
  BY DEF FinalizeClaim
<1>2. Exists(k) /\ vault[k] \in VaultRecords
  BY <1>1, LiveFacts
<1>3. ended \in VaultRecords /\ ended.balance = 0 /\ ended.state = STATE_SETTLED
  BY <1>2 DEF VaultRecords
<1> HIDE DEF ended
<1>4. Sound(ended, now)
  BY <1>3, EndIsSound
<1>5. tally' \in [created : Nat, settled : Nat, closed : Nat]
  BY <1>1, TallyTyped DEF VaultsSound, VaultTypes
<1> QED
  BY <1>1, <1>2, <1>4, <1>5, LeaveOpenKeeps

\* the pause of creation,
LEMMA PauseKeeps ==
  ASSUME VaultsSound, NEW paused \in BOOLEAN, SetCreationPaused(paused)
  PROVE  VaultsSound'
BY DEF SetCreationPaused, VaultsSound, VaultTypes, ClockTypeOK, Exists

\* and the clock.
LEMMA TickKeeps ==
  ASSUME VaultsSound, TickStep
  PROVE  VaultsSound'
<1>1. now' = now + 1 /\ UNCHANGED vaultState
  BY DEF TickStep, Tick
<1>2. now \in Nat
  BY DEF VaultsSound, ClockTypeOK
<1>3. ClockTypeOK'
  BY MaxTimeAssumption DEF TickStep, Tick, VaultsSound, ClockTypeOK
<1>4. \A j \in Keys : Sound(vault'[j], now')
  BY <1>1, <1>2, SoundLater DEF vaultState, VaultsSound
<1> QED
  BY <1>1, <1>3, <1>4 DEF vaultState, VaultsSound, VaultTypes, Exists

\* The steps of the fee schedule and of the credit lane alone.
LEMMA ElsewhereKeeps ==
  ASSUME VaultsSound, now' = now, UNCHANGED vaultState
  PROVE  VaultsSound'
BY DEF vaultState, VaultsSound, VaultTypes, ClockTypeOK, Exists

-----------------------------------------------------------------------------
(* The contract runs the fee schedule.                                      *)

\* Every call of the contract is, for the fees, a step of FeeSchedule.
LEMMA FeeStep == [Next]_vars => [FeeNext]_feeVars
<1> SUFFICES ASSUME [Next]_vars PROVE [FeeNext]_feeVars
  OBVIOUS
<1> USE DEF feeVars
<1>1. CASE TickStep
  BY <1>1 DEF TickStep, FeeNext
<1>2. ASSUME NEW o \in Owners, CreationStep(o) \/ BatchStep(o)
      PROVE  UNCHANGED feeVars
  <2>1. CASE CreationStep(o)
    <3>1. now' = now /\ UNCHANGED feeState
      BY <2>1 DEF CreationStep, CreateVault
    <3> QED
      BY <3>1
  <2>2. CASE BatchStep(o)
    BY <2>2 DEF BatchStep, CheckInMany, OwnVaultOnly
  <2> QED
    BY <1>2, <2>1, <2>2
<1>3. ASSUME NEW k \in Keys, OwnerStep(k) \/ ChainStep(k)
      PROVE  UNCHANGED feeVars
  BY <1>3 DEF OwnerStep, AutomatedStep, DeliberateStep, ChainStep, CheckIn, AbortClaim,
              SetCheckInChain, SetCheckInChainFor, Withdraw, SetBeneficiary, SetInactivityPeriod,
              ExtendHorizon, CheckInByChain, OwnVaultOnly
<1>4. ASSUME NEW caller \in Heirs, NEW k \in Keys, HeirStep(caller, k)
      PROVE  UNCHANGED feeVars
  BY <1>4 DEF HeirStep, InitiateClaim, BeneficiaryCancelClaim, OwnVaultOnly
<1>5. CASE AdminStep
  <2>1. ASSUME NEW newBps \in FeeInputs, SetClaimFee(newBps) PROVE FeeNext
    BY <2>1 DEF FeeNext
  <2>2. ASSUME NEW newRecipient \in FeeRecipients, SetFeeRecipient(newRecipient) PROVE FeeNext
    BY <2>2, VaultAssumption DEF FeeNext
  <2>3. ASSUME NEW paused \in BOOLEAN, SetCreationPaused(paused) PROVE UNCHANGED feeVars
    BY <2>3 DEF SetCreationPaused
  <2>4. CASE SweepAction /\ UNCHANGED <<feeState, vaultState>>
    BY <2>4 DEF SweepAction, SweepSurplus
  <2> QED
    BY <1>5, <2>1, <2>2, <2>3, <2>4 DEF AdminStep
<1>6. CASE AnyoneStep
  <2>1. ASSUME NEW k \in Keys, FinalizeClaim(k) \/ TopUpStep(k) PROVE UNCHANGED feeVars
    BY <2>1 DEF FinalizeClaim, TopUpStep, TopUp
  <2>2. CASE ApplyClaimFee
    BY <2>2 DEF FeeNext
  <2>3. CASE GiftAction /\ UNCHANGED <<feeState, vaultState>>
    BY <2>3 DEF GiftAction, ForceFeed
  <2> QED
    BY <1>6, <2>1, <2>2, <2>3 DEF AnyoneStep
<1>7. CASE PayoutStep
  BY <1>7 DEF PayoutStep, CreditAction, WithdrawCredit, PushCredit, PayCredit
<1>8. CASE UNCHANGED vars
  BY <1>8 DEF vars
<1> QED
  BY <1>1, <1>2, <1>3, <1>4, <1>5, <1>6, <1>7, <1>8 DEF Next

\* Whatever the contract does, its fees behave as the fee schedule alone.
THEOREM FeesImplemented == Spec => FeeSpec
<1>1. Init => FeeInit
  BY DEF Init
<1> QED
  BY <1>1, FeeStep, PTL DEF Spec, FeeSpec

\* The notice period of a raise holds of the whole contract.
THEOREM ContractNoSurprise == Spec => NoSurpriseRaise
BY FeesImplemented, NoSurprise

-----------------------------------------------------------------------------
(* The invariant, put together.                                             *)

\* The contract begins with sound vaults.
LEMMA VaultsStart == Init => VaultsSound
<1> SUFFICES ASSUME Init PROVE VaultsSound
  OBVIOUS
<1>1. NoVault \in VaultRecords /\ NoVault.state = STATE_NONE /\ NoVault.balance = 0
  BY FeeAssumption, LaneAssumption DEF VaultRecords, NoVault, AnyAddress
<1> HIDE DEF NoVault
<1>2. Sound(NoVault, now)
  BY <1>1, StatesDiffer
     DEF Sound, SoundClock, SoundValue, SoundClaim, LiveStates,
         STATE_NONE, STATE_ACTIVE, STATE_CLAIM_PENDING
<1>3. ClockTypeOK
  BY MaxTimeAssumption DEF Init, FeeInit, ClockInit, ClockTypeOK
<1>4. VaultTypes
  <2>1. vault \in [Keys -> VaultRecords]
    BY <1>1 DEF Init
  <2>2. vaultCount \in [Owners -> 0..MaxVaults] /\ creationPaused \in BOOLEAN
    <3>1. vaultCount = [o \in Owners |-> 0] /\ 0 \in 0..MaxVaults
      BY DEF Init
    <3>2. creationPaused = FALSE
      BY DEF Init
    <3> QED
      BY <3>1, <3>2
  <2>3. openIds \in [Owners -> Seq(VaultIds)]
    <3>1. <<>> \in Seq(VaultIds)
      OBVIOUS
    <3> QED
      BY <3>1 DEF Init
  <2>4. tally \in [created : Nat, settled : Nat, closed : Nat]
    <3>1. tally = [created |-> 0, settled |-> 0, closed |-> 0]
      BY DEF Init
    <3> QED
      BY <3>1
  <2> QED
    BY <2>1, <2>2, <2>3, <2>4 DEF VaultTypes
<1> QED
  BY <1>1, <1>2, <1>3, <1>4 DEF Init, VaultsSound

\* Every step of the contract keeps the vaults sound.
LEMMA VaultStepKeeps ==
  ASSUME VaultsSound, FeeTypeOK, [Next]_vars
  PROVE  VaultsSound'
<1>1. CASE TickStep
  BY <1>1, TickKeeps
<1>2. ASSUME NEW o \in Owners, CreationStep(o) \/ BatchStep(o)
      PROVE  VaultsSound'
  <2>1. CASE CreationStep(o)
    <3>1. PICK t \in Tokens, amount \in Deposits, beneficiary \in Heirs,
               period \in MIN_INACTIVITY..MAX_INACTIVITY,
               window \in MIN_CHALLENGE..MAX_CHALLENGE, horizon \in Dates :
            \E arrived \in Arrivals(amount) :
              CreateVault(o, t, amount, arrived, beneficiary, period, window, horizon)
      BY <2>1 DEF CreationStep
    <3>2. PICK arrived \in Arrivals(amount) :
            CreateVault(o, t, amount, arrived, beneficiary, period, window, horizon)
      BY <3>1
    <3> QED
      BY <3>2, CreateVaultKeeps
  <2>2. CASE BatchStep(o)
    BY <2>2, CheckInManyKeeps DEF BatchStep
  <2> QED
    BY <1>2, <2>1, <2>2
<1>3. ASSUME NEW k \in Keys, OwnerStep(k) \/ ChainStep(k)
      PROVE  VaultsSound'
  <2>1. CASE AutomatedStep(k)
    BY <2>1, CheckInKeeps, AbortKeeps DEF AutomatedStep
  <2>2. ASSUME NEW anchor \in Links \cup {NoValue}, NEW count \in 0..MAX_HB_COUNT,
               \/ SetCheckInChain(k, anchor, count)
               \/ \E epoch \in 1..MaxEpoch : SetCheckInChainFor(k, anchor, count, epoch)
        PROVE  VaultsSound'
    <3>1. SetCheckInChain(k, anchor, count)
      BY <2>2 DEF SetCheckInChainFor
    <3> QED
      BY <3>1, SetCheckInChainKeeps
  <2>3. ASSUME NEW to \in Recipients, NEW amount \in 1..vault[k].balance, Withdraw(k, amount, to)
        PROVE  VaultsSound'
    BY <2>3, WithdrawKeeps
  <2>4. ASSUME NEW newBeneficiary \in Heirs, SetBeneficiary(k, newBeneficiary)
        PROVE  VaultsSound'
    BY <2>4, SetBeneficiaryKeeps
  <2>5. ASSUME NEW newPeriod, SetInactivityPeriod(k, newPeriod)
        PROVE  VaultsSound'
    BY <2>5, SetInactivityPeriodKeeps
  <2>6. ASSUME NEW newHorizon \in Dates, ExtendHorizon(k, newHorizon)
        PROVE  VaultsSound'
    BY <2>6, ExtendHorizonKeeps
  <2>7. CASE ChainStep(k)
    BY <2>7, CheckInByChainKeeps DEF ChainStep
  <2> QED
    BY <1>3, <2>1, <2>2, <2>3, <2>4, <2>5, <2>6, <2>7 DEF OwnerStep, DeliberateStep
<1>4. ASSUME NEW caller \in Heirs, NEW k \in Keys, HeirStep(caller, k)
      PROVE  VaultsSound'
  BY <1>4, ClaimKeeps, CancelKeeps DEF HeirStep
<1>5. CASE AdminStep
  <2>1. CASE /\ \/ \E newBps \in FeeInputs : SetClaimFee(newBps)
                \/ \E newRecipient \in FeeRecipients : SetFeeRecipient(newRecipient)
             /\ UNCHANGED <<lanes, vaultState>>
    <3>1. now' = now /\ UNCHANGED vaultState
      BY <2>1 DEF SetClaimFee, SetFeeRecipient
    <3> QED
      BY <3>1, ElsewhereKeeps
  <2>2. CASE SweepAction /\ UNCHANGED <<feeState, vaultState>>
    <3>1. now' = now /\ UNCHANGED vaultState
      BY <2>2 DEF SweepAction, SweepSurplus
    <3> QED
      BY <3>1, ElsewhereKeeps
  <2> QED
    BY <1>5, <2>1, <2>2, PauseKeeps DEF AdminStep
<1>6. CASE AnyoneStep
  <2>1. ASSUME NEW k \in Keys, FinalizeClaim(k) PROVE VaultsSound'
    BY <2>1, FinalizeKeeps
  <2>2. ASSUME NEW k \in Keys, TopUpStep(k) PROVE VaultsSound'
    BY <2>2, TopUpKeeps DEF TopUpStep
  <2>3. CASE ApplyClaimFee /\ UNCHANGED <<lanes, vaultState>>
    <3>1. now' = now /\ UNCHANGED vaultState
      BY <2>3 DEF ApplyClaimFee
    <3> QED
      BY <3>1, ElsewhereKeeps
  <2>4. CASE GiftAction /\ UNCHANGED <<feeState, vaultState>>
    <3>1. now' = now /\ UNCHANGED vaultState
      BY <2>4 DEF GiftAction, ForceFeed
    <3> QED
      BY <3>1, ElsewhereKeeps
  <2> QED
    BY <1>6, <2>1, <2>2, <2>3, <2>4 DEF AnyoneStep
<1>7. CASE PayoutStep
  <2>1. now' = now /\ UNCHANGED vaultState
    BY <1>7 DEF PayoutStep, CreditAction, WithdrawCredit, PushCredit, PayCredit
  <2> QED
    BY <2>1, ElsewhereKeeps
<1>8. CASE UNCHANGED vars
  BY <1>8, ElsewhereKeeps DEF vars
<1> QED
  BY <1>1, <1>2, <1>3, <1>4, <1>5, <1>6, <1>7, <1>8 DEF Next

\* The inductive invariant of the vaults.
LEMMA VaultsStaySound == Spec => []VaultsSound
<1>1. VaultsSound /\ FeeTypeOK /\ [Next]_vars => VaultsSound'
  BY VaultStepKeeps
<1> QED
  BY <1>1, VaultsStart, FeesImplemented, FeeTypeCorrect, PTL DEF Spec

-----------------------------------------------------------------------------
(* What it says.                                                            *)

\* No vault's deadline is ever later than a check-in would put it now, or past
\* its horizon: whatever the owner does to period and horizon, in any order.
THEOREM DeadlineStaysWithinReach == Spec => []DeadlineWithinReach
<1>1. VaultsSound => DeadlineWithinReach
  BY DEF VaultsSound, DeadlineWithinReach, Sound, SoundClock, NextDeadline, Live, LiveStates
<1> QED
  BY <1>1, VaultsStaySound, PTL

\* A pending claim stands on a deadline that has lapsed.
THEOREM ClaimsStandOnSilence == Spec => []PendingStaysExpired
<1>1. VaultsSound => PendingStaysExpired
  BY DEF VaultsSound, PendingStaysExpired, Sound, SoundClaim, Pending
<1> QED
  BY <1>1, VaultsStaySound, PTL

\* A claim's start and recipient exist only while it is pending.
THEOREM ClaimFieldsFollowState == Spec => []ClaimFieldsMatchState
<1>1. VaultsSound => ClaimFieldsMatchState
  BY DEF VaultsSound, ClaimFieldsMatchState, Sound, SoundClaim, Pending, Active
<1> QED
  BY <1>1, VaultsStaySound, PTL

\* A vault holds value exactly while it is live.
THEOREM ValueOnlyInLiveVaults == Spec => []OnlyLiveVaultsHoldValue
<1>1. VaultsSound => OnlyLiveVaultsHoldValue
  BY StatesDiffer DEF VaultsSound, OnlyLiveVaultsHoldValue, Sound, SoundValue, Live, LiveStates
<1> QED
  BY <1>1, VaultsStaySound, PTL

-----------------------------------------------------------------------------
(* The contract keeps custody as the credit lane.                           *)

\* A part of n, in basis points below the whole, is less than n.
LEMMA PartIsLess ==
  ASSUME NEW n \in Nat \ {0}, NEW rate \in Nat, NEW whole \in Nat, rate < whole
  PROVE  (n * rate) \div whole \in 0..(n - 1)
<1> DEFINE p == n * rate
           q == p \div whole
<1>1. p \in Nat /\ p < n * whole
  OBVIOUS
<1>2. whole \in Nat \ {0} /\ n * whole \in Nat
  OBVIOUS
<1> HIDE DEF p
<1>3. q \in Nat /\ whole * q <= p
  BY <1>1, <1>2
<1> HIDE DEF q
<1>4. q < n
  <2>1. SUFFICES ASSUME q >= n PROVE FALSE
    BY <1>3
  <2>2. whole * q >= whole * n
    BY <1>2, <1>3, <2>1
  <2>3. whole * n = n * whole
    BY <1>2
  <2> QED
    BY <1>1, <1>2, <1>3, <2>2, <2>3
<1> QED
  BY <1>3, <1>4 DEF p, q

\* The fee of a settlement leaves the heir something, and is owed to an
\* account when it is not zero.
LEMMA FeeIsPart ==
  ASSUME FeeTypeOK, NEW v \in VaultRecords, v.balance > 0
  PROVE  /\ SettlementFee(v) \in 0..(v.balance - 1)
         /\ SettlementFee(v) # 0 => feeRecipient \in Accounts
<1>1. v.balance \in Nat \ {0} /\ v.lockedFeeBps \in 0..MAX_CLAIM_FEE_BPS
  BY DEF VaultRecords
<1>2. ClaimFeeBps \in 0..MAX_CLAIM_FEE_BPS
  BY DEF ClaimFeeBps, RateAt, FeeTypeOK
<1> DEFINE rate == Smaller(v.lockedFeeBps, ClaimFeeBps)
<1>3. rate \in Nat /\ rate < BPS_DENOMINATOR
  BY <1>1, <1>2, FeeAssumption, VaultAssumption DEF Smaller
<1> HIDE DEF rate
<1>4. (v.balance * rate) \div BPS_DENOMINATOR \in 0..(v.balance - 1)
  BY <1>1, <1>3, PartIsLess, VaultAssumption
<1>5. SettlementFee(v) = IF RecipientInForce THEN (v.balance * rate) \div BPS_DENOMINATOR ELSE 0
  BY DEF SettlementFee, rate
<1>6. RecipientInForce => feeRecipient \in Accounts
  BY DEF RecipientInForce, RecipientActive, FeeTypeOK
<1> QED
  BY <1>1, <1>4, <1>5, <1>6

\* What the vaults put in and take out are steps of the lane.
LEMMA DepositStep ==
  ASSUME NEW t \in Tokens, NEW amount \in Deposits, NEW arrived \in Arrivals(amount),
         Deposit(t, amount, arrived), now' = now
  PROVE  LaneNext
<1>1. arrived \in {amount} \cup 1..(amount - 1) \cup {amount + g : g \in Gifts}
  <2>1. CASE arrived \in 1..amount
    <3>1. amount \in Nat
      BY LaneAssumption
    <3> QED
      BY <2>1, <3>1
  <2>2. CASE arrived \in {amount + g : g \in Gifts}
    BY <2>2
  <2> QED
    BY <2>1, <2>2 DEF Arrivals
<1> QED
  BY <1>1 DEF LaneNext, DepositAction

\* What a call pays out of a vault is a release of the lane.
LEMMA ReleaseStep ==
  ASSUME LaneTypeOK, NEW t \in Tokens, NEW to \in Accounts, NEW feeTo, NEW balance \in Nat \ {0},
         NEW fee \in 0..(balance - 1), fee # 0 => feeTo \in Accounts,
         Release(t, to, balance - fee, feeTo, fee), now' = now
  PROVE  LaneNext
<1> DEFINE payee == IF fee = 0 THEN to ELSE feeTo
<1>1. payee \in Accounts
  OBVIOUS
<1>2. Release(t, to, balance - fee, payee, fee)
  BY DEF Release
<1>3. balance \in 1..totalLocked[t]
  <2>1. (balance - fee) + fee <= totalLocked[t] /\ totalLocked[t] \in Nat
    BY DEF Release, LaneTypeOK
  <2> QED
    BY <2>1
<1> HIDE DEF payee
<1> QED
  BY <1>1, <1>2, <1>3 DEF LaneNext, ReleaseAction

\* withdraw releases what is taken out;
LEMMA WithdrawIsRelease ==
  ASSUME VaultsSound, LaneTypeOK, NEW k \in Keys, NEW to \in Recipients, NEW amount,
         Withdraw(k, amount, to)
  PROVE  LaneNext
<1>1. /\ to \in Accounts
      /\ amount \in 1..vault[k].balance
      /\ Release(vault[k].token, to, amount, NoOne, 0)
      /\ now' = now
  BY VaultAssumption DEF Withdraw, PayeeAllowed, AnyAddress, Payable
<1>2. vault[k].token \in Tokens /\ vault[k].balance \in Nat
  BY LiveFacts DEF VaultRecords
<1>3. amount \in Nat \ {0} /\ 0 \in 0..(amount - 1) /\ amount - 0 = amount
  BY <1>1, <1>2
<1> QED
  BY <1>1, <1>2, <1>3, ReleaseStep

\* finalizeClaim the payee's part and the fee.
LEMMA FinalizeIsRelease ==
  ASSUME VaultsSound, FeeTypeOK, LaneTypeOK, NEW k \in Keys, FinalizeClaim(k)
  PROVE  LaneNext
<1> DEFINE fee == SettlementFee(vault[k])
<1>1. /\ Pending(k)
      /\ Release(vault[k].token, vault[k].claimRecipient, vault[k].balance - fee, feeRecipient, fee)
      /\ now' = now
  BY DEF FinalizeClaim
<1>2. /\ vault[k] \in VaultRecords
      /\ vault[k].token \in Tokens /\ vault[k].balance \in Nat \ {0}
      /\ vault[k].claimRecipient \in Accounts
  <2>1. vault[k] \in VaultRecords /\ Sound(vault[k], now) /\ vault[k].state = STATE_CLAIM_PENDING
    BY <1>1, LiveFacts
  <2> QED
    BY <2>1 DEF Sound, SoundValue, SoundClaim, LiveStates, VaultRecords
<1>3. fee \in 0..(vault[k].balance - 1) /\ (fee # 0 => feeRecipient \in Accounts)
  BY <1>2, FeeIsPart
<1> HIDE DEF fee
<1> QED
  BY <1>1, <1>2, <1>3, ReleaseStep

\* Every call of the contract is, for the tokens, a step of CreditLane.
LEMMA LaneStep ==
  ASSUME VaultsSound, FeeTypeOK, LaneTypeOK, [Next]_vars
  PROVE  [LaneNext]_laneVars
<1> USE DEF laneVars
<1>1. CASE TickStep
  BY <1>1 DEF TickStep, LaneNext
<1>2. ASSUME NEW o \in Owners, CreationStep(o)
      PROVE  LaneNext
  <2>1. PICK t \in Tokens, amount \in Deposits, beneficiary \in Heirs,
             period \in MIN_INACTIVITY..MAX_INACTIVITY,
             window \in MIN_CHALLENGE..MAX_CHALLENGE, horizon \in Dates :
          \E arrived \in Arrivals(amount) :
            CreateVault(o, t, amount, arrived, beneficiary, period, window, horizon)
    BY <1>2 DEF CreationStep
  <2>2. PICK arrived \in Arrivals(amount) :
          CreateVault(o, t, amount, arrived, beneficiary, period, window, horizon)
    BY <2>1
  <2>3. Deposit(t, amount, arrived) /\ now' = now
    BY <2>2 DEF CreateVault
  <2> QED
    BY <2>3, DepositStep
<1>3. ASSUME NEW k \in Keys, TopUpStep(k)
      PROVE  LaneNext
  <2>0. PICK amount \in Deposits : \E arrived \in Arrivals(amount) : TopUp(k, amount, arrived)
    BY <1>3 DEF TopUpStep
  <2>1. PICK arrived \in Arrivals(amount) : TopUp(k, amount, arrived)
    BY <2>0
  <2>2. Deposit(vault[k].token, amount, arrived) /\ now' = now
    BY <2>1 DEF TopUp
  <2>3. vault[k].token \in Tokens
    BY LiveFacts DEF VaultRecords
  <2> QED
    BY <2>2, <2>3, DepositStep
<1>4. ASSUME NEW k \in Keys, OwnerStep(k) \/ ChainStep(k)
      PROVE  LaneNext \/ UNCHANGED laneVars
  <2>1. ASSUME NEW to \in Recipients, NEW amount \in 1..vault[k].balance, Withdraw(k, amount, to)
        PROVE  LaneNext
    BY <2>1, WithdrawIsRelease
  <2>2. CASE AutomatedStep(k) \/ ChainStep(k)
    BY <2>2 DEF AutomatedStep, ChainStep, CheckIn, AbortClaim, CheckInByChain, OwnVaultOnly
  <2>3. CASE DeliberateStep(k)
    BY <2>1, <2>3 DEF DeliberateStep, SetCheckInChain, SetCheckInChainFor, SetBeneficiary,
                      SetInactivityPeriod, ExtendHorizon, OwnVaultOnly
  <2> QED
    BY <1>4, <2>2, <2>3 DEF OwnerStep
<1>5. ASSUME NEW o \in Owners, BatchStep(o)
      PROVE  UNCHANGED laneVars
  BY <1>5 DEF BatchStep, CheckInMany, OwnVaultOnly
<1>6. ASSUME NEW caller \in Heirs, NEW k \in Keys, HeirStep(caller, k)
      PROVE  UNCHANGED laneVars
  BY <1>6 DEF HeirStep, InitiateClaim, BeneficiaryCancelClaim, OwnVaultOnly
<1>7. CASE AdminStep
  <2>1. CASE /\ \/ \E newBps \in FeeInputs : SetClaimFee(newBps)
                \/ \E newRecipient \in FeeRecipients : SetFeeRecipient(newRecipient)
             /\ UNCHANGED <<lanes, vaultState>>
    BY <2>1 DEF SetClaimFee, SetFeeRecipient
  <2>2. ASSUME NEW paused \in BOOLEAN, SetCreationPaused(paused) PROVE UNCHANGED laneVars
    BY <2>2 DEF SetCreationPaused
  <2>3. CASE SweepAction
    BY <2>3 DEF LaneNext
  <2> QED
    BY <1>7, <2>1, <2>2, <2>3 DEF AdminStep
<1>8. CASE AnyoneStep
  <2>1. ASSUME NEW k \in Keys, FinalizeClaim(k) PROVE LaneNext
    BY <2>1, FinalizeIsRelease
  <2>2. CASE ApplyClaimFee /\ UNCHANGED <<lanes, vaultState>>
    BY <2>2 DEF ApplyClaimFee
  <2>3. CASE GiftAction
    BY <2>3 DEF LaneNext
  <2> QED
    BY <1>3, <1>8, <2>1, <2>2, <2>3 DEF AnyoneStep
<1>9. CASE PayoutStep
  BY <1>9 DEF PayoutStep, LaneNext
<1>10. CASE UNCHANGED vars
  BY <1>10 DEF vars
<1> QED
  BY <1>1, <1>2, <1>4, <1>5, <1>6, <1>7, <1>8, <1>9, <1>10 DEF Next

\* The contract's steps need the lane's types to be the lane's steps, and so
\* the two are kept together.
LEMMA LanesStayTyped == Spec => [](LaneTypeOK /\ LanesBacked)
<1>1. Init => LaneTypeOK /\ LanesBacked
  BY LaneStart DEF Init
<1>2. VaultsSound /\ FeeTypeOK /\ (LaneTypeOK /\ LanesBacked) /\ [Next]_vars
        => (LaneTypeOK /\ LanesBacked)'
  BY LaneStep, LaneStepKeeps
<1> QED
  BY <1>1, <1>2, VaultsStaySound, FeesImplemented, FeeTypeCorrect, PTL DEF Spec

\* Every function of the contract, whatever it does to a vault, takes a step of
\* CreditLane or none: custody has no other way to change.
THEOREM CustodyIsCreditLane == Spec => CustodyImplemented
<1>1. Init => LaneInit
  BY DEF Init
<1>2. VaultsSound /\ FeeTypeOK /\ LaneTypeOK /\ [Next]_vars => [LaneNext]_laneVars
  BY LaneStep
<1> QED
  BY <1>1, <1>2, VaultsStaySound, LanesStayTyped, FeesImplemented, FeeTypeCorrect, PTL
     DEF Spec, LaneSpec, CustodyImplemented

\* The contract is solvent in every asset: vaults, claims and fees included.
THEOREM ContractSolvency == Spec => []LanesBacked
BY LanesStayTyped, PTL

\* No function of the contract credits an address that could not be paid, be
\* it a claim's recipient, a withdrawal's destination or the fee recipient.
THEOREM ContractStrandsNoCredit == Spec => []NoStrandedCredit
BY CustodyIsCreditLane, NoCreditStranded DEF CustodyImplemented

\* A credit and its grace exist together in the whole contract.
THEOREM ContractGraceRuns == Spec => []GraceRunsWhileOwed
BY CustodyIsCreditLane, GraceRuns DEF CustodyImplemented

\* Types of the whole state.
THEOREM ContractTypeCorrect == Spec => []TypeOK
<1>1. VaultsSound /\ FeeTypeOK /\ LaneTypeOK => TypeOK
  BY DEF TypeOK, VaultsSound, VaultTypes
<1> QED
  BY <1>1, VaultsStaySound, FeesImplemented, FeeTypeCorrect, LanesStayTyped, PTL

-----------------------------------------------------------------------------
(* The veto cannot be looped.                                               *)

\* What a claim that was ended by an action of the renewing kind leaves.
LEMMA RenewedCoolsDown ==
  ASSUME VaultsSound, NEW k \in Keys, Pending(k), NEW w \in VaultRecords,
         w.state = STATE_CLAIM_PENDING, w.inactivityPeriod \in Nat \ {0}, w.absoluteDeadline > now,
         Becomes(k, ResetClock(ClearPending(w)))
  PROVE  vault'[k].deadline > now
<1>1. now \in Nat /\ w.absoluteDeadline \in Nat
  BY LiveFacts DEF VaultRecords
<1>2. vault'[k] = ResetClock(WithoutClaim(w))
  BY DEF Becomes, ClearPending, VaultsSound, VaultTypes
<1>3. /\ WithoutClaim(w) \in VaultRecords
      /\ WithoutClaim(w).inactivityPeriod = w.inactivityPeriod
      /\ WithoutClaim(w).absoluteDeadline = w.absoluteDeadline
  BY DEF WithoutClaim, VaultRecords, AnyAddress
<1>4. vault'[k].deadline = Smaller(now + w.inactivityPeriod, w.absoluteDeadline)
  BY <1>1, <1>2, <1>3, ResetClockFacts DEF NextDeadline
<1> QED
  BY <1>1, <1>4 DEF Smaller

\* An act that ends a claim lets none follow at once; at the horizon, none for a period.
LEMMA DisplacedCools ==
  ASSUME VaultsSound, NEW k \in Keys, Pending(k), OwnerStep(k), vault'[k].state = STATE_ACTIVE
  PROVE  /\ vault'[k].deadline > now
         /\ HorizonReached(k) => vault'[k].deadline = now + vault[k].inactivityPeriod
<1>1. /\ now \in Nat /\ vault[k] \in VaultRecords /\ vault[k].state = STATE_CLAIM_PENDING
      /\ Live(k) /\ ~Active(k)
      /\ vault[k].inactivityPeriod \in Nat \ {0} /\ vault[k].absoluteDeadline \in Nat
  <2>1. /\ now \in Nat /\ vault[k] \in VaultRecords /\ vault[k].state = STATE_CLAIM_PENDING
        /\ Live(k) /\ ~Active(k)
    BY LiveFacts, StatesDiffer DEF Live, Pending, Active
  <2> QED
    BY <2>1, LiveFacts DEF VaultRecords
<1>2. ~CheckIn(k)
  BY <1>1 DEF CheckIn
<1>3. ~HorizonReached(k) => vault[k].absoluteDeadline > now
  BY <1>1 DEF HorizonReached
<1>4. CASE AbortClaim(k)
  <2>1. ~HorizonReached(k) /\ Becomes(k, ResetClock(ClearPending(vault[k])))
    BY <1>1, <1>4 DEF AbortClaim, ClearPending
  <2> QED
    BY <1>1, <1>3, <2>1, RenewedCoolsDown
<1>5. ASSUME NEW anchor \in Links \cup {NoValue}, NEW count \in 0..MAX_HB_COUNT,
             SetCheckInChain(k, anchor, count)
      PROVE  ~HorizonReached(k) /\ vault'[k].deadline > now
  <2> DEFINE w == [vault[k] EXCEPT !.hbEpoch = @ + 1, !.hbAnchor = anchor, !.hbLeft = count]
  <2>1. ~HorizonReached(k) /\ Becomes(k, ResetClock(ClearPending(w)))
    BY <1>5 DEF SetCheckInChain
  <2>2. w \in VaultRecords
    <3>1. vault[k].hbEpoch + 1 \in Nat /\ count \in Nat
      BY <1>1 DEF VaultRecords
    <3> QED
      BY <1>1, <3>1, ChainTyped
  <2>3. /\ w.state = vault[k].state /\ w.inactivityPeriod = vault[k].inactivityPeriod
        /\ w.absoluteDeadline = vault[k].absoluteDeadline
    BY <1>1 DEF VaultRecords
  <2> HIDE DEF w
  <2> QED
    BY <1>1, <1>3, <2>1, <2>2, <2>3, RenewedCoolsDown
<1>6. ASSUME NEW to \in Recipients, NEW amount \in 1..vault[k].balance, Withdraw(k, amount, to)
      PROVE  ~HorizonReached(k) /\ vault'[k].deadline > now
  <2> DEFINE rest == [vault[k] EXCEPT !.balance = @ - amount]
             taken == ResetClock(rest)
  <2>1. /\ rest \in VaultRecords /\ rest.state = STATE_CLAIM_PENDING
        /\ rest.inactivityPeriod = vault[k].inactivityPeriod
        /\ rest.absoluteDeadline = vault[k].absoluteDeadline
    <3>1. vault[k].balance - amount \in Nat
      BY <1>1 DEF VaultRecords
    <3> QED
      BY <1>1, <3>1 DEF VaultRecords
  <2>2. \/ LeaveOpen(k, [WithoutClaim(taken) EXCEPT !.state = STATE_CLOSED])
        \/ Becomes(k, IF HorizonReached(k) THEN taken ELSE ClearPending(taken))
    BY <1>6 DEF Withdraw
  <2> HIDE DEF rest
  <2>3. CASE LeaveOpen(k, [WithoutClaim(taken) EXCEPT !.state = STATE_CLOSED])
    <3> DEFINE ended == [WithoutClaim(taken) EXCEPT !.state = STATE_CLOSED]
    <3>1. ended.state = STATE_CLOSED
      BY <2>1, ResetClockFacts DEF WithoutClaim, VaultRecords
    <3>2. vault'[k] = ended
      BY <2>3 DEF LeaveOpen, VaultsSound, VaultTypes
    <3> QED
      BY <3>1, <3>2 DEF STATE_CLOSED, STATE_ACTIVE
  <2>4. CASE Becomes(k, IF HorizonReached(k) THEN taken ELSE ClearPending(taken))
    <3>1. taken.state = STATE_CLAIM_PENDING
      BY <1>1, <2>1, ResetClockFacts
    <3>2. ~HorizonReached(k)
      <4>1. HorizonReached(k) => vault'[k] = taken
        BY <2>4 DEF Becomes, VaultsSound, VaultTypes
      <4> QED
        BY <3>1, <4>1, StatesDiffer
    <3>3. Becomes(k, ResetClock(ClearPending(rest)))
      BY <1>1, <2>1, <2>4, <3>2, ClearAfterReset
    <3> QED
      BY <1>1, <1>3, <2>1, <3>2, <3>3, RenewedCoolsDown
  <2> QED
    BY <2>2, <2>3, <2>4
<1>7. ASSUME NEW newBeneficiary \in Heirs, SetBeneficiary(k, newBeneficiary)
      PROVE  ~HorizonReached(k) /\ vault'[k].deadline > now
  <2> DEFINE w == [vault[k] EXCEPT !.beneficiary = newBeneficiary]
  <2>1. ~HorizonReached(k) /\ Becomes(k, ResetClock(ClearPending(w)))
    BY <1>7 DEF SetBeneficiary, MayClearPending
  <2>2. /\ w \in VaultRecords
        /\ w.state = vault[k].state /\ w.inactivityPeriod = vault[k].inactivityPeriod
        /\ w.absoluteDeadline = vault[k].absoluteDeadline
    BY <1>1, VaultAssumption DEF VaultRecords
  <2> HIDE DEF w
  <2> QED
    BY <1>1, <1>3, <2>1, <2>2, RenewedCoolsDown
<1>8. ASSUME NEW newPeriod, SetInactivityPeriod(k, newPeriod)
      PROVE  ~HorizonReached(k) /\ vault'[k].deadline > now
  <2> DEFINE w == [vault[k] EXCEPT !.inactivityPeriod = newPeriod]
  <2>1. /\ ~HorizonReached(k) /\ Becomes(k, ResetClock(ClearPending(w)))
        /\ newPeriod \in Nat \ {0}
    BY <1>8 DEF SetInactivityPeriod, MayClearPending
  <2>2. /\ w \in VaultRecords
        /\ w.state = vault[k].state /\ w.inactivityPeriod = newPeriod
        /\ w.absoluteDeadline = vault[k].absoluteDeadline
    BY <1>1, <2>1 DEF VaultRecords
  <2> HIDE DEF w
  <2> QED
    BY <1>1, <1>3, <2>1, <2>2, RenewedCoolsDown
<1>9. ASSUME NEW newHorizon \in Dates, ExtendHorizon(k, newHorizon)
      PROVE  vault'[k].deadline > now /\ vault'[k].deadline = now + vault[k].inactivityPeriod
  <2> DEFINE w == [vault[k] EXCEPT !.absoluteDeadline = newHorizon]
  <2>1. /\ Becomes(k, ResetClock(ClearPending(w)))
        /\ newHorizon >= now + vault[k].inactivityPeriod /\ newHorizon \in Nat
    BY <1>9, MaxTimeAssumption DEF ExtendHorizon, Dates
  <2>2. /\ w \in VaultRecords
        /\ w.state = vault[k].state /\ w.inactivityPeriod = vault[k].inactivityPeriod
        /\ w.absoluteDeadline = newHorizon
    BY <1>1, <2>1 DEF VaultRecords
  <2> HIDE DEF w
  <2>3. /\ WithoutClaim(w) \in VaultRecords
        /\ WithoutClaim(w).inactivityPeriod = vault[k].inactivityPeriod
        /\ WithoutClaim(w).absoluteDeadline = newHorizon
    BY <2>2 DEF WithoutClaim, VaultRecords, AnyAddress
  <2>4. vault'[k] = ResetClock(WithoutClaim(w))
    BY <1>1, <2>1, <2>2 DEF Becomes, ClearPending, VaultsSound, VaultTypes
  <2>5. vault'[k].deadline = Smaller(now + vault[k].inactivityPeriod, newHorizon)
    BY <1>1, <2>3, <2>4, ResetClockFacts DEF NextDeadline
  <2> QED
    BY <1>1, <2>1, <2>5 DEF Smaller
<1>10. CASE DeliberateStep(k)
  BY <1>5, <1>6, <1>7, <1>8, <1>9, <1>10 DEF DeliberateStep, SetCheckInChainFor
<1> QED
  BY <1>2, <1>3, <1>4, <1>10 DEF OwnerStep, AutomatedStep, AbortClaim

\* An owner who ends a claim and keeps the vault is where one who checked in
\* is: the deadline lies ahead and the heir waits for a new silence; past the
\* horizon, where only extendHorizon can do it, for a whole inactivity period.
THEOREM VetoLeavesCoolDown == Spec => DisplacedClaimCoolsDown
<1>1. VaultsSound /\ [Next]_vars =>
        [\A k \in Keys :
            (Pending(k) /\ OwnerStep(k) /\ vault'[k].state = STATE_ACTIVE) =>
                /\ vault'[k].deadline > now
                /\ HorizonReached(k) => vault'[k].deadline = now + vault[k].inactivityPeriod]_vars
  BY DisplacedCools
<1> QED
  BY <1>1, VaultsStaySound, PTL DEF Spec, DisplacedClaimCoolsDown

-----------------------------------------------------------------------------
(* What a step makes of one vault.                                          *)

\* Two vaults that differ at most in their slot on the open list.
SameButSlot(v, w) == w = [v EXCEPT !.openIndex = w.openIndex]

\* Vaults with the same fields are the same but for the slot.
LEMMA SameFields ==
  ASSUME NEW v \in VaultRecords, NEW w, SameButSlot(v, w)
  PROVE  /\ w.state = v.state /\ w.feeBps = v.feeBps /\ w.beneficiary = v.beneficiary
         /\ w.deadline = v.deadline /\ w.inactivityPeriod = v.inactivityPeriod
         /\ w.token = v.token /\ w.absoluteDeadline = v.absoluteDeadline
         /\ w.challengeWindow = v.challengeWindow /\ w.balance = v.balance
         /\ w.claimInitiatedAt = v.claimInitiatedAt /\ w.claimRecipient = v.claimRecipient
         /\ w.lockedFeeBps = v.lockedFeeBps /\ w.hbAnchor = v.hbAnchor
         /\ w.hbLeft = v.hbLeft /\ w.hbEpoch = v.hbEpoch
BY DEF SameButSlot, VaultRecords

\* A vault is the same as itself.
LEMMA SameOfItself ==
  ASSUME NEW v \in VaultRecords
  PROVE  SameButSlot(v, v)
BY DEF SameButSlot, VaultRecords

\* What becomes of the vault a call is about.
LEMMA BecomesIs ==
  ASSUME VaultsSound, NEW k \in Keys, NEW w, Becomes(k, w), NEW j \in Keys
  PROVE  vault'[j] = IF j = k THEN w ELSE vault[j]
BY DEF Becomes, VaultsSound, VaultTypes

\* A vault that leaves the list is as it was.
LEMMA LeaveOpenIs ==
  ASSUME VaultsSound, NEW k \in Keys, NEW w, LeaveOpen(k, w), NEW j \in Keys
  PROVE  /\ j = k => vault'[j] = w
         /\ j # k => SameButSlot(vault[j], vault'[j])
<1> DEFINE moved == [vault[MovedKey(k)] EXCEPT !.openIndex =
                        IF MovedKey(k) = k THEN @ ELSE vault[k].openIndex]
<1>1. vault' = [[vault EXCEPT ![MovedKey(k)] = moved] EXCEPT ![k] = w]
  BY DEF LeaveOpen
<1>2. vault[j] \in VaultRecords /\ DOMAIN vault = Keys
  BY DEF VaultsSound, VaultTypes
<1>3. CASE j = k
  BY <1>1, <1>2, <1>3
<1>4. CASE j # k /\ j = MovedKey(k)
  <2>1. vault'[j] = [vault[j] EXCEPT !.openIndex = vault[k].openIndex]
    BY <1>1, <1>2, <1>4
  <2> QED
    BY <1>2, <1>4, <2>1 DEF SameButSlot, VaultRecords
<1>5. CASE j # k /\ j # MovedKey(k)
  <2>1. vault'[j] = vault[j]
    BY <1>1, <1>2, <1>5
  <2> QED
    BY <1>2, <1>5, <2>1, SameOfItself
<1> QED
  BY <1>3, <1>4, <1>5

\* What an owner's action that sets the clock and ends a claim leaves of x.
LEMMA RenewedFields ==
  ASSUME now \in Nat, NEW x \in VaultRecords, NEW w, w = ResetClock(ClearPending(x))
  PROVE  /\ w.state = IF x.state = STATE_CLAIM_PENDING THEN STATE_ACTIVE ELSE x.state
         /\ w.deadline = Smaller(now + x.inactivityPeriod, x.absoluteDeadline)
         /\ w.claimInitiatedAt = IF x.state = STATE_CLAIM_PENDING THEN 0 ELSE x.claimInitiatedAt
         /\ w.claimRecipient = IF x.state = STATE_CLAIM_PENDING THEN NoOne ELSE x.claimRecipient
         /\ w.openIndex = x.openIndex /\ w.feeBps = x.feeBps /\ w.beneficiary = x.beneficiary
         /\ w.inactivityPeriod = x.inactivityPeriod /\ w.token = x.token
         /\ w.absoluteDeadline = x.absoluteDeadline /\ w.challengeWindow = x.challengeWindow
         /\ w.balance = x.balance /\ w.lockedFeeBps = x.lockedFeeBps
         /\ w.hbAnchor = x.hbAnchor /\ w.hbLeft = x.hbLeft /\ w.hbEpoch = x.hbEpoch
         /\ w \in VaultRecords
<1> DEFINE c == ClearPending(x)
<1>1. /\ c \in VaultRecords
      /\ c.state = IF x.state = STATE_CLAIM_PENDING THEN STATE_ACTIVE ELSE x.state
      /\ c.claimInitiatedAt = IF x.state = STATE_CLAIM_PENDING THEN 0 ELSE x.claimInitiatedAt
      /\ c.claimRecipient = IF x.state = STATE_CLAIM_PENDING THEN NoOne ELSE x.claimRecipient
      /\ c.openIndex = x.openIndex /\ c.feeBps = x.feeBps /\ c.beneficiary = x.beneficiary
      /\ c.inactivityPeriod = x.inactivityPeriod /\ c.token = x.token
      /\ c.absoluteDeadline = x.absoluteDeadline /\ c.challengeWindow = x.challengeWindow
      /\ c.balance = x.balance /\ c.lockedFeeBps = x.lockedFeeBps
      /\ c.hbAnchor = x.hbAnchor /\ c.hbLeft = x.hbLeft /\ c.hbEpoch = x.hbEpoch
  BY DEF ClearPending, WithoutClaim, VaultRecords, AnyAddress
<1> HIDE DEF c
<1>2. w = [c EXCEPT !.deadline = Smaller(now + c.inactivityPeriod, c.absoluteDeadline)]
  BY DEF ResetClock, NextDeadline, c
<1>3. w \in VaultRecords
  BY <1>1, ResetClockFacts DEF c
<1> QED
  BY <1>1, <1>2, <1>3 DEF VaultRecords

\* The owner of a vault acts on it: what is left if it is still open.
OwnerLeft(v, w) ==
    /\ w.state \in {STATE_ACTIVE, STATE_CLAIM_PENDING, STATE_CLOSED}
    /\ w.feeBps = v.feeBps
    /\ w.challengeWindow = v.challengeWindow
    /\ w.state \in LiveStates =>
          /\ w.openIndex = v.openIndex
          /\ w.deadline = Smaller(now + w.inactivityPeriod, w.absoluteDeadline)
    /\ w.state = STATE_CLAIM_PENDING =>
          /\ v.state = STATE_CLAIM_PENDING
          /\ now >= v.absoluteDeadline
          /\ w.claimInitiatedAt = v.claimInitiatedAt /\ w.claimRecipient = v.claimRecipient
          /\ w.lockedFeeBps = v.lockedFeeBps /\ w.beneficiary = v.beneficiary
          /\ w.inactivityPeriod = v.inactivityPeriod /\ w.absoluteDeadline = v.absoluteDeadline
          /\ w.balance <= v.balance

\* The chain is the one it was, or a later installation.
ChainKept(v, w) ==
    \/ w.hbEpoch > v.hbEpoch
    \/ w.hbEpoch = v.hbEpoch /\ w.hbAnchor = v.hbAnchor

\* The vault keeps its place on the open list exactly if it stays live.
PlaceFollows(k) ==
    /\ Live(k) /\ UNCHANGED vaultCount
    /\ \/ vault'[k].state \in LiveStates /\ UNCHANGED openIds /\ Becomes(k, vault'[k])
       \/ vault'[k].state \notin LiveStates /\ LeaveOpen(k, vault'[k])

LeftByOwner(k) ==
    OwnerLeft(vault[k], vault'[k]) /\ ChainKept(vault[k], vault'[k]) /\ PlaceFollows(k)

\* All of the owner's actions but a withdrawal set the clock and end the claim.
LEMMA RenewedIsLeft ==
  ASSUME VaultsSound, NEW k \in Keys, Live(k), NEW x \in VaultRecords,
         x.state = vault[k].state, x.openIndex = vault[k].openIndex, x.feeBps = vault[k].feeBps,
         x.challengeWindow = vault[k].challengeWindow, ChainKept(vault[k], x),
         UNCHANGED <<vaultCount, openIds>>, Becomes(k, ResetClock(ClearPending(x)))
  PROVE  LeftByOwner(k)
<1>1. now \in Nat /\ vault[k] \in VaultRecords /\ vault[k].state \in LiveStates
  BY LiveFacts
<1>2. vault'[k] = ResetClock(ClearPending(x))
  BY BecomesIs
<1> QED
  BY <1>1, <1>2, RenewedFields, StatesDiffer
     DEF LeftByOwner, OwnerLeft, ChainKept, PlaceFollows, LiveStates

\* What withdraw leaves of its vault.
LEMMA WithdrawLeaves ==
  ASSUME VaultsSound, NEW k \in Keys, NEW to, NEW amount, Withdraw(k, amount, to)
  PROVE  LeftByOwner(k)
<1> DEFINE rest == [vault[k] EXCEPT !.balance = @ - amount]
           taken == ResetClock(rest)
           ended == [WithoutClaim(taken) EXCEPT !.state = STATE_CLOSED]
<1>1. /\ now \in Nat /\ vault[k] \in VaultRecords /\ vault[k].state \in LiveStates
      /\ amount \in 1..vault[k].balance
  BY LiveFacts DEF Withdraw
<1>2. /\ rest \in VaultRecords /\ rest.state = vault[k].state
      /\ rest.openIndex = vault[k].openIndex /\ rest.feeBps = vault[k].feeBps
      /\ rest.challengeWindow = vault[k].challengeWindow
      /\ rest.balance = vault[k].balance - amount
      /\ rest.claimInitiatedAt = vault[k].claimInitiatedAt
      /\ rest.claimRecipient = vault[k].claimRecipient
      /\ rest.lockedFeeBps = vault[k].lockedFeeBps /\ rest.beneficiary = vault[k].beneficiary
      /\ rest.inactivityPeriod = vault[k].inactivityPeriod
      /\ rest.absoluteDeadline = vault[k].absoluteDeadline
      /\ rest.hbEpoch = vault[k].hbEpoch /\ rest.hbAnchor = vault[k].hbAnchor
  <2>1. vault[k].balance - amount \in Nat
    BY <1>1 DEF VaultRecords
  <2> QED
    BY <1>1, <2>1 DEF VaultRecords
<1>3. /\ Live(k) /\ UNCHANGED vaultCount
      /\ \/ LeaveOpen(k, ended)
         \/ /\ Becomes(k, IF HorizonReached(k) THEN taken ELSE ClearPending(taken))
            /\ UNCHANGED openIds
  BY DEF Withdraw
<1> HIDE DEF rest
<1>4. /\ taken \in VaultRecords
      /\ taken = [rest EXCEPT !.deadline = Smaller(now + rest.inactivityPeriod, rest.absoluteDeadline)]
  BY <1>1, <1>2, ResetClockFacts DEF ResetClock, NextDeadline
<1> HIDE DEF taken
<1>5. CASE LeaveOpen(k, ended)
  <2>1. vault'[k] = ended
    BY <1>5, LeaveOpenIs
  <2>2. /\ ended.state = STATE_CLOSED /\ ended.feeBps = vault[k].feeBps
        /\ ended.challengeWindow = vault[k].challengeWindow
        /\ ended.hbEpoch = vault[k].hbEpoch /\ ended.hbAnchor = vault[k].hbAnchor
    BY <1>2, <1>4 DEF WithoutClaim, VaultRecords
  <2> HIDE DEF ended
  <2> QED
    BY <1>3, <1>5, <2>1, <2>2, StatesDiffer
       DEF LeftByOwner, OwnerLeft, ChainKept, PlaceFollows, STATE_CLOSED, STATE_CLAIM_PENDING
<1>6. CASE HorizonReached(k) /\ Becomes(k, taken) /\ UNCHANGED openIds
  <2>1. vault'[k] = taken
    BY <1>6, BecomesIs
  <2>2. now >= vault[k].absoluteDeadline
    BY <1>6 DEF HorizonReached
  <2>3. rest.balance <= vault[k].balance
    BY <1>1, <1>2 DEF VaultRecords
  <2>4. /\ taken.state = rest.state /\ taken.feeBps = rest.feeBps
        /\ taken.openIndex = rest.openIndex
        /\ taken.challengeWindow = rest.challengeWindow /\ taken.balance = rest.balance
        /\ taken.claimInitiatedAt = rest.claimInitiatedAt
        /\ taken.claimRecipient = rest.claimRecipient /\ taken.lockedFeeBps = rest.lockedFeeBps
        /\ taken.beneficiary = rest.beneficiary /\ taken.inactivityPeriod = rest.inactivityPeriod
        /\ taken.absoluteDeadline = rest.absoluteDeadline
        /\ taken.deadline = Smaller(now + rest.inactivityPeriod, rest.absoluteDeadline)
        /\ taken.hbEpoch = rest.hbEpoch /\ taken.hbAnchor = rest.hbAnchor
    BY <1>2, <1>4 DEF VaultRecords
  <2> QED
    BY <1>1, <1>2, <1>3, <1>6, <2>1, <2>2, <2>3, <2>4
       DEF LeftByOwner, OwnerLeft, ChainKept, PlaceFollows, LiveStates
<1>7. CASE ~HorizonReached(k) /\ Becomes(k, ClearPending(taken)) /\ UNCHANGED openIds
  <2>1. Becomes(k, ResetClock(ClearPending(rest)))
    BY <1>1, <1>2, <1>7, ClearAfterReset DEF taken
  <2>2. ChainKept(vault[k], rest)
    BY <1>2 DEF ChainKept
  <2> QED
    BY <1>2, <1>3, <1>7, <2>1, <2>2, RenewedIsLeft
<1> QED
  BY <1>3, <1>5, <1>6, <1>7

\* What any call of the owner leaves of its vault.
LEMMA OwnerStepLeaves ==
  ASSUME VaultsSound, NEW k \in Keys, OwnerStep(k)
  PROVE  LeftByOwner(k)
<1>1. now \in Nat /\ vault[k] \in VaultRecords
  BY LiveFacts
<1>2. CASE CheckIn(k)
  <2>1. /\ Live(k) /\ ClearPending(vault[k]) = vault[k] /\ Becomes(k, ResetClock(vault[k]))
        /\ UNCHANGED <<vaultCount, openIds>> /\ ChainKept(vault[k], vault[k])
    BY <1>2, StatesDiffer DEF CheckIn, Active, Live, ClearPending, OwnVaultOnly, ChainKept
  <2> QED
    BY <1>1, <2>1, RenewedIsLeft
<1>3. CASE AbortClaim(k)
  <2>1. /\ Live(k) /\ ClearPending(vault[k]) = WithoutClaim(vault[k])
        /\ Becomes(k, ResetClock(WithoutClaim(vault[k])))
        /\ UNCHANGED <<vaultCount, openIds>> /\ ChainKept(vault[k], vault[k])
    BY <1>3 DEF AbortClaim, Pending, Live, ClearPending, OwnVaultOnly, ChainKept
  <2> QED
    BY <1>1, <2>1, RenewedIsLeft
<1>4. ASSUME NEW anchor \in Links \cup {NoValue}, NEW count \in 0..MAX_HB_COUNT,
             SetCheckInChain(k, anchor, count)
      PROVE  LeftByOwner(k)
  <2> DEFINE x == [vault[k] EXCEPT !.hbEpoch = @ + 1, !.hbAnchor = anchor, !.hbLeft = count]
  <2>1. Live(k) /\ UNCHANGED <<vaultCount, openIds>> /\ Becomes(k, ResetClock(ClearPending(x)))
    BY <1>4 DEF SetCheckInChain, OwnVaultOnly
  <2>2. x \in VaultRecords
    <3>1. vault[k].hbEpoch + 1 \in Nat /\ count \in Nat
      BY <1>1 DEF VaultRecords
    <3> QED
      BY <1>1, <3>1, ChainTyped
  <2>3. /\ x.state = vault[k].state /\ x.openIndex = vault[k].openIndex
        /\ x.feeBps = vault[k].feeBps /\ x.challengeWindow = vault[k].challengeWindow
        /\ x.hbEpoch = vault[k].hbEpoch + 1 /\ vault[k].hbEpoch \in Nat
    BY <1>1 DEF VaultRecords
  <2> HIDE DEF x
  <2>4. ChainKept(vault[k], x)
    BY <2>3 DEF ChainKept
  <2> QED
    BY <2>1, <2>2, <2>3, <2>4, RenewedIsLeft
<1>5. ASSUME NEW newBeneficiary \in Heirs, SetBeneficiary(k, newBeneficiary)
      PROVE  LeftByOwner(k)
  <2> DEFINE x == [vault[k] EXCEPT !.beneficiary = newBeneficiary]
  <2>1. Live(k) /\ UNCHANGED <<vaultCount, openIds>> /\ Becomes(k, ResetClock(ClearPending(x)))
    BY <1>5 DEF SetBeneficiary, OwnVaultOnly
  <2>2. /\ x \in VaultRecords /\ x.state = vault[k].state /\ x.openIndex = vault[k].openIndex
        /\ x.feeBps = vault[k].feeBps /\ x.challengeWindow = vault[k].challengeWindow
        /\ ChainKept(vault[k], x)
    BY <1>1, VaultAssumption DEF VaultRecords, ChainKept
  <2> HIDE DEF x
  <2> QED
    BY <2>1, <2>2, RenewedIsLeft
<1>6. ASSUME NEW newPeriod, SetInactivityPeriod(k, newPeriod)
      PROVE  LeftByOwner(k)
  <2> DEFINE x == [vault[k] EXCEPT !.inactivityPeriod = newPeriod]
  <2>1. Live(k) /\ UNCHANGED <<vaultCount, openIds>> /\ Becomes(k, ResetClock(ClearPending(x))) /\ newPeriod \in Nat
    BY <1>6 DEF SetInactivityPeriod, OwnVaultOnly
  <2>2. /\ x \in VaultRecords /\ x.state = vault[k].state /\ x.openIndex = vault[k].openIndex
        /\ x.feeBps = vault[k].feeBps /\ x.challengeWindow = vault[k].challengeWindow
        /\ ChainKept(vault[k], x)
    BY <1>1, <2>1 DEF VaultRecords, ChainKept
  <2> HIDE DEF x
  <2> QED
    BY <2>1, <2>2, RenewedIsLeft
<1>7. ASSUME NEW newHorizon \in Dates, ExtendHorizon(k, newHorizon)
      PROVE  LeftByOwner(k)
  <2> DEFINE x == [vault[k] EXCEPT !.absoluteDeadline = newHorizon]
  <2>1. Live(k) /\ UNCHANGED <<vaultCount, openIds>> /\ Becomes(k, ResetClock(ClearPending(x))) /\ newHorizon \in Nat
    BY <1>7, MaxTimeAssumption DEF ExtendHorizon, OwnVaultOnly, Dates
  <2>2. /\ x \in VaultRecords /\ x.state = vault[k].state /\ x.openIndex = vault[k].openIndex
        /\ x.feeBps = vault[k].feeBps /\ x.challengeWindow = vault[k].challengeWindow
        /\ ChainKept(vault[k], x)
    BY <1>1, <2>1 DEF VaultRecords, ChainKept
  <2> HIDE DEF x
  <2> QED
    BY <2>1, <2>2, RenewedIsLeft
<1>8. CASE DeliberateStep(k)
  BY <1>4, <1>5, <1>6, <1>7, <1>8, WithdrawLeaves DEF DeliberateStep, SetCheckInChainFor
<1> QED
  BY <1>2, <1>3, <1>8 DEF OwnerStep, AutomatedStep

\* It leaves the other vaults as they were.
LEMMA OwnerStepOthers ==
  ASSUME VaultsSound, NEW k \in Keys, OwnerStep(k), NEW j \in Keys, j # k
  PROVE  SameButSlot(vault[j], vault'[j])
<1>1. ASSUME NEW w, Becomes(k, w) \/ LeaveOpen(k, w)
      PROVE  SameButSlot(vault[j], vault'[j])
  BY <1>1, BecomesIs, LeaveOpenIs, SameOfItself, LiveFacts
<1>2. CASE AutomatedStep(k)
  BY <1>1, <1>2 DEF AutomatedStep, CheckIn, AbortClaim
<1>3. ASSUME NEW to, NEW amount, Withdraw(k, amount, to)
      PROVE  SameButSlot(vault[j], vault'[j])
  BY <1>1, <1>3 DEF Withdraw
<1>4. ASSUME NEW anchor, NEW count, SetCheckInChain(k, anchor, count)
      PROVE  SameButSlot(vault[j], vault'[j])
  BY <1>1, <1>4 DEF SetCheckInChain
<1>5. ASSUME NEW h, SetBeneficiary(k, h) \/ SetInactivityPeriod(k, h) \/ ExtendHorizon(k, h)
      PROVE  SameButSlot(vault[j], vault'[j])
  BY <1>1, <1>5 DEF SetBeneficiary, SetInactivityPeriod, ExtendHorizon
<1>6. CASE DeliberateStep(k)
  BY <1>3, <1>4, <1>5, <1>6 DEF DeliberateStep, SetCheckInChainFor
<1> QED
  BY <1>2, <1>6 DEF OwnerStep

\* What a batch leaves of every vault: it is checked in on or left alone.
LEMMA BatchLeaves ==
  ASSUME VaultsSound, NEW o \in Owners, BatchStep(o), NEW k \in Keys
  PROVE  \/ vault'[k] = vault[k]
         \/ Active(k) /\ vault'[k] = ResetClock(vault[k]) /\ OwnerLeft(vault[k], vault'[k])
                      /\ vault'[k].state = STATE_ACTIVE
<1>1. PICK ids \in SUBSET VaultIds : CheckInMany(o, ids)
  BY DEF BatchStep
<1>2. CASE k[1] = o /\ k[2] \in Refreshable(o, ids)
  <2>1. k = <<o, k[2]>> /\ vault'[k] = ResetClock(vault[k])
    BY <1>1, <1>2 DEF CheckInMany, Keys
  <2>2. Active(k)
    BY <1>2, <2>1 DEF Refreshable
  <2>3. ClearPending(vault[k]) = vault[k] /\ vault[k] \in VaultRecords /\ now \in Nat
    BY <2>2, LiveFacts, StatesDiffer DEF Active, ClearPending
  <2>4. OwnerLeft(vault[k], vault'[k]) /\ vault'[k].state = STATE_ACTIVE
    BY <2>1, <2>2, <2>3, RenewedFields, StatesDiffer DEF OwnerLeft, Active
  <2> QED
    BY <2>1, <2>2, <2>4
<1>3. CASE ~(k[1] = o /\ k[2] \in Refreshable(o, ids))
  BY <1>1, <1>3 DEF CheckInMany
<1> QED
  BY <1>2, <1>3

\* A chain value is a check-in that moves the anchor.
LEMMA ChainStepLeaves ==
  ASSUME VaultsSound, NEW k \in Keys, NEW preimage \in Links \cup {NoValue}, CheckInByChain(k, preimage)
  PROVE  /\ OwnerLeft(vault[k], vault'[k]) /\ vault'[k].state = STATE_ACTIVE /\ Active(k)
         /\ vault'[k].beneficiary = vault[k].beneficiary
         /\ vault'[k].hbEpoch = vault[k].hbEpoch /\ vault'[k].hbAnchor = preimage
         /\ \A j \in Keys \ {k} : vault'[j] = vault[j]
<1> DEFINE x == [vault[k] EXCEPT !.hbAnchor = preimage, !.hbLeft = @ - 1]
<1>1. /\ Active(k) /\ vault[k].hbLeft > 0 /\ Becomes(k, ResetClock(x))
  BY DEF CheckInByChain
<1>2. /\ vault[k] \in VaultRecords /\ Live(k) /\ now \in Nat /\ vault[k].state = STATE_ACTIVE
  BY <1>1, LiveFacts DEF Live, Active
<1>3. x \in VaultRecords
  <2>1. vault[k].hbLeft - 1 \in Nat
    BY <1>1, <1>2 DEF VaultRecords
  <2> QED
    BY <1>2, <2>1, ChainTyped
<1>4. /\ x.state = STATE_ACTIVE /\ x.openIndex = vault[k].openIndex
      /\ x.feeBps = vault[k].feeBps /\ x.challengeWindow = vault[k].challengeWindow /\ x.beneficiary = vault[k].beneficiary
      /\ x.hbEpoch = vault[k].hbEpoch /\ x.hbAnchor = preimage
  BY <1>2 DEF VaultRecords
<1> HIDE DEF x
<1>5. ClearPending(x) = x
  BY <1>4, StatesDiffer DEF ClearPending
<1>6. vault'[k] = ResetClock(ClearPending(x)) /\ \A j \in Keys \ {k} : vault'[j] = vault[j]
  BY <1>1, <1>5, BecomesIs
<1> QED
  BY <1>1, <1>2, <1>3, <1>4, <1>6, RenewedFields, StatesDiffer DEF OwnerLeft

\* What topUp leaves.
LEMMA TopUpLeaves ==
  ASSUME VaultsSound, NEW k \in Keys, TopUpStep(k), NEW j \in Keys
  PROVE  IF j = k
         THEN /\ Active(k)
              /\ \E amount \in Nat : vault'[k] = [vault[k] EXCEPT !.balance = @ + amount]
         ELSE vault'[j] = vault[j]
<1>0. PICK amount \in Deposits : \E arrived \in Arrivals(amount) : TopUp(k, amount, arrived)
  BY DEF TopUpStep
<1>1. PICK arrived \in Arrivals(amount) : TopUp(k, amount, arrived)
  BY <1>0
<1>2. Received(amount, arrived) \in Nat
  <2>1. amount \in Nat /\ arrived \in Nat
    BY LaneAssumption DEF Arrivals
  <2> QED
    BY <2>1 DEF Received, Smaller
<1>3. Active(k) /\ Becomes(k, [vault[k] EXCEPT !.balance = @ + Received(amount, arrived)])
  BY <1>1 DEF TopUp
<1> QED
  BY <1>2, <1>3, BecomesIs

\* A vault that is created, and nothing else on the way.
Created(o, k, beneficiary, period, window, horizon) ==
    /\ k \in Keys /\ ~Exists(k) /\ vault[k].state = STATE_NONE
    /\ vault'[k].state = STATE_ACTIVE
    /\ vault'[k].openIndex = Len(openIds[o]) /\ vault'[k].feeBps = ClaimFeeBps
    /\ vault'[k].beneficiary = beneficiary
    /\ vault'[k].deadline = Smaller(now + period, horizon)
    /\ vault'[k].inactivityPeriod = period /\ vault'[k].absoluteDeadline = horizon
    /\ vault'[k].challengeWindow = window
    /\ vault'[k].claimInitiatedAt = 0 /\ vault'[k].claimRecipient = NoOne
    /\ vault'[k].hbAnchor = NoValue /\ vault'[k].hbEpoch = 0
    /\ \A j \in Keys \ {k} : vault'[j] = vault[j]

\* What createVault leaves.
LEMMA CreationLeaves ==
  ASSUME VaultsSound, NEW o \in Owners, NEW t, NEW amount, NEW arrived, NEW beneficiary,
         NEW period, NEW window, NEW horizon,
         CreateVault(o, t, amount, arrived, beneficiary, period, window, horizon),
         NEW k, k = <<o, vaultCount[o]>>
  PROVE  Created(o, k, beneficiary, period, window, horizon)
<1> DEFINE slot == Len(openIds[o])
           rate == ClaimFeeBps
           received == Received(amount, arrived)
           u == [NoVault EXCEPT !.state = STATE_ACTIVE, !.openIndex = slot, !.feeBps = rate,
                                !.beneficiary = beneficiary]
           v == [u EXCEPT !.inactivityPeriod = period, !.token = t, !.absoluteDeadline = horizon,
                          !.challengeWindow = window, !.balance = received]
<1>1. Becomes(k, ResetClock(v)) /\ vaultCount[o] < MaxVaults
  BY DEF CreateVault
<1>2. vaultCount[o] \in Nat /\ k \in Keys /\ ~Exists(k) /\ vault[k].state = STATE_NONE
  <2>1. vaultCount[o] \in Nat /\ k \in Keys /\ k[1] = o /\ k[2] = vaultCount[o]
    BY <1>1, SMTT(60) DEF VaultsSound, VaultTypes, Keys, VaultIds
  <2>2. ~Exists(k)
    BY <2>1 DEF Exists
  <2> QED
    BY <2>1, <2>2 DEF VaultsSound
<1> HIDE DEF slot, rate, received
<1>3. /\ u.state = STATE_ACTIVE /\ u.openIndex = slot /\ u.feeBps = rate
      /\ u.beneficiary = beneficiary /\ u.claimInitiatedAt = 0 /\ u.claimRecipient = NoOne
      /\ u.hbAnchor = NoValue /\ u.hbEpoch = 0
      /\ DOMAIN u = DOMAIN NoVault
  BY DEF NoVault
<1> HIDE DEF u
<1>4. DOMAIN u = {"state", "openIndex", "feeBps", "beneficiary", "deadline", "inactivityPeriod",
                  "token", "absoluteDeadline", "challengeWindow", "balance", "claimInitiatedAt",
                  "claimRecipient", "lockedFeeBps", "hbAnchor", "hbLeft", "hbEpoch"}
  BY <1>3 DEF NoVault
<1>5. /\ v.state = STATE_ACTIVE /\ v.openIndex = slot /\ v.feeBps = rate
      /\ v.beneficiary = beneficiary /\ v.claimInitiatedAt = 0 /\ v.claimRecipient = NoOne
      /\ v.hbAnchor = NoValue /\ v.hbEpoch = 0
      /\ v.inactivityPeriod = period /\ v.absoluteDeadline = horizon
      /\ v.challengeWindow = window /\ DOMAIN v = DOMAIN u
  BY <1>3, <1>4
<1> HIDE DEF v
<1>6. vault'[k] = [v EXCEPT !.deadline = Smaller(now + v.inactivityPeriod, v.absoluteDeadline)]
  BY <1>1, <1>2, BecomesIs DEF ResetClock, NextDeadline
<1>7. \A j \in Keys \ {k} : vault'[j] = vault[j]
  BY <1>1, <1>2, BecomesIs
<1> QED
  BY <1>2, <1>4, <1>5, <1>6, <1>7 DEF Created, slot, rate

\* The heir starts a claim, takes it back, or anyone settles it.
LEMMA ClaimLeaves ==
  ASSUME VaultsSound, NEW k \in Keys, NEW caller, NEW to \in Recipients, InitiateClaim(caller, k, to)
  PROVE  /\ Active(k) /\ caller = vault[k].beneficiary /\ now >= vault[k].deadline
         /\ to \in AnyAddress \ {NoOne}
         /\ vault'[k] = [vault[k] EXCEPT !.lockedFeeBps = FeeToLock(vault[k]), !.claimRecipient = to,
                            !.claimInitiatedAt = now, !.state = STATE_CLAIM_PENDING]
         /\ \A j \in Keys \ {k} : vault'[j] = vault[j]
<1>1. /\ Active(k) /\ caller = vault[k].beneficiary /\ now >= vault[k].deadline
      /\ to \in AnyAddress \ {NoOne}
      /\ Becomes(k, [vault[k] EXCEPT !.lockedFeeBps = FeeToLock(vault[k]), !.claimRecipient = to,
                            !.claimInitiatedAt = now, !.state = STATE_CLAIM_PENDING])
  BY DEF InitiateClaim
<1> QED
  BY <1>1, BecomesIs

\* What cancelClaim leaves.
LEMMA CancelLeaves ==
  ASSUME VaultsSound, NEW k \in Keys, NEW caller, BeneficiaryCancelClaim(caller, k)
  PROVE  /\ Pending(k) /\ vault'[k] = WithoutClaim(vault[k])
         /\ \A j \in Keys \ {k} : vault'[j] = vault[j]
BY BecomesIs DEF BeneficiaryCancelClaim

\* What finalizeClaim leaves.
LEMMA SettlementLeaves ==
  ASSUME VaultsSound, NEW k \in Keys, FinalizeClaim(k)
  PROVE  /\ Pending(k) /\ now >= vault[k].claimInitiatedAt + vault[k].challengeWindow
         /\ vault'[k] = [vault[k] EXCEPT !.balance = 0, !.state = STATE_SETTLED]
         /\ vault'[k].state = STATE_SETTLED
         /\ \A j \in Keys \ {k} : SameButSlot(vault[j], vault'[j])
<1>1. /\ Pending(k) /\ now >= vault[k].claimInitiatedAt + vault[k].challengeWindow
      /\ LeaveOpen(k, [vault[k] EXCEPT !.balance = 0, !.state = STATE_SETTLED])
  BY DEF FinalizeClaim
<1>2. vault'[k] = [vault[k] EXCEPT !.balance = 0, !.state = STATE_SETTLED]
  BY <1>1, LeaveOpenIs
<1>3. vault'[k].state = STATE_SETTLED
  BY <1>2, LiveFacts DEF VaultRecords
<1> QED
  BY <1>1, <1>2, <1>3, LeaveOpenIs

\* What the calls that are about no vault leave.
LEMMA ElsewhereLeaves ==
  ASSUME \/ TickStep \/ AdminStep \/ PayoutStep
         \/ (ApplyClaimFee \/ GiftAction) /\ UNCHANGED vaultState
         \/ UNCHANGED vars
  PROVE  UNCHANGED <<vault, vaultCount, openIds>>
<1>1. CASE TickStep \/ PayoutStep \/ UNCHANGED vars \/ UNCHANGED vaultState
  BY <1>1 DEF TickStep, PayoutStep, vars, vaultState
<1>2. CASE AdminStep
  BY <1>2 DEF AdminStep, SetCreationPaused, vaultState
<1> QED
  BY <1>1, <1>2

\* Whose step can change a vault in more than its slot.
LEMMA WhoMoves ==
  ASSUME VaultsSound, [Next]_vars, NEW k \in Keys
  PROVE  \/ SameButSlot(vault[k], vault'[k])
         \/ \E o \in Owners : CreationStep(o) /\ k = <<o, vaultCount[o]>>
         \/ /\ Active(k) /\ vault'[k] = ResetClock(vault[k])
            /\ \E o \in Owners : BatchStep(o)
         \/ OwnerStep(k) \/ ChainStep(k) \/ TopUpStep(k)
         \/ \E caller \in Heirs : HeirStep(caller, k)
         \/ FinalizeClaim(k)
<1>0. vault[k] \in VaultRecords
  BY LiveFacts
<1>1. CASE UNCHANGED vault
  BY <1>0, <1>1, SameOfItself
<1>2. ASSUME NEW o \in Owners, CreationStep(o)
      PROVE  SameButSlot(vault[k], vault'[k]) \/ k = <<o, vaultCount[o]>>
  <2>1. PICK t \in Tokens, amount \in Deposits, beneficiary \in Heirs,
             period \in MIN_INACTIVITY..MAX_INACTIVITY,
             window \in MIN_CHALLENGE..MAX_CHALLENGE, horizon \in Dates :
          \E arrived \in Arrivals(amount) :
            CreateVault(o, t, amount, arrived, beneficiary, period, window, horizon)
    BY <1>2 DEF CreationStep
  <2>2. PICK arrived \in Arrivals(amount) :
          CreateVault(o, t, amount, arrived, beneficiary, period, window, horizon)
    BY <2>1
  <2>3. CASE k # <<o, vaultCount[o]>>
    <3>1. vault'[k] = vault[k]
      BY <2>2, <2>3 DEF CreateVault, Becomes, VaultsSound, VaultTypes
    <3> QED
      BY <1>0, <3>1, SameOfItself
  <2> QED
    BY <2>3
<1>3. ASSUME NEW o \in Owners, BatchStep(o)
      PROVE  \/ SameButSlot(vault[k], vault'[k])
             \/ Active(k) /\ vault'[k] = ResetClock(vault[k])
  BY <1>0, <1>3, BatchLeaves, SameOfItself
<1>4. ASSUME NEW j \in Keys, OwnerStep(j) \/ ChainStep(j)
      PROVE  j = k \/ SameButSlot(vault[k], vault'[k])
  BY <1>0, <1>4, OwnerStepOthers, ChainStepLeaves, SameOfItself DEF ChainStep
<1>5. ASSUME NEW caller \in Heirs, NEW j \in Keys, HeirStep(caller, j)
      PROVE  j = k \/ SameButSlot(vault[k], vault'[k])
  BY <1>0, <1>5, ClaimLeaves, CancelLeaves, SameOfItself DEF HeirStep
<1>6. CASE AnyoneStep
  <2>1. ASSUME NEW j \in Keys, FinalizeClaim(j) \/ TopUpStep(j)
        PROVE  j = k \/ SameButSlot(vault[k], vault'[k])
    BY <1>0, <2>1, SettlementLeaves, TopUpLeaves, SameOfItself
  <2>2. CASE (ApplyClaimFee \/ GiftAction) /\ UNCHANGED vaultState
    BY <1>1, <2>2, ElsewhereLeaves
  <2> QED
    BY <1>6, <2>1, <2>2 DEF AnyoneStep
<1>7. CASE TickStep \/ AdminStep \/ PayoutStep \/ UNCHANGED vars
  BY <1>1, <1>7, ElsewhereLeaves
<1> QED
  BY <1>2, <1>3, <1>4, <1>5, <1>6, <1>7 DEF Next

\* While a claim stands, no step of anybody changes what it stands on.
LEMMA PendingFrozen ==
  ASSUME VaultsSound, [Next]_vars, NEW k \in Keys, Pending(k), vault'[k].state = STATE_CLAIM_PENDING
  PROVE  /\ vault'[k].claimInitiatedAt = vault[k].claimInitiatedAt
         /\ vault'[k].challengeWindow = vault[k].challengeWindow
         /\ vault'[k].claimRecipient = vault[k].claimRecipient
         /\ vault'[k].lockedFeeBps = vault[k].lockedFeeBps
         /\ vault'[k].beneficiary = vault[k].beneficiary
         /\ vault'[k].balance <= vault[k].balance
<1>1. /\ vault[k] \in VaultRecords /\ vault[k].state = STATE_CLAIM_PENDING /\ ~Active(k)
      /\ vault[k].balance \in Nat /\ Exists(k)
  BY LiveFacts, StatesDiffer DEF Active, VaultRecords
<1>2. CASE SameButSlot(vault[k], vault'[k])
  BY <1>1, <1>2, SameFields
<1>3. CASE OwnerStep(k)
  BY <1>1, <1>3, OwnerStepLeaves DEF LeftByOwner, OwnerLeft
<1>4. ~ChainStep(k) /\ ~TopUpStep(k)
  BY <1>1, ChainStepLeaves, TopUpLeaves DEF ChainStep
<1>5. ASSUME NEW caller, HeirStep(caller, k)
      PROVE  FALSE
  <2>1. ~\E to \in Recipients : InitiateClaim(caller, k, to)
    BY <1>1 DEF InitiateClaim
  <2>2. BeneficiaryCancelClaim(caller, k)
    BY <1>5, <2>1 DEF HeirStep
  <2>3. vault'[k].state = STATE_ACTIVE
    BY <1>1, <2>2, CancelLeaves DEF WithoutClaim, VaultRecords
  <2> QED
    BY <2>3, StatesDiffer
<1>6. ~FinalizeClaim(k)
  BY SettlementLeaves DEF STATE_SETTLED, STATE_CLAIM_PENDING
<1>7. ASSUME NEW o \in Owners, CreationStep(o), k = <<o, vaultCount[o]>>
      PROVE  FALSE
  <2>1. k[1] = o /\ k[2] = vaultCount[o] /\ vaultCount[o] \in Nat
    BY <1>7 DEF VaultsSound, VaultTypes
  <2> QED
    BY <1>1, <2>1 DEF Exists
<1> QED
  BY <1>1, <1>2, <1>3, <1>4, <1>5, <1>6, <1>7, WhoMoves

\* Nobody shortens the time an owner has to object, or changes to whom and at
\* what fee a claim that stands would be settled.
THEOREM ClaimsAreFrozen == Spec => PendingClaimIsFrozen
<1>1. VaultsSound /\ [Next]_vars =>
        [\A k \in Keys :
          (Pending(k) /\ vault'[k].state = STATE_CLAIM_PENDING) =>
              /\ vault'[k].claimInitiatedAt = vault[k].claimInitiatedAt
              /\ vault'[k].challengeWindow = vault[k].challengeWindow
              /\ vault'[k].claimRecipient = vault[k].claimRecipient
              /\ vault'[k].lockedFeeBps = vault[k].lockedFeeBps
              /\ vault'[k].beneficiary = vault[k].beneficiary
              /\ vault'[k].balance <= vault[k].balance]_vars
  BY PendingFrozen
<1> QED
  BY <1>1, VaultsStaySound, PTL DEF Spec, PendingClaimIsFrozen

-----------------------------------------------------------------------------
(* The open list.                                                           *)

\* A list of ids that names each live one once, at the slot it believes to have.
ListExact(ids, live, slot) ==
    /\ Len(ids) <= MAX_OPEN_VAULTS
    /\ \A i \in 1..Len(ids) : ids[i] \in live /\ slot[ids[i]] = i - 1
    /\ \A id \in live : \E i \in 1..Len(ids) : ids[i] = id

LiveIds(o) == {id \in VaultIds : Live(<<o, id>>)}

Slots(o) == [id \in VaultIds |-> vault[<<o, id>>].openIndex]

\* A new id at the end, which knows that it is there.
LEMMA AppendedExact ==
  ASSUME NEW S, NEW ids \in Seq(S), NEW live \in SUBSET S, NEW slot,
         ListExact(ids, live, slot), NEW id \in S \ live, Len(ids) < MAX_OPEN_VAULTS,
         NEW after, after[id] = Len(ids), \A j \in live : after[j] = slot[j]
  PROVE  ListExact(Append(ids, id), live \cup {id}, after)
<1> DEFINE n == Len(ids)
           new == Append(ids, id)
<1>1. /\ n \in Nat /\ Len(new) = n + 1 /\ new[n + 1] = id
      /\ \A i \in 1..n : new[i] = ids[i]
  OBVIOUS
<1>2. n + 1 <= MAX_OPEN_VAULTS
  BY <1>1, VaultAssumption DEF n
<1>3. /\ \A i \in 1..n : ids[i] \in live /\ slot[ids[i]] = i - 1
      /\ \A j \in live : \E i \in 1..n : ids[i] = j
  BY DEF ListExact
<1> HIDE DEF n, new
<1>4. ASSUME NEW i \in 1..(n + 1)
      PROVE  new[i] \in live \cup {id} /\ after[new[i]] = i - 1
  <2>1. CASE i = n + 1
    BY <1>1, <2>1 DEF n
  <2>2. CASE i # n + 1
    <3>1. i \in 1..n
      BY <1>1, <2>2
    <3> QED
      BY <1>1, <1>3, <3>1
  <2> QED
    BY <2>1, <2>2
<1>5. ASSUME NEW j \in live \cup {id}
      PROVE  \E i \in 1..(n + 1) : new[i] = j
  <2>1. CASE j = id
    BY <1>1, <2>1
  <2>2. CASE j \in live
    <3>1. PICK i \in 1..n : ids[i] = j
      BY <1>3, <2>2
    <3>2. i \in 1..(n + 1) /\ new[i] = j
      BY <1>1, <3>1
    <3> QED
      BY <3>2
  <2> QED
    BY <2>1, <2>2
<1> QED
  BY <1>1, <1>2, <1>4, <1>5 DEF ListExact, new

\* An id leaves, and the last one takes its place.
LEMMA RemovedExact ==
  ASSUME NEW S, NEW ids \in Seq(S), NEW live \in SUBSET S, NEW slot,
         ListExact(ids, live, slot), NEW id \in live, NEW after,
         \A j \in live \ {id} :
            after[j] = IF j = ids[Len(ids)] THEN slot[id] ELSE slot[j],
         NEW left, Len(left) = Len(ids) - 1,
         \A i \in 1..(Len(ids) - 1) :
            left[i] = IF i = slot[id] + 1 THEN ids[Len(ids)] ELSE ids[i]
  PROVE  ListExact(left, live \ {id}, after)
<1> DEFINE n == Len(ids)
           last == ids[n]
<1>1. n \in Nat /\ n <= MAX_OPEN_VAULTS
  BY DEF ListExact
<1>3. /\ \A i \in 1..n : ids[i] \in live /\ slot[ids[i]] = i - 1
      /\ \A j \in live : \E i \in 1..n : ids[i] = j
  BY DEF ListExact
<1>4. PICK p \in 1..n : ids[p] = id
  BY <1>3
<1>5. slot[id] = p - 1 /\ slot[id] + 1 = p /\ n \in 1..n /\ last \in live /\ slot[last] = n - 1
  BY <1>1, <1>3, <1>4
<1>6. /\ Len(left) = n - 1 /\ n - 1 \in Nat
      /\ \A i \in 1..(n - 1) : left[i] = IF i = p THEN last ELSE ids[i]
  BY <1>5
<1> HIDE DEF n, last
<1>7. ASSUME NEW i \in 1..(n - 1)
      PROVE  left[i] \in live \ {id} /\ after[left[i]] = i - 1
  <2>1. CASE i = p
    <3>1. left[i] = last /\ n # p
      BY <1>1, <1>6, <2>1
    <3>2. last # id
      BY <1>1, <1>4, <1>5, <3>1
    <3> QED
      BY <1>5, <2>1, <3>1, <3>2 DEF last, n
  <2>2. CASE i # p
    <3>1. left[i] = ids[i] /\ i \in 1..n /\ i # n
      BY <1>1, <1>6, <2>2
    <3>2. ids[i] \in live /\ slot[ids[i]] = i - 1
      BY <1>3, <3>1
    <3>3. ids[i] # id /\ ids[i] # last
      BY <1>1, <1>4, <1>5, <2>2, <3>1, <3>2
    <3> QED
      BY <3>1, <3>2, <3>3 DEF last, n
  <2> QED
    BY <2>1, <2>2
<1>8. ASSUME NEW j \in live \ {id}
      PROVE  \E i \in 1..(n - 1) : left[i] = j
  <2>1. PICK i \in 1..n : ids[i] = j
    BY <1>3
  <2>2. i # p
    BY <1>4, <2>1
  <2>3. CASE i = n
    <3>1. p \in 1..(n - 1) /\ left[p] = j
      BY <1>1, <1>4, <1>6, <2>1, <2>2, <2>3 DEF last
    <3> QED
      BY <3>1
  <2>4. CASE i # n
    <3>1. i \in 1..(n - 1) /\ left[i] = j
      BY <1>1, <1>6, <2>1, <2>2, <2>4
    <3> QED
      BY <3>1
  <2> QED
    BY <2>3, <2>4
<1>9. n - 1 <= MAX_OPEN_VAULTS
  BY <1>1, VaultAssumption
<1> QED
  BY <1>5, <1>6, <1>7, <1>8, <1>9 DEF ListExact, n, last

\* The open list is exact when each owner has an exact one,
LEMMA ListsAreExact ==
  VaultTypes => (OpenListExact <=> \A o \in Owners : ListExact(openIds[o], LiveIds(o), Slots(o)))
<1> SUFFICES ASSUME VaultTypes
             PROVE  OpenListExact <=> \A o \in Owners : ListExact(openIds[o], LiveIds(o), Slots(o))
  OBVIOUS
<1>1. ASSUME NEW o \in Owners
      PROVE  /\ \A i \in 1..Len(openIds[o]) : openIds[o][i] \in VaultIds
             /\ \A id \in VaultIds : Slots(o)[id] = vault[<<o, id>>].openIndex
             /\ \A id : id \in LiveIds(o) <=> id \in VaultIds /\ Live(<<o, id>>)
  BY DEF VaultTypes, Slots, LiveIds
<1>2. ASSUME NEW o \in Owners
      PROVE  ListExact(openIds[o], LiveIds(o), Slots(o)) <=>
                /\ Len(openIds[o]) <= MAX_OPEN_VAULTS
                /\ \A i \in 1..Len(openIds[o]) :
                      /\ Live(<<o, openIds[o][i]>>)
                      /\ vault[<<o, openIds[o][i]>>].openIndex = i - 1
                /\ \A id \in VaultIds :
                      Live(<<o, id>>) => \E i \in 1..Len(openIds[o]) : openIds[o][i] = id
  BY <1>1 DEF ListExact
<1> QED
  BY <1>2 DEF OpenListExact

\* and so after a step.
LEMMA ListsAreExactAfter ==
  ASSUME VaultTypes', \A o \in Owners : ListExact(openIds[o], LiveIds(o), Slots(o))'
  PROVE  OpenListExact'
<1>1. (VaultTypes => (OpenListExact <=> \A o \in Owners : ListExact(openIds[o], LiveIds(o), Slots(o))))'
  BY ListsAreExact, PTL
<1> QED
  BY <1>1

\* A step that leaves every vault its life and its slot.
LEMMA PlacesKeptExact ==
  ASSUME VaultsSound, VaultsSound', OpenListExact, UNCHANGED openIds,
         \A j \in Keys : (Live(j)' <=> Live(j)) /\ vault'[j].openIndex = vault[j].openIndex
  PROVE  OpenListExact'
<1>1. VaultTypes /\ VaultTypes'
  BY DEF VaultsSound
<1>2. ASSUME NEW o \in Owners
      PROVE  LiveIds(o)' = LiveIds(o) /\ Slots(o)' = Slots(o) /\ openIds'[o] = openIds[o]
  BY DEF LiveIds, Slots, Keys
<1>3. \A o \in Owners : ListExact(openIds[o], LiveIds(o), Slots(o))
  BY <1>1, ListsAreExact
<1>4. \A o \in Owners : ListExact(openIds[o], LiveIds(o), Slots(o))'
  BY <1>2, <1>3 DEF ListExact
<1> QED
  BY <1>1, <1>4, ListsAreExactAfter

\* A vault leaves the list.
LEMMA LeaveOpenExact ==
  ASSUME VaultsSound, VaultsSound', OpenListExact, NEW k \in Keys, Live(k),
         NEW w, w.state \notin LiveStates, LeaveOpen(k, w), UNCHANGED vaultCount
  PROVE  OpenListExact'
<1> DEFINE o == k[1]
           id == k[2]
           ids == openIds[o]
           last == ids[Len(ids)]
<1>1. VaultTypes /\ VaultTypes' /\ DOMAIN vault = Keys
  BY DEF VaultsSound, VaultTypes
<1>2. /\ o \in Owners /\ id \in VaultIds /\ k = <<o, id>>
      /\ ids \in Seq(VaultIds) /\ ids # <<>>
  BY <1>1 DEF Keys, VaultTypes, LeaveOpen
<1>3. last \in VaultIds /\ MovedKey(k) = <<o, last>> /\ MovedKey(k) \in Keys
  BY <1>2 DEF MovedKey, Keys
<1>4. \A q \in Owners : ListExact(openIds[q], LiveIds(q), Slots(q))
  BY <1>1, ListsAreExact
<1>5. ASSUME NEW j \in Keys, j # k
      PROVE  /\ Live(j)' <=> Live(j)
             /\ vault'[j].openIndex =
                   IF j = <<o, last>> THEN vault[k].openIndex ELSE vault[j].openIndex
  <2>1. SameButSlot(vault[j], vault'[j]) /\ vault[j] \in VaultRecords
    BY <1>5, LeaveOpenIs, LiveFacts
  <2>2. vault'[j].state = vault[j].state
    BY <2>1, SameFields
  <2>3. Live(j)' <=> Live(j)
    BY <2>2 DEF Live, Exists
  <2>4. CASE j = <<o, last>>
    <3>1. vault'[j] = [vault[j] EXCEPT !.openIndex = vault[k].openIndex]
      BY <1>1, <1>3, <1>5, <2>4 DEF LeaveOpen
    <3> QED
      BY <2>1, <2>3, <2>4, <3>1 DEF VaultRecords
  <2>5. CASE j # <<o, last>>
    <3>1. vault'[j] = vault[j]
      BY <1>1, <1>3, <1>5, <2>5 DEF LeaveOpen
    <3> QED
      BY <2>3, <2>5, <3>1
  <2> QED
    BY <2>4, <2>5
<1>6. ~Live(k)'
  <2>1. vault'[k] = w
    BY LeaveOpenIs
  <2> QED
    BY <2>1 DEF Live, LiveStates
<1>7. openIds' = [openIds EXCEPT ![o] =
          [i \in 1..(Len(ids) - 1) |-> IF i = vault[k].openIndex + 1 THEN last ELSE ids[i]]]
  BY DEF LeaveOpen, OpenIdsWithout
<1> HIDE DEF o, id, ids, last
<1>8. ASSUME NEW q \in Owners
      PROVE  ListExact(openIds[q], LiveIds(q), Slots(q))'
  <2>1. CASE q = o
    <3>1. openIds'[q] =
            [i \in 1..(Len(ids) - 1) |-> IF i = Slots(o)[id] + 1 THEN ids[Len(ids)] ELSE ids[i]]
      BY <1>1, <1>2, <1>7, <2>1 DEF VaultTypes, Slots, last
    <3>2. ASSUME NEW j \in VaultIds
          PROVE  /\ j \in LiveIds(q)' <=> j \in LiveIds(o) /\ j # id
                 /\ j # id => Slots(q)'[j] = IF j = ids[Len(ids)] THEN Slots(o)[id] ELSE Slots(o)[j]
      <4>1. <<o, j>> \in Keys /\ (j # id <=> <<o, j>> # k) /\ (j = last <=> <<o, j>> = <<o, last>>)
        BY <1>2 DEF Keys
      <4> QED
        BY <1>2, <1>5, <1>6, <2>1, <4>1 DEF LiveIds, Slots, last
    <3>3. LiveIds(q)' = LiveIds(o) \ {id} /\ LiveIds(o) \in SUBSET VaultIds /\ id \in LiveIds(o)
      BY <1>2, <3>2 DEF LiveIds
    <3>4. ListExact(ids, LiveIds(o), Slots(o))
      BY <1>2, <1>4 DEF ids
    <3> HIDE DEF ListExact
    <3>5. \A j \in LiveIds(o) \ {id} :
             Slots(q)'[j] = IF j = ids[Len(ids)] THEN Slots(o)[id] ELSE Slots(o)[j]
      BY <3>2, <3>3
    <3> DEFINE live == LiveIds(o)
               slot == Slots(o)
               after == Slots(q)'
               left == [i \in 1..(Len(ids) - 1) |-> IF i = slot[id] + 1 THEN ids[Len(ids)] ELSE ids[i]]
    <3>6. /\ live \in SUBSET VaultIds /\ id \in live /\ ListExact(ids, live, slot)
          /\ \A j \in live \ {id} : after[j] = IF j = ids[Len(ids)] THEN slot[id] ELSE slot[j]
      BY <3>3, <3>4, <3>5
    <3>7. openIds'[q] = left /\ LiveIds(q)' = live \ {id}
      BY <3>1, <3>3
    <3> HIDE DEF live, slot, after
    <3>8. /\ Len(left) = Len(ids) - 1
          /\ \A i \in 1..(Len(ids) - 1) :
                left[i] = IF i = slot[id] + 1 THEN ids[Len(ids)] ELSE ids[i]
      BY <1>2
    <3> HIDE DEF left
    <3>9. ListExact(left, live \ {id}, after)
      BY <1>2, <3>6, <3>8, RemovedExact
    <3> QED
      BY <3>7, <3>9 DEF after, ListExact
  <2>2. CASE q # o
    <3>1. openIds'[q] = openIds[q]
      BY <1>1, <1>7, <2>2 DEF VaultTypes
    <3>2. ASSUME NEW j \in VaultIds
          PROVE  /\ Live(<<q, j>>)' <=> Live(<<q, j>>)
                 /\ vault'[<<q, j>>].openIndex = vault[<<q, j>>].openIndex
      <4>1. <<q, j>> \in Keys /\ <<q, j>> # k /\ <<q, j>> # <<o, last>>
        BY <1>2, <2>2 DEF Keys
      <4> QED
        BY <1>5, <4>1
    <3>3. LiveIds(q)' = LiveIds(q) /\ Slots(q)' = Slots(q)
      BY <3>2 DEF LiveIds, Slots
    <3>4. ListExact(openIds[q], LiveIds(q), Slots(q))
      BY <1>4
    <3> QED
      BY <3>1, <3>3, <3>4 DEF ListExact
  <2> QED
    BY <2>1, <2>2
<1> QED
  BY <1>1, <1>8, ListsAreExactAfter

\* One vault changes, lives on and keeps its slot.
LEMMA LivesOnExact ==
  ASSUME VaultsSound, VaultsSound', OpenListExact, NEW k \in Keys, Live(k),
         vault'[k].state \in LiveStates, vault'[k].openIndex = vault[k].openIndex,
         \A j \in Keys \ {k} : SameButSlot(vault[j], vault'[j]) /\ vault'[j].openIndex = vault[j].openIndex,
         UNCHANGED <<vaultCount, openIds>>
  PROVE  OpenListExact'
<1>1. ASSUME NEW j \in Keys
      PROVE  (Live(j)' <=> Live(j)) /\ vault'[j].openIndex = vault[j].openIndex
  <2>1. CASE j = k
    BY <2>1 DEF Live, Exists, LiveStates
  <2>2. CASE j # k
    BY <2>2, LiveFacts, SameFields DEF Live, Exists
  <2> QED
    BY <2>1, <2>2
<1> QED
  BY <1>1, PlacesKeptExact

\* createVault keeps the lists exact,
LEMMA CreationExact ==
  ASSUME VaultsSound, VaultsSound', OpenListExact, NEW o \in Owners, CreationStep(o)
  PROVE  OpenListExact'
<1>1. PICK t \in Tokens, amount \in Deposits, beneficiary \in Heirs,
           period \in MIN_INACTIVITY..MAX_INACTIVITY,
           window \in MIN_CHALLENGE..MAX_CHALLENGE, horizon \in Dates :
        \E arrived \in Arrivals(amount) :
          CreateVault(o, t, amount, arrived, beneficiary, period, window, horizon)
  BY DEF CreationStep
<1>2. PICK arrived \in Arrivals(amount) :
        CreateVault(o, t, amount, arrived, beneficiary, period, window, horizon)
  BY <1>1
<1>n. PICK k : k = <<o, vaultCount[o]>>
  OBVIOUS
<1>m. PICK id : id = vaultCount[o]
  OBVIOUS
<1>l. PICK ids : ids = openIds[o]
  OBVIOUS
<1>3. /\ k \in Keys /\ ~Exists(k) /\ vault'[k].state = STATE_ACTIVE
      /\ vault'[k].openIndex = Len(openIds[o])
      /\ \A j \in Keys \ {k} : vault'[j] = vault[j]
  <2>1. Created(o, k, beneficiary, period, window, horizon)
    BY <1>2, <1>n, CreationLeaves
  <2> QED
    BY <2>1 DEF Created
<1>4. /\ VaultTypes /\ VaultTypes' /\ id \in Nat /\ id \in VaultIds /\ ids \in Seq(VaultIds)
      /\ vaultCount' = [vaultCount EXCEPT ![o] = id + 1]
      /\ openIds' = [openIds EXCEPT ![o] = Append(ids, id)]
      /\ Len(ids) < MAX_OPEN_VAULTS /\ k = <<o, id>>
  <2>1. VaultTypes /\ VaultTypes' /\ id \in Nat /\ ids \in Seq(VaultIds) /\ k = <<o, id>>
    BY <1>n, <1>m, <1>l DEF VaultsSound, VaultTypes
  <2>2. id \in VaultIds
    BY <1>3, <2>1 DEF Keys
  <2>3. /\ vaultCount' = [vaultCount EXCEPT ![o] = id + 1]
        /\ openIds' = [openIds EXCEPT ![o] = Append(ids, id)]
        /\ Len(ids) < MAX_OPEN_VAULTS
    BY <1>2, <1>m, <1>l DEF CreateVault
  <2> QED
    BY <2>1, <2>2, <2>3
<1>5. \A q \in Owners : ListExact(openIds[q], LiveIds(q), Slots(q))
  BY <1>4, ListsAreExact
<1>6. /\ openIds'[o] = Append(ids, id) /\ vaultCount'[o] = id + 1
      /\ \A q \in Owners \ {o} : openIds'[q] = openIds[q] /\ vaultCount'[q] = vaultCount[q]
      /\ \A q \in Owners : vaultCount[q] \in Nat
  BY <1>4 DEF VaultTypes
<1>7. ASSUME NEW j \in Keys, j # k
      PROVE  (Live(j)' <=> Live(j)) /\ vault'[j].openIndex = vault[j].openIndex
  <2>1. Exists(j)' <=> Exists(j)
    <3>1. j[1] \in Owners /\ j[2] \in Nat /\ (j[1] = o => j[2] # id)
      BY <1>4, <1>7 DEF Keys, VaultIds
    <3> QED
      BY <1>4, <1>m, <1>6, <3>1 DEF Exists
  <2> QED
    BY <1>3, <1>7, <2>1 DEF Live
<1>8. Live(k)' /\ ~Live(k)
  <2>1. Exists(k)' /\ ~Exists(k)
    <3>1. k[1] = o /\ k[2] = id
      BY <1>4
    <3> QED
      BY <1>3, <1>4, <1>6, <3>1 DEF Exists
  <2> QED
    BY <1>3, <2>1 DEF Live
<1>9. ASSUME NEW q \in Owners
      PROVE  ListExact(openIds[q], LiveIds(q), Slots(q))'
  <2>1. CASE q = o
    <3>1. ASSUME NEW j \in VaultIds
          PROVE  /\ j \in LiveIds(q)' <=> j \in LiveIds(o) \/ j = id
                 /\ j # id => Slots(q)'[j] = Slots(o)[j]
                 /\ j = id => Slots(q)'[j] = Len(ids) /\ j \notin LiveIds(o)
      <4>1. <<o, j>> \in Keys /\ (j = id <=> <<o, j>> = k)
        BY <1>4 DEF Keys
      <4> QED
        BY <1>3, <1>l, <1>7, <1>8, <2>1, <4>1 DEF LiveIds, Slots
    <3> DEFINE live == LiveIds(o)
               slot == Slots(o)
               after == Slots(q)'
    <3>2. /\ LiveIds(q)' = live \cup {id} /\ live \in SUBSET VaultIds /\ id \in VaultIds \ live
          /\ after[id] = Len(ids) /\ \A j \in live : after[j] = slot[j]
      BY <1>4, <3>1 DEF LiveIds
    <3>3. ListExact(ids, live, slot)
      BY <1>5, <1>l
    <3> HIDE DEF live, slot, after
    <3>4. ListExact(Append(ids, id), live \cup {id}, after)
      BY <1>4, <3>2, <3>3, AppendedExact
    <3> QED
      BY <1>6, <2>1, <3>2, <3>4, Zenon DEF after
  <2>2. CASE q # o
    <3>1. ASSUME NEW j \in VaultIds
          PROVE  /\ Live(<<q, j>>)' <=> Live(<<q, j>>)
                 /\ vault'[<<q, j>>].openIndex = vault[<<q, j>>].openIndex
      <4>1. <<q, j>> \in Keys /\ <<q, j>> # k
        BY <1>4, <2>2 DEF Keys
      <4> QED
        BY <1>7, <4>1
    <3>2. LiveIds(q)' = LiveIds(q)
      BY <3>1 DEF LiveIds
    <3>3. Slots(q)' = Slots(q)
      BY <3>1 DEF Slots
    <3>4. openIds'[q] = openIds[q]
      BY <1>6, <2>2
    <3> QED
      <4>1. ListExact(openIds[q], LiveIds(q), Slots(q))
        BY <1>5
      <4>2. ListExact(openIds'[q], LiveIds(q)', Slots(q)')
        BY <3>2, <3>3, <3>4, <4>1, Zenon
      <4> QED
        BY <4>2 DEF ListExact
  <2> QED
    BY <2>1, <2>2
<1> QED
  BY <1>4, <1>9, ListsAreExactAfter

\* A step about other things, or about the vaults and not their places.
LEMMA SameVaultsExact ==
  ASSUME VaultsSound, VaultsSound', OpenListExact, UNCHANGED <<vault, vaultCount, openIds>>
  PROVE  OpenListExact'
BY PlacesKeptExact DEF Live, Exists

\* checkInMany does,
LEMMA BatchExact ==
  ASSUME VaultsSound, VaultsSound', OpenListExact, NEW o \in Owners, BatchStep(o)
  PROVE  OpenListExact'
<1>1. UNCHANGED <<vaultCount, openIds>>
  BY DEF BatchStep, CheckInMany, OwnVaultOnly
<1>2. ASSUME NEW k \in Keys
      PROVE  (Live(k)' <=> Live(k)) /\ vault'[k].openIndex = vault[k].openIndex
  <2>1. CASE vault'[k] = vault[k]
    BY <1>1, <2>1 DEF Live, Exists
  <2>2. CASE Active(k) /\ OwnerLeft(vault[k], vault'[k]) /\ vault'[k].state = STATE_ACTIVE
    BY <1>1, <2>2 DEF Live, Exists, Active, OwnerLeft, LiveStates
  <2> QED
    BY <2>1, <2>2, BatchLeaves
<1> QED
  BY <1>1, <1>2, PlacesKeptExact

\* each call of the owner,
LEMMA OwnerStepExact ==
  ASSUME VaultsSound, VaultsSound', OpenListExact, NEW k \in Keys, OwnerStep(k)
  PROVE  OpenListExact'
<1>1. LeftByOwner(k)
  BY OwnerStepLeaves
<1>2. CASE vault'[k].state \in LiveStates
  <2>1. /\ Live(k) /\ UNCHANGED <<vaultCount, openIds>>
        /\ vault'[k].openIndex = vault[k].openIndex /\ Becomes(k, vault'[k])
    BY <1>1, <1>2 DEF LeftByOwner, PlaceFollows, OwnerLeft
  <2>2. ASSUME NEW j \in Keys \ {k}
        PROVE  SameButSlot(vault[j], vault'[j]) /\ vault'[j].openIndex = vault[j].openIndex
    BY <2>1, BecomesIs, LiveFacts, SameOfItself
  <2> QED
    BY <1>2, <2>1, <2>2, LivesOnExact
<1>3. CASE vault'[k].state \notin LiveStates
  BY <1>1, <1>3, LeaveOpenExact DEF LeftByOwner, PlaceFollows
<1> QED
  BY <1>2, <1>3

\* checkInByChain,
LEMMA ChainStepExact ==
  ASSUME VaultsSound, VaultsSound', OpenListExact, NEW k \in Keys, ChainStep(k)
  PROVE  OpenListExact'
<1>1. PICK preimage \in Links \cup {NoValue} : CheckInByChain(k, preimage)
  BY DEF ChainStep
<1>2. /\ Live(k) /\ vault'[k].state \in LiveStates
      /\ vault'[k].openIndex = vault[k].openIndex
      /\ \A j \in Keys \ {k} : vault'[j] = vault[j]
  BY <1>1, ChainStepLeaves DEF OwnerLeft, Active, Live, LiveStates
<1>3. UNCHANGED <<vaultCount, openIds>>
  BY <1>1 DEF CheckInByChain, OwnVaultOnly
<1> QED
  BY <1>2, <1>3, LivesOnExact, LiveFacts, SameOfItself

\* the calls of the heir,
LEMMA HeirStepExact ==
  ASSUME VaultsSound, VaultsSound', OpenListExact, NEW k \in Keys, NEW caller, HeirStep(caller, k)
  PROVE  OpenListExact'
<1>1. vault[k] \in VaultRecords
  BY LiveFacts
<1>2. ASSUME NEW to \in Recipients, InitiateClaim(caller, k, to)
      PROVE  OpenListExact'
  <2> DEFINE rate == FeeToLock(vault[k])
  <2>1. /\ Active(k) /\ \A j \in Keys \ {k} : vault'[j] = vault[j]
        /\ vault'[k] = [vault[k] EXCEPT !.lockedFeeBps = rate, !.claimRecipient = to,
                            !.claimInitiatedAt = now, !.state = STATE_CLAIM_PENDING]
    BY <1>2, ClaimLeaves, ZenonT(60)
  <2>2. UNCHANGED <<vaultCount, openIds>>
    BY <1>2 DEF InitiateClaim, OwnVaultOnly
  <2> HIDE DEF rate
  <2>3. /\ Live(k) /\ vault'[k].state \in LiveStates
        /\ vault'[k].openIndex = vault[k].openIndex
    BY <1>1, <2>1 DEF VaultRecords, Live, Active, LiveStates
  <2> QED
    BY <2>1, <2>2, <2>3, LivesOnExact, LiveFacts, SameOfItself
<1>3. CASE BeneficiaryCancelClaim(caller, k)
  <2>1. /\ Pending(k) /\ \A j \in Keys \ {k} : vault'[j] = vault[j]
        /\ vault'[k] = WithoutClaim(vault[k])
    BY <1>3, CancelLeaves
  <2>2. UNCHANGED <<vaultCount, openIds>>
    BY <1>3 DEF BeneficiaryCancelClaim, OwnVaultOnly
  <2>3. /\ Live(k) /\ vault'[k].state \in LiveStates
        /\ vault'[k].openIndex = vault[k].openIndex
    BY <1>1, <2>1 DEF WithoutClaim, VaultRecords, Live, Pending, LiveStates
  <2> QED
    BY <2>1, <2>2, <2>3, LivesOnExact, LiveFacts, SameOfItself
<1> QED
  BY <1>2, <1>3 DEF HeirStep

\* topUp
LEMMA TopUpExact ==
  ASSUME VaultsSound, VaultsSound', OpenListExact, NEW k \in Keys, TopUpStep(k)
  PROVE  OpenListExact'
<1>1. UNCHANGED <<vaultCount, openIds>>
  BY DEF TopUpStep, TopUp
<1>2. Active(k) /\ \E amount \in Nat : vault'[k] = [vault[k] EXCEPT !.balance = @ + amount]
  BY TopUpLeaves
<1>3. \A j \in Keys \ {k} : vault'[j] = vault[j]
  BY TopUpLeaves
<1>4. PICK amount \in Nat : vault'[k] = [vault[k] EXCEPT !.balance = @ + amount]
  BY <1>2
<1>5. /\ Live(k) /\ vault'[k].state \in LiveStates
      /\ vault'[k].openIndex = vault[k].openIndex
  BY <1>2, <1>4, LiveFacts DEF VaultRecords, Live, Active, LiveStates
<1> QED
  BY <1>1, <1>3, <1>5, LivesOnExact, LiveFacts, SameOfItself

\* and finalizeClaim.
LEMMA SettlementExact ==
  ASSUME VaultsSound, VaultsSound', OpenListExact, NEW k \in Keys, FinalizeClaim(k)
  PROVE  OpenListExact'
<1> DEFINE ended == [vault[k] EXCEPT !.balance = 0, !.state = STATE_SETTLED]
<1>1. Pending(k) /\ LeaveOpen(k, ended) /\ UNCHANGED vaultCount
  BY DEF FinalizeClaim
<1>2. Live(k) /\ vault[k] \in VaultRecords
  BY <1>1, LiveFacts DEF Live, Pending
<1>3. ended.state \notin LiveStates
  BY <1>2, StatesDiffer DEF VaultRecords
<1> HIDE DEF ended
<1> QED
  BY <1>1, <1>2, <1>3, LeaveOpenExact

\* The open list stays exact over every step.
LEMMA OpenListKept ==
  ASSUME VaultsSound, VaultsSound', OpenListExact, [Next]_vars
  PROVE  OpenListExact'
<1>1. CASE TickStep \/ AdminStep \/ PayoutStep \/ UNCHANGED vars
  BY <1>1, ElsewhereLeaves, SameVaultsExact
<1>2. CASE AnyoneStep
  <2>1. CASE (ApplyClaimFee \/ GiftAction) /\ UNCHANGED vaultState
    BY <2>1, ElsewhereLeaves, SameVaultsExact
  <2> QED
    BY <1>2, <2>1, SettlementExact, TopUpExact DEF AnyoneStep
<1> QED
  BY <1>1, <1>2, CreationExact, BatchExact, OwnerStepExact, ChainStepExact, HeirStepExact DEF Next

\* The open list of an owner names each live vault once, at the slot the vault
\* knows, and nothing else: whatever leaves it, and in whatever order.
THEOREM OpenListStaysTrue == Spec => []OpenListExact
<1>1. Init => OpenListExact
  <2> SUFFICES ASSUME Init, NEW o \in Owners
               PROVE  /\ Len(openIds[o]) = 0
                      /\ \A id \in VaultIds : ~Live(<<o, id>>)
    BY VaultAssumption DEF OpenListExact
  <2>1. openIds[o] = <<>>
    BY DEF Init
  <2>2. ASSUME NEW id \in VaultIds
        PROVE  ~Exists(<<o, id>>)
    <3>1. vaultCount[o] = 0 /\ id \in Nat
      BY DEF Init, VaultIds
    <3> QED
      BY <3>1 DEF Exists
  <2> QED
    BY <2>1, <2>2 DEF Live
<1>2. VaultsSound /\ VaultsSound' /\ OpenListExact /\ [Next]_vars => OpenListExact'
  BY OpenListKept
<1> QED
  BY <1>1, <1>2, VaultsStaySound, PTL DEF Spec
=============================================================================
