-------------------------- MODULE VaultHistory_proofs --------------------------
(***************************************************************************)
(* What is true of a vault over its life, proved for every value of the    *)
(* constants: whose claim it is, what the deadline counts from, what a     *)
(* settlement waits for and charges (VaultHistory); that no chain link     *)
(* works twice and the open list stays exact (ManyVaults); and that every  *)
(* vault is a DeadMansSwitch, so that what the switch promises to its      *)
(* owner, the contract keeps (MCInheritanceVault).                         *)
(***************************************************************************)
EXTENDS ManyVaults, MCInheritanceVault, InheritanceVault_proofs

USE VaultAssumption

-----------------------------------------------------------------------------
(* One vault and its past.                                                  *)

\* The history takes no part: its steps are the contract's.
LEMMA HistoryIsAStep == [HistoryNext]_historyVars => [Next]_vars
<1> SUFFICES ASSUME [HistoryNext]_historyVars PROVE [Next]_vars
  OBVIOUS
<1>1. CASE UNCHANGED historyVars
  BY <1>1 DEF historyVars
<1>2. ASSUME NEW o \in Owners, HistoryCreation(o) \/ HistoryBatch(o)
      PROVE  Next
  BY <1>2 DEF HistoryCreation, HistoryBatch, Next
<1>3. ASSUME NEW k \in Keys, HistoryOwner(k)
      PROVE  Next
  BY <1>3 DEF HistoryOwner, Next
<1>4. ASSUME NEW k \in Keys, NEW preimage \in Links, HistoryChain(k, preimage)
      PROVE  Next
  <2>1. ChainStep(k)
    BY <1>4 DEF HistoryChain, ChainStep
  <2> QED
    BY <2>1 DEF Next
<1>5. ASSUME NEW caller \in Heirs, NEW k \in Keys, NEW to \in Recipients,
             HistoryClaim(caller, k, to)
      PROVE  Next
  <2>1. HeirStep(caller, k)
    BY <1>5 DEF HistoryClaim, HeirStep
  <2> QED
    BY <2>1 DEF Next
<1>6. CASE Bystanders
  BY <1>6 DEF Bystanders, HeirStep, Next
<1> QED
  BY <1>1, <1>2, <1>3, <1>4, <1>5, <1>6 DEF HistoryNext

\* The clock stands still or goes on by one.
LEMMA TimePasses == ASSUME ClockTypeOK, [Next]_vars PROVE now' = now \/ now' = now + 1
<1>1. [FeeNext]_feeVars
  BY FeeStep
<1> QED
  BY <1>1 DEF feeVars, FeeNext, Tick, SetClaimFee, ApplyClaimFee, SetFeeRecipient, feeState, schedule, recipient

HistoryTyped ==
    /\ lastSign \in [Keys -> Nat]
    /\ claimant \in [Keys -> AnyAddress]
    /\ ratePromised \in [Keys -> Nat]
    /\ rateQuoted \in [Keys -> Nat]

\* A vault v at time t whose owner gave the last sign at `sign`, whose claim
\* `who` started, and of whose fee its parties were told two rates.
PastSound(v, sign, who, promised, quoted, t) ==
    /\ v.state \in LiveStates =>
          v.deadline = Smaller(sign + v.inactivityPeriod, v.absoluteDeadline)
    /\ v.state = STATE_CLAIM_PENDING =>
          /\ who = v.beneficiary
          /\ v.lockedFeeBps <= quoted
          /\ t >= v.absoluteDeadline \/ v.claimInitiatedAt >= v.deadline
    /\ v.state # STATE_NONE => v.feeBps = promised

PastsSound ==
    \A k \in Keys :
        PastSound(vault[k], lastSign[k], claimant[k], ratePromised[k], rateQuoted[k], now)

HistoryInv == VaultsSound /\ FeeTypeOK /\ HistoryTyped /\ PastsSound

PastKept(k) ==
    /\ lastSign'[k] = lastSign[k]
    /\ claimant'[k] = claimant[k]
    /\ ratePromised'[k] = ratePromised[k]
    /\ rateQuoted'[k] = rateQuoted[k]

\* The owner of k acts on it.
Signed(k) ==
    /\ Live(k) /\ OwnerLeft(vault[k], vault'[k])
    /\ \/ ChainKept(vault[k], vault'[k])
       \/ \E preimage \in Links : HistoryChain(k, preimage)
    /\ lastSign'[k] = now
    /\ claimant'[k] = claimant[k]
    /\ ratePromised'[k] = ratePromised[k]
    /\ rateQuoted'[k] = rateQuoted[k]

BornNow(k) ==
    /\ \E o \in Owners, beneficiary \in Heirs : \E period, window, horizon :
          Created(o, k, beneficiary, period, window, horizon)
    /\ lastSign'[k] = now /\ ratePromised'[k] = ClaimFeeBps

\* The state says whether a vault exists, is live, or is claimed.
LEMMA StateTells ==
  ASSUME VaultsSound, NEW k \in Keys
  PROVE  /\ Live(k) <=> vault[k].state \in LiveStates
         /\ Pending(k) <=> vault[k].state = STATE_CLAIM_PENDING
         /\ Active(k) <=> vault[k].state = STATE_ACTIVE
<1>1. ~Exists(k) => vault[k].state = STATE_NONE
  BY DEF VaultsSound
<1> QED
  BY <1>1, StatesDiffer DEF Live, Pending, Active, LiveStates, STATE_NONE, STATE_ACTIVE, STATE_CLAIM_PENDING

Unmoved(k) == SameButSlot(vault[k], vault'[k]) /\ PastKept(k)

\* What a step makes of a vault and of its past.
LEMMA HistoryMoves ==
  ASSUME HistoryInv, [HistoryNext]_historyVars, NEW k \in Keys
  PROVE  \/ Unmoved(k)
         \/ BornNow(k)
         \/ Signed(k)
         \/ TopUpStep(k) /\ PastKept(k)
         \/ \E caller \in Heirs, to \in Recipients : HistoryClaim(caller, k, to)
         \/ (\E caller \in Heirs : BeneficiaryCancelClaim(caller, k)) /\ PastKept(k)
         \/ FinalizeClaim(k) /\ PastKept(k)
<1>0. VaultsSound /\ HistoryTyped /\ vault[k] \in VaultRecords
  BY LiveFacts DEF HistoryInv
<1> USE <1>0 DEF Unmoved
<1>1. CASE UNCHANGED historyVars
  <2>1. UNCHANGED vault /\ PastKept(k)
    BY <1>1 DEF historyVars, vars, vaultState, history, PastKept
  <2> QED
    BY <2>1, SameOfItself
<1>2. ASSUME NEW o \in Owners, HistoryCreation(o)
      PROVE  BornNow(k) \/ Unmoved(k)
  <2>1. PICK t \in Tokens, amount \in Deposits, beneficiary \in Heirs,
             period \in MIN_INACTIVITY..MAX_INACTIVITY,
             window \in MIN_CHALLENGE..MAX_CHALLENGE, horizon \in Dates :
          \E arrived \in Arrivals(amount) :
            CreateVault(o, t, amount, arrived, beneficiary, period, window, horizon)
    BY <1>2 DEF HistoryCreation, CreationStep
  <2>2. PICK arrived \in Arrivals(amount) :
          CreateVault(o, t, amount, arrived, beneficiary, period, window, horizon)
    BY <2>1
  <2>3. PICK b : b = <<o, vaultCount[o]>>
    OBVIOUS
  <2>4. Created(o, b, beneficiary, period, window, horizon)
    BY <2>2, <2>3, CreationLeaves
  <2>5. /\ lastSign' = [j \in Keys |-> IF j \in {b} THEN now ELSE lastSign[j]]
        /\ ratePromised' = [ratePromised EXCEPT ![b] = ClaimFeeBps]
        /\ UNCHANGED <<claimant, rateQuoted, spent>>
    BY <1>2, <2>3 DEF HistoryCreation, SignOfLife
  <2>6. CASE k = b
    <3>1. lastSign'[k] = now /\ ratePromised'[k] = ClaimFeeBps
      BY <2>5, <2>6 DEF HistoryTyped
    <3> QED
      BY <2>4, <2>6, <3>1 DEF BornNow
  <2>7. CASE k # b
    <3>1. vault'[k] = vault[k]
      BY <2>4, <2>7 DEF Created
    <3>2. PastKept(k)
      BY <2>5, <2>7 DEF HistoryTyped, PastKept
    <3> QED
      BY <3>1, <3>2, SameOfItself
  <2> QED
    BY <2>6, <2>7
<1>3. ASSUME NEW o \in Owners, HistoryBatch(o)
      PROVE  Signed(k) \/ Unmoved(k)
  <2>1. /\ BatchStep(o) /\ UNCHANGED <<claimant, ratePromised, rateQuoted>>
        /\ lastSign'[k] = IF vault'[k] # vault[k] THEN now ELSE lastSign[k]
    BY <1>3 DEF HistoryBatch, SignOfLife
  <2>2. CASE vault'[k] = vault[k]
    BY <2>1, <2>2, SameOfItself DEF PastKept
  <2>3. CASE vault'[k] # vault[k]
    <3>1. Active(k) /\ OwnerLeft(vault[k], vault'[k])
      BY <2>1, <2>3, BatchLeaves
    <3>2. Live(k)
      BY <3>1 DEF Active, Live
    <3>3. ChainKept(vault[k], vault'[k])
      <4>1. vault'[k] = ResetClock(vault[k])
        BY <2>1, <2>3, BatchLeaves
      <4> QED
        BY <4>1 DEF ResetClock, ChainKept, VaultRecords
    <3> QED
      BY <2>1, <2>3, <3>1, <3>2, <3>3 DEF Signed
  <2> QED
    BY <2>2, <2>3
<1>4. ASSUME NEW j \in Keys, HistoryOwner(j)
      PROVE  Signed(k) \/ Unmoved(k)
  <2>1. /\ OwnerStep(j) /\ UNCHANGED <<claimant, ratePromised, rateQuoted>>
        /\ lastSign'[k] = IF k \in {j} THEN now ELSE lastSign[k]
    BY <1>4 DEF HistoryOwner, SignOfLife
  <2>2. CASE k = j
    <3>1. OwnerLeft(vault[k], vault'[k]) /\ Live(k) /\ ChainKept(vault[k], vault'[k])
      BY <2>1, <2>2, OwnerStepLeaves DEF LeftByOwner, PlaceFollows
    <3> QED
      BY <2>1, <2>2, <3>1 DEF Signed
  <2>3. CASE k # j
    BY <2>1, <2>3, OwnerStepOthers DEF PastKept
  <2> QED
    BY <2>2, <2>3
<1>5. ASSUME NEW j \in Keys, NEW preimage \in Links, HistoryChain(j, preimage)
      PROVE  Signed(k) \/ Unmoved(k)
  <2>1. /\ CheckInByChain(j, preimage) /\ UNCHANGED <<claimant, ratePromised, rateQuoted>>
        /\ lastSign'[k] = IF k \in {j} THEN now ELSE lastSign[k]
    BY <1>5 DEF HistoryChain, SignOfLife
  <2>2. /\ OwnerLeft(vault[j], vault'[j]) /\ Active(j)
        /\ \A i \in Keys \ {j} : vault'[i] = vault[i]
    BY <2>1, ChainStepLeaves
  <2>3. CASE k = j
    BY <1>5, <2>1, <2>2, <2>3 DEF Signed, Active, Live
  <2>4. CASE k # j
    BY <2>1, <2>2, <2>4, SameOfItself DEF PastKept
  <2> QED
    BY <2>3, <2>4
<1>6. ASSUME NEW caller \in Heirs, NEW j \in Keys, NEW to \in Recipients,
             HistoryClaim(caller, j, to), j # k
      PROVE  Unmoved(k)
  <2>1. /\ InitiateClaim(caller, j, to) /\ UNCHANGED <<lastSign, ratePromised>>
        /\ claimant'[k] = claimant[k] /\ rateQuoted'[k] = rateQuoted[k]
    BY <1>6 DEF HistoryClaim, HistoryTyped
  <2>2. vault'[k] = vault[k]
    BY <1>6, <2>1, ClaimLeaves
  <2> QED
    BY <2>1, <2>2, SameOfItself DEF PastKept
<1>7. CASE Bystanders /\ UNCHANGED history
  <2>1. PastKept(k)
    BY <1>7 DEF history, PastKept
  <2>2. CASE TickStep \/ AdminStep \/ PayoutStep
             \/ ((ApplyClaimFee \/ GiftAction) /\ UNCHANGED vaultState)
    <3>1. UNCHANGED vault
      BY <2>2, ElsewhereLeaves
    <3> QED
      BY <2>1, <3>1, SameOfItself
  <2>3. ASSUME NEW caller \in Heirs, NEW j \in Keys, BeneficiaryCancelClaim(caller, j), j # k
        PROVE  SameButSlot(vault[k], vault'[k])
    BY <2>3, CancelLeaves, SameOfItself
  <2>4. ASSUME NEW j \in Keys, FinalizeClaim(j) \/ TopUpStep(j), j # k
        PROVE  SameButSlot(vault[k], vault'[k])
    BY <2>4, SettlementLeaves, TopUpLeaves, SameOfItself
  <2>5. CASE \E caller \in Heirs, j \in Keys : BeneficiaryCancelClaim(caller, j)
    BY <2>1, <2>3, <2>5
  <2>6. CASE \E j \in Keys : FinalizeClaim(j) \/ TopUpStep(j)
    BY <2>1, <2>4, <2>6
  <2>7. \/ TickStep \/ AdminStep \/ PayoutStep \/ AnyoneStep
        \/ \E caller \in Heirs, j \in Keys : BeneficiaryCancelClaim(caller, j)
    BY <1>7 DEF Bystanders
  <2>8. CASE AnyoneStep
    BY <2>1, <2>2, <2>6, <2>8 DEF AnyoneStep
  <2>9. CASE TickStep \/ AdminStep \/ PayoutStep
    BY <2>1, <2>2, <2>9
  <2> QED
    BY <2>5, <2>7, <2>8, <2>9
<1> QED
  BY <1>1, <1>2, <1>3, <1>4, <1>5, <1>6, <1>7 DEF HistoryNext

\* Every step keeps what is said of a vault's past.
LEMMA PastStepKeeps ==
  ASSUME HistoryInv, VaultsSound', [HistoryNext]_historyVars, NEW k \in Keys
  PROVE  PastSound(vault[k], lastSign[k], claimant[k], ratePromised[k], rateQuoted[k], now)'
<1> DEFINE v == vault[k]
           w == vault'[k]
<1>1. /\ VaultsSound /\ FeeTypeOK /\ HistoryTyped /\ v \in VaultRecords
      /\ now \in Nat /\ now' \in Nat /\ now' >= now
      /\ PastSound(v, lastSign[k], claimant[k], ratePromised[k], rateQuoted[k], now)
  <2>1. VaultsSound /\ FeeTypeOK /\ HistoryTyped /\ v \in VaultRecords /\ now \in Nat
    BY LiveFacts DEF HistoryInv
  <2>2. now' = now \/ now' = now + 1
    BY <2>1, HistoryIsAStep, TimePasses DEF VaultsSound
  <2> QED
    BY <2>1, <2>2 DEF HistoryInv, PastsSound
<1>2. SUFFICES PastSound(w, lastSign'[k], claimant'[k], ratePromised'[k], rateQuoted'[k], now')
  OBVIOUS
<1>3. CASE Unmoved(k)
  <2>1. SameButSlot(v, w) /\ PastKept(k)
    BY <1>3 DEF Unmoved
  <2>2. /\ w.state = v.state /\ w.feeBps = v.feeBps /\ w.beneficiary = v.beneficiary
        /\ w.deadline = v.deadline /\ w.inactivityPeriod = v.inactivityPeriod
        /\ w.absoluteDeadline = v.absoluteDeadline /\ w.claimInitiatedAt = v.claimInitiatedAt
        /\ w.lockedFeeBps = v.lockedFeeBps
    BY <1>1, <2>1, SameFields
  <2>3. v.absoluteDeadline \in Nat
    BY <1>1 DEF VaultRecords
  <2> QED
    BY <1>1, <2>1, <2>2, <2>3 DEF PastSound, PastKept
<1>4. CASE BornNow(k)
  <2>1. PICK o \in Owners, beneficiary \in Heirs : \E period, window, horizon :
          Created(o, k, beneficiary, period, window, horizon)
    BY <1>4 DEF BornNow
  <2>2. /\ w.state = STATE_ACTIVE /\ w.feeBps = ClaimFeeBps
        /\ w.deadline = Smaller(now + w.inactivityPeriod, w.absoluteDeadline)
    BY <2>1 DEF Created
  <2> QED
    BY <1>4, <2>2, StatesDiffer DEF BornNow, PastSound
<1>5. CASE Signed(k)
  <2>1. /\ OwnerLeft(v, w) /\ lastSign'[k] = now /\ claimant'[k] = claimant[k]
        /\ ratePromised'[k] = ratePromised[k] /\ rateQuoted'[k] = rateQuoted[k]
        /\ v.state \in LiveStates
    BY <1>1, <1>5, StateTells DEF Signed
  <2>2. v.absoluteDeadline \in Nat /\ v.state # STATE_NONE
    BY <1>1, <2>1, StatesDiffer DEF VaultRecords
  <2> QED
    BY <1>1, <2>1, <2>2 DEF OwnerLeft, PastSound
<1>6. CASE TopUpStep(k) /\ PastKept(k)
  <2>1. PICK amount \in Nat : w = [v EXCEPT !.balance = @ + amount]
    BY <1>1, <1>6, TopUpLeaves
  <2>2. /\ w.state = v.state /\ w.feeBps = v.feeBps /\ w.beneficiary = v.beneficiary
        /\ w.deadline = v.deadline /\ w.inactivityPeriod = v.inactivityPeriod
        /\ w.absoluteDeadline = v.absoluteDeadline /\ w.claimInitiatedAt = v.claimInitiatedAt
        /\ w.lockedFeeBps = v.lockedFeeBps /\ v.absoluteDeadline \in Nat
    BY <1>1, <2>1 DEF VaultRecords
  <2> QED
    BY <1>1, <1>6, <2>2 DEF PastSound, PastKept
<1>7. ASSUME NEW caller \in Heirs, NEW to \in Recipients, HistoryClaim(caller, k, to)
      PROVE  PastSound(w, lastSign'[k], claimant'[k], ratePromised'[k], rateQuoted'[k], now')
  <2>1. /\ Active(k) /\ caller = v.beneficiary /\ now >= v.deadline
        /\ w = [v EXCEPT !.lockedFeeBps = FeeToLock(v), !.claimRecipient = to,
                         !.claimInitiatedAt = now, !.state = STATE_CLAIM_PENDING]
    BY <1>1, <1>7, ClaimLeaves, ZenonT(60) DEF HistoryClaim
  <2>2. /\ claimant'[k] = caller /\ rateQuoted'[k] = ChargeAt(now)
        /\ lastSign'[k] = lastSign[k] /\ ratePromised'[k] = ratePromised[k]
    BY <1>1, <1>7 DEF HistoryClaim, HistoryTyped
  <2> DEFINE lock == FeeToLock(v)
  <2>3. lock <= ChargeAt(now)
    <3>1. ClaimFeeBps \in Nat /\ v.feeBps \in Nat
      BY <1>1 DEF FeeTypeOK, ClaimFeeBps, RateAt, VaultRecords
    <3> QED
      BY <3>1 DEF FeeToLock, ChargeAt, RecipientInForce, ClaimFeeBps, Smaller
  <2> HIDE DEF lock
  <2>4. /\ w.state = STATE_CLAIM_PENDING /\ w.feeBps = v.feeBps /\ w.beneficiary = v.beneficiary
        /\ w.deadline = v.deadline /\ w.inactivityPeriod = v.inactivityPeriod
        /\ w.absoluteDeadline = v.absoluteDeadline /\ w.claimInitiatedAt = now
        /\ w.lockedFeeBps = lock
    BY <1>1, <2>1 DEF VaultRecords, lock
  <2>5. v.state = STATE_ACTIVE /\ v.state \in LiveStates /\ v.state # STATE_NONE
    BY <1>1, <2>1, StatesDiffer, LiveFacts
  <2> QED
    BY <1>1, <2>1, <2>2, <2>3, <2>4, <2>5 DEF PastSound
<1>8. CASE (\E caller \in Heirs : BeneficiaryCancelClaim(caller, k)) /\ PastKept(k)
  <2>1. Pending(k) /\ w = WithoutClaim(v)
    BY <1>1, <1>8, CancelLeaves
  <2>2. /\ w.state = STATE_ACTIVE /\ w.feeBps = v.feeBps /\ w.deadline = v.deadline
        /\ w.inactivityPeriod = v.inactivityPeriod /\ w.absoluteDeadline = v.absoluteDeadline
    BY <1>1, <2>1 DEF WithoutClaim, VaultRecords
  <2>3. v.state \in LiveStates /\ v.state # STATE_NONE
    BY <1>1, <2>1, LiveFacts, StatesDiffer
  <2> QED
    BY <1>1, <1>8, <2>2, <2>3, StatesDiffer DEF PastSound, PastKept
<1>9. CASE FinalizeClaim(k) /\ PastKept(k)
  <2>1. Pending(k) /\ w = [v EXCEPT !.balance = 0, !.state = STATE_SETTLED]
    BY <1>1, <1>9, SettlementLeaves
  <2>2. w.state = STATE_SETTLED /\ w.feeBps = v.feeBps /\ v.state \in LiveStates /\ v.state # STATE_NONE
    BY <1>1, <2>1, LiveFacts, StatesDiffer DEF VaultRecords
  <2>3. w.state \notin LiveStates /\ w.state # STATE_CLAIM_PENDING
    BY <2>2, StatesDiffer DEF LiveStates
  <2> QED
    BY <1>1, <1>9, <2>2, <2>3 DEF PastSound, PastKept
<1> HIDE DEF v, w
<1> QED
  BY <1>3, <1>4, <1>5, <1>6, <1>7, <1>8, <1>9, HistoryMoves

\* Without its history a behaviour is one of the contract.
LEMMA HistoryIsASpec == HistorySpec => Spec
<1>1. HistoryInit => Init
  BY DEF HistoryInit
<1> QED
  BY <1>1, HistoryIsAStep, PTL DEF HistorySpec, Spec

\* No vault has a past at the start.
LEMMA PastsStart == HistoryInit => HistoryTyped /\ PastsSound
<1> SUFFICES ASSUME HistoryInit PROVE HistoryTyped /\ PastsSound
  OBVIOUS
<1>1. \A k \in Keys : vault[k] = NoVault
  BY DEF HistoryInit, Init
<1>2. HistoryTyped
  BY DEF HistoryInit, HistoryTyped, AnyAddress
<1>3. ASSUME NEW k \in Keys
      PROVE  PastSound(vault[k], lastSign[k], claimant[k], ratePromised[k], rateQuoted[k], now)
  <2>1. vault[k].state = STATE_NONE /\ vault[k].state # STATE_CLAIM_PENDING
    BY <1>1 DEF NoVault, STATE_NONE, STATE_CLAIM_PENDING
  <2> QED
    BY <2>1, StatesDiffer DEF PastSound
<1> QED
  BY <1>2, <1>3 DEF PastsSound

\* The history keeps its types.
LEMMA HistoryStaysTyped ==
  ASSUME HistoryInv, [HistoryNext]_historyVars
  PROVE  HistoryTyped'
<1>1. /\ HistoryTyped /\ now \in Nat /\ ClaimFeeBps \in Nat /\ ChargeAt(now) \in Nat
      /\ \A k \in Keys : vault[k].beneficiary \in AnyAddress
  BY DEF HistoryInv, VaultsSound, VaultTypes, VaultRecords, ClockTypeOK, FeeTypeOK,
         ClaimFeeBps, ChargeAt, RateAt
<1> USE DEF HistoryTyped
<1>2. CASE UNCHANGED historyVars
  BY <1>1, <1>2 DEF historyVars, history
<1>3. ASSUME NEW o \in Owners, HistoryCreation(o)
      PROVE  HistoryTyped'
  BY <1>1, <1>3 DEF HistoryCreation, SignOfLife
<1>4. ASSUME NEW o \in Owners, HistoryBatch(o)
      PROVE  HistoryTyped'
  BY <1>1, <1>4 DEF HistoryBatch, SignOfLife
<1>5. ASSUME NEW k \in Keys, HistoryOwner(k)
      PROVE  HistoryTyped'
  BY <1>1, <1>5 DEF HistoryOwner, SignOfLife
<1>6. ASSUME NEW k \in Keys, NEW preimage \in Links, HistoryChain(k, preimage)
      PROVE  HistoryTyped'
  BY <1>1, <1>6 DEF HistoryChain, SignOfLife
<1>7. ASSUME NEW caller \in Heirs, NEW k \in Keys, NEW to, HistoryClaim(caller, k, to)
      PROVE  HistoryTyped'
  BY <1>1, <1>7 DEF HistoryClaim
<1>8. CASE UNCHANGED history
  BY <1>1, <1>8 DEF history
<1> QED
  BY <1>2, <1>3, <1>4, <1>5, <1>6, <1>7, <1>8 DEF HistoryNext

\* The inductive invariant of a vault and its past.
LEMMA HistoryStaysSound == HistorySpec => []HistoryInv
<1>1. HistoryInit => HistoryTyped /\ PastsSound
  BY PastsStart
<1>2. HistoryInv /\ VaultsSound' /\ [HistoryNext]_historyVars => (HistoryTyped /\ PastsSound)'
  <2>1. ASSUME HistoryInv, VaultsSound', [HistoryNext]_historyVars
        PROVE  HistoryTyped' /\ PastsSound'
    <3>1. HistoryTyped'
      BY <2>1, HistoryStaysTyped
    <3>2. \A k \in Keys :
            PastSound(vault[k], lastSign[k], claimant[k], ratePromised[k], rateQuoted[k], now)'
      BY <2>1, PastStepKeeps
    <3> QED
      BY <3>1, <3>2 DEF PastsSound
  <2> QED
    BY <2>1
<1>3. HistorySpec => []VaultsSound /\ []FeeTypeOK
  BY HistoryIsASpec, VaultsStaySound, FeesImplemented, FeeTypeCorrect, PTL
<1>4. HistoryInv <=> VaultsSound /\ FeeTypeOK /\ HistoryTyped /\ PastsSound
  BY DEF HistoryInv
<1> QED
  BY <1>1, <1>2, <1>3, <1>4, PTL DEF HistorySpec

-----------------------------------------------------------------------------
(* The theorems.                                                            *)

\* A claim is the named heir's own: whatever the owner, the heirs and everybody
\* else do, who started the claim that stands is the beneficiary (initiateClaim,
\* setBeneficiary).
THEOREM ClaimsAreTheHeirs == HistorySpec => []ClaimantIsHeir
<1>1. HistoryInv => ClaimantIsHeir
  BY StateTells DEF HistoryInv, PastsSound, PastSound, ClaimantIsHeir
<1> QED
  BY <1>1, HistoryStaysSound, PTL

\* The deadline of a live vault counts from its owner's last sign of life, and
\* from nothing else (_resetClock and who calls it).
THEOREM DeadlinesFollow == HistorySpec => []DeadlineFollowsSignsOfLife
<1>1. HistoryInv => DeadlineFollowsSignsOfLife
  BY StateTells DEF HistoryInv, PastsSound, PastSound, DeadlineFollowsSignsOfLife
<1> QED
  BY <1>1, HistoryStaysSound, PTL

\* Only a settlement settles.
LEMMA OnlyFinalizeSettles ==
  ASSUME HistoryInv, [HistoryNext]_historyVars, NEW k \in Keys, Pending(k),
         vault'[k].state = STATE_SETTLED
  PROVE  FinalizeClaim(k)
<1>1. /\ VaultsSound /\ vault[k] \in VaultRecords /\ vault[k].state = STATE_CLAIM_PENDING
      /\ vault'[k].state # vault[k].state /\ ~Active(k) /\ Exists(k)
  BY LiveFacts, StateTells, StatesDiffer DEF HistoryInv, Pending, STATE_SETTLED, STATE_CLAIM_PENDING
<1>2. ~Unmoved(k)
  BY <1>1, SameFields DEF Unmoved
<1>3. ~BornNow(k)
  BY <1>1 DEF BornNow, Created
<1>4. ~Signed(k)
  BY DEF Signed, OwnerLeft, STATE_SETTLED, STATE_ACTIVE, STATE_CLAIM_PENDING, STATE_CLOSED
<1>5. ~TopUpStep(k)
  BY <1>1, TopUpLeaves
<1>6. ASSUME NEW caller, NEW to, HistoryClaim(caller, k, to)
      PROVE  FALSE
  BY <1>1, <1>6 DEF HistoryClaim, InitiateClaim
<1>7. ASSUME NEW caller, BeneficiaryCancelClaim(caller, k)
      PROVE  FALSE
  <2>1. vault'[k].state = STATE_ACTIVE
    BY <1>1, <1>7, CancelLeaves, ZenonT(60) DEF WithoutClaim, VaultRecords
  <2> QED
    BY <2>1 DEF STATE_SETTLED, STATE_ACTIVE
<1> QED
  BY <1>2, <1>3, <1>4, <1>5, <1>6, <1>7, HistoryMoves

\* What a settlement waited for, in the terms of the vault and its past.
LEMMA SettlementWaits ==
  ASSUME HistoryInv, [HistoryNext]_historyVars, NEW k \in Keys, Pending(k),
         vault'[k].state = STATE_SETTLED
  PROVE  /\ now >= vault[k].claimInitiatedAt + vault[k].challengeWindow
         /\ ~HorizonReached(k) =>
               now >= lastSign[k] + vault[k].inactivityPeriod + vault[k].challengeWindow
<1> DEFINE v == vault[k]
<1>1. /\ VaultsSound /\ v \in VaultRecords /\ v.state = STATE_CLAIM_PENDING /\ v.state \in LiveStates
      /\ Sound(v, now) /\ now \in Nat
      /\ PastSound(v, lastSign[k], claimant[k], ratePromised[k], rateQuoted[k], now)
  BY LiveFacts DEF HistoryInv, PastsSound
<1>2. now >= v.claimInitiatedAt + v.challengeWindow
  BY <1>1, OnlyFinalizeSettles, SettlementLeaves
<1>3. ASSUME ~HorizonReached(k)
      PROVE  now >= lastSign[k] + v.inactivityPeriod + v.challengeWindow
  <2>1. /\ now < v.absoluteDeadline /\ v.claimInitiatedAt >= v.deadline
        /\ v.deadline = Smaller(lastSign[k] + v.inactivityPeriod, v.absoluteDeadline)
        /\ v.claimInitiatedAt <= now
    BY <1>1, <1>3 DEF HorizonReached, PastSound, Sound, SoundClaim, VaultRecords
  <2>2. /\ lastSign[k] \in Nat /\ v.inactivityPeriod \in Nat /\ v.absoluteDeadline \in Nat
        /\ v.challengeWindow \in Nat /\ v.claimInitiatedAt \in Nat /\ v.deadline \in Nat
    BY <1>1 DEF HistoryInv, HistoryTyped, VaultRecords
  <2> HIDE DEF v
  <2> QED
    BY <1>1, <1>2, <2>1, <2>2 DEF Smaller
<1> QED
  BY <1>2, <1>3

\* Before the horizon an estate passes only after the owner was silent for a
\* whole period and a whole window, and never before the claim stood for its
\* window (finalizeClaim, with everything that moves a deadline).
THEOREM SettlementsFollowSilence == HistorySpec => SettledOnlyAfterSilence
<1>1. HistoryInv /\ [HistoryNext]_historyVars =>
        [\A k \in Keys :
          (Pending(k) /\ vault'[k].state = STATE_SETTLED) =>
              /\ now >= vault[k].claimInitiatedAt + vault[k].challengeWindow
              /\ ~HorizonReached(k) =>
                    now >= lastSign[k] + vault[k].inactivityPeriod + vault[k].challengeWindow]_historyVars
  BY SettlementWaits
<1> QED
  BY <1>1, HistoryStaysSound, PTL DEF HistorySpec, SettledOnlyAfterSilence

\* A larger rate takes no less.
LEMMA RateTakes ==
  ASSUME NEW n \in Nat, NEW a \in Nat, NEW b \in Nat, a <= b, NEW whole \in Nat \ {0}
  PROVE  (n * a) \div whole <= (n * b) \div whole
<1> DEFINE x == n * a
           y == n * b
           p == x \div whole
           q == y \div whole
<1>1. x \in Nat /\ y \in Nat /\ x <= y
  OBVIOUS
<1> HIDE DEF x, y
<1>2. /\ p \in Int /\ q \in Int
      /\ whole * p <= x /\ y < whole * (q + 1)
  BY <1>1
<1> HIDE DEF p, q
<1>3. ~(p >= q + 1)
  <2>1. SUFFICES ASSUME p >= q + 1 PROVE FALSE
    OBVIOUS
  <2>2. whole * p >= whole * (q + 1)
    BY <1>2, <2>1
  <2> QED
    BY <1>1, <1>2, <2>2
<1> QED
  BY <1>2, <1>3 DEF p, q, x, y

\* The fee of a settlement is within every rate somebody was told.
LEMMA FeeHonoursQuotes ==
  ASSUME HistoryInv, NEW k \in Keys, Pending(k)
  PROVE  LET v == vault[k]
             rate == Smaller(ratePromised[k], Smaller(rateQuoted[k], ChargeAt(now)))
         IN  SettlementFee(v) <= (v.balance * rate) \div BPS_DENOMINATOR
<1> DEFINE v == vault[k]
           rate == Smaller(ratePromised[k], Smaller(rateQuoted[k], ChargeAt(now)))
           taken == Smaller(v.lockedFeeBps, ClaimFeeBps)
<1>1. /\ v \in VaultRecords /\ v.state = STATE_CLAIM_PENDING /\ Sound(v, now)
      /\ PastSound(v, lastSign[k], claimant[k], ratePromised[k], rateQuoted[k], now)
      /\ FeeTypeOK /\ ratePromised[k] \in Nat /\ rateQuoted[k] \in Nat
  BY LiveFacts DEF HistoryInv, PastsSound, HistoryTyped
<1>2. /\ v.lockedFeeBps \in Nat /\ v.balance \in Nat /\ v.feeBps = ratePromised[k]
      /\ v.lockedFeeBps <= rateQuoted[k] /\ v.lockedFeeBps <= v.feeBps
      /\ ClaimFeeBps \in Nat
      /\ ChargeAt(now) = IF RecipientInForce THEN ClaimFeeBps ELSE 0
  BY <1>1 DEF PastSound, Sound, SoundClaim, VaultRecords, FeeTypeOK, ClaimFeeBps, RateAt,
              ChargeAt, RecipientInForce, STATE_CLAIM_PENDING, STATE_NONE
<1>3. SettlementFee(v) =
        IF RecipientInForce THEN (v.balance * taken) \div BPS_DENOMINATOR ELSE 0
  BY DEF SettlementFee
<1>4. CASE RecipientInForce
  <2>1. taken \in Nat /\ rate \in Nat /\ taken <= rate
    BY <1>1, <1>2, <1>4 DEF Smaller
  <2>2. BPS_DENOMINATOR \in Nat \ {0}
    BY FeeAssumption, VaultAssumption
  <2> HIDE DEF taken, rate, v
  <2>3. (v.balance * taken) \div BPS_DENOMINATOR <= (v.balance * rate) \div BPS_DENOMINATOR
    BY <1>2, <2>1, <2>2, RateTakes
  <2> QED
    BY <1>3, <1>4, <2>3 DEF rate, v
<1>5. CASE ~RecipientInForce
  <2>1. rate = 0
    BY <1>1, <1>2, <1>5 DEF Smaller
  <2>2. BPS_DENOMINATOR \in Nat \ {0} /\ v.balance * 0 = 0 /\ 0 \div BPS_DENOMINATOR = 0
    BY <1>2, FeeAssumption, VaultAssumption
  <2> HIDE DEF taken, rate, v
  <2> QED
    BY <1>3, <1>5, <2>1, <2>2 DEF rate, v
<1> QED
  BY <1>4, <1>5

\* What a release credits to the one it is for is at least what it names,
\* whoever gets the fee.
LEMMA ReleaseCredits ==
  ASSUME LaneTypeOK, NEW t \in Tokens, NEW to \in Accounts, NEW amount \in Nat,
         NEW feeTo, NEW fee \in Nat, Release(t, to, amount, feeTo, fee)
  PROVE  /\ credits[t][to] \in Nat /\ credits'[t][to] \in Nat
         /\ credits'[t][to] - credits[t][to] >= amount
<1> DEFINE owed == OwedAfter(credits[t], to, amount)
<1>1. /\ credits[t] \in [Payable -> Nat] /\ to \in Payable
      /\ credits'[t] = IF fee = 0 THEN owed ELSE OwedAfter(owed, feeTo, fee)
  BY DEF Release, LaneTypeOK, Payable
<1>2. owed \in [Payable -> Nat] /\ owed[to] = credits[t][to] + amount /\ credits[t][to] \in Nat
  BY <1>1 DEF OwedAfter
<1> HIDE DEF owed
<1>3. OwedAfter(owed, feeTo, fee)[to] >= owed[to]
  BY <1>2 DEF OwedAfter
<1>4. credits'[t][to] >= owed[to] /\ credits'[t][to] \in Nat
  BY <1>1, <1>2, <1>3 DEF OwedAfter
<1> QED
  BY <1>2, <1>4

\* A settlement leaves the payee all but the fee at the lowest rate that was told.
LEMMA SettlementPays ==
  ASSUME HistoryInv, LaneTypeOK, [HistoryNext]_historyVars, NEW k \in Keys, Pending(k),
         vault'[k].state = STATE_SETTLED
  PROVE  LET v == vault[k]
             rate == Smaller(ratePromised[k], Smaller(rateQuoted[k], ChargeAt(now)))
         IN  credits'[v.token][v.claimRecipient] - credits[v.token][v.claimRecipient]
                 >= v.balance - (v.balance * rate) \div BPS_DENOMINATOR
<1> DEFINE v == vault[k]
           rate == Smaller(ratePromised[k], Smaller(rateQuoted[k], ChargeAt(now)))
           fee == SettlementFee(v)
           most == (v.balance * rate) \div BPS_DENOMINATOR
<1>1. Release(v.token, v.claimRecipient, v.balance - fee, feeRecipient, fee)
  BY OnlyFinalizeSettles DEF FinalizeClaim
<1>2. /\ v \in VaultRecords /\ v.state = STATE_CLAIM_PENDING /\ Sound(v, now)
      /\ FeeTypeOK /\ ratePromised[k] \in Nat /\ rateQuoted[k] \in Nat /\ ChargeAt(now) \in Nat
  BY LiveFacts DEF HistoryInv, HistoryTyped, FeeTypeOK, ChargeAt, RateAt
<1>3. /\ v.token \in Tokens /\ v.claimRecipient \in Accounts /\ v.balance \in Nat /\ v.balance > 0
  BY <1>2 DEF Sound, SoundClaim, SoundValue, VaultRecords, LiveStates
<1>4. fee \in 0..(v.balance - 1)
  BY <1>2, <1>3, FeeIsPart
<1>5. fee <= most
  BY FeeHonoursQuotes
<1>6. most \in Int
  <2>1. rate \in Nat
    BY <1>2 DEF Smaller
  <2>2. v.balance * rate \in Nat /\ BPS_DENOMINATOR \in Nat \ {0}
    BY <1>3, <2>1, FeeAssumption, VaultAssumption
  <2> HIDE DEF rate
  <2> QED
    BY <2>2
<1> HIDE DEF fee, most
<1>7. /\ credits'[v.token][v.claimRecipient] \in Nat /\ credits[v.token][v.claimRecipient] \in Nat
      /\ credits'[v.token][v.claimRecipient] - credits[v.token][v.claimRecipient] >= v.balance - fee
  <2>1. v.balance - fee \in Nat /\ fee \in Nat
    BY <1>3, <1>4
  <2> QED
    BY <1>1, <1>3, <2>1, ReleaseCredits
<1> QED
  BY <1>3, <1>4, <1>5, <1>6, <1>7 DEF most

\* A settlement charges no more than any rate its parties were told, and the
\* rest is the recipient's (initiateClaim's lock, finalizeClaim, _credit).
THEOREM SettlementsHonourQuotes == HistorySpec => SettlementHonoursQuotes
<1>1. HistoryInv /\ LaneTypeOK /\ [HistoryNext]_historyVars =>
        [\A k \in Keys :
          (Pending(k) /\ vault'[k].state = STATE_SETTLED) =>
              LET v == vault[k]
                  rate == Smaller(ratePromised[k], Smaller(rateQuoted[k], ChargeAt(now)))
              IN  credits'[v.token][v.claimRecipient] - credits[v.token][v.claimRecipient]
                      >= v.balance - (v.balance * rate) \div BPS_DENOMINATOR]_historyVars
  BY SettlementPays
<1>2. HistorySpec => []LaneTypeOK
  BY HistoryIsASpec, LanesStayTyped, PTL
<1> QED
  BY <1>1, <1>2, HistoryStaysSound, PTL DEF HistorySpec, SettlementHonoursQuotes

-----------------------------------------------------------------------------
(* Check-in chains.                                                         *)

\* Of the links that were accepted on a vault, those of the chain installed on
\* it lie at or above its anchor, and the others are of earlier epochs.
SpentAbove(k) ==
    \A s \in spent : s[1] = k =>
        /\ s[2] <= vault[k].hbEpoch
        /\ s[2] = vault[k].hbEpoch =>
              \E a \in 0..MAX_HB_COUNT : a <= s[3] /\ vault[k].hbAnchor = <<k, s[2], a>>

ChainInv ==
    /\ spent \subseteq Links
    /\ \A k \in Keys : SpentAbove(k)
    /\ \A k \in Keys : vault[k].state = STATE_NONE => vault[k].hbEpoch = 0

\* A value that is accepted is the link below the anchor.
LEMMA AcceptedIsBelow ==
  ASSUME VaultsSound, NEW k \in Keys, NEW preimage \in Links, CheckInByChain(k, preimage)
  PROVE  /\ preimage[1] = k /\ preimage[2] = vault[k].hbEpoch
         /\ vault[k].hbAnchor = <<k, preimage[2], preimage[3] + 1>>
<1>1. /\ vault[k].hbAnchor # NoValue /\ vault[k].hbAnchor \in Links \cup {NoValue}
      /\ hbStep(k, vault[k].hbEpoch, preimage) = vault[k].hbAnchor
  BY LiveFacts DEF CheckInByChain, VaultRecords
<1>2. vault[k].hbAnchor # NoLink
  <2>1. ASSUME NEW s \in Links
        PROVE  s # NoLink
    <3>1. PICK j \in Keys, e \in 1..MaxEpoch, a \in 0..MAX_HB_COUNT : s = <<j, e, a>>
      BY DEF Links
    <3>2. Len(<<j, e, a>>) = 3 /\ Len(NoLink) = 1
      BY DEF NoLink
    <3> QED
      BY <3>1, <3>2
  <2> QED
    BY <1>1, <2>1
<1> QED
  BY <1>1, <1>2 DEF hbStep

\* Only a chain check-in uses a link.
LEMMA SpentMoves ==
  ASSUME [HistoryNext]_historyVars
  PROVE  \/ spent' = spent
         \/ \E k \in Keys, preimage \in Links : HistoryChain(k, preimage)
BY DEF HistoryNext, HistoryCreation, HistoryBatch, HistoryOwner, HistoryClaim, historyVars, history

\* What a step that is not a chain value on k does to the chain of k.
LEMMA ChainMoves ==
  ASSUME HistoryInv, [HistoryNext]_historyVars, NEW k \in Keys
  PROVE  \/ ChainKept(vault[k], vault'[k]) /\ (vault'[k].state = STATE_NONE => vault[k].state = STATE_NONE
                                                  /\ vault'[k].hbEpoch = vault[k].hbEpoch)
         \/ vault[k].state = STATE_NONE /\ vault'[k].state # STATE_NONE
         \/ \E preimage \in Links : HistoryChain(k, preimage)
<1> DEFINE v == vault[k]
           w == vault'[k]
<1>1. VaultsSound /\ v \in VaultRecords
  BY LiveFacts DEF HistoryInv
<1> USE DEF ChainKept
<1>2. CASE Unmoved(k)
  BY <1>1, <1>2, SameFields DEF Unmoved
<1>3. CASE BornNow(k)
  BY <1>3 DEF BornNow, Created, STATE_NONE, STATE_ACTIVE
<1>4. CASE Signed(k)
  BY <1>1, <1>4 DEF Signed, OwnerLeft, STATE_NONE, STATE_ACTIVE, STATE_CLAIM_PENDING, STATE_CLOSED
<1>5. CASE TopUpStep(k)
  <2>1. PICK amount \in Nat : w = [v EXCEPT !.balance = @ + amount]
    BY <1>1, <1>5, TopUpLeaves
  <2> QED
    BY <1>1, <2>1 DEF VaultRecords
<1>6. ASSUME NEW caller \in Heirs, NEW to \in Recipients, HistoryClaim(caller, k, to)
      PROVE  ChainKept(v, w) /\ w.state # STATE_NONE
  <2>1. w = [v EXCEPT !.lockedFeeBps = FeeToLock(v), !.claimRecipient = to,
                      !.claimInitiatedAt = now, !.state = STATE_CLAIM_PENDING]
    BY <1>1, <1>6, ClaimLeaves, ZenonT(60) DEF HistoryClaim
  <2>2. w.hbEpoch = v.hbEpoch /\ w.hbAnchor = v.hbAnchor /\ w.state = STATE_CLAIM_PENDING
    BY <1>1, <2>1 DEF VaultRecords
  <2> QED
    BY <2>2 DEF STATE_NONE, STATE_CLAIM_PENDING
<1>7. ASSUME NEW caller \in Heirs, BeneficiaryCancelClaim(caller, k)
      PROVE  ChainKept(v, w) /\ w.state # STATE_NONE
  <2>1. w = WithoutClaim(v)
    BY <1>1, <1>7, CancelLeaves
  <2>2. w.hbEpoch = v.hbEpoch /\ w.hbAnchor = v.hbAnchor /\ w.state = STATE_ACTIVE
    BY <1>1, <2>1 DEF VaultRecords, WithoutClaim
  <2> QED
    BY <2>2 DEF STATE_NONE, STATE_ACTIVE
<1>8. CASE FinalizeClaim(k)
  <2>1. w = [v EXCEPT !.balance = 0, !.state = STATE_SETTLED]
    BY <1>1, <1>8, SettlementLeaves
  <2>2. w.hbEpoch = v.hbEpoch /\ w.hbAnchor = v.hbAnchor /\ w.state = STATE_SETTLED
    BY <1>1, <2>1 DEF VaultRecords
  <2> QED
    BY <2>2 DEF STATE_NONE, STATE_SETTLED
<1> QED
  BY <1>2, <1>3, <1>4, <1>5, <1>6, <1>7, <1>8, HistoryMoves

\* Every step keeps what holds of the used links.
LEMMA ChainInvKept ==
  ASSUME HistoryInv, ChainInv, [HistoryNext]_historyVars
  PROVE  ChainInv'
<1>1. /\ VaultsSound /\ spent \subseteq Links
      /\ \A k \in Keys : vault[k].hbEpoch \in Nat
  BY LiveFacts DEF HistoryInv, ChainInv, VaultRecords
<1>4. VaultsSound'
  BY HistoryIsAStep, VaultStepKeeps DEF HistoryInv
<1>2. ASSUME NEW k \in Keys, NEW preimage \in Links, HistoryChain(k, preimage)
      PROVE  ChainInv'
  <2>1. /\ CheckInByChain(k, preimage) /\ spent' = spent \cup {preimage}
        /\ vault'[k].hbEpoch = vault[k].hbEpoch /\ vault'[k].hbAnchor = preimage
        /\ vault'[k].state = STATE_ACTIVE
        /\ \A j \in Keys \ {k} : vault'[j] = vault[j]
    BY <1>1, <1>2, ChainStepLeaves DEF HistoryChain
  <2>2. /\ preimage[1] = k /\ preimage[2] = vault[k].hbEpoch
        /\ vault[k].hbAnchor = <<k, preimage[2], preimage[3] + 1>>
    BY <1>1, <2>1, AcceptedIsBelow
  <2>3. PICK e \in 1..MaxEpoch, a \in 0..MAX_HB_COUNT : preimage = <<k, e, a>>
    BY <2>2 DEF Links
  <2>4. ASSUME NEW s \in spent \cup {preimage}, s[1] = k
        PROVE  /\ s[2] <= vault'[k].hbEpoch
               /\ s[2] = vault'[k].hbEpoch =>
                    \E b \in 0..MAX_HB_COUNT : b <= s[3] /\ vault'[k].hbAnchor = <<k, s[2], b>>
    <3>1. CASE s = preimage
      BY <2>1, <2>2, <2>3, <3>1
    <3>2. CASE s \in spent
      <4>1. s[2] <= vault[k].hbEpoch /\ s[3] \in Nat
        BY <1>1, <2>4, <3>2 DEF ChainInv, SpentAbove, Links
      <4>2. CASE s[2] = vault[k].hbEpoch
        <5>1. PICK b \in 0..MAX_HB_COUNT : b <= s[3] /\ vault[k].hbAnchor = <<k, s[2], b>>
          BY <2>4, <3>2, <4>2 DEF ChainInv, SpentAbove
        <5>2. b = a + 1
          BY <2>2, <2>3, <5>1
        <5>3. a <= s[3] /\ vault'[k].hbAnchor = <<k, s[2], a>>
          BY <2>1, <2>2, <2>3, <4>1, <4>2, <5>1, <5>2
        <5> QED
          BY <2>1, <4>1, <5>3
      <4> QED
        BY <2>1, <4>1, <4>2
    <3> QED
      BY <2>4, <3>1, <3>2
  <2>5. ASSUME NEW j \in Keys
        PROVE  SpentAbove(j)' /\ (vault'[j].state = STATE_NONE => vault'[j].hbEpoch = 0)
    <3>1. CASE j = k
      BY <2>1, <2>4, <3>1 DEF SpentAbove, STATE_ACTIVE, STATE_NONE
    <3>2. CASE j # k
      BY <2>1, <2>2, <3>2 DEF ChainInv, SpentAbove
    <3> QED
      BY <3>1, <3>2
  <2> QED
    BY <1>1, <2>1, <2>5 DEF ChainInv
<1>3. ASSUME ~\E k \in Keys, preimage \in Links : HistoryChain(k, preimage)
      PROVE  ChainInv'
  <2>1. spent' = spent
    BY <1>3, SpentMoves
  <2>2. ASSUME NEW k \in Keys
        PROVE  SpentAbove(k)' /\ (vault'[k].state = STATE_NONE => vault'[k].hbEpoch = 0)
    <3>1. CASE ChainKept(vault[k], vault'[k]) /\ (vault'[k].state = STATE_NONE =>
                  vault[k].state = STATE_NONE /\ vault'[k].hbEpoch = vault[k].hbEpoch)
      <4>1. vault'[k].hbEpoch \in Nat
        BY <1>4 DEF VaultsSound, VaultTypes, VaultRecords
      <4>2. \A s \in spent : s[2] \in Nat
        BY <1>1 DEF Links
      <4>3. CASE vault'[k].hbEpoch > vault[k].hbEpoch
        BY <1>1, <2>1, <3>1, <4>1, <4>2, <4>3 DEF ChainInv, SpentAbove
      <4>4. CASE vault'[k].hbEpoch = vault[k].hbEpoch /\ vault'[k].hbAnchor = vault[k].hbAnchor
        BY <1>1, <2>1, <3>1, <4>4 DEF ChainInv, SpentAbove
      <4> QED
        BY <3>1, <4>3, <4>4 DEF ChainKept
    <3>2. CASE vault[k].state = STATE_NONE /\ vault'[k].state # STATE_NONE
      <4>1. \A s \in spent : s[1] # k
        <5>1. ASSUME NEW s \in spent, s[1] = k
              PROVE  FALSE
          BY <1>1, <3>2, <5>1 DEF ChainInv, SpentAbove, Links
        <5> QED
          BY <5>1
      <4> QED
        BY <2>1, <3>2, <4>1 DEF SpentAbove
    <3> QED
      BY <1>3, <3>1, <3>2, ChainMoves
  <2> QED
    BY <1>1, <2>1, <2>2 DEF ChainInv
<1> QED
  BY <1>2, <1>3

\* No link was used at the start.
LEMMA ChainStart == HistoryInit => ChainInv
<1> SUFFICES ASSUME HistoryInit PROVE ChainInv
  OBVIOUS
<1>1. spent = {} /\ \A k \in Keys : vault[k] = NoVault
  BY DEF HistoryInit, Init
<1> QED
  BY <1>1 DEF ChainInv, SpentAbove, NoVault

\* The inductive invariant of the chains.
LEMMA ChainsStaySound == HistorySpec => []ChainInv
<1>1. HistoryInv /\ ChainInv /\ [HistoryNext]_historyVars => ChainInv'
  BY ChainInvKept
<1> QED
  BY <1>1, ChainStart, HistoryStaysSound, PTL DEF HistorySpec

\* No accepted link is accepted again, on whatever vault.
LEMMA NoLinkAgain ==
  ASSUME HistoryInv, ChainInv
  PROVE  NoLinkWorksTwiceStep
<1> SUFFICES ASSUME NEW k \in Keys, NEW preimage \in Links, CheckInByChain(k, preimage),
                    preimage \in spent
             PROVE  FALSE
  BY DEF NoLinkWorksTwiceStep
<1>1. /\ preimage[1] = k /\ preimage[2] = vault[k].hbEpoch
      /\ vault[k].hbAnchor = <<k, preimage[2], preimage[3] + 1>>
  BY AcceptedIsBelow DEF HistoryInv
<1>2. PICK a \in 0..MAX_HB_COUNT : a <= preimage[3] /\ vault[k].hbAnchor = <<k, preimage[2], a>>
  BY <1>1 DEF ChainInv, SpentAbove
<1>3. preimage[3] \in Nat /\ a = preimage[3] + 1
  BY <1>1, <1>2 DEF Links
<1> QED
  BY <1>2, <1>3

\* A chain built for the epoch it is installed at is live: the link below its
\* anchor hashes to the anchor that is recorded.
LEMMA NamedEpochLives ==
  ASSUME VaultsSound
  PROVE  NamedEpochInstallsLiveChainStep
<1> SUFFICES ASSUME NEW k \in Keys, NEW epoch \in 1..MaxEpoch, NEW j \in 1..MAX_HB_COUNT,
                    NEW count \in 1..MAX_HB_COUNT,
                    SetCheckInChainFor(k, <<k, epoch, j>>, count, epoch)
             PROVE  hbStep(k, vault'[k].hbEpoch, <<k, epoch, j - 1>>) = vault'[k].hbAnchor
  BY DEF NamedEpochInstallsLiveChainStep
<1> DEFINE anchor == <<k, epoch, j>>
           x == [vault[k] EXCEPT !.hbEpoch = @ + 1, !.hbAnchor = anchor, !.hbLeft = count]
<1>1. /\ vault[k].hbEpoch + 1 = epoch /\ Becomes(k, ResetClock(ClearPending(x)))
      /\ vault[k] \in VaultRecords /\ now \in Nat
  BY LiveFacts DEF SetCheckInChainFor, SetCheckInChain
<1>2. x \in VaultRecords /\ x.hbEpoch = epoch /\ x.hbAnchor = anchor
  <2>1. vault[k].hbEpoch + 1 \in Nat /\ count \in Nat /\ anchor \in Links
    BY <1>1 DEF VaultRecords, Links
  <2>2. x \in VaultRecords
    BY <1>1, <2>1, ChainTyped
  <2> QED
    BY <1>1, <2>1, <2>2 DEF VaultRecords
<1> HIDE DEF x
<1>3. vault'[k].hbEpoch = epoch /\ vault'[k].hbAnchor = anchor
  BY <1>1, <1>2, BecomesIs, RenewedFields
<1>4. hbStep(k, epoch, <<k, epoch, j - 1>>) = <<k, epoch, (j - 1) + 1>>
  BY DEF hbStep
<1> QED
  BY <1>3, <1>4

-----------------------------------------------------------------------------
(* ManyVaults: one of its two parts for good.                               *)

\* A behaviour of ManyVaults is one of its part.
LEMMA ManyKeepsItsPart ==
  /\ ManySpec => part = "chains" \/ part = "list"
  /\ ManySpec /\ part = "chains" => HistorySpec /\ [](part = "chains")
  /\ ManySpec /\ part = "list" => [](part = "list")
<1>1. ManyInit => part = "chains" \/ part = "list"
  BY DEF ManyInit
<1>2. ManyInit /\ part = "chains" => HistoryInit
  BY DEF ManyInit
<1>3. part = "chains" /\ [ManyNext]_manyVars => (part = "chains")'
  BY DEF ManyNext, manyVars
<1>4. part = "chains" /\ [ManyNext]_manyVars => [HistoryNext]_historyVars
  BY DEF ManyNext, manyVars
<1>5. part = "list" /\ [ManyNext]_manyVars => (part = "list")'
  BY DEF ManyNext, manyVars
<1>6. ManySpec => part = "chains" \/ part = "list"
  BY <1>1 DEF ManySpec
<1>7. ManySpec /\ part = "chains" => HistorySpec /\ [](part = "chains")
  BY <1>2, <1>3, <1>4, PTL DEF ManySpec, HistorySpec
<1>8. ManySpec /\ part = "list" => [](part = "list")
  BY <1>5, PTL DEF ManySpec
<1> QED
  BY <1>6, <1>7, <1>8

\* Nothing but its owner moves the deadline of a live vault.
THEOREM DeadlinesFollowOwners == ManySpec => []DeadlineFollows
<1>1. /\ DeadlineFollowsSignsOfLife => DeadlineFollows
      /\ part = "list" => DeadlineFollows
  BY DEF DeadlineFollows
<1> QED
  BY <1>1, ManyKeepsItsPart, DeadlinesFollow, PTL

\* Each chain value works once, over every vault and every re-installation.
THEOREM LinksWorkOnce == ManySpec => NoLinkWorksTwice
<1>1. HistoryInv /\ ChainInv => NoLinkWorksTwiceStep
  BY NoLinkAgain
<1>2. part = "list" => (part = "chains" => NoLinkWorksTwiceStep)
  OBVIOUS
<1> QED
  BY <1>1, <1>2, ManyKeepsItsPart, HistoryStaysSound, ChainsStaySound, PTL DEF NoLinkWorksTwice

\* A chain installed with the epoch it was built for works.
THEOREM NamedEpochsInstallLiveChains == ManySpec => NamedEpochInstallsLiveChain
<1>1. HistoryInv => NamedEpochInstallsLiveChainStep
  BY NamedEpochLives DEF HistoryInv
<1>2. part = "list" => (part = "chains" => NamedEpochInstallsLiveChainStep)
  OBVIOUS
<1> QED
  BY <1>1, <1>2, ManyKeepsItsPart, HistoryStaysSound, PTL DEF NamedEpochInstallsLiveChain

-----------------------------------------------------------------------------
(* The open list, in the part of ManyVaults that has one.  LP is that part  *)
(* with its proofs: the same contract, so what is proved of it is so there. *)

LP == INSTANCE InheritanceVault_proofs WITH
    MaxVaults <- MaxListed, MAX_OPEN_VAULTS <- MaxListedOpen, MaxHeld <- MaxListedOpen,
    MAX_HORIZON <- MIN_INACTIVITY, PUSH_GRACE <- 1, MaxEpoch <- 0, MAX_HB_COUNT <- 0,
    Recipients <- Heirs

\* LP and List are the same contract, action by action,
LEMMA SameActions ==
  /\ LP!TickStep <=> List!TickStep
  /\ LP!PayoutStep <=> List!PayoutStep
  /\ LP!AdminStep <=> List!AdminStep
  /\ LP!ApplyClaimFee <=> List!ApplyClaimFee
  /\ LP!GiftAction <=> List!GiftAction
  /\ \A o : LP!CreationStep(o) <=> List!CreationStep(o)
  /\ \A o : LP!BatchStep(o) <=> List!BatchStep(o)
  /\ \A k : /\ LP!AutomatedStep(k) <=> List!AutomatedStep(k)
            /\ LP!ChainStep(k) <=> List!ChainStep(k)
            /\ LP!TopUpStep(k) <=> List!TopUpStep(k)
            /\ LP!FinalizeClaim(k) <=> List!FinalizeClaim(k)
  /\ \A k, a, b : LP!SetCheckInChain(k, a, b) <=> List!SetCheckInChain(k, a, b)
  /\ \A k, a, b, e : LP!SetCheckInChainFor(k, a, b, e) <=> List!SetCheckInChainFor(k, a, b, e)
  /\ \A k, a, b : LP!Withdraw(k, a, b) <=> List!Withdraw(k, a, b)
  /\ \A k, a : /\ LP!SetBeneficiary(k, a) <=> List!SetBeneficiary(k, a)
               /\ LP!SetInactivityPeriod(k, a) <=> List!SetInactivityPeriod(k, a)
               /\ LP!ExtendHorizon(k, a) <=> List!ExtendHorizon(k, a)
  /\ \A c, k : LP!BeneficiaryCancelClaim(c, k) <=> List!BeneficiaryCancelClaim(c, k)
  /\ \A c, k, a : LP!InitiateClaim(c, k, a) <=> List!InitiateClaim(c, k, a)
<1> USE DEF LP!Payable, LP!AnyAddress, LP!PayeeAllowed, LP!Tick, LP!schedule, LP!recipient,
      LP!feeState, LP!RateAt, LP!ClaimFeeBps, LP!RecipientActive, LP!RecipientInForce,
      LP!RaiseMatured, LP!ScheduleRaise, LP!ClearRaise, LP!SetClaimFee, LP!ApplyClaimFee,
      LP!SetFeeRecipient, LP!lanes, LP!Smaller, LP!Surplus, LP!Received, LP!Pull, LP!Deposit,
      LP!ForceFeed, LP!OwedAfter, LP!SinceAfter, LP!Release, LP!TokenPayout, LP!NativePayout,
      LP!Payout, LP!PayCredit, LP!WithdrawCredit, LP!PushCredit, LP!SweepSurplus,
      LP!CreditAction, LP!SweepAction, LP!GiftAction, LP!vaultState, LP!VaultIds, LP!Keys,
      LP!Dates, LP!STATE_NONE, LP!STATE_ACTIVE, LP!STATE_CLAIM_PENDING, LP!STATE_SETTLED,
      LP!STATE_CLOSED, LP!Links, LP!NoLink, LP!hbStep, LP!NoVault, LP!Exists, LP!Live,
      LP!Pending, LP!Active, LP!HorizonReached, LP!NextDeadline, LP!ResetClock,
      LP!WithoutClaim, LP!ClearPending, LP!MayClearPending, LP!OpenIdsWithout, LP!MovedKey,
      LP!LeaveOpen, LP!Becomes, LP!OwnVaultOnly, LP!CreateVault, LP!TopUp, LP!CheckIn,
      LP!Refreshable, LP!CheckInMany, LP!SetCheckInChain, LP!SetCheckInChainFor,
      LP!CheckInByChain, LP!Withdraw, LP!SetBeneficiary, LP!SetInactivityPeriod,
      LP!ExtendHorizon, LP!FeeToLock, LP!InitiateClaim, LP!BeneficiaryCancelClaim,
      LP!AbortClaim, LP!SettlementFee, LP!FinalizeClaim, LP!SetCreationPaused, LP!Arrivals,
      LP!CreationStep, LP!AutomatedStep, LP!BatchStep, LP!ChainStep, LP!TopUpStep,
      LP!AdminStep, LP!PayoutStep, LP!TickStep, LP!Cardinality, List!Payable, List!AnyAddress,
      List!PayeeAllowed, List!Tick, List!schedule, List!recipient, List!feeState, List!RateAt,
      List!ClaimFeeBps, List!RecipientActive, List!RecipientInForce, List!RaiseMatured,
      List!ScheduleRaise, List!ClearRaise, List!SetClaimFee, List!ApplyClaimFee,
      List!SetFeeRecipient, List!lanes, List!Smaller, List!Surplus, List!Received, List!Pull,
      List!Deposit, List!ForceFeed, List!OwedAfter, List!SinceAfter, List!Release,
      List!TokenPayout, List!NativePayout, List!Payout, List!PayCredit, List!WithdrawCredit,
      List!PushCredit, List!SweepSurplus, List!CreditAction, List!SweepAction, List!GiftAction,
      List!vaultState, List!VaultIds, List!Keys, List!Dates, List!STATE_NONE,
      List!STATE_ACTIVE, List!STATE_CLAIM_PENDING, List!STATE_SETTLED, List!STATE_CLOSED,
      List!Links, List!NoLink, List!hbStep, List!NoVault, List!Exists, List!Live, List!Pending,
      List!Active, List!HorizonReached, List!NextDeadline, List!ResetClock, List!WithoutClaim,
      List!ClearPending, List!MayClearPending, List!OpenIdsWithout, List!MovedKey,
      List!LeaveOpen, List!Becomes, List!OwnVaultOnly, List!CreateVault, List!TopUp,
      List!CheckIn, List!Refreshable, List!CheckInMany, List!SetCheckInChain,
      List!SetCheckInChainFor, List!CheckInByChain, List!Withdraw, List!SetBeneficiary,
      List!SetInactivityPeriod, List!ExtendHorizon, List!FeeToLock, List!InitiateClaim,
      List!BeneficiaryCancelClaim, List!AbortClaim, List!SettlementFee, List!FinalizeClaim,
      List!SetCreationPaused, List!Arrivals, List!CreationStep, List!AutomatedStep,
      List!BatchStep, List!ChainStep, List!TopUpStep, List!AdminStep, List!PayoutStep,
      List!TickStep, List!Cardinality
<1>1. LP!TickStep <=> List!TickStep
  BY SMT
<1>2. LP!PayoutStep <=> List!PayoutStep
  BY SMT
<1>3. LP!AdminStep <=> List!AdminStep
  BY SMT
<1>4. LP!ApplyClaimFee <=> List!ApplyClaimFee
  BY SMT
<1>5. LP!GiftAction <=> List!GiftAction
  BY SMT
<1>6. \A o : LP!CreationStep(o) <=> List!CreationStep(o)
  BY SMT
<1>7. \A o : LP!BatchStep(o) <=> List!BatchStep(o)
  BY SMT
<1>8. \A k : LP!AutomatedStep(k) <=> List!AutomatedStep(k)
  BY SMT
<1>9. \A k : LP!ChainStep(k) <=> List!ChainStep(k)
  BY SMT
<1>10. \A k : LP!TopUpStep(k) <=> List!TopUpStep(k)
  BY SMT
<1>11. \A k : LP!FinalizeClaim(k) <=> List!FinalizeClaim(k)
  BY SMT
<1>12. \A k, a, b : LP!SetCheckInChain(k, a, b) <=> List!SetCheckInChain(k, a, b)
  BY SMT
<1>13. \A k, a, b, e : LP!SetCheckInChainFor(k, a, b, e) <=> List!SetCheckInChainFor(k, a, b, e)
  BY SMT
<1>14. \A k, a, b : LP!Withdraw(k, a, b) <=> List!Withdraw(k, a, b)
  BY SMT
<1>15. \A k, a : LP!SetBeneficiary(k, a) <=> List!SetBeneficiary(k, a)
  BY SMT
<1>16. \A k, a : LP!SetInactivityPeriod(k, a) <=> List!SetInactivityPeriod(k, a)
  BY SMT
<1>17. \A k, a : LP!ExtendHorizon(k, a) <=> List!ExtendHorizon(k, a)
  BY SMT
<1>18. \A c, k : LP!BeneficiaryCancelClaim(c, k) <=> List!BeneficiaryCancelClaim(c, k)
  BY SMT
<1>19. \A c, k, a : LP!InitiateClaim(c, k, a) <=> List!InitiateClaim(c, k, a)
  BY SMT
<1> QED
  BY <1>1, <1>2, <1>3, <1>4, <1>5, <1>6, <1>7, <1>8, <1>9, <1>10, <1>11, <1>12, <1>13, <1>14,
     <1>15, <1>16, <1>17, <1>18, <1>19, SMTT(60)

\* step by step,
LEMMA SameSteps == [LP!Next]_LP!vars <=> [List!Next]_List!vars
<1>1. \A k : LP!OwnerStep(k) <=> List!OwnerStep(k)
  BY SameActions
     DEF LP!OwnerStep, LP!DeliberateStep, LP!Links, LP!Keys, LP!VaultIds, LP!Dates,
         List!OwnerStep, List!DeliberateStep, List!Links, List!Keys, List!VaultIds, List!Dates
<1>2. \A c, k : LP!HeirStep(c, k) <=> List!HeirStep(c, k)
  BY SameActions DEF LP!HeirStep, List!HeirStep
<1>3. LP!AnyoneStep <=> List!AnyoneStep
  BY SameActions
     DEF LP!AnyoneStep, LP!Keys, LP!VaultIds, LP!vaultState, LP!lanes, LP!feeState,
         LP!schedule, LP!recipient, List!AnyoneStep, List!Keys, List!VaultIds,
         List!vaultState, List!lanes, List!feeState, List!schedule, List!recipient
<1>4. LP!Next <=> List!Next
  BY SameActions, <1>1, <1>2, <1>3
     DEF LP!Next, LP!Keys, LP!VaultIds, List!Next, List!Keys, List!VaultIds
<1>5. LP!vars = List!vars
  BY DEF LP!vars, LP!vaultState, LP!lanes, LP!feeState, LP!recipient, LP!schedule,
         List!vars, List!vaultState, List!lanes, List!feeState, List!recipient, List!schedule
<1>6. LP!vars' = List!vars'
  BY DEF LP!vars, LP!vaultState, LP!lanes, LP!feeState, LP!recipient, LP!schedule,
         List!vars, List!vaultState, List!lanes, List!feeState, List!recipient, List!schedule
<1> QED
  BY <1>4, <1>5, <1>6

\* at the start
LEMMA SameStart == LP!Init <=> List!Init
BY DEF LP!Init, LP!NoVault, LP!STATE_NONE, LP!Keys, LP!VaultIds, LP!LaneInit, LP!Payable,
       LP!ClockInit, LP!FeeInit,
       List!Init, List!NoVault, List!STATE_NONE, List!Keys, List!VaultIds, List!LaneInit,
       List!Payable, List!ClockInit, List!FeeInit

\* and in what an exact list is.
LEMMA SameListing == LP!OpenListExact <=> List!OpenListExact
BY DEF LP!OpenListExact, LP!Live, LP!STATE_CLAIM_PENDING, LP!STATE_ACTIVE, LP!Exists, LP!VaultIds,
       List!OpenListExact, List!Live, List!STATE_CLAIM_PENDING, List!STATE_ACTIVE, List!Exists,
       List!VaultIds

\* The assumptions on the constants hold of the constants of that part.
LEMMA ListAssumptions ==
  /\ LP!MaxTimeAssumption /\ LP!AddressAssumption /\ LP!FeeAssumption
  /\ LP!LaneAssumption /\ LP!VaultAssumption /\ LP!FiniteAddressAssumption
<1>1. /\ LP!MaxTimeAssumption /\ LP!AddressAssumption /\ LP!FeeAssumption
      /\ LP!LaneAssumption /\ LP!VaultAssumption
  BY MaxTimeAssumption, AddressAssumption, FeeAssumption, LaneAssumption, VaultAssumption,
     ManyAssumption
     DEF LP!MaxTimeAssumption, LP!AddressAssumption, LP!FeeAssumption, LP!LaneAssumption,
         LP!VaultAssumption, LP!AnyAddress, LP!Payable, AnyAddress, Payable
<1>2. LP!FiniteAddressAssumption
  BY FiniteAddressAssumption DEF LP!FiniteAddressAssumption, LP!IsFiniteSet, IsFiniteSet
<1> QED
  BY <1>1, <1>2

\* So the theorem of LP is one of List.
LEMMA ListStaysTrue == List!Spec => []List!OpenListExact
<1>1. LP!Spec => []LP!OpenListExact
  BY LP!OpenListStaysTrue, ListAssumptions
<1> QED
  BY <1>1, SameStart, SameSteps, SameListing, PTL DEF LP!Spec, List!Spec

\* In both parts of ManyVaults the open list of an owner names each of its live
\* vaults once, at the slot the vault knows, and nothing else, within its cap
\* (createVault's push, _removeFromOpen's swap and pop).
THEOREM OpenListsStayExact == ManySpec => []OpenListStaysExact
<1>1. part = "list" /\ ManyInit => List!Init
  BY DEF ManyInit
<1>2. part = "list" /\ [ManyNext]_manyVars => [List!Next]_List!vars
  BY DEF ManyNext, manyVars, historyVars, vars, vaultState, lanes, feeState, schedule, recipient,
         List!vars, List!vaultState, List!lanes, List!feeState, List!schedule, List!recipient
<1>3. ManySpec /\ part = "list" => []List!OpenListExact
  BY <1>1, <1>2, ManyKeepsItsPart, ListStaysTrue, PTL DEF ManySpec, List!Spec
<1>4. HistorySpec => []OpenListExact
  BY HistoryIsASpec, OpenListStaysTrue, PTL
<1>5. /\ part = "chains" /\ OpenListExact => OpenListStaysExact
      /\ part = "list" /\ List!OpenListExact => OpenListStaysExact
  BY DEF OpenListStaysExact
<1> QED
  BY <1>3, <1>4, <1>5, ManyKeepsItsPart, PTL

-----------------------------------------------------------------------------
(* A vault is a dead man's switch.                                          *)

\* The five states and the five phases.
LEMMA PhaseOf ==
  /\ Phase(STATE_NONE) = "none" /\ Phase(STATE_ACTIVE) = "active"
  /\ Phase(STATE_CLAIM_PENDING) = "claimed" /\ Phase(STATE_SETTLED) = "settled"
  /\ Phase(STATE_CLOSED) = "closed"
BY DEF Phase, STATE_NONE, STATE_ACTIVE, STATE_CLAIM_PENDING, STATE_SETTLED, STATE_CLOSED

\* What the switch of a vault tells of it.
LEMMA PhaseTells ==
  ASSUME NEW v \in VaultRecords
  PROVE  /\ SwitchOf(v).phase = "active" <=> v.state = STATE_ACTIVE
         /\ SwitchOf(v).phase = "claimed" <=> v.state = STATE_CLAIM_PENDING
         /\ SwitchOf(v).phase = "none" <=> v.state = STATE_NONE
         /\ Switch!IsLive(SwitchOf(v)) <=> v.state \in LiveStates
         /\ Switch!AtHorizon(SwitchOf(v), now) <=> now >= v.absoluteDeadline
<1>1. /\ v.state \in {STATE_NONE, STATE_ACTIVE, STATE_CLAIM_PENDING, STATE_SETTLED, STATE_CLOSED}
      /\ SwitchOf(v).phase = Phase(v.state) /\ SwitchOf(v).horizon = v.absoluteDeadline
  BY DEF VaultRecords, SwitchOf
<1> QED
  BY <1>1 DEF Phase, Switch!IsLive, Switch!AtHorizon, LiveStates,
     STATE_NONE, STATE_ACTIVE, STATE_CLAIM_PENDING, STATE_SETTLED, STATE_CLOSED

\* The helpers of the contract are those of the switch.
LEMMA RestartedIs ==
  ASSUME now \in Nat, NEW v \in VaultRecords
  PROVE  SwitchOf(ResetClock(v)) = Switch!Restarted(SwitchOf(v), now)
<1>1. Smaller(now + v.inactivityPeriod, v.absoluteDeadline)
        = Switch!Sooner(now + v.inactivityPeriod, v.absoluteDeadline)
  BY DEF VaultRecords, Smaller, Switch!Sooner
<1> DEFINE d == Smaller(now + v.inactivityPeriod, v.absoluteDeadline)
           w == [v EXCEPT !.deadline = d]
<1>2. ResetClock(v) = w
  BY DEF ResetClock, NextDeadline
<1>3. Switch!Restarted(SwitchOf(v), now) = [SwitchOf(v) EXCEPT !.deadline = d]
  BY <1>1 DEF Switch!Restarted, SwitchOf
<1> HIDE DEF d
<1>4. /\ w.state = v.state /\ w.beneficiary = v.beneficiary /\ w.deadline = d
      /\ w.inactivityPeriod = v.inactivityPeriod /\ w.absoluteDeadline = v.absoluteDeadline
      /\ w.challengeWindow = v.challengeWindow /\ w.claimInitiatedAt = v.claimInitiatedAt
      /\ w.claimRecipient = v.claimRecipient
  BY DEF VaultRecords
<1> HIDE DEF w
<1> QED
  BY <1>2, <1>3, <1>4 DEF SwitchOf

Fields(phase, heir, deadline, period, horizon, window, claimedAt, payee) == [
    phase |-> phase, heir |-> heir, deadline |-> deadline, period |-> period,
    horizon |-> horizon, window |-> window, claimedAt |-> claimedAt, payee |-> payee]

\* _clearPending is Unclaimed;
LEMMA UnclaimedIs ==
  ASSUME NEW v \in VaultRecords
  PROVE  /\ SwitchOf(ClearPending(v)) = Switch!Unclaimed(SwitchOf(v))
         /\ v.state = STATE_CLAIM_PENDING =>
               SwitchOf(WithoutClaim(v)) = Switch!Unclaimed(SwitchOf(v))
<1> DEFINE w == WithoutClaim(v)
<1>1. /\ w.state = STATE_ACTIVE /\ w.beneficiary = v.beneficiary /\ w.deadline = v.deadline
      /\ w.inactivityPeriod = v.inactivityPeriod /\ w.absoluteDeadline = v.absoluteDeadline
      /\ w.challengeWindow = v.challengeWindow /\ w.claimInitiatedAt = 0
      /\ w.claimRecipient = NoOne
  BY DEF VaultRecords, WithoutClaim
<1> HIDE DEF w
<1>2. CASE v.state = STATE_CLAIM_PENDING
  <2>1. SwitchOf(w) = [SwitchOf(v) EXCEPT !.phase = "active", !.claimedAt = 0, !.payee = NoOne]
    <3> DEFINE a == [SwitchOf(v) EXCEPT !.phase = "active"]
               b == [a EXCEPT !.claimedAt = 0]
               c == [b EXCEPT !.payee = NoOne]
    <3>1. a = Fields("active", v.beneficiary, v.deadline, v.inactivityPeriod, v.absoluteDeadline,
                     v.challengeWindow, v.claimInitiatedAt, v.claimRecipient)
      BY DEF SwitchOf, Fields
    <3> HIDE DEF a
    <3>2. b = Fields("active", v.beneficiary, v.deadline, v.inactivityPeriod, v.absoluteDeadline,
                     v.challengeWindow, 0, v.claimRecipient)
      BY <3>1 DEF Fields
    <3> HIDE DEF b
    <3>3. c = Fields("active", v.beneficiary, v.deadline, v.inactivityPeriod, v.absoluteDeadline,
                     v.challengeWindow, 0, NoOne)
      BY <3>2 DEF Fields
    <3>4. SwitchOf(w) = c
      BY <1>1, <3>3, PhaseOf DEF SwitchOf, Fields
    <3> QED
      BY <3>4 DEF a, b, c
  <2>2. SwitchOf(v).phase = "claimed" /\ ClearPending(v) = w
    BY <1>2, PhaseTells DEF ClearPending, w
  <2> QED
    BY <1>2, <2>1, <2>2 DEF Switch!Unclaimed, w
<1>3. CASE v.state # STATE_CLAIM_PENDING
  BY <1>3, PhaseTells DEF Switch!Unclaimed, ClearPending
<1> QED
  BY <1>2, <1>3

\* with the clock restarted it is Acted.
LEMMA ActedIs ==
  ASSUME now \in Nat, NEW v \in VaultRecords
  PROVE  SwitchOf(ResetClock(ClearPending(v))) = Switch!Acted(SwitchOf(v), now)
<1>1. ClearPending(v) \in VaultRecords
  BY AddressAssumption DEF ClearPending, WithoutClaim, VaultRecords, AnyAddress
<1> QED
  BY <1>1, RestartedIs, UnclaimedIs DEF Switch!Acted


\* Only the clock's own step moves the clock.
LEMMA OnlyTicksMoveTime ==
  ASSUME [Next]_vars
  PROVE  TickStep \/ now' = now
<1>1. ASSUME NEW o \in Owners, CreationStep(o)
      PROVE  now' = now
  BY <1>1 DEF CreationStep, CreateVault
<1>2. ASSUME NEW o \in Owners, BatchStep(o)
      PROVE  now' = now
  BY <1>2 DEF BatchStep, CheckInMany, OwnVaultOnly
<1>3. ASSUME NEW k \in Keys, OwnerStep(k) \/ ChainStep(k)
      PROVE  now' = now
  BY <1>3 DEF OwnerStep, AutomatedStep, DeliberateStep, ChainStep, CheckIn, AbortClaim,
              SetCheckInChain, SetCheckInChainFor, Withdraw, SetBeneficiary, SetInactivityPeriod,
              ExtendHorizon, CheckInByChain, OwnVaultOnly
<1>4. ASSUME NEW caller \in Heirs, NEW k \in Keys, HeirStep(caller, k)
      PROVE  now' = now
  BY <1>4 DEF HeirStep, InitiateClaim, BeneficiaryCancelClaim, OwnVaultOnly
<1>5. CASE AdminStep
  BY <1>5 DEF AdminStep, SetClaimFee, SetFeeRecipient, SetCreationPaused, SweepAction, SweepSurplus
<1>6. CASE AnyoneStep
  BY <1>6 DEF AnyoneStep, FinalizeClaim, TopUpStep, TopUp, ApplyClaimFee, GiftAction, ForceFeed
<1>7. CASE PayoutStep
  BY <1>7 DEF PayoutStep, CreditAction, WithdrawCredit, PushCredit, PayCredit
<1>8. CASE UNCHANGED vars
  BY <1>8 DEF vars
<1> QED
  BY <1>1, <1>2, <1>3, <1>4, <1>5, <1>6, <1>7, <1>8 DEF Next

\* The switch after a step is read off the vault after it.
LEMMA SwitchAfter ==
  SwitchOf(vault[Watched])' = SwitchOf(vault'[Watched])
BY DEF SwitchOf, Phase

\* A vault whose terms, claim and deadline stay the same is the same switch.
LEMMA SameSwitch ==
  ASSUME NEW v, NEW w, w.state = v.state, w.beneficiary = v.beneficiary, w.deadline = v.deadline,
         w.inactivityPeriod = v.inactivityPeriod, w.absoluteDeadline = v.absoluteDeadline,
         w.challengeWindow = v.challengeWindow, w.claimInitiatedAt = v.claimInitiatedAt,
         w.claimRecipient = v.claimRecipient
  PROVE  SwitchOf(w) = SwitchOf(v)
BY DEF SwitchOf

\* A step that leaves the vault's terms alone is no step of the switch.
LEMMA OthersStutter ==
  ASSUME VaultsSound, Watched \in Keys, SameButSlot(vault[Watched], vault'[Watched])
  PROVE  SwitchOf(vault[Watched])' = SwitchOf(vault[Watched])
<1>1. vault[Watched] \in VaultRecords
  BY LiveFacts
<1> QED
  BY <1>1, SameFields, SameSwitch, SwitchAfter

\* What the guards say of the switch.
LEMMA SwitchTells ==
  ASSUME VaultsSound, NEW k \in Keys
  PROVE  /\ Live(k) => Switch!IsLive(SwitchOf(vault[k]))
         /\ Active(k) => SwitchOf(vault[k]).phase = "active"
         /\ Pending(k) <=> SwitchOf(vault[k]).phase = "claimed"
         /\ HorizonReached(k) <=> Switch!AtHorizon(SwitchOf(vault[k]), now)
         /\ SwitchOf(vault[k]).deadline = vault[k].deadline
         /\ SwitchOf(vault[k]).horizon = vault[k].absoluteDeadline
         /\ SwitchOf(vault[k]).period = vault[k].inactivityPeriod
         /\ SwitchOf(vault[k]).heir = vault[k].beneficiary
         /\ SwitchOf(vault[k]).claimedAt = vault[k].claimInitiatedAt
         /\ SwitchOf(vault[k]).window = vault[k].challengeWindow
<1>1. vault[k] \in VaultRecords /\ (Live(k) => vault[k].state \in LiveStates)
      /\ (Active(k) => vault[k].state = STATE_ACTIVE)
      /\ (Pending(k) => vault[k].state = STATE_CLAIM_PENDING)
  BY LiveFacts
<1>2. ~Exists(k) => vault[k].state # STATE_CLAIM_PENDING
  BY DEF VaultsSound, STATE_NONE, STATE_CLAIM_PENDING
<1>3. Pending(k) <=> vault[k].state = STATE_CLAIM_PENDING
  BY <1>1, <1>2 DEF Pending
<1> QED
  BY <1>1, <1>3, PhaseTells DEF SwitchOf, HorizonReached

\* What every owner's act that renews the vault makes of the switch: x is the
\* vault with the one term changed that the act is about.
LEMMA RenewedActs ==
  ASSUME VaultsSound, NEW k \in Keys, NEW x \in VaultRecords, Becomes(k, ResetClock(ClearPending(x)))
  PROVE  SwitchOf(vault'[k]) = Switch!Acted(SwitchOf(x), now)
<1>1. now \in Nat /\ vault'[k] = ResetClock(ClearPending(x))
  BY BecomesIs, LiveFacts
<1> QED
  BY <1>1, ActedIs

\* Acting with nothing claimed is a restart of the clock.
LEMMA UnclaimedActs ==
  ASSUME NEW s, s.phase # "claimed"
  PROVE  Switch!Acted(s, now) = Switch!Restarted(s, now)
BY DEF Switch!Acted, Switch!Unclaimed

\* checkIn is a sign of life,
LEMMA CheckInIsShowLife ==
  ASSUME VaultsSound, Watched \in Keys, CheckIn(Watched)
  PROVE  Switch!ShowLife
<1> DEFINE v == vault[Watched]
<1>1. /\ Active(Watched) /\ ~HorizonReached(Watched) /\ v.deadline < v.absoluteDeadline
      /\ Becomes(Watched, ResetClock(v)) /\ now' = now
  BY DEF CheckIn, OwnVaultOnly
<1>2. now \in Nat /\ v \in VaultRecords
  BY LiveFacts
<1>3. SwitchOf(vault'[Watched]) = Switch!Restarted(SwitchOf(v), now)
  BY <1>1, <1>2, BecomesIs, RestartedIs
<1> QED
  BY <1>1, <1>3, SwitchAfter, SwitchTells DEF Switch!ShowLife, Switch!CanShowLife, Switch!Becoming

\* abortClaim the veto,
LEMMA AbortIsVeto ==
  ASSUME VaultsSound, Watched \in Keys, AbortClaim(Watched)
  PROVE  Switch!Veto
<1> DEFINE v == vault[Watched]
<1>1. /\ Pending(Watched) /\ ~HorizonReached(Watched) /\ now' = now
      /\ Becomes(Watched, ResetClock(ClearPending(v)))
  BY DEF AbortClaim, OwnVaultOnly, Pending, ClearPending
<1>2. v \in VaultRecords
  BY LiveFacts
<1>3. SwitchOf(vault'[Watched]) = Switch!Acted(SwitchOf(v), now)
  BY <1>1, <1>2, RenewedActs
<1> QED
  BY <1>1, <1>3, SwitchAfter, SwitchTells DEF Switch!Veto, Switch!CanVeto, Switch!Becoming

\* setCheckInChain an act that changes no term,
LEMMA ArmingIsRearm ==
  ASSUME VaultsSound, Watched \in Keys, NEW anchor \in Links \cup {NoValue},
         NEW count \in 0..MAX_HB_COUNT, SetCheckInChain(Watched, anchor, count)
  PROVE  Switch!Rearm
<1> DEFINE v == vault[Watched]
           x == [v EXCEPT !.hbEpoch = @ + 1, !.hbAnchor = anchor, !.hbLeft = count]
<1>1. /\ Live(Watched) /\ ~HorizonReached(Watched) /\ now' = now
      /\ Becomes(Watched, ResetClock(ClearPending(x)))
  BY DEF SetCheckInChain, OwnVaultOnly
<1>2. v \in VaultRecords
  BY LiveFacts
<1>3. x \in VaultRecords /\ SwitchOf(x) = SwitchOf(v)
  <2>1. count \in Nat /\ v.hbEpoch + 1 \in Nat
    BY <1>2 DEF VaultRecords
  <2>2. x \in VaultRecords
    BY <1>2, <2>1 DEF VaultRecords
  <2>3. /\ x.state = v.state /\ x.beneficiary = v.beneficiary /\ x.deadline = v.deadline
        /\ x.inactivityPeriod = v.inactivityPeriod /\ x.absoluteDeadline = v.absoluteDeadline
        /\ x.challengeWindow = v.challengeWindow /\ x.claimInitiatedAt = v.claimInitiatedAt
        /\ x.claimRecipient = v.claimRecipient
    BY <1>2 DEF VaultRecords
  <2> QED
    BY <2>2, <2>3, SameSwitch
<1> HIDE DEF x
<1>4. SwitchOf(vault'[Watched]) = Switch!Acted(SwitchOf(v), now)
  BY <1>1, <1>3, RenewedActs
<1> QED
  BY <1>1, <1>4, SwitchAfter, SwitchTells DEF Switch!Rearm, Switch!Becoming

\* setBeneficiary a change of the heir,
LEMMA NamingIsChangeHeir ==
  ASSUME VaultsSound, Watched \in Keys, NEW newBeneficiary \in Heirs,
         SetBeneficiary(Watched, newBeneficiary)
  PROVE  Switch!ChangeHeir
<1> DEFINE v == vault[Watched]
           x == [v EXCEPT !.beneficiary = newBeneficiary]
<1>1. /\ Live(Watched) /\ MayClearPending(Watched) /\ now' = now
      /\ newBeneficiary \in AnyAddress \ {NoOne}
      /\ Becomes(Watched, ResetClock(ClearPending(x)))
  BY DEF SetBeneficiary, OwnVaultOnly
<1>2. v \in VaultRecords
  BY LiveFacts
<1>3. x \in VaultRecords
  BY <1>1, <1>2 DEF VaultRecords
<1>4. SwitchOf(x) = [SwitchOf(v) EXCEPT !.heir = newBeneficiary]
  <2>1. /\ x.state = v.state /\ x.beneficiary = newBeneficiary /\ x.deadline = v.deadline
        /\ x.inactivityPeriod = v.inactivityPeriod /\ x.absoluteDeadline = v.absoluteDeadline
        /\ x.challengeWindow = v.challengeWindow /\ x.claimInitiatedAt = v.claimInitiatedAt
        /\ x.claimRecipient = v.claimRecipient
    BY <1>2 DEF VaultRecords
  <2> HIDE DEF x
  <2> QED
    BY <2>1 DEF SwitchOf
<1> HIDE DEF x
<1>5. SwitchOf(vault'[Watched]) = Switch!Acted([SwitchOf(v) EXCEPT !.heir = newBeneficiary], now)
  BY <1>1, <1>3, <1>4, RenewedActs
<1>6. Switch!CanAct(SwitchOf(v), now)
  BY <1>1, SwitchTells DEF Switch!CanAct, MayClearPending
<1> QED
  BY <1>1, <1>5, <1>6, SwitchAfter DEF Switch!ChangeHeir, Switch!Becoming

\* setInactivityPeriod one of the period,
LEMMA PeriodIsChangePeriod ==
  ASSUME VaultsSound, Watched \in Keys, NEW newPeriod \in MIN_INACTIVITY..MAX_INACTIVITY,
         SetInactivityPeriod(Watched, newPeriod)
  PROVE  Switch!ChangePeriod
<1> DEFINE v == vault[Watched]
           x == [v EXCEPT !.inactivityPeriod = newPeriod]
<1>1. /\ Live(Watched) /\ MayClearPending(Watched) /\ now' = now
      /\ Becomes(Watched, ResetClock(ClearPending(x)))
  BY DEF SetInactivityPeriod, OwnVaultOnly
<1>2. v \in VaultRecords /\ newPeriod \in Nat
  BY LiveFacts
<1>3. x \in VaultRecords
  BY <1>2 DEF VaultRecords
<1>4. SwitchOf(x) = [SwitchOf(v) EXCEPT !.period = newPeriod]
  <2>1. /\ x.state = v.state /\ x.beneficiary = v.beneficiary /\ x.deadline = v.deadline
        /\ x.inactivityPeriod = newPeriod /\ x.absoluteDeadline = v.absoluteDeadline
        /\ x.challengeWindow = v.challengeWindow /\ x.claimInitiatedAt = v.claimInitiatedAt
        /\ x.claimRecipient = v.claimRecipient
    BY <1>2 DEF VaultRecords
  <2> HIDE DEF x
  <2> QED
    BY <2>1 DEF SwitchOf
<1> HIDE DEF x
<1>5. SwitchOf(vault'[Watched]) = Switch!Acted([SwitchOf(v) EXCEPT !.period = newPeriod], now)
  BY <1>1, <1>3, <1>4, RenewedActs
<1>6. Switch!CanAct(SwitchOf(v), now)
  BY <1>1, SwitchTells DEF Switch!CanAct, MayClearPending
<1> QED
  BY <1>1, <1>5, <1>6, SwitchAfter DEF Switch!ChangePeriod, Switch!Becoming, Switch!Periods

\* extendHorizon one of the horizon,
LEMMA ExtendingIsExtend ==
  ASSUME VaultsSound, Watched \in Keys, NEW newHorizon \in Dates, ExtendHorizon(Watched, newHorizon)
  PROVE  Switch!Extend
<1> DEFINE v == vault[Watched]
           x == [v EXCEPT !.absoluteDeadline = newHorizon]
<1>1. /\ Live(Watched) /\ newHorizon > v.absoluteDeadline
      /\ newHorizon >= now + v.inactivityPeriod /\ newHorizon <= now + MAX_HORIZON /\ now' = now
      /\ Becomes(Watched, ResetClock(ClearPending(x)))
  BY DEF ExtendHorizon, OwnVaultOnly
<1>2. v \in VaultRecords /\ newHorizon \in Nat
  BY LiveFacts, MaxTimeAssumption DEF Dates
<1>3. x \in VaultRecords
  BY <1>2 DEF VaultRecords
<1>4. SwitchOf(x) = [SwitchOf(v) EXCEPT !.horizon = newHorizon]
  <2>1. /\ x.state = v.state /\ x.beneficiary = v.beneficiary /\ x.deadline = v.deadline
        /\ x.inactivityPeriod = v.inactivityPeriod /\ x.absoluteDeadline = newHorizon
        /\ x.challengeWindow = v.challengeWindow /\ x.claimInitiatedAt = v.claimInitiatedAt
        /\ x.claimRecipient = v.claimRecipient
    BY <1>2 DEF VaultRecords
  <2> HIDE DEF x
  <2> QED
    BY <2>1 DEF SwitchOf
<1> HIDE DEF x
<1>5. SwitchOf(vault'[Watched]) = Switch!Acted([SwitchOf(v) EXCEPT !.horizon = newHorizon], now)
  BY <1>1, <1>3, <1>4, RenewedActs
<1>6. Switch!CanExtend(SwitchOf(v), now, newHorizon)
  BY <1>1, SwitchTells DEF Switch!CanExtend
<1> QED
  BY <1>1, <1>5, <1>6, SwitchAfter DEF Switch!Extend, Switch!Becoming, Switch!Horizons, Dates

\* Taking a part is a sign of life, at the horizon beside the claim; taking
\* everything closes the switch.
LEMMA WithdrawingIsWithdrawOrClose ==
  ASSUME VaultsSound, Watched \in Keys, NEW to, NEW amount, Withdraw(Watched, amount, to)
  PROVE  Switch!WithdrawPart \/ Switch!Close
<1> DEFINE v == vault[Watched]
           rest == [v EXCEPT !.balance = @ - amount]
           taken == ResetClock(rest)
           ended == [WithoutClaim(taken) EXCEPT !.state = STATE_CLOSED]
           s == SwitchOf(v)
<1>1. /\ Live(Watched) /\ now' = now /\ amount \in 1..v.balance
      /\ \/ LeaveOpen(Watched, ended)
         \/ Becomes(Watched, IF HorizonReached(Watched) THEN taken ELSE ClearPending(taken))
  BY DEF Withdraw
<1>2. v \in VaultRecords /\ now \in Nat /\ v.state \in LiveStates
  BY <1>1, LiveFacts
<1>3. rest \in VaultRecords /\ SwitchOf(rest) = s
  <2>1. v.balance - amount \in Nat
    BY <1>1, <1>2 DEF VaultRecords
  <2>2. rest \in VaultRecords
    BY <1>2, <2>1 DEF VaultRecords
  <2>3. /\ rest.state = v.state /\ rest.beneficiary = v.beneficiary /\ rest.deadline = v.deadline
        /\ rest.inactivityPeriod = v.inactivityPeriod /\ rest.absoluteDeadline = v.absoluteDeadline
        /\ rest.challengeWindow = v.challengeWindow /\ rest.claimInitiatedAt = v.claimInitiatedAt
        /\ rest.claimRecipient = v.claimRecipient
    BY <1>2 DEF VaultRecords
  <2> QED
    BY <2>2, <2>3, SameSwitch
<1> HIDE DEF rest
<1>4. taken \in VaultRecords /\ taken = ResetClock(rest)
  BY <1>2, <1>3, ResetClockFacts
<1>5. SwitchOf(taken) = Switch!Restarted(s, now) /\ SwitchOf(ClearPending(taken)) = Switch!Acted(s, now)
  BY <1>2, <1>3, RestartedIs, ActedIs, ClearAfterReset
<1>6. Switch!IsLive(s)
  BY <1>1, SwitchTells
<1>7. ASSUME Becomes(Watched, IF HorizonReached(Watched) THEN taken ELSE ClearPending(taken))
      PROVE  Switch!WithdrawPart
  <2>1. SwitchOf(vault'[Watched]) = Switch!PartWithdrawn(s, now)
    BY <1>5, <1>7, BecomesIs, SwitchTells DEF Switch!PartWithdrawn
  <2> QED
    BY <1>1, <1>6, <2>1, SwitchAfter DEF Switch!WithdrawPart, Switch!Becoming
<1>8. ASSUME LeaveOpen(Watched, ended)
      PROVE  Switch!Close
  <2>1. vault'[Watched] = ended
    BY <1>8, LeaveOpenIs
  <2>2. SwitchOf(ended) = [Switch!Acted(s, now) EXCEPT !.phase = "closed"]
    <3> DEFINE c == ClearPending(taken)
    <3>1. taken.state = v.state /\ c \in VaultRecords
      <4>1. taken.state = rest.state /\ rest.state = v.state
        BY <1>2, <1>3, ResetClockFacts, PhaseTells DEF rest, VaultRecords
      <4>2. c \in VaultRecords
        BY <1>4, AddressAssumption DEF ClearPending, WithoutClaim, VaultRecords, AnyAddress
      <4> QED
        BY <4>1, <4>2
    <3>2. /\ ended.state = STATE_CLOSED /\ ended.beneficiary = c.beneficiary
          /\ ended.deadline = c.deadline /\ ended.inactivityPeriod = c.inactivityPeriod
          /\ ended.absoluteDeadline = c.absoluteDeadline
          /\ ended.challengeWindow = c.challengeWindow
          /\ ended.claimInitiatedAt = c.claimInitiatedAt
          /\ ended.claimRecipient = c.claimRecipient
      <4>1. /\ ended.state = STATE_CLOSED /\ ended.beneficiary = taken.beneficiary
            /\ ended.deadline = taken.deadline /\ ended.inactivityPeriod = taken.inactivityPeriod
            /\ ended.absoluteDeadline = taken.absoluteDeadline
            /\ ended.challengeWindow = taken.challengeWindow
            /\ ended.claimInitiatedAt = 0 /\ ended.claimRecipient = NoOne
        BY <1>4 DEF WithoutClaim, VaultRecords
      <4>2. CASE taken.state = STATE_CLAIM_PENDING
        <5>1. c = WithoutClaim(taken)
          BY <4>2 DEF ClearPending
        <5> QED
          BY <1>4, <4>1, <5>1 DEF WithoutClaim, VaultRecords
      <4>3. CASE taken.state = STATE_ACTIVE
        <5>1. c = taken
          BY <4>3, StatesDiffer DEF ClearPending
        <5>2. v.claimInitiatedAt = 0 /\ v.claimRecipient = NoOne
          BY <1>1, <3>1, <4>3, LiveFacts
        <5>3. taken.claimInitiatedAt = v.claimInitiatedAt /\ taken.claimRecipient = v.claimRecipient
          BY <1>2, <1>3, <1>4 DEF ResetClock, rest, VaultRecords
        <5> QED
          BY <4>1, <5>1, <5>2, <5>3
      <4> QED
        BY <1>2, <3>1, <4>2, <4>3 DEF LiveStates
    <3> HIDE DEF c
    <3>3. SwitchOf(ended) = [SwitchOf(c) EXCEPT !.phase = "closed"]
      BY <3>2, PhaseOf DEF SwitchOf
    <3> QED
      BY <1>5, <3>3 DEF c
  <2> QED
    BY <1>1, <1>6, <2>1, <2>2, SwitchAfter DEF Switch!Close, Switch!Becoming
<1> QED
  BY <1>1, <1>7, <1>8

\* startClaim is the claim,
LEMMA ClaimingIsClaim ==
  ASSUME VaultsSound, Watched \in Keys, NEW caller, NEW to \in Recipients,
         InitiateClaim(caller, Watched, to)
  PROVE  Switch!Claim
<1>0. /\ Active(Watched) /\ now >= vault[Watched].deadline /\ to \in AnyAddress \ {NoOne}
      /\ vault'[Watched] = [vault[Watched] EXCEPT
            !.lockedFeeBps = FeeToLock(vault[Watched]), !.claimRecipient = to,
            !.claimInitiatedAt = now, !.state = STATE_CLAIM_PENDING]
  BY ClaimLeaves, ZenonT(60)
<1> DEFINE v == vault[Watched]
           w == vault'[Watched]
<1>1. /\ Active(Watched) /\ now >= v.deadline /\ to \in AnyAddress \ {NoOne}
      /\ w = [v EXCEPT !.lockedFeeBps = FeeToLock(v), !.claimRecipient = to,
                       !.claimInitiatedAt = now, !.state = STATE_CLAIM_PENDING]
  BY <1>0
<1>2. now' = now
  BY DEF InitiateClaim, OwnVaultOnly
<1>3. v \in VaultRecords
  BY LiveFacts
<1>4. /\ w.state = STATE_CLAIM_PENDING /\ w.beneficiary = v.beneficiary /\ w.deadline = v.deadline
      /\ w.inactivityPeriod = v.inactivityPeriod /\ w.absoluteDeadline = v.absoluteDeadline
      /\ w.challengeWindow = v.challengeWindow /\ w.claimInitiatedAt = now
      /\ w.claimRecipient = to
  BY <1>1, <1>3 DEF VaultRecords
<1> HIDE DEF w
<1>5. SwitchOf(w) = Switch!ClaimedBy(SwitchOf(v), now, to)
  <2> DEFINE a == [SwitchOf(v) EXCEPT !.phase = "claimed"]
             b == [a EXCEPT !.claimedAt = now]
             c == [b EXCEPT !.payee = to]
  <2>1. a = Fields("claimed", v.beneficiary, v.deadline, v.inactivityPeriod, v.absoluteDeadline,
                   v.challengeWindow, v.claimInitiatedAt, v.claimRecipient)
    BY DEF SwitchOf, Fields
  <2> HIDE DEF a
  <2>2. b = Fields("claimed", v.beneficiary, v.deadline, v.inactivityPeriod, v.absoluteDeadline,
                   v.challengeWindow, now, v.claimRecipient)
    BY <2>1 DEF Fields
  <2> HIDE DEF b
  <2>3. c = Fields("claimed", v.beneficiary, v.deadline, v.inactivityPeriod, v.absoluteDeadline,
                   v.challengeWindow, now, to)
    BY <2>2 DEF Fields
  <2>4. SwitchOf(w) = c
    BY <1>4, <2>3, PhaseOf DEF SwitchOf, Fields
  <2> QED
    BY <2>4 DEF a, b, c, Switch!ClaimedBy
<1>6. Switch!CanClaim(SwitchOf(v), now)
  BY <1>1, SwitchTells DEF Switch!CanClaim, Switch!IsExpired
<1> QED
  BY <1>1, <1>2, <1>5, <1>6, SwitchAfter DEF Switch!Claim, Switch!Becoming, w

\* cancelClaim its end by the heir,
LEMMA CancellingIsCancel ==
  ASSUME VaultsSound, Watched \in Keys, NEW caller, BeneficiaryCancelClaim(caller, Watched)
  PROVE  Switch!CancelClaim
<1>1. /\ Pending(Watched) /\ vault'[Watched] = WithoutClaim(vault[Watched]) /\ now' = now
      /\ vault[Watched] \in VaultRecords /\ vault[Watched].state = STATE_CLAIM_PENDING
  BY CancelLeaves, LiveFacts DEF BeneficiaryCancelClaim, OwnVaultOnly
<1>2. SwitchOf(vault'[Watched]) = Switch!Unclaimed(SwitchOf(vault[Watched]))
  BY <1>1, UnclaimedIs
<1> QED
  BY <1>1, <1>2, SwitchAfter, SwitchTells DEF Switch!CancelClaim, Switch!Becoming

\* finalizeClaim the settlement,
LEMMA FinalizingIsSettle ==
  ASSUME VaultsSound, Watched \in Keys, FinalizeClaim(Watched)
  PROVE  Switch!Settle
<1> DEFINE v == vault[Watched]
           w == vault'[Watched]
<1>1. /\ Pending(Watched) /\ now >= v.claimInitiatedAt + v.challengeWindow
      /\ w = [v EXCEPT !.balance = 0, !.state = STATE_SETTLED]
  BY SettlementLeaves
<1>2. now' = now
  BY DEF FinalizeClaim
<1>3. v \in VaultRecords
  BY LiveFacts
<1>4. /\ w.state = STATE_SETTLED /\ w.beneficiary = v.beneficiary /\ w.deadline = v.deadline
      /\ w.inactivityPeriod = v.inactivityPeriod /\ w.absoluteDeadline = v.absoluteDeadline
      /\ w.challengeWindow = v.challengeWindow /\ w.claimInitiatedAt = v.claimInitiatedAt
      /\ w.claimRecipient = v.claimRecipient
  BY <1>1, <1>3 DEF VaultRecords
<1> HIDE DEF w
<1>5. SwitchOf(w) = [SwitchOf(v) EXCEPT !.phase = "settled"]
  BY <1>4, PhaseOf DEF SwitchOf
<1>6. Switch!CanSettle(SwitchOf(v), now)
  BY <1>1, SwitchTells DEF Switch!CanSettle, Switch!FinalizableAt
<1> QED
  BY <1>2, <1>5, <1>6, SwitchAfter DEF Switch!Settle, Switch!Becoming, w

\* checkInByChain a sign of life that a link gives,
LEMMA ChainIsShowLife ==
  ASSUME VaultsSound, Watched \in Keys, NEW preimage \in Links \cup {NoValue},
         CheckInByChain(Watched, preimage)
  PROVE  Switch!ShowLife
<1> DEFINE v == vault[Watched]
           x == [v EXCEPT !.hbAnchor = preimage, !.hbLeft = @ - 1]
<1>1. /\ Active(Watched) /\ ~HorizonReached(Watched) /\ v.deadline < v.absoluteDeadline
      /\ v.hbLeft > 0 /\ Becomes(Watched, ResetClock(x)) /\ now' = now
  BY DEF CheckInByChain, OwnVaultOnly
<1>2. now \in Nat /\ v \in VaultRecords
  BY LiveFacts
<1>3. x \in VaultRecords /\ SwitchOf(x) = SwitchOf(v)
  <2>1. v.hbLeft - 1 \in Nat
    BY <1>1, <1>2 DEF VaultRecords
  <2>2. x \in VaultRecords
    BY <1>2, <2>1, ChainTyped
  <2>3. /\ x.state = v.state /\ x.beneficiary = v.beneficiary /\ x.deadline = v.deadline
        /\ x.inactivityPeriod = v.inactivityPeriod /\ x.absoluteDeadline = v.absoluteDeadline
        /\ x.challengeWindow = v.challengeWindow /\ x.claimInitiatedAt = v.claimInitiatedAt
        /\ x.claimRecipient = v.claimRecipient
    BY <1>2 DEF VaultRecords
  <2> QED
    BY <2>2, <2>3, SameSwitch
<1> HIDE DEF x
<1>4. SwitchOf(vault'[Watched]) = Switch!Restarted(SwitchOf(v), now)
  BY <1>1, <1>2, <1>3, BecomesIs, RestartedIs
<1> QED
  BY <1>1, <1>4, SwitchAfter, SwitchTells DEF Switch!ShowLife, Switch!CanShowLife, Switch!Becoming

\* A batch renews the vault under a check-in's own conditions or passes it over.
LEMMA BatchIsShowLife ==
  ASSUME VaultsSound, Watched \in Keys, NEW o \in Owners, BatchStep(o)
  PROVE  Switch!ShowLife \/ UNCHANGED Switch!switchVars
<1> DEFINE v == vault[Watched]
<1>1. PICK ids \in SUBSET VaultIds : CheckInMany(o, ids)
  BY DEF BatchStep
<1>2. now' = now /\ now \in Nat /\ v \in VaultRecords
  BY <1>1, LiveFacts DEF CheckInMany, OwnVaultOnly
<1>3. CASE Watched[1] = o /\ Watched[2] \in Refreshable(o, ids)
  <2>1. Watched = <<o, Watched[2]>>
    BY <1>3 DEF Keys
  <2>2. Active(Watched) /\ ~HorizonReached(Watched) /\ v.deadline < v.absoluteDeadline
    BY <1>3, <2>1 DEF Refreshable
  <2>3. vault'[Watched] = ResetClock(v)
    BY <1>1, <1>3 DEF CheckInMany
  <2>4. SwitchOf(vault'[Watched]) = Switch!Restarted(SwitchOf(v), now)
    BY <1>2, <2>3, RestartedIs
  <2> QED
    BY <1>2, <2>2, <2>4, SwitchAfter, SwitchTells
       DEF Switch!ShowLife, Switch!CanShowLife, Switch!Becoming
<1>4. CASE ~(Watched[1] = o /\ Watched[2] \in Refreshable(o, ids))
  <2>1. vault'[Watched] = v
    BY <1>1, <1>4 DEF CheckInMany
  <2> QED
    BY <1>2, <2>1, SwitchAfter DEF Switch!switchVars
<1> QED
  BY <1>3, <1>4

\* A top-up is no step of the switch.
LEMMA TopUpStutters ==
  ASSUME VaultsSound, Watched \in Keys, TopUpStep(Watched)
  PROVE  UNCHANGED Switch!switchVars
<1> DEFINE v == vault[Watched]
           w == vault'[Watched]
<1>1. PICK amount \in Nat : w = [v EXCEPT !.balance = @ + amount]
  BY TopUpLeaves
<1>2. now' = now /\ v \in VaultRecords
  BY LiveFacts DEF TopUpStep, TopUp
<1>3. /\ w.state = v.state /\ w.beneficiary = v.beneficiary /\ w.deadline = v.deadline
      /\ w.inactivityPeriod = v.inactivityPeriod /\ w.absoluteDeadline = v.absoluteDeadline
      /\ w.challengeWindow = v.challengeWindow /\ w.claimInitiatedAt = v.claimInitiatedAt
      /\ w.claimRecipient = v.claimRecipient
  BY <1>1, <1>2 DEF VaultRecords
<1> QED
  BY <1>2, <1>3, SameSwitch, SwitchAfter DEF Switch!switchVars

\* createVault arms the switch of the vault it makes.
LEMMA CreatingIsArm ==
  ASSUME VaultsSound, Watched \in Keys, NEW o \in Owners, CreationStep(o),
         Watched = <<o, vaultCount[o]>>
  PROVE  Switch!Arm
<1> DEFINE w == vault'[Watched]
<1>0. PICK t \in Tokens, amount \in Deposits, beneficiary \in Heirs,
           period \in MIN_INACTIVITY..MAX_INACTIVITY,
           window \in MIN_CHALLENGE..MAX_CHALLENGE, horizon \in Dates :
        \E arrived \in Arrivals(amount) :
          CreateVault(o, t, amount, arrived, beneficiary, period, window, horizon)
  BY DEF CreationStep
<1>1. PICK arrived \in Arrivals(amount) :
        CreateVault(o, t, amount, arrived, beneficiary, period, window, horizon)
  BY <1>0
<1>2. /\ beneficiary \in AnyAddress \ {NoOne} /\ now' = now
      /\ horizon >= now + period /\ horizon <= now + MAX_HORIZON
  BY <1>1 DEF CreateVault
<1>3. Created(o, Watched, beneficiary, period, window, horizon)
  BY <1>1, CreationLeaves
<1>4. /\ vault[Watched].state = STATE_NONE
      /\ w.state = STATE_ACTIVE /\ w.beneficiary = beneficiary
      /\ w.deadline = Smaller(now + period, horizon) /\ w.inactivityPeriod = period
      /\ w.absoluteDeadline = horizon /\ w.challengeWindow = window
      /\ w.claimInitiatedAt = 0 /\ w.claimRecipient = NoOne
  BY <1>3 DEF Created
<1> HIDE DEF w
<1>5. SwitchOf(w) = Switch!Restarted([Switch!Unarmed EXCEPT
                       !.phase = "active", !.heir = beneficiary, !.period = period,
                       !.horizon = horizon, !.window = window], now)
  <2> DEFINE a == [Switch!Unarmed EXCEPT !.phase = "active"]
             b == [a EXCEPT !.heir = beneficiary]
             c == [b EXCEPT !.period = period]
             d == [c EXCEPT !.horizon = horizon]
             e == [d EXCEPT !.window = window]
  <2>1. a = Fields("active", NoOne, 0, 0, 0, 0, 0, NoOne)
    BY DEF Switch!Unarmed, Fields
  <2> HIDE DEF a
  <2>2. b = Fields("active", beneficiary, 0, 0, 0, 0, 0, NoOne)
    BY <2>1 DEF Fields
  <2> HIDE DEF b
  <2>3. c = Fields("active", beneficiary, 0, period, 0, 0, 0, NoOne)
    BY <2>2 DEF Fields
  <2> HIDE DEF c
  <2>4. d = Fields("active", beneficiary, 0, period, horizon, 0, 0, NoOne)
    BY <2>3 DEF Fields
  <2> HIDE DEF d
  <2>5. e = Fields("active", beneficiary, 0, period, horizon, window, 0, NoOne)
    BY <2>4 DEF Fields
  <2>6. e = [Switch!Unarmed EXCEPT
                !.phase = "active", !.heir = beneficiary, !.period = period,
                !.horizon = horizon, !.window = window]
    BY DEF a, b, c, d
  <2> HIDE DEF e
  <2>7. Smaller(now + period, horizon) = Switch!Sooner(now + period, horizon)
    <3>1. now \in Nat /\ period \in Nat /\ horizon \in Nat
      BY LiveFacts, MaxTimeAssumption DEF Dates
    <3> QED
      BY <3>1 DEF Smaller, Switch!Sooner
  <2>8. Switch!Restarted(e, now)
          = Fields("active", beneficiary, Smaller(now + period, horizon), period, horizon,
                   window, 0, NoOne)
    BY <2>5, <2>7 DEF Switch!Restarted, Fields
  <2>9. SwitchOf(w) = Switch!Restarted(e, now)
    BY <1>4, <2>8, PhaseOf DEF SwitchOf, Fields
  <2> QED
    BY <2>6, <2>9
<1>6. SwitchOf(vault[Watched]).phase = "none"
  BY <1>4, PhaseOf DEF SwitchOf
<1> QED
  BY <1>2, <1>5, <1>6, SwitchAfter
     DEF Switch!Arm, Switch!Becoming, Switch!Periods, Switch!Windows, Switch!Horizons, Dates, w

\* Every step of the contract is a step of the switch, or none.
LEMMA SwitchStep ==
  ASSUME VaultsSound, [Next]_vars
  PROVE  [Switch!SwitchNext]_(Switch!switchVars)
<1>0. Watched \in Keys
  BY WatchedAssumption DEF Watched, Keys
<1>1. CASE TickStep
  <2>1. Tick /\ vault' = vault
    BY <1>1 DEF TickStep, vaultState
  <2>2. SwitchOf(vault[Watched])' = SwitchOf(vault[Watched])
    BY <2>1, SwitchAfter
  <2> QED
    BY <2>1, <2>2 DEF Switch!SwitchNext, Switch!Tick, Tick
<1>2. CASE now' = now /\ SameButSlot(vault[Watched], vault'[Watched])
  BY <1>0, <1>2, OthersStutter DEF Switch!switchVars
<1>3. ASSUME NEW o \in Owners, CreationStep(o), Watched = <<o, vaultCount[o]>>
      PROVE  Switch!SwitchNext
  BY <1>0, <1>3, CreatingIsArm DEF Switch!SwitchNext
<1>4. ASSUME NEW o \in Owners, BatchStep(o)
      PROVE  [Switch!SwitchNext]_(Switch!switchVars)
  BY <1>0, <1>4, BatchIsShowLife DEF Switch!SwitchNext, Switch!OwnerActs
<1>5. CASE OwnerStep(Watched)
  <2>1. ASSUME NEW anchor \in Links \cup {NoValue}, NEW count \in 0..MAX_HB_COUNT,
               SetCheckInChain(Watched, anchor, count)
        PROVE  Switch!OwnerActs
    BY <1>0, <2>1, ArmingIsRearm DEF Switch!OwnerActs
  <2>2. ASSUME NEW to, NEW amount, Withdraw(Watched, amount, to)
        PROVE  Switch!OwnerActs
    BY <1>0, <2>2, WithdrawingIsWithdrawOrClose DEF Switch!OwnerActs
  <2>3. ASSUME NEW h \in Heirs, SetBeneficiary(Watched, h)
        PROVE  Switch!OwnerActs
    BY <1>0, <2>3, NamingIsChangeHeir DEF Switch!OwnerActs
  <2>4. ASSUME NEW p \in MIN_INACTIVITY..MAX_INACTIVITY, SetInactivityPeriod(Watched, p)
        PROVE  Switch!OwnerActs
    BY <1>0, <2>4, PeriodIsChangePeriod DEF Switch!OwnerActs
  <2>5. ASSUME NEW h \in Dates, ExtendHorizon(Watched, h)
        PROVE  Switch!OwnerActs
    BY <1>0, <2>5, ExtendingIsExtend DEF Switch!OwnerActs
  <2>6. ASSUME AutomatedStep(Watched)
        PROVE  Switch!OwnerActs
    BY <1>0, <2>6, CheckInIsShowLife, AbortIsVeto DEF AutomatedStep, Switch!OwnerActs
  <2>7. ASSUME DeliberateStep(Watched)
        PROVE  Switch!OwnerActs
    BY <2>1, <2>2, <2>3, <2>4, <2>5, <2>7 DEF DeliberateStep, SetCheckInChainFor
  <2> QED
    BY <1>5, <2>6, <2>7 DEF OwnerStep, Switch!SwitchNext
<1>6. CASE ChainStep(Watched)
  BY <1>0, <1>6, ChainIsShowLife DEF ChainStep, Switch!SwitchNext, Switch!OwnerActs
<1>7. CASE TopUpStep(Watched)
  BY <1>0, <1>7, TopUpStutters
<1>8. ASSUME NEW caller \in Heirs, HeirStep(caller, Watched)
      PROVE  Switch!SwitchNext
  BY <1>0, <1>8, ClaimingIsClaim, CancellingIsCancel
     DEF HeirStep, Switch!SwitchNext, Switch!HeirActs
<1>9. CASE FinalizeClaim(Watched)
  BY <1>0, <1>9, FinalizingIsSettle DEF Switch!SwitchNext
<1> QED
  BY <1>0, <1>1, <1>2, <1>3, <1>4, <1>5, <1>6, <1>7, <1>8, <1>9, WhoMoves, OnlyTicksMoveTime

\* A vault that does not exist is an unarmed switch.
LEMMA SwitchStart == Init => Switch!SwitchInit
<1> SUFFICES ASSUME Init PROVE Switch!SwitchInit
  OBVIOUS
<1>1. now = 1 /\ vault[Watched] = NoVault
  BY WatchedAssumption DEF Init, FeeInit, ClockInit, Watched, Keys
<1>2. SwitchOf(NoVault) = Switch!Unarmed
  <2>1. /\ NoVault.state = STATE_NONE /\ NoVault.beneficiary = NoOne /\ NoVault.deadline = 0
        /\ NoVault.inactivityPeriod = 0 /\ NoVault.absoluteDeadline = 0
        /\ NoVault.challengeWindow = 0 /\ NoVault.claimInitiatedAt = 0
        /\ NoVault.claimRecipient = NoOne
    BY DEF NoVault
  <2> QED
    BY <2>1, PhaseOf DEF SwitchOf, Switch!Unarmed
<1> QED
  BY <1>1, <1>2 DEF Switch!SwitchInit, Switch!ClockInit

\* Whatever order owner, heir, third parties and administrator act in, and
\* whatever the other vaults go through, the vault looked at is a dead man's
\* switch: the contract implements the abstract specification.
THEOREM EveryVaultIsASwitch == Spec => VaultIsASwitch
<1>1. Init => Switch!SwitchInit
  BY SwitchStart
<1>2. VaultsSound /\ [Next]_vars => [Switch!SwitchNext]_(Switch!switchVars)
  BY SwitchStep
<1> QED
  BY <1>1, <1>2, VaultsStaySound, PTL DEF Spec, VaultIsASwitch, Switch!SwitchSpec

\* The bounds of the contract are bounds a switch can have.
LEMMA SwitchIsPossible == Switch!SwitchAssumption
BY DEF Switch!SwitchAssumption

\* What the switch promises, the contract keeps of each vault: an owner's act
\* puts the claim a period away or at the horizon, a claim at the horizon yields
\* only to a later horizon that leaves a full period or to closing, and a
\* settlement comes a full window after a claim that followed silence
\* (_resetClock, extendHorizon, withdraw, startClaim, finalizeClaim).
THEOREM OwnersArePromised ==
  Spec => [][/\ Switch!ActsBuyTimeStep
             /\ Switch!OnlyTwoWaysOutAtHorizonStep
             /\ Switch!SettledOnlyAfterSilence']_(Switch!switchVars)
<1>1. Switch!SwitchSpec => [][/\ Switch!ActsBuyTimeStep
                              /\ Switch!OnlyTwoWaysOutAtHorizonStep
                              /\ Switch!SettledOnlyAfterSilence']_(Switch!switchVars)
  BY SwitchIsPossible, Switch!SwitchKeepsItsPromises, MaxTimeAssumption
<1>2. Spec => Switch!SwitchSpec
  BY EveryVaultIsASwitch DEF VaultIsASwitch
<1> QED
  BY <1>1, <1>2
-----------------------------------------------------------------------------
(* Locked value adds up.                                                    *)

\* What each of the vaults vs holds of t, and whether w holds what v held.
HeldOf(t, vs) == [k \in Keys |-> IF vs[k].token = t THEN vs[k].balance ELSE 0]

SameMoney(v, w) == w.token = v.token /\ w.balance = v.balance

LockedIsTheSum ==
    \A t \in Tokens : totalLocked[t] = SumFunctionOnSet(HeldOf(t, vault), Keys)

LEMMA KeysFinite == IsFiniteSet(Keys)
<1>1. IsFiniteSet(Owners)
  BY FiniteAddressAssumption, FS_Subset
<1>2. IsFiniteSet(VaultIds)
  BY FS_Interval DEF VaultIds
<1> QED
  BY <1>1, <1>2, FS_Product DEF Keys

LEMMA HeldIsNumber ==
  ASSUME NEW vs \in [Keys -> VaultRecords], NEW t
  PROVE  /\ \A k \in Keys : HeldOf(t, vs)[k] \in Int
         /\ SumFunctionOnSet(HeldOf(t, vs), Keys) \in Int
<1> DEFINE h == HeldOf(t, vs)
<1>1. \A k \in Keys : h[k] \in Int
  BY DEF HeldOf, VaultRecords
<1> HIDE DEF h
<1>2. SumFunctionOnSet(h, Keys) \in Int
  BY <1>1, KeysFinite, SumTakesAny
<1> QED
  BY <1>1, <1>2 DEF h

\* A call that moves no value leaves the sums as they were.
LEMMA NothingLocked ==
  ASSUME VaultsSound, LockedIsTheSum, UNCHANGED totalLocked,
         \A j \in Keys : SameMoney(vault[j], vault'[j])
  PROVE  LockedIsTheSum'
<1>1. ASSUME NEW t \in Tokens
      PROVE  HeldOf(t, vault') = HeldOf(t, vault)
  BY DEF HeldOf, SameMoney
<1> QED
  BY <1>1 DEF LockedIsTheSum

\* One vault comes to hold d more of its asset, d less when d is negative.
LEMMA OneVaultMoves ==
  ASSUME VaultsSound, VaultsSound', LaneTypeOK, LockedIsTheSum, NEW k \in Keys, NEW t \in Tokens,
         NEW d \in Int, totalLocked' = [totalLocked EXCEPT ![t] = @ + d],
         \A j \in Keys \ {k} : SameMoney(vault[j], vault'[j]),
         vault'[k].token = t, vault'[k].balance = vault[k].balance + d,
         vault[k].token = t \/ vault[k].balance = 0
  PROVE  LockedIsTheSum'
<1> SUFFICES ASSUME NEW u \in Tokens
             PROVE  totalLocked'[u] = SumFunctionOnSet(HeldOf(u, vault'), Keys)
  BY DEF LockedIsTheSum
<1> DEFINE f == HeldOf(u, vault)
           h == HeldOf(u, vault')
<1>1. vault \in [Keys -> VaultRecords] /\ vault' \in [Keys -> VaultRecords]
  BY DEF VaultsSound, VaultTypes
<1>2. \A j \in Keys \ {k} : f[j] = h[j]
  BY DEF HeldOf, SameMoney
<1>3. h[k] = f[k] + (IF u = t THEN d ELSE 0)
  <2>1. vault[k].balance \in Int
    BY <1>1 DEF VaultRecords
  <2> QED
    BY <2>1 DEF HeldOf
<1>4. /\ \A j \in Keys : f[j] \in Int /\ h[j] \in Int
      /\ SumFunctionOnSet(f, Keys) \in Int
  BY <1>1, HeldIsNumber
<1>5. totalLocked[u] = SumFunctionOnSet(f, Keys)
  BY DEF LockedIsTheSum
<1> HIDE DEF f, h
<1>6. SumFunctionOnSet(h, Keys) = SumFunctionOnSet(f, Keys) + h[k] - f[k]
  BY <1>2, <1>4, KeysFinite, SumChangesAt
<1>7. totalLocked'[u] = totalLocked[u] + (IF u = t THEN d ELSE 0)
  BY DEF LaneTypeOK
<1> QED
  BY <1>3, <1>4, <1>5, <1>6, <1>7 DEF h

\* Vaults that are the same but for their slot hold the same.
LEMMA SlotIsNoMoney ==
  ASSUME NEW v \in VaultRecords, NEW w, SameButSlot(v, w)
  PROVE  SameMoney(v, w)
BY SameFields DEF SameMoney

\* createVault locks what arrived in a vault that held nothing,
LEMMA CreationLocks ==
  ASSUME VaultsSound, VaultsSound', LaneTypeOK, LockedIsTheSum, NEW o \in Owners, CreationStep(o)
  PROVE  LockedIsTheSum'
<1>1. PICK t \in Tokens, amount \in Deposits, beneficiary \in Heirs,
           period \in MIN_INACTIVITY..MAX_INACTIVITY,
           window \in MIN_CHALLENGE..MAX_CHALLENGE, horizon \in Dates :
        \E arrived \in Arrivals(amount) :
          CreateVault(o, t, amount, arrived, beneficiary, period, window, horizon)
  BY DEF CreationStep
<1>2. PICK arrived \in Arrivals(amount) :
        CreateVault(o, t, amount, arrived, beneficiary, period, window, horizon)
  BY <1>1
<1> DEFINE k == <<o, vaultCount[o]>>
           d == Received(amount, arrived)
           slot == Len(openIds[o])
           rate == ClaimFeeBps
           v == [NoVault EXCEPT !.state = STATE_ACTIVE, !.openIndex = slot, !.feeBps = rate,
                    !.beneficiary = beneficiary, !.inactivityPeriod = period, !.token = t,
                    !.absoluteDeadline = horizon, !.challengeWindow = window, !.balance = d]
<1>3. Becomes(k, ResetClock(v)) /\ totalLocked' = [totalLocked EXCEPT ![t] = @ + d]
  BY <1>2 DEF CreateVault, Deposit
<1>4. /\ k \in Keys /\ vault[k].state = STATE_NONE
      /\ \A j \in Keys \ {k} : vault'[j] = vault[j]
  BY <1>2, CreationLeaves DEF Created
<1>5. d \in Int
  <2>1. amount \in Nat /\ arrived \in Nat
    BY LaneAssumption DEF Arrivals
  <2> QED
    BY <2>1 DEF Received, Smaller
<1> HIDE DEF k, d, slot, rate
<1>6. v.token = t /\ v.balance = d
  BY DEF NoVault
<1> HIDE DEF v
<1>7. vault'[k] = ResetClock(v)
  BY <1>3, <1>4, BecomesIs
<1>8. vault'[k].token = t /\ vault'[k].balance = d
  BY <1>6, <1>7 DEF ResetClock
<1>9. vault[k].balance = 0
  <2>1. Sound(vault[k], now) /\ vault[k].state \notin LiveStates
    BY <1>4, StatesDiffer DEF VaultsSound, LiveStates
  <2> QED
    BY <2>1 DEF Sound, SoundValue, VaultRecords
<1>10. \A j \in Keys \ {k} : SameMoney(vault[j], vault'[j])
  BY <1>4 DEF SameMoney
<1>11. vault'[k].balance = vault[k].balance + d
  BY <1>5, <1>8, <1>9
<1> QED
  BY <1>3, <1>4, <1>5, <1>8, <1>9, <1>10, <1>11, OneVaultMoves

\* topUp in one that is open,
LEMMA TopUpLocks ==
  ASSUME VaultsSound, VaultsSound', LaneTypeOK, LockedIsTheSum, NEW k \in Keys, TopUpStep(k)
  PROVE  LockedIsTheSum'
<1>1. PICK amount \in Deposits : \E arrived \in Arrivals(amount) : TopUp(k, amount, arrived)
  BY DEF TopUpStep
<1>2. PICK arrived \in Arrivals(amount) : TopUp(k, amount, arrived)
  BY <1>1
<1> DEFINE d == Received(amount, arrived)
<1>3. d \in Int
  <2>1. amount \in Nat /\ arrived \in Nat
    BY LaneAssumption DEF Arrivals
  <2> QED
    BY <2>1 DEF Received, Smaller
<1>4. /\ Becomes(k, [vault[k] EXCEPT !.balance = @ + d])
      /\ totalLocked' = [totalLocked EXCEPT ![vault[k].token] = @ + d]
  BY <1>2 DEF TopUp, Deposit
<1> HIDE DEF d
<1>5. vault[k] \in VaultRecords /\ vault[k].token \in Tokens
  BY LiveFacts DEF VaultRecords
<1>6. vault'[k].token = vault[k].token /\ vault'[k].balance = vault[k].balance + d
  BY <1>4, <1>5, BecomesIs DEF VaultRecords
<1>7. \A j \in Keys \ {k} : SameMoney(vault[j], vault'[j])
  BY <1>4, BecomesIs DEF SameMoney
<1> QED
  BY <1>3, <1>4, <1>5, <1>6, <1>7, OneVaultMoves

\* withdraw unlocks what is taken, whether the vault stays open or closes,
LEMMA WithdrawUnlocks ==
  ASSUME VaultsSound, VaultsSound', LaneTypeOK, LockedIsTheSum, NEW k \in Keys, NEW to, NEW amount,
         Withdraw(k, amount, to)
  PROVE  LockedIsTheSum'
<1> DEFINE rest == [vault[k] EXCEPT !.balance = @ - amount]
           taken == ResetClock(rest)
           ended == [WithoutClaim(taken) EXCEPT !.state = STATE_CLOSED]
           d == 0 - amount
<1>1. /\ vault[k] \in VaultRecords /\ vault[k].token \in Tokens
      /\ amount \in 1..vault[k].balance
  BY LiveFacts DEF Withdraw, VaultRecords
<1>2. d \in Int /\ totalLocked' = [totalLocked EXCEPT ![vault[k].token] = @ + d]
  <2>1. totalLocked[vault[k].token] \in Int /\ amount \in Int
    BY <1>1 DEF LaneTypeOK
  <2>2. totalLocked' = [totalLocked EXCEPT ![vault[k].token] = @ - (amount + 0)]
    BY DEF Withdraw, Release
  <2>3. d \in Int /\ totalLocked[vault[k].token] - (amount + 0) = totalLocked[vault[k].token] + d
    BY <2>1
  <2> HIDE DEF d
  <2> QED
    BY <2>2, <2>3
<1>3. rest.token = vault[k].token /\ rest.balance = vault[k].balance + d
  BY <1>1 DEF VaultRecords
<1>4. \/ LeaveOpen(k, ended)
      \/ Becomes(k, taken)
      \/ Becomes(k, ClearPending(taken))
  BY DEF Withdraw
<1>5. /\ SameMoney(rest, taken) /\ SameMoney(rest, ended) /\ SameMoney(rest, ClearPending(taken))
  BY <1>1 DEF SameMoney, ResetClock, WithoutClaim, ClearPending, VaultRecords
<1> HIDE DEF rest, taken, ended, d
<1>6. SameMoney(rest, vault'[k])
  BY <1>4, <1>5, BecomesIs, LeaveOpenIs
<1>7. \A j \in Keys \ {k} : SameMoney(vault[j], vault'[j])
  <2>1. \A j \in Keys \ {k} : vault'[j] = vault[j] \/ SameButSlot(vault[j], vault'[j])
    BY <1>4, BecomesIs, LeaveOpenIs
  <2> QED
    BY <2>1, SlotIsNoMoney, LiveFacts DEF SameMoney
<1> QED
  BY <1>1, <1>2, <1>3, <1>6, <1>7, OneVaultMoves DEF SameMoney

\* and finalizeClaim all the vault holds, the fee included.
LEMMA SettlementUnlocks ==
  ASSUME VaultsSound, VaultsSound', FeeTypeOK, LaneTypeOK, LockedIsTheSum, NEW k \in Keys,
         FinalizeClaim(k)
  PROVE  LockedIsTheSum'
<1> DEFINE d == 0 - vault[k].balance
           fee == SettlementFee(vault[k])
<1>1. /\ vault[k] \in VaultRecords /\ vault[k].token \in Tokens /\ vault[k].balance \in Nat
      /\ vault[k].balance > 0
  <2>1. Pending(k)
    BY DEF FinalizeClaim
  <2> QED
    BY <2>1, LiveFacts DEF VaultRecords, Pending, Live
<1>2. fee \in 0..(vault[k].balance - 1)
  BY <1>1, FeeIsPart
<1>3. totalLocked' = [totalLocked EXCEPT ![vault[k].token] = @ + d]
  <2>1. totalLocked' = [totalLocked EXCEPT ![vault[k].token] = @ - ((vault[k].balance - fee) + fee)]
    BY DEF FinalizeClaim, Release
  <2> HIDE DEF fee
  <2>2. totalLocked[vault[k].token] \in Int
    BY <1>1 DEF LaneTypeOK
  <2>3. totalLocked[vault[k].token] - ((vault[k].balance - fee) + fee) = totalLocked[vault[k].token] + d
    BY <1>1, <1>2, <2>2
  <2> HIDE DEF d
  <2> QED
    BY <2>1, <2>3
<1>4. /\ vault'[k] = [vault[k] EXCEPT !.balance = 0, !.state = STATE_SETTLED]
      /\ \A j \in Keys \ {k} : SameMoney(vault[j], vault'[j])
  BY SettlementLeaves, SlotIsNoMoney, LiveFacts
<1>5. vault'[k].token = vault[k].token /\ vault'[k].balance = vault[k].balance + d /\ d \in Int
  BY <1>1, <1>4 DEF VaultRecords
<1> HIDE DEF d
<1> QED
  BY <1>1, <1>3, <1>4, <1>5, OneVaultMoves

\* The owner's other calls set the clock and end a claim, and move no value.
LEMMA RenewalLocksNothing ==
  ASSUME VaultsSound, LockedIsTheSum, UNCHANGED totalLocked, NEW k \in Keys, NEW x \in VaultRecords,
         SameMoney(vault[k], x), NEW w, Becomes(k, w),
         w \in {ResetClock(x), WithoutClaim(x), ResetClock(WithoutClaim(x)), ResetClock(ClearPending(x))}
  PROVE  LockedIsTheSum'
<1>1. SameMoney(x, w)
  BY DEF SameMoney, ResetClock, WithoutClaim, ClearPending, VaultRecords
<1>2. \A j \in Keys : SameMoney(vault[j], vault'[j])
  BY <1>1, BecomesIs DEF SameMoney
<1> QED
  BY <1>2, NothingLocked

LEMMA OwnerStepLocks ==
  ASSUME VaultsSound, VaultsSound', LaneTypeOK, LockedIsTheSum, NEW k \in Keys, OwnerStep(k)
  PROVE  LockedIsTheSum'
<1>1. vault[k] \in VaultRecords /\ SameMoney(vault[k], vault[k]) /\ now \in Nat
  BY LiveFacts DEF SameMoney
<1>2. CASE AutomatedStep(k)
  BY <1>1, <1>2, RenewalLocksNothing DEF AutomatedStep, CheckIn, AbortClaim, OwnVaultOnly, lanes
<1>3. ASSUME NEW anchor \in Links \cup {NoValue}, NEW count \in 0..MAX_HB_COUNT,
             SetCheckInChain(k, anchor, count)
      PROVE  LockedIsTheSum'
  <2> DEFINE x == [vault[k] EXCEPT !.hbEpoch = @ + 1, !.hbAnchor = anchor, !.hbLeft = count]
  <2>1. Becomes(k, ResetClock(ClearPending(x))) /\ UNCHANGED totalLocked
    BY <1>3 DEF SetCheckInChain, OwnVaultOnly, lanes
  <2>2. x \in VaultRecords
    <3>1. vault[k].hbEpoch + 1 \in Nat /\ count \in Nat
      BY <1>1, VaultAssumption DEF VaultRecords
    <3> QED
      BY <1>1, <3>1 DEF VaultRecords
  <2>3. SameMoney(vault[k], x)
    BY <1>1 DEF VaultRecords, SameMoney
  <2> HIDE DEF x
  <2> QED
    BY <2>1, <2>2, <2>3, RenewalLocksNothing
<1>4. ASSUME NEW to \in Recipients, NEW amount \in 1..vault[k].balance, Withdraw(k, amount, to)
      PROVE  LockedIsTheSum'
  BY <1>4, WithdrawUnlocks
<1>5. ASSUME NEW heir \in Heirs, SetBeneficiary(k, heir)
      PROVE  LockedIsTheSum'
  <2>1. [vault[k] EXCEPT !.beneficiary = heir] \in VaultRecords
    BY <1>1, VaultAssumption DEF VaultRecords
  <2>2. SameMoney(vault[k], [vault[k] EXCEPT !.beneficiary = heir])
    BY <1>1 DEF VaultRecords, SameMoney
  <2> QED
    BY <1>5, <2>1, <2>2, RenewalLocksNothing DEF SetBeneficiary, OwnVaultOnly, lanes
<1>6. ASSUME NEW period \in MIN_INACTIVITY..MAX_INACTIVITY, SetInactivityPeriod(k, period)
      PROVE  LockedIsTheSum'
  <2>1. [vault[k] EXCEPT !.inactivityPeriod = period] \in VaultRecords
    BY <1>1, VaultAssumption DEF VaultRecords
  <2>2. SameMoney(vault[k], [vault[k] EXCEPT !.inactivityPeriod = period])
    BY <1>1 DEF VaultRecords, SameMoney
  <2> QED
    BY <1>6, <2>1, <2>2, RenewalLocksNothing DEF SetInactivityPeriod, OwnVaultOnly, lanes
<1>7. ASSUME NEW horizon \in Dates, ExtendHorizon(k, horizon)
      PROVE  LockedIsTheSum'
  <2>1. [vault[k] EXCEPT !.absoluteDeadline = horizon] \in VaultRecords
    BY <1>1, VaultAssumption, MaxTimeAssumption DEF VaultRecords, Dates
  <2>2. SameMoney(vault[k], [vault[k] EXCEPT !.absoluteDeadline = horizon])
    BY <1>1 DEF VaultRecords, SameMoney
  <2> QED
    BY <1>7, <2>1, <2>2, RenewalLocksNothing DEF ExtendHorizon, OwnVaultOnly, lanes
<1>8. CASE DeliberateStep(k)
  BY <1>3, <1>4, <1>5, <1>6, <1>7, <1>8 DEF DeliberateStep, SetCheckInChainFor
<1> QED
  BY <1>2, <1>8 DEF OwnerStep

\* What is left moves no value that is locked.
LEMMA OtherStepsLockNothing ==
  ASSUME VaultsSound, LockedIsTheSum,
         \/ \E o \in Owners : BatchStep(o)
         \/ \E k \in Keys : ChainStep(k)
         \/ \E caller \in Heirs, k \in Keys : HeirStep(caller, k)
  PROVE  LockedIsTheSum'
<1>1. \A k \in Keys : vault[k] \in VaultRecords
  BY LiveFacts
<1>2. ASSUME NEW o \in Owners, BatchStep(o)
      PROVE  LockedIsTheSum'
  <2>1. \A k \in Keys : SameMoney(vault[k], vault'[k])
    <3>1. \A k \in Keys : vault'[k] = vault[k] \/ vault'[k] = ResetClock(vault[k])
      BY <1>2, BatchLeaves
    <3> QED
      BY <1>1, <3>1 DEF SameMoney, ResetClock, VaultRecords
  <2>2. UNCHANGED totalLocked
    BY <1>2 DEF BatchStep, CheckInMany, OwnVaultOnly, lanes
  <2> QED
    BY <2>1, <2>2, NothingLocked
<1>3. ASSUME NEW k \in Keys, NEW preimage \in Links \cup {NoValue}, CheckInByChain(k, preimage)
      PROVE  LockedIsTheSum'
  <2> DEFINE x == [vault[k] EXCEPT !.hbAnchor = preimage, !.hbLeft = @ - 1]
  <2>1. Becomes(k, ResetClock(x)) /\ UNCHANGED totalLocked
    BY <1>3 DEF CheckInByChain, OwnVaultOnly, lanes
  <2>2. x \in VaultRecords
    <3>1. vault[k].hbLeft - 1 \in Nat
      BY <1>1, <1>3 DEF CheckInByChain, VaultRecords
    <3> QED
      BY <1>1, <3>1, ChainTyped
  <2>3. SameMoney(vault[k], x)
    BY <1>1 DEF VaultRecords, SameMoney
  <2> HIDE DEF x
  <2> QED
    BY <2>1, <2>2, <2>3, RenewalLocksNothing
<1>4. ASSUME NEW caller \in Heirs, NEW k \in Keys, NEW to \in Recipients, InitiateClaim(caller, k, to)
      PROVE  LockedIsTheSum'
  <2>1. \A j \in Keys : SameMoney(vault[j], vault'[j])
    <3> DEFINE w == [vault[k] EXCEPT !.lockedFeeBps = FeeToLock(vault[k]), !.claimRecipient = to,
                                     !.claimInitiatedAt = now, !.state = STATE_CLAIM_PENDING]
    <3>1. vault'[k] = w /\ \A j \in Keys \ {k} : vault'[j] = vault[j]
      BY <1>4, ClaimLeaves
    <3>2. w.token = vault[k].token /\ w.balance = vault[k].balance
      BY <1>1 DEF VaultRecords
    <3> HIDE DEF w
    <3> QED
      BY <3>1, <3>2 DEF SameMoney
  <2>2. UNCHANGED totalLocked
    BY <1>4 DEF InitiateClaim, OwnVaultOnly, lanes
  <2> QED
    BY <2>1, <2>2, NothingLocked
<1>5. ASSUME NEW caller \in Heirs, NEW k \in Keys, BeneficiaryCancelClaim(caller, k)
      PROVE  LockedIsTheSum'
  BY <1>1, <1>5, RenewalLocksNothing
     DEF BeneficiaryCancelClaim, SameMoney, OwnVaultOnly, lanes
<1> QED
  BY <1>2, <1>3, <1>4, <1>5 DEF ChainStep, HeirStep

LEMMA LockedStepAddsUp ==
  ASSUME VaultsSound, VaultsSound', FeeTypeOK, LaneTypeOK, LockedIsTheSum, [Next]_vars
  PROVE  LockedIsTheSum'
<1>1. CASE UNCHANGED <<vault, totalLocked>>
  BY <1>1, NothingLocked DEF SameMoney
<1>2. CASE AdminStep \/ PayoutStep \/ TickStep \/ UNCHANGED vars
           \/ (ApplyClaimFee /\ UNCHANGED <<lanes, vaultState>>)
           \/ (GiftAction /\ UNCHANGED <<feeState, vaultState>>)
  <2>1. UNCHANGED totalLocked
    BY <1>2 DEF AdminStep, SetCreationPaused, SweepAction, SweepSurplus, PayoutStep, CreditAction,
                WithdrawCredit, PushCredit, PayCredit, TickStep, GiftAction, ForceFeed, vars, lanes
  <2>2. UNCHANGED vault
    BY <1>2, ElsewhereLeaves DEF vaultState
  <2> QED
    BY <1>1, <2>1, <2>2
<1>3. CASE AnyoneStep
  BY <1>2, <1>3, TopUpLocks, SettlementUnlocks DEF AnyoneStep
<1>4. ASSUME NEW o \in Owners, CreationStep(o) PROVE LockedIsTheSum'
  BY <1>4, CreationLocks
<1>5. ASSUME NEW k \in Keys, OwnerStep(k) PROVE LockedIsTheSum'
  BY <1>5, OwnerStepLocks
<1> QED
  BY <1>2, <1>3, <1>4, <1>5, OtherStepsLockNothing DEF Next

LEMMA NothingLockedAtFirst == Init => LockedIsTheSum
<1> SUFFICES ASSUME Init, NEW t \in Tokens
             PROVE  totalLocked[t] = SumFunctionOnSet(HeldOf(t, vault), Keys)
  BY DEF LockedIsTheSum
<1> DEFINE h == HeldOf(t, vault)
<1>1. totalLocked[t] = 0 /\ \A k \in Keys : h[k] = 0
  BY DEF Init, LaneInit, HeldOf, NoVault
<1> HIDE DEF h
<1> QED
  BY <1>1, KeysFinite, SumOfNothing DEF h

\* A sum over the vaults in one asset is a sum over all of them.
LEMMA SumOfOneAsset ==
  ASSUME VaultsSound, LockedIsTheSum
  PROVE  LockedAddsUp
<1> SUFFICES ASSUME NEW t \in Tokens
             PROVE  totalLocked[t] = SumFunctionOnSet([k \in Keys |-> vault[k].balance],
                                                      {k \in Keys : vault[k].token = t})
  BY DEF LockedAddsUp
<1> DEFINE f == [k \in Keys |-> vault[k].balance]
           h == HeldOf(t, vault)
           T == {k \in Keys : vault[k].token = t}
<1>1. vault \in [Keys -> VaultRecords]
  BY DEF VaultsSound, VaultTypes
<1>2. T \in SUBSET Keys /\ \A k \in Keys : f[k] \in Int /\ h[k] = IF k \in T THEN f[k] ELSE 0
  BY <1>1 DEF HeldOf, VaultRecords
<1>3. totalLocked[t] = SumFunctionOnSet(h, Keys)
  BY DEF LockedIsTheSum
<1> HIDE DEF f, h, T
<1>4. SumFunctionOnSet(f, T) = SumFunctionOnSet(h, Keys)
  BY <1>2, KeysFinite, SumOfPart
<1> QED
  BY <1>3, <1>4 DEF f, T

\* The locked total of every asset is exactly what its vaults hold, over every
\* order of deposits, withdrawals and settlements (_pull, _release, finalizeClaim).
THEOREM LockedStaysTheSum == Spec => []LockedAddsUp
<1>1. /\ VaultsSound /\ VaultsSound' /\ FeeTypeOK /\ LaneTypeOK /\ LockedIsTheSum
      /\ [Next]_vars
      => LockedIsTheSum'
  BY LockedStepAddsUp
<1>2. VaultsSound /\ LockedIsTheSum => LockedAddsUp
  BY SumOfOneAsset
<1> QED
  BY <1>1, <1>2, NothingLockedAtFirst, VaultsStaySound, LanesStayTyped, FeesImplemented,
     FeeTypeCorrect, PTL DEF Spec

\* So does the credited total with what is owed (_credit, _payCredit), in the
\* whole contract.
THEOREM CreditedStaysTheSum == Spec => []CreditsAreTheSum
BY CustodyIsCreditLane, CreditsStayTheSum DEF CustodyImplemented
=============================================================================
