--------------------------- MODULE MoneyRules_proofs ---------------------------
(***************************************************************************)
(* Proofs about the money's rules on their own.  The fee schedule, for     *)
(* every delay, ceiling, set of inputs and bound on time: its types, that  *)
(* a pending raise is above the rate it replaces, and that no step of the  *)
(* administrator surprises anybody.  Custody, for every set of tokens,     *)
(* accounts and amounts and whatever tokens and payees do: the books are   *)
(* well typed, what is owed is held, no credit is owed to a refused        *)
(* address, the grace runs while something is owed, and nobody's value     *)
(* becomes surplus.                                                        *)
(***************************************************************************)
EXTENDS FeeSchedule, CreditLane, Functions, FiniteSetTheorems, TLAPS

USE MaxTimeAssumption, AddressAssumption, FeeAssumption

-----------------------------------------------------------------------------
(* The fee schedule: its types and its raises.                              *)

\* The types hold throughout: in particular no rate, recorded or scheduled, is
\* ever above the ceiling burned into the bytecode, and no refused address is
\* ever the fee recipient.
THEOREM FeeTypeCorrect == FeeSpec => []FeeTypeOK
<1>1. FeeInit => FeeTypeOK
  BY DEF FeeInit, FeeTypeOK, ClockInit, ClockTypeOK
<1>2. ASSUME FeeTypeOK, [FeeNext]_feeVars
      PROVE  FeeTypeOK'
  <2> USE DEF FeeTypeOK, ClockTypeOK
  <2>1. CASE Tick /\ UNCHANGED feeState
    BY <1>2, <2>1 DEF Tick, feeState, schedule, recipient
  <2>2. ASSUME NEW newBps \in FeeInputs, SetClaimFee(newBps)
        PROVE  FeeTypeOK'
    BY <1>2, <2>2 DEF SetClaimFee, ScheduleRaise, ClearRaise, ClaimFeeBps, RateAt, recipient
  <2>3. CASE ApplyClaimFee
    BY <1>2, <2>3 DEF ApplyClaimFee, ClearRaise, recipient
  <2>4. ASSUME NEW newRecipient \in AnyAddress, SetFeeRecipient(newRecipient)
        PROVE  FeeTypeOK'
    BY <1>2, <2>4 DEF SetFeeRecipient, PayeeAllowed, AnyAddress, Payable, schedule
  <2>5. CASE UNCHANGED feeVars
    BY <1>2, <2>5 DEF feeVars, feeState, schedule, recipient
  <2> QED
    BY <1>2, <2>1, <2>2, <2>3, <2>4, <2>5 DEF FeeNext
<1> QED
  BY <1>1, <1>2, PTL DEF FeeSpec

\* A scheduled raise is above the recorded rate for as long as it is pending,
\* which setClaimFee's cut branch takes for granted.
THEOREM PendingIsARaise == FeeSpec => []PendingAboveRecorded
<1>1. FeeInit => PendingAboveRecorded
  BY DEF FeeInit, PendingAboveRecorded
<1>2. ASSUME FeeTypeOK, PendingAboveRecorded, [FeeNext]_feeVars
      PROVE  PendingAboveRecorded'
  <2> USE DEF FeeTypeOK, ClockTypeOK, PendingAboveRecorded
  <2>1. CASE Tick /\ UNCHANGED feeState
    BY <1>2, <2>1 DEF Tick, feeState, schedule
  <2>2. ASSUME NEW newBps \in FeeInputs, SetClaimFee(newBps)
        PROVE  PendingAboveRecorded'
    BY <1>2, <2>2 DEF SetClaimFee, ScheduleRaise, ClearRaise
  <2>3. CASE ApplyClaimFee
    BY <1>2, <2>3 DEF ApplyClaimFee, ClearRaise
  <2>4. ASSUME NEW newRecipient \in AnyAddress, SetFeeRecipient(newRecipient)
        PROVE  PendingAboveRecorded'
    BY <1>2, <2>4 DEF SetFeeRecipient, schedule
  <2>5. CASE UNCHANGED feeVars
    BY <1>2, <2>5 DEF feeVars, feeState, schedule
  <2> QED
    BY <1>2, <2>1, <2>2, <2>3, <2>4, <2>5 DEF FeeNext
<1> QED
  BY <1>1, <1>2, FeeTypeCorrect, PTL DEF FeeSpec

-----------------------------------------------------------------------------
(* The notice period.                                                       *)

\* One step of the schedule, in terms of the charge at one moment t of the
\* notice period that starts now: it does not go up.
LEMMA ChargeNeverRisesInNotice ==
  ASSUME FeeTypeOK, PendingAboveRecorded, [FeeNext]_feeVars,
         NEW t \in now..(now + FEE_RAISE_DELAY - 1)
  PROVE  ChargeAt(t)' <= ChargeAt(t)
<1> USE DEF FeeTypeOK, ClockTypeOK, ChargeAt, RecipientActive, RateAt
<1>0. t \in Nat /\ ChargeAt(t) \in Nat
  OBVIOUS
<1>1. CASE Tick /\ UNCHANGED feeState
  BY <1>1 DEF feeState, schedule, recipient
<1>2. ASSUME NEW newBps \in FeeInputs, SetClaimFee(newBps)
      PROVE  ChargeAt(t)' <= ChargeAt(t)
  <2>1. RateAt(t)' <= RateAt(t)
    BY <1>2 DEF SetClaimFee, ScheduleRaise, ClearRaise, ClaimFeeBps, PendingAboveRecorded
  <2> QED
    BY <1>2, <2>1 DEF SetClaimFee, recipient
<1>3. CASE ApplyClaimFee
  BY <1>3 DEF ApplyClaimFee, RaiseMatured, ClearRaise, recipient
<1>4. ASSUME NEW newRecipient \in AnyAddress, SetFeeRecipient(newRecipient)
      PROVE  ChargeAt(t)' <= ChargeAt(t)
  BY <1>4 DEF SetFeeRecipient, schedule
<1>5. CASE UNCHANGED feeVars
  BY <1>5 DEF feeVars, feeState, schedule, recipient
<1> QED
  BY <1>1, <1>2, <1>3, <1>4, <1>5 DEF FeeNext

\* No sequence of calls raises the charge at any moment of the notice period.
THEOREM NoSurprise == FeeSpec => NoSurpriseRaise
<1>1. ASSUME FeeTypeOK, PendingAboveRecorded, [FeeNext]_feeVars
      PROVE  [\A t \in now..(now + FEE_RAISE_DELAY - 1) : ChargeAt(t)' <= ChargeAt(t)]_feeVars
  BY <1>1, ChargeNeverRisesInNotice
<1> QED
  BY <1>1, FeeTypeCorrect, PendingIsARaise, PTL DEF FeeSpec, NoSurpriseRaise

-----------------------------------------------------------------------------
\* A rate at or below the one in force, once set, is the rate of every second
\* from then on that the schedule answers for.
THEOREM CutsAreFinal == FeeSpec => CutIsFinal
<1>1. ASSUME FeeTypeOK, NEW newBps \in FeeInputs, SetClaimFee(newBps), newBps <= ClaimFeeBps
      PROVE  \A t \in now..(MaxTime + FEE_RAISE_DELAY) : RateAt(t)' = newBps
  BY <1>1 DEF FeeTypeOK, ClockTypeOK, SetClaimFee, ClearRaise, ClaimFeeBps, RateAt
<1>2. FeeTypeOK =>
        [\A newBps \in FeeInputs :
            (SetClaimFee(newBps) /\ newBps <= ClaimFeeBps)
                => \A t \in now..(MaxTime + FEE_RAISE_DELAY) : RateAt(t)' = newBps]_feeVars
  BY <1>1
<1> QED
  BY <1>2, FeeTypeCorrect, PTL DEF CutIsFinal

\* Whether and when anybody records a matured raise changes no rate.
THEOREM ApplyingIsNeutral == FeeSpec => ApplyIsNeutral
<1>1. ASSUME FeeTypeOK, ApplyClaimFee
      PROVE  \A t \in now..(MaxTime + FEE_RAISE_DELAY) : RateAt(t)' = RateAt(t)
  BY <1>1 DEF FeeTypeOK, ClockTypeOK, ApplyClaimFee, RaiseMatured, ClearRaise, RateAt
<1>2. FeeTypeOK =>
        [ApplyClaimFee
           => \A t \in now..(MaxTime + FEE_RAISE_DELAY) : RateAt(t)' = RateAt(t)]_feeVars
  BY <1>1
<1> QED
  BY <1>2, FeeTypeCorrect, PTL DEF ApplyIsNeutral

-----------------------------------------------------------------------------
(* Custody.                                                                *)

HIDE FeeAssumption
USE LaneAssumption

(* What the steps are made of: one lemma per operator, each giving the      *)
(* types it keeps.                                                          *)

\* A payout leaves a well-typed balance and takes, in its own asset, at most
\* the amount; every other asset can only have grown.
LEMMA PayoutBounds ==
  ASSUME LaneTypeOK, NEW t \in Tokens, NEW to \in Payable, NEW amount \in Nat,
         Payout(t, to, amount)
  PROVE  /\ held' \in [Tokens -> 0..MaxHeld]
         /\ held'[t] >= held[t] - amount
         /\ \A u \in Tokens \ {t} : held'[u] >= held[u]
<1> USE DEF LaneTypeOK, Payout
<1>1. CASE t = NATIVE
  <2>1. PICK back \in [Tokens -> 0..amount] :
          /\ \A u \in Tokens : held[u] + back[u] <= MaxHeld
          /\ held' = [u \in Tokens |-> held[u] + back[u] - (IF u = NATIVE THEN amount ELSE 0)]
    BY <1>1 DEF NativePayout
  <2>2. \A u \in Tokens : held[u] \in 0..MaxHeld /\ back[u] \in 0..amount
    BY <2>1
  <2>3. amount <= held[t]
    OBVIOUS
  <2>4. ASSUME NEW u \in Tokens
        PROVE  held[u] + back[u] - (IF u = NATIVE THEN amount ELSE 0) \in 0..MaxHeld
    BY <1>1, <2>1, <2>2, <2>3
  <2> QED
    BY <1>1, <2>1, <2>2, <2>4
<1>2. CASE t # NATIVE
  <2>1. PICK debited \in 0..held[t] :
          /\ debited = amount
          /\ held' = [held EXCEPT ![t] = @ - debited]
    BY <1>2 DEF TokenPayout
  <2> QED
    BY <2>1
<1> QED
  BY <1>1, <1>2

\* The two books of a credit stay well typed.
LEMMA CreditTypes ==
  ASSUME ClockTypeOK, NEW owed \in [Payable -> Nat], NEW since \in [Payable -> Times],
         NEW to \in Payable, NEW amount \in Nat
  PROVE  /\ OwedAfter(owed, to, amount) \in [Payable -> Nat]
         /\ SinceAfter(owed, since, to, amount) \in [Payable -> Times]
BY DEF OwedAfter, SinceAfter, ClockTypeOK, Times

\* A release keeps the types; in its own asset it moves amount + fee from one
\* lane to the other, and it touches no other asset.
LEMMA ReleaseKeepsTypes ==
  ASSUME LaneTypeOK, NEW t \in Tokens, NEW to \in Payable, NEW feeTo,
         NEW amount \in Nat, NEW fee \in Nat, fee # 0 => feeTo \in Payable,
         Release(t, to, amount, feeTo, fee)
  PROVE  /\ held' = held
         /\ totalLocked' \in [Tokens -> Nat]
         /\ totalCredited' \in [Tokens -> Nat]
         /\ credits' \in [Tokens -> [Payable -> Nat]]
         /\ creditedSince' \in [Tokens -> [Payable -> Times]]
         /\ \A u \in Tokens :
               totalLocked'[u] + totalCredited'[u] = totalLocked[u] + totalCredited[u]
<1> DEFINE owed == OwedAfter(credits[t], to, amount)
           since == SinceAfter(credits[t], creditedSince[t], to, amount)
           owed2 == IF fee = 0 THEN owed ELSE OwedAfter(owed, feeTo, fee)
           since2 == IF fee = 0 THEN since ELSE SinceAfter(owed, since, feeTo, fee)
<1>1. owed \in [Payable -> Nat] /\ since \in [Payable -> Times]
  BY CreditTypes DEF LaneTypeOK
<1>2. owed2 \in [Payable -> Nat] /\ since2 \in [Payable -> Times]
  <2> HIDE DEF owed, since
  <2> QED
    BY <1>1, CreditTypes DEF LaneTypeOK
<1>3. credits' = [credits EXCEPT ![t] = owed2] /\ creditedSince' = [creditedSince EXCEPT ![t] = since2]
  BY DEF Release
<1>4. credits' \in [Tokens -> [Payable -> Nat]] /\ creditedSince' \in [Tokens -> [Payable -> Times]]
  <2> HIDE DEF owed2, since2
  <2> QED
    BY <1>2, <1>3 DEF LaneTypeOK
<1>5. /\ amount + fee <= totalLocked[t]
      /\ totalLocked' = [totalLocked EXCEPT ![t] = @ - (amount + fee)]
      /\ totalCredited' = [totalCredited EXCEPT ![t] = @ + amount + fee]
      /\ held' = held
  BY DEF Release
<1> QED
  BY <1>4, <1>5 DEF LaneTypeOK

-----------------------------------------------------------------------------
(* Types and solvency, one lemma per action.                                *)

\* A deposit keeps the books,
LEMMA DepositKeeps ==
  ASSUME LaneTypeOK, LanesBacked, NEW t \in Tokens, NEW amount \in Nat, NEW arrived \in Nat,
         Deposit(t, amount, arrived), now' = now
  PROVE  LaneTypeOK' /\ LanesBacked'
BY DEF LaneTypeOK, LanesBacked, Deposit, Pull, Received, Smaller, ClockTypeOK

\* a release does, paid, refused or falling back to a credit,
LEMMA ReleaseKeeps ==
  ASSUME LaneTypeOK, LanesBacked, NEW t \in Tokens, NEW to \in Payable, NEW feeTo,
         NEW amount \in Nat, NEW fee \in Nat, fee # 0 => feeTo \in Payable,
         Release(t, to, amount, feeTo, fee), now' = now
  PROVE  LaneTypeOK' /\ LanesBacked'
<1>1. /\ held' = held
      /\ totalLocked' \in [Tokens -> Nat]
      /\ totalCredited' \in [Tokens -> Nat]
      /\ credits' \in [Tokens -> [Payable -> Nat]]
      /\ creditedSince' \in [Tokens -> [Payable -> Times]]
      /\ \A u \in Tokens :
            totalLocked'[u] + totalCredited'[u] = totalLocked[u] + totalCredited[u]
  BY ReleaseKeepsTypes
<1> QED
  BY <1>1 DEF LaneTypeOK, LanesBacked, ClockTypeOK

\* the payment of a credit,
LEMMA PayCreditKeeps ==
  ASSUME LaneTypeOK, LanesBacked, NEW t \in Tokens, NEW account \in Payable,
         NEW to \in Payable, NEW amount \in Nat, PayCredit(t, account, to, amount)
  PROVE  LaneTypeOK' /\ LanesBacked'
<1>1. /\ held' \in [Tokens -> 0..MaxHeld]
      /\ held'[t] >= held[t] - amount
      /\ \A u \in Tokens \ {t} : held'[u] >= held[u]
  BY PayoutBounds DEF PayCredit
<1>2. /\ amount \in 1..credits[t][account]
      /\ amount <= totalCredited[t]
      /\ credits' = [credits EXCEPT ![t][account] = @ - amount]
      /\ totalCredited' = [totalCredited EXCEPT ![t] = @ - amount]
      /\ now' = now /\ totalLocked' = totalLocked
  BY DEF PayCredit
<1>3. creditedSince' = [creditedSince EXCEPT ![t][account] =
                          IF amount = credits[t][account] THEN 0 ELSE @]
  BY DEF PayCredit
<1>4. creditedSince' \in [Tokens -> [Payable -> Times]]
  BY <1>3 DEF LaneTypeOK, Times
<1>5. credits' \in [Tokens -> [Payable -> Nat]]
  BY <1>2 DEF LaneTypeOK
<1>6. LaneTypeOK'
  BY <1>1, <1>2, <1>4, <1>5 DEF LaneTypeOK, ClockTypeOK
<1>7. ASSUME NEW u \in Tokens
      PROVE  held'[u] >= totalLocked'[u] + totalCredited'[u]
  BY <1>1, <1>2, <1>6 DEF LaneTypeOK, LanesBacked
<1> QED
  BY <1>6, <1>7 DEF LanesBacked

\* the sweep of a surplus
LEMMA SweepKeeps ==
  ASSUME LaneTypeOK, LanesBacked, NEW t \in Tokens, NEW to \in AnyAddress, SweepSurplus(t, to)
  PROVE  LaneTypeOK' /\ LanesBacked'
<1>1. /\ Surplus(t) \in Nat
      /\ held[t] - Surplus(t) >= totalLocked[t] + totalCredited[t]
  BY DEF Surplus, LaneTypeOK, LanesBacked
<1>2. to \in Payable /\ Payout(t, to, Surplus(t))
  BY DEF SweepSurplus, AnyAddress
<1>3. /\ held' \in [Tokens -> 0..MaxHeld]
      /\ held'[t] >= held[t] - Surplus(t)
      /\ \A u \in Tokens \ {t} : held'[u] >= held[u]
  BY <1>1, <1>2, PayoutBounds
<1>4. UNCHANGED <<now, totalLocked, totalCredited, credits, creditedSince>>
  BY DEF SweepSurplus
<1>5. LaneTypeOK'
  BY <1>3, <1>4 DEF LaneTypeOK, ClockTypeOK
<1>6. ASSUME NEW u \in Tokens
      PROVE  held'[u] >= totalLocked'[u] + totalCredited'[u]
  <2>1. Surplus(t) \in Nat /\ held[u] \in Nat /\ held'[u] \in Nat /\ held[t] \in Nat
    BY <1>1, <1>3 DEF LaneTypeOK
  <2>2. totalLocked[u] \in Nat /\ totalCredited[u] \in Nat
    BY DEF LaneTypeOK
  <2>3. held[u] >= totalLocked[u] + totalCredited[u]
    BY DEF LanesBacked
  <2> HIDE DEF Surplus
  <2> QED
    BY <1>1, <1>3, <1>4, <2>1, <2>2, <2>3
<1> QED
  BY <1>5, <1>6 DEF LanesBacked

\* and a transfer nobody asked for.
LEMMA GiftKeeps ==
  ASSUME LaneTypeOK, LanesBacked, NEW t \in Tokens, NEW amount \in Nat, ForceFeed(t, amount)
  PROVE  LaneTypeOK' /\ LanesBacked'
BY DEF LaneTypeOK, LanesBacked, ForceFeed, ClockTypeOK

\* Every step of the custody keeps the types and the solvency.
LEMMA LaneStepKeeps ==
  ASSUME LaneTypeOK, LanesBacked, [LaneNext]_laneVars
  PROVE  LaneTypeOK' /\ LanesBacked'
<1>1. CASE Tick /\ UNCHANGED lanes
  BY <1>1 DEF LaneTypeOK, LanesBacked, Tick, ClockTypeOK, lanes, Times
<1>2. CASE DepositAction
  <2>1. PICK t \in Tokens, amount \in Deposits :
          \E arrived \in {amount} \cup 1..(amount - 1) \cup {amount + g : g \in Gifts} :
              Deposit(t, amount, arrived)
    BY <1>2 DEF DepositAction
  <2>2. PICK arrived \in {amount} \cup 1..(amount - 1) \cup {amount + g : g \in Gifts} :
              Deposit(t, amount, arrived)
    BY <2>1
  <2>3. amount \in Nat /\ arrived \in Nat
    OBVIOUS
  <2> QED
    BY <1>2, <2>2, <2>3, DepositKeeps DEF DepositAction
<1>3. CASE ReleaseAction
  <2>1. PICK t \in Tokens, to \in Accounts, feeTo \in Accounts :
          \E balance \in 1..totalLocked[t] :
              \E fee \in 0..(balance - 1) : Release(t, to, balance - fee, feeTo, fee)
    BY <1>3 DEF ReleaseAction
  <2>2. PICK balance \in 1..totalLocked[t] :
          \E fee \in 0..(balance - 1) : Release(t, to, balance - fee, feeTo, fee)
    BY <2>1
  <2>3. PICK fee \in 0..(balance - 1) : Release(t, to, balance - fee, feeTo, fee)
    BY <2>2
  <2>4. balance - fee \in Nat /\ fee \in Nat
    BY DEF LaneTypeOK
  <2> QED
    BY <1>3, <2>3, <2>4, ReleaseKeeps DEF ReleaseAction, Payable
<1>4. CASE CreditAction
  <2>1. ASSUME NEW t \in Tokens, NEW account \in Accounts, NEW to \in AnyAddress,
               NEW amount \in 1..credits[t][account], WithdrawCredit(t, account, to, amount)
        PROVE  LaneTypeOK' /\ LanesBacked'
    <3>1. amount \in Nat /\ to \in Payable /\ account \in Payable
      BY <2>1 DEF WithdrawCredit, AnyAddress, Payable, LaneTypeOK
    <3> QED
      BY <2>1, <3>1, PayCreditKeeps DEF WithdrawCredit
  <2>2. ASSUME NEW caller \in Accounts, NEW t \in Tokens, NEW account \in Payable,
               PushCredit(caller, t, account)
        PROVE  LaneTypeOK' /\ LanesBacked'
    <3>1. credits[t][account] \in Nat
      BY DEF LaneTypeOK
    <3> QED
      BY <2>2, <3>1, PayCreditKeeps DEF PushCredit
  <2> QED
    BY <1>4, <2>1, <2>2 DEF CreditAction
<1>5. CASE SweepAction
  BY <1>5, SweepKeeps DEF SweepAction
<1>6. CASE GiftAction
  BY <1>6, GiftKeeps DEF GiftAction
<1>7. CASE UNCHANGED laneVars
  BY <1>7 DEF LaneTypeOK, LanesBacked, ClockTypeOK, laneVars, lanes
<1> QED
  BY <1>1, <1>2, <1>3, <1>4, <1>5, <1>6, <1>7 DEF LaneNext

\* The lane begins empty.
LEMMA LaneStart == LaneInit => LaneTypeOK /\ LanesBacked
BY DEF LaneInit, LaneTypeOK, LanesBacked, ClockInit, ClockTypeOK, Times

\* The types of custody hold throughout: the lanes never go below zero.
THEOREM LaneTypeCorrect == LaneSpec => []LaneTypeOK
<1>1. LaneTypeOK /\ LanesBacked /\ [LaneNext]_laneVars => (LaneTypeOK /\ LanesBacked)'
  BY LaneStepKeeps
<1> QED
  BY <1>1, LaneStart, PTL DEF LaneSpec

\* Solvency, whatever tokens and payees do: of every asset the contract holds
\* at least what it owes.
THEOREM Solvency == LaneSpec => []LanesBacked
<1>1. LaneTypeOK /\ LanesBacked /\ [LaneNext]_laneVars => (LaneTypeOK /\ LanesBacked)'
  BY LaneStepKeeps
<1> QED
  BY <1>1, LaneStart, PTL DEF LaneSpec

-----------------------------------------------------------------------------
(* No credit is stranded, and the grace runs while something is owed.       *)

CreditInv == NoStrandedCredit /\ GraceRunsWhileOwed

\* One credit on the books of one asset, to an account that may be paid.
LEMMA CreditKeepsBooks ==
  ASSUME ClockTypeOK, NEW owed \in [Payable -> Nat], NEW since \in [Payable -> Times],
         NEW to \in Accounts, NEW amount \in Nat \ {0},
         \A a \in Refused : owed[a] = 0,
         \A a \in Payable : owed[a] = 0 <=> since[a] = 0
  PROVE  /\ \A a \in Refused : OwedAfter(owed, to, amount)[a] = 0
         /\ \A a \in Payable :
               OwedAfter(owed, to, amount)[a] = 0 <=> SinceAfter(owed, since, to, amount)[a] = 0
<1>1. to \in Payable /\ now \in Nat \ {0} /\ owed[to] \in Nat
  BY DEF Payable, ClockTypeOK
<1>2. ASSUME NEW a \in Refused
      PROVE  OwedAfter(owed, to, amount)[a] = 0
  BY <1>1 DEF OwedAfter, Payable
<1>3. ASSUME NEW a \in Payable
      PROVE  OwedAfter(owed, to, amount)[a] = 0 <=> SinceAfter(owed, since, to, amount)[a] = 0
  <2>1. CASE a = to
    BY <1>1, <2>1 DEF OwedAfter, SinceAfter
  <2>2. CASE a # to
    BY <1>1, <2>2 DEF OwedAfter, SinceAfter
  <2> QED
    BY <2>1, <2>2
<1> QED
  BY <1>2, <1>3

\* A release keeps the invariant of the credits,
LEMMA ReleaseKeepsCredits ==
  ASSUME LaneTypeOK, CreditInv, NEW t \in Tokens, NEW to \in Accounts, NEW feeTo,
         NEW amount \in Nat \ {0}, NEW fee \in Nat, fee # 0 => feeTo \in Accounts,
         Release(t, to, amount, feeTo, fee)
  PROVE  CreditInv'
<1> DEFINE owed == OwedAfter(credits[t], to, amount)
           since == SinceAfter(credits[t], creditedSince[t], to, amount)
           owed2 == IF fee = 0 THEN owed ELSE OwedAfter(owed, feeTo, fee)
           since2 == IF fee = 0 THEN since ELSE SinceAfter(owed, since, feeTo, fee)
           Sound(o, s) == /\ \A a \in Refused : o[a] = 0
                          /\ \A a \in Payable : o[a] = 0 <=> s[a] = 0
<1>1. /\ credits[t] \in [Payable -> Nat]
      /\ creditedSince[t] \in [Payable -> Times]
      /\ Sound(credits[t], creditedSince[t])
      /\ ClockTypeOK
  BY DEF LaneTypeOK, CreditInv, NoStrandedCredit, GraceRunsWhileOwed
<1>2. owed \in [Payable -> Nat] /\ since \in [Payable -> Times]
  BY <1>1, CreditTypes DEF Payable
<1>3. Sound(owed, since)
  BY <1>1, CreditKeepsBooks
<1>4. Sound(owed2, since2)
  <2> HIDE DEF owed, since
  <2>1. CASE fee = 0
    BY <1>3, <2>1
  <2>2. CASE fee # 0
    <3>1. feeTo \in Accounts /\ fee \in Nat \ {0}
      BY <2>2
    <3>2. Sound(OwedAfter(owed, feeTo, fee), SinceAfter(owed, since, feeTo, fee))
      BY <1>1, <1>2, <1>3, <3>1, CreditKeepsBooks
    <3> QED
      BY <2>2, <3>2
  <2> QED
    BY <2>1, <2>2
<1>5. credits' = [credits EXCEPT ![t] = owed2] /\ creditedSince' = [creditedSince EXCEPT ![t] = since2]
  BY DEF Release
<1> HIDE DEF owed2, since2
<1>6. \A u \in Tokens : Sound(credits'[u], creditedSince'[u])
  BY <1>4, <1>5 DEF LaneTypeOK, CreditInv, NoStrandedCredit, GraceRunsWhileOwed
<1> QED
  BY <1>6 DEF CreditInv, NoStrandedCredit, GraceRunsWhileOwed

\* the payment of a credit does
LEMMA PayCreditKeepsCredits ==
  ASSUME LaneTypeOK, CreditInv, NEW t \in Tokens, NEW account \in Payable,
         NEW to, NEW amount, PayCredit(t, account, to, amount)
  PROVE  CreditInv'
<1>1. /\ credits[t][account] \in Nat
      /\ amount \in 1..credits[t][account]
      /\ credits' = [credits EXCEPT ![t][account] = @ - amount]
      /\ creditedSince' = [creditedSince EXCEPT ![t][account] =
                             IF amount = credits[t][account] THEN 0 ELSE @]
  BY DEF PayCredit, LaneTypeOK
<1>2. ASSUME NEW u \in Tokens, NEW a \in Payable, u # t \/ a # account
      PROVE  credits'[u][a] = credits[u][a] /\ creditedSince'[u][a] = creditedSince[u][a]
  BY <1>1, <1>2 DEF LaneTypeOK
<1>3. /\ credits'[t][account] = credits[t][account] - amount
      /\ creditedSince'[t][account] = IF amount = credits[t][account]
                                      THEN 0 ELSE creditedSince[t][account]
  BY <1>1 DEF LaneTypeOK
<1>4. NoStrandedCredit'
  BY <1>1, <1>2, <1>3 DEF CreditInv, NoStrandedCredit, Payable
<1>5. ASSUME NEW u \in Tokens, NEW a \in Payable
      PROVE  credits'[u][a] = 0 <=> creditedSince'[u][a] = 0
  <2>1. CASE u = t /\ a = account
    BY <1>1, <1>3, <2>1 DEF CreditInv, GraceRunsWhileOwed
  <2>2. CASE u # t \/ a # account
    BY <1>2, <2>2 DEF CreditInv, GraceRunsWhileOwed
  <2> QED
    BY <2>1, <2>2
<1> QED
  BY <1>4, <1>5 DEF CreditInv, GraceRunsWhileOwed

\* and every other step.
LEMMA CreditStepKeeps ==
  ASSUME LaneTypeOK, CreditInv, [LaneNext]_laneVars
  PROVE  CreditInv'
<1> USE DEF CreditInv, NoStrandedCredit, GraceRunsWhileOwed
<1>1. CASE Tick /\ UNCHANGED lanes
  BY <1>1 DEF lanes
<1>2. CASE DepositAction
  BY <1>2 DEF DepositAction, Deposit
<1>3. CASE ReleaseAction
  <2>1. PICK t \in Tokens, to \in Accounts, feeTo \in Accounts :
          \E balance \in 1..totalLocked[t] :
              \E fee \in 0..(balance - 1) : Release(t, to, balance - fee, feeTo, fee)
    BY <1>3 DEF ReleaseAction
  <2>2. PICK balance \in 1..totalLocked[t] :
          \E fee \in 0..(balance - 1) : Release(t, to, balance - fee, feeTo, fee)
    BY <2>1
  <2>3. PICK fee \in 0..(balance - 1) : Release(t, to, balance - fee, feeTo, fee)
    BY <2>2
  <2>4. balance - fee \in Nat \ {0} /\ fee \in Nat
    BY DEF LaneTypeOK
  <2> QED
    BY <2>3, <2>4, ReleaseKeepsCredits
<1>4. CASE CreditAction
  <2> USE DEF WithdrawCredit, PushCredit, Payable
  <2> QED
    BY <1>4, PayCreditKeepsCredits DEF CreditAction
<1>5. CASE SweepAction
  BY <1>5 DEF SweepAction, SweepSurplus
<1>6. CASE GiftAction
  BY <1>6 DEF GiftAction, ForceFeed
<1>7. CASE UNCHANGED laneVars
  BY <1>7 DEF laneVars, lanes
<1> QED
  BY <1>1, <1>2, <1>3, <1>4, <1>5, <1>6, <1>7 DEF LaneNext

\* The invariant of the credits at the start.
LEMMA CreditStart == LaneInit => CreditInv
BY DEF LaneInit, CreditInv, NoStrandedCredit, GraceRunsWhileOwed, Payable

\* No credit is ever recorded for an address that could not be paid.
THEOREM NoCreditStranded == LaneSpec => []NoStrandedCredit
<1>1. LaneTypeOK /\ CreditInv /\ [LaneNext]_laneVars => CreditInv'
  BY CreditStepKeeps
<1>2. CreditInv => NoStrandedCredit
  BY DEF CreditInv
<1> QED
  BY <1>1, <1>2, CreditStart, LaneTypeCorrect, PTL DEF LaneSpec

\* The grace of a credit runs exactly while something is owed.
THEOREM GraceRuns == LaneSpec => []GraceRunsWhileOwed
<1>1. LaneTypeOK /\ CreditInv /\ [LaneNext]_laneVars => CreditInv'
  BY CreditStepKeeps
<1>2. CreditInv => GraceRunsWhileOwed
  BY DEF CreditInv
<1> QED
  BY <1>1, <1>2, CreditStart, LaneTypeCorrect, PTL DEF LaneSpec

-----------------------------------------------------------------------------
(* Nothing leaks into the surplus.                                          *)

\* What a payout leaves is exact in every asset whose balance can be read.
LEMMA PayoutIsExact ==
  ASSUME LaneTypeOK, NEW t \in Tokens, NEW to, NEW amount \in Nat, Payout(t, to, amount),
         NEW u \in Tokens \ FlakyTokens
  PROVE  held'[u] = IF u = t THEN held[t] - amount ELSE held[u]
<1>1. CASE t = NATIVE
  <2>1. PICK back \in [Tokens -> 0..amount] :
          /\ \A w \in Tokens \ FlakyTokens : back[w] = 0
          /\ held' = [w \in Tokens |-> held[w] + back[w] - (IF w = NATIVE THEN amount ELSE 0)]
    BY <1>1 DEF Payout, NativePayout
  <2>2. held[u] \in Nat /\ back[u] = 0
    BY <2>1 DEF LaneTypeOK
  <2> QED
    BY <1>1, <2>1, <2>2
<1>2. CASE t # NATIVE
  <2>1. PICK debited \in 0..held[t] :
          /\ debited = amount
          /\ held' = [held EXCEPT ![t] = @ - debited]
    BY <1>2 DEF Payout, TokenPayout, LaneTypeOK
  <2> QED
    BY <2>1 DEF LaneTypeOK
<1> QED
  BY <1>1, <1>2

\* A credit is paid out of what is owed, not out of the surplus.
LEMMA PayCreditLeavesSurplus ==
  ASSUME LaneTypeOK, LanesBacked, NEW t \in Tokens, NEW account \in Payable, NEW to,
         NEW amount \in Nat, PayCredit(t, account, to, amount), NEW u \in Tokens \ FlakyTokens
  PROVE  Surplus(u)' = Surplus(u)
<1>1. held'[u] = IF u = t THEN held[t] - amount ELSE held[u]
  BY PayoutIsExact DEF PayCredit
<1>2. /\ amount <= totalCredited[t]
      /\ totalCredited'[u] = IF u = t THEN totalCredited[t] - amount ELSE totalCredited[u]
      /\ totalLocked'[u] = totalLocked[u]
  BY DEF PayCredit, LaneTypeOK
<1>3. held[u] \in Nat /\ totalLocked[u] \in Nat /\ totalCredited[u] \in Nat
  BY DEF LaneTypeOK
<1> QED
  BY <1>1, <1>2, <1>3 DEF Surplus

\* Surplus in an asset grows only when more of that asset arrives, and never in
\* a step that pays a credit: no payee and no token can turn what is owed to
\* somebody into something the administrator may sweep.
THEOREM NothingLeaks == LaneSpec => NoLeakToSurplus
<1> DEFINE Clean == \A t \in Tokens \ FlakyTokens :
                       Surplus(t)' > Surplus(t) =>
                          /\ held'[t] > held[t]
                          /\ \A u \in Tokens : totalCredited'[u] >= totalCredited[u]
<1>1. ASSUME LaneTypeOK, LanesBacked, [LaneNext]_laneVars
      PROVE  [Clean]_laneVars
  <2> SUFFICES ASSUME NEW u \in Tokens \ FlakyTokens, Surplus(u)' > Surplus(u)
               PROVE  /\ held'[u] > held[u]
                      /\ \A w \in Tokens : totalCredited'[w] >= totalCredited[w]
    OBVIOUS
  <2>0. /\ held[u] \in Nat /\ totalLocked[u] \in Nat /\ totalCredited[u] \in Nat
        /\ Surplus(u) \in Nat
        /\ \A w \in Tokens : totalCredited[w] \in Nat
    BY <1>1 DEF LaneTypeOK, Surplus
  <2>1. CASE UNCHANGED lanes
    BY <2>0, <2>1 DEF lanes, Surplus
  <2>2. CASE DepositAction
    <3>1. PICK t \in Tokens, amount \in Deposits :
            \E arrived \in {amount} \cup 1..(amount - 1) \cup {amount + g : g \in Gifts} :
                Deposit(t, amount, arrived)
      BY <2>2 DEF DepositAction
    <3>2. PICK arrived \in {amount} \cup 1..(amount - 1) \cup {amount + g : g \in Gifts} :
                Deposit(t, amount, arrived)
      BY <3>1
    <3>3. /\ amount \in Nat \ {0} /\ arrived \in Nat
          /\ held'[u] = IF u = t THEN held[u] + arrived ELSE held[u]
          /\ totalLocked'[u] = IF u = t THEN totalLocked[u] + Received(amount, arrived)
                                        ELSE totalLocked[u]
          /\ totalCredited' = totalCredited
      BY <1>1, <3>2 DEF Deposit, Pull, LaneTypeOK
    <3>4. arrived > 0
      BY <3>2, <3>3 DEF Deposit, Pull
    <3>5. u = t
      BY <2>0, <3>3 DEF Surplus
    <3> QED
      BY <2>0, <3>3, <3>4, <3>5
  <2>3. CASE ReleaseAction
    <3>1. PICK t \in Tokens, to \in Accounts, feeTo \in Accounts :
            \E balance \in 1..totalLocked[t] :
                \E fee \in 0..(balance - 1) : Release(t, to, balance - fee, feeTo, fee)
      BY <2>3 DEF ReleaseAction
    <3>2. PICK balance \in 1..totalLocked[t] :
            \E fee \in 0..(balance - 1) : Release(t, to, balance - fee, feeTo, fee)
      BY <3>1
    <3>3. PICK fee \in 0..(balance - 1) : Release(t, to, balance - fee, feeTo, fee)
      BY <3>2
    <3>4. balance - fee \in Nat /\ fee \in Nat
      BY <1>1 DEF LaneTypeOK
    <3>5. held' = held /\ totalLocked'[u] + totalCredited'[u] = totalLocked[u] + totalCredited[u]
      BY <1>1, <3>3, <3>4, ReleaseKeepsTypes DEF Payable
    <3>6. Surplus(u)' = Surplus(u)
      BY <3>5 DEF Surplus
    <3> QED
      BY <2>0, <3>6
  <2>4. CASE CreditAction
    <3>1. ASSUME NEW t \in Tokens, NEW account \in Accounts, NEW to \in AnyAddress,
                 NEW amount \in 1..credits[t][account], WithdrawCredit(t, account, to, amount)
          PROVE  Surplus(u)' = Surplus(u)
      <4>1. amount \in Nat /\ account \in Payable
        BY <1>1 DEF Payable, LaneTypeOK
      <4> QED
        BY <1>1, <3>1, <4>1, PayCreditLeavesSurplus DEF WithdrawCredit
    <3>2. ASSUME NEW caller \in Accounts, NEW t \in Tokens, NEW account \in Payable,
                 PushCredit(caller, t, account)
          PROVE  Surplus(u)' = Surplus(u)
      <4>1. credits[t][account] \in Nat
        BY <1>1 DEF LaneTypeOK
      <4> QED
        BY <1>1, <3>2, <4>1, PayCreditLeavesSurplus DEF PushCredit
    <3>3. Surplus(u)' = Surplus(u)
      BY <2>4, <3>1, <3>2 DEF CreditAction
    <3> QED
      BY <2>0, <3>3
  <2>5. CASE SweepAction
    <3>1. PICK t \in Tokens, to \in AnyAddress : SweepSurplus(t, to)
      BY <2>5 DEF SweepAction
    <3>2. Surplus(t) \in Nat
      BY <1>1 DEF LaneTypeOK, Surplus
    <3>3. held'[u] = IF u = t THEN held[t] - Surplus(t) ELSE held[u]
      BY <1>1, <3>1, <3>2, PayoutIsExact DEF SweepSurplus
    <3>4. held'[u] <= held[u] /\ held'[u] \in Int
      <4> HIDE DEF Surplus
      <4> QED
        BY <2>0, <3>2, <3>3
    <3>5. totalLocked' = totalLocked /\ totalCredited' = totalCredited
      BY <3>1 DEF SweepSurplus
    <3> QED
      BY <2>0, <3>4, <3>5 DEF Surplus
  <2>6. CASE GiftAction
    <3>1. PICK t \in Tokens, amount \in Gifts : ForceFeed(t, amount)
      BY <2>6 DEF GiftAction
    <3>2. /\ amount \in Nat \ {0}
          /\ held'[u] = IF u = t THEN held[u] + amount ELSE held[u]
          /\ totalLocked' = totalLocked /\ totalCredited' = totalCredited
      BY <1>1, <3>1 DEF ForceFeed, LaneTypeOK
    <3>3. u = t
      BY <2>0, <3>2 DEF Surplus
    <3> QED
      BY <2>0, <3>2, <3>3
  <2> QED
    BY <1>1, <2>1, <2>2, <2>3, <2>4, <2>5, <2>6 DEF LaneNext, laneVars
<1> QED
  BY <1>1, LaneTypeCorrect, Solvency, PTL DEF LaneSpec, NoLeakToSurplus

-----------------------------------------------------------------------------
(* Sums over finite sets.                                                   *)

\* Induction over the naturals and over the subsets of a finite set, for a set G
\* of those for which a fact holds: what is well founded has a least exception.
LEMMA NatSetInduction ==
    ASSUME NEW G, 0 \in G, \A n \in Nat : n \in G => n + 1 \in G
    PROVE  \A n \in Nat : n \in G
<1>1. SUFFICES ASSUME Nat \ G # {} PROVE FALSE
  OBVIOUS
<1>2. PICK x \in Nat \ G : \A y \in Nat \ G : ~ (<<y, x>> \in OpToRel(<, Nat))
  BY <1>1, NatLessThanWellFounded, WFMin, Zenon
<1>3. x \in Nat /\ x \notin G /\ x # 0 /\ x - 1 \in Nat /\ x - 1 < x
  OBVIOUS
<1>4. x - 1 \notin G
  <2>1. SUFFICES ASSUME x - 1 \in G PROVE FALSE
    OBVIOUS
  <2>2. (x - 1) + 1 \in G
    BY <1>3, <2>1
  <2> QED
    BY <1>3, <2>2
<1>5. <<x - 1, x>> \in OpToRel(<, Nat)
  BY <1>3, Zenon DEF OpToRel
<1> QED
  BY <1>2, <1>3, <1>4, <1>5, Zenon

LEMMA SetInduction ==
    ASSUME NEW S, IsFiniteSet(S), NEW G,
           \A T \in SUBSET S : (\A U \in SUBSET T : U # T => U \in G) => T \in G
    PROVE  \A T \in SUBSET S : T \in G
<1>1. SUFFICES ASSUME (SUBSET S) \ G # {} PROVE FALSE
  OBVIOUS
<1>2. IsWellFoundedOn(StrictSubsetOrdering(S), SUBSET S)
  BY FS_StrictSubsetOrderingWellFounded, FS_FiniteSubsetsOfFinite, Zenon
<1>3. PICK T \in (SUBSET S) \ G :
          \A U \in (SUBSET S) \ G : ~ (<<U, T>> \in StrictSubsetOrdering(S))
  <2> DEFINE R == StrictSubsetOrdering(S)
              M == (SUBSET S) \ G
  <2>1. IsWellFoundedOn(R, SUBSET S) /\ M \subseteq SUBSET S /\ M # {}
    BY <1>1, <1>2
  <2> HIDE DEF R, M
  <2>2. \E T \in M : \A U \in M : ~ (<<U, T>> \in R)
    BY <2>1, WFMin
  <2> QED
    BY <2>2 DEF R, M
<1>4. \A U \in SUBSET T : U # T => U \in G
  BY <1>3 DEF StrictSubsetOrdering
<1> QED
  BY <1>3, <1>4

\* The sum over s, one element taken off, when g tells the sums over what is left.
Add(f, g, s) == IF s = {} THEN 0
                ELSE LET x == CHOOSE x \in s : TRUE IN f[x] + g[s \ {x}]

AddsUp(g, f, S) == \A s \in SUBSET S : g[s] = Add(f, g, s)

IterOf(f, S) == CHOOSE g : g = [s \in SUBSET S |-> Add(f, g, s)]

\* What SumFunctionOnSet stands for: the value at S of a function that takes one
\* element off a set at a time,
LEMMA SumIsIter == ASSUME NEW f, NEW S PROVE SumFunctionOnSet(f, S) = IterOf(f, S)[S]
  BY Zenon DEF SumFunctionOnSet, FoldFunctionOnSet, MapThenFoldSet, Add, IterOf

\* which exists, one size of set after the other,
LEMMA IterExists ==
    ASSUME NEW S, IsFiniteSet(S), NEW f
    PROVE  AddsUp(IterOf(f, S), f, S)
<1> DEFINE Small(n) == {s \in SUBSET S : Cardinality(s) <= n}
            Good == {n \in Nat : \E g : /\ g = [s \in Small(n) |-> g[s]]
                                        /\ \A s \in Small(n) : g[s] = Add(f, g, s)}
<1>1. \A s \in SUBSET S : IsFiniteSet(s) /\ Cardinality(s) \in Nat
  BY FS_Subset, FS_CardinalityType
<1>2. \A s \in SUBSET S : \A x \in s : s \ {x} \in SUBSET S /\ Cardinality(s \ {x}) = Cardinality(s) - 1
  BY <1>1, FS_RemoveElement
<1>3. 0 \in Good
  <2>1. \A s \in Small(0) : s = {}
    BY <1>1, FS_EmptySet
  <2> DEFINE g == [s \in Small(0) |-> 0]
  <2>2. /\ g = [s \in Small(0) |-> g[s]]
        /\ \A s \in Small(0) : g[s] = Add(f, g, s)
    BY <2>1, Zenon DEF Add
  <2> QED
    BY <2>2
<1>4. ASSUME NEW n \in Nat, n \in Good PROVE n + 1 \in Good
  <2>1. PICK g : \A s \in Small(n) : g[s] = Add(f, g, s)
    BY <1>4
  <2> DEFINE h == [s \in Small(n + 1) |-> Add(f, g, s)]
  <2>2. ASSUME NEW s \in Small(n) PROVE s \in Small(n + 1) /\ h[s] = g[s]
    <3>1. s \in Small(n + 1)
      BY <1>1
    <3> QED
      BY <3>1, <2>1, Zenon
  <2>3. ASSUME NEW s \in Small(n + 1), s # {}, NEW x \in s PROVE s \ {x} \in Small(n)
    BY <1>1, <1>2, <2>3
  <2>4. ASSUME NEW s \in Small(n + 1)
        PROVE  h[s] = Add(f, h, s)
    <3>1. CASE s = {}
      BY <3>1, Zenon DEF Add
    <3>2. CASE s # {}
      <4> DEFINE c == CHOOSE x \in s : TRUE
      <4>1. c \in s
        BY <3>2
      <4>2. h[s \ {c}] = g[s \ {c}]
        BY <4>1, <3>2, <2>3, <2>2, Zenon
      <4>3. h[s] = f[c] + g[s \ {c}]
        BY <3>2, Zenon DEF Add
      <4> QED
        BY <4>2, <4>3, <3>2, Zenon DEF Add
    <3> QED
      BY <3>1, <3>2, Zenon
  <2>5. h = [s \in Small(n + 1) |-> h[s]]
    BY Zenon
  <2>6. n + 1 \in Nat
    OBVIOUS
  <2> HIDE DEF h, Small
  <2> QED
    BY <2>4, <2>5, <2>6, Zenon
<1>5. Cardinality(S) \in Good
  <2> HIDE DEF Good
  <2> QED
    BY <1>1, <1>3, <1>4, NatSetInduction, Zenon
<1>6. \A s \in SUBSET S : s \in Small(Cardinality(S))
  BY FS_Subset
<1>7. Small(Cardinality(S)) = SUBSET S
  BY <1>6
<1> HIDE DEF Small
<1>8. PICK g : /\ g = [s \in SUBSET S |-> g[s]]
               /\ \A s \in SUBSET S : g[s] = Add(f, g, s)
  BY <1>5, <1>7, Zenon
<1>9. g = [s \in SUBSET S |-> Add(f, g, s)]
  BY <1>8, Zenon
<1>10. IterOf(f, S) = [s \in SUBSET S |-> Add(f, IterOf(f, S), s)]
  BY <1>9, Zenon DEF IterOf
<1> QED
  BY <1>10, Zenon DEF AddsUp

\* can take off any element instead of the one it chooses,
LEMMA IterTakesAny ==
    ASSUME NEW S, IsFiniteSet(S), NEW f, \A x \in S : f[x] \in Int,
           NEW g, AddsUp(g, f, S)
    PROVE  \A s \in SUBSET S : /\ g[s] \in Int
                               /\ \A x \in s : g[s] = f[x] + g[s \ {x}]
<1> DEFINE Fine == {s \in SUBSET S : /\ g[s] \in Int
                                      /\ \A x \in s : g[s] = f[x] + g[s \ {x}]}
<1>1. ASSUME NEW T \in SUBSET S, \A U \in SUBSET T : U # T => U \in Fine
      PROVE  T \in Fine
  <2>1. CASE T = {}
    <3>1. g[T] = 0
      BY <2>1 DEF Add, AddsUp
    <3> QED
      BY <3>1, <2>1
  <2>2. CASE T # {}
    <3> DEFINE c == CHOOSE x \in T : TRUE
    <3>1. c \in T
      BY <2>2
    <3>2. g[T] = f[c] + g[T \ {c}]
      BY <2>2, Zenon DEF Add, AddsUp
    <3> HIDE DEF c
    <3>3. T \ {c} \in Fine
      BY <1>1, <3>1
    <3>4. g[T] \in Int
      BY <3>1, <3>2, <3>3
    <3>5. ASSUME NEW x \in T, x # c PROVE g[T] = f[x] + g[T \ {x}]
      <4>1. T \ {x} \in Fine /\ (T \ {x}) \ {c} \in Fine /\ c \in T \ {x} /\ x \in T \ {c}
        BY <1>1, <3>1, <3>5
      <4>2. (T \ {x}) \ {c} = (T \ {c}) \ {x}
        OBVIOUS
      <4>3. g[T \ {x}] = f[c] + g[(T \ {x}) \ {c}]
        BY <4>1
      <4>4. g[T \ {c}] = f[x] + g[(T \ {x}) \ {c}]
        BY <4>1, <4>2, <3>3
      <4>5. g[(T \ {x}) \ {c}] \in Int /\ f[c] \in Int /\ f[x] \in Int
        BY <4>1, <3>1
      <4> QED
        BY <3>2, <4>3, <4>4, <4>5
    <3> QED
      BY <3>2, <3>4, <3>5
  <2> QED
    BY <2>1, <2>2
<1> HIDE DEF Fine
<1>2. \A s \in SUBSET S : s \in Fine
  BY <1>1, SetInduction
<1> QED
  BY <1>2 DEF Fine

\* and is the same whichever larger set it was made for.
LEMMA IterAgrees ==
    ASSUME NEW S, IsFiniteSet(S), NEW f, NEW T \in SUBSET S,
           NEW g, AddsUp(g, f, S),
           NEW h, AddsUp(h, f, T)
    PROVE  h[T] = g[T]
<1> DEFINE Same == {s \in SUBSET T : h[s] = g[s]}
<1>1. ASSUME NEW V \in SUBSET T, \A U \in SUBSET V : U # V => U \in Same
      PROVE  V \in Same
  <2>1. g[V] = Add(f, g, V) /\ h[V] = Add(f, h, V)
    BY DEF AddsUp
  <2>2. CASE V = {}
    BY <2>1, <2>2 DEF Add, AddsUp
  <2>3. CASE V # {}
    <3> DEFINE c == CHOOSE x \in V : TRUE
    <3>1. c \in V
      BY <2>3
    <3>2. g[V] = f[c] + g[V \ {c}] /\ h[V] = f[c] + h[V \ {c}]
      BY <2>1, <2>3, Zenon DEF Add, AddsUp
    <3> HIDE DEF c
    <3> QED
      BY <1>1, <3>1, <3>2
  <2> QED
    BY <2>2, <2>3
<1> HIDE DEF Same
<1>2. IsFiniteSet(T)
  BY FS_Subset
<1>3. \A s \in SUBSET T : s \in Same
  BY <1>1, <1>2, SetInduction
<1> QED
  BY <1>3 DEF Same

\* So the sums over all subsets of S are one such function.
LEMMA SumRecursion ==
    ASSUME NEW S, IsFiniteSet(S), NEW f
    PROVE  AddsUp(IterOf(f, S), f, S) /\ \A s \in SUBSET S : SumFunctionOnSet(f, s) = IterOf(f, S)[s]
<1>1. AddsUp(IterOf(f, S), f, S)
  BY IterExists
<1>2. ASSUME NEW s \in SUBSET S PROVE SumFunctionOnSet(f, s) = IterOf(f, S)[s]
  <2>1. IsFiniteSet(s)
    BY FS_Subset
  <2>2. AddsUp(IterOf(f, s), f, s)
    BY <2>1, IterExists
  <2>3. IterOf(f, s)[s] = IterOf(f, S)[s]
    BY <1>1, <2>2, IterAgrees
  <2> QED
    BY <2>3, SumIsIter
<1> QED
  BY <1>1, <1>2

\* The sum over nothing is nothing; otherwise any element may be taken off.
LEMMA SumEmpty == ASSUME NEW f PROVE SumFunctionOnSet(f, {}) = 0
<1>1. IsFiniteSet({})
  BY FS_EmptySet
<1>2. PICK g : AddsUp(g, f, {}) /\ SumFunctionOnSet(f, {}) = g[{}]
  BY <1>1, SumRecursion
<1> QED
  BY <1>2 DEF Add, AddsUp

LEMMA SumTakesAny ==
    ASSUME NEW S, IsFiniteSet(S), NEW f, \A x \in S : f[x] \in Int
    PROVE  /\ SumFunctionOnSet(f, S) \in Int
           /\ \A x \in S : SumFunctionOnSet(f, S) = f[x] + SumFunctionOnSet(f, S \ {x})
<1>1. PICK g : /\ AddsUp(g, f, S)
               /\ \A s \in SUBSET S : SumFunctionOnSet(f, s) = g[s]
  BY SumRecursion
<1>2. \A s \in SUBSET S : /\ g[s] \in Int
                          /\ \A x \in s : g[s] = f[x] + g[s \ {x}]
  BY <1>1, IterTakesAny
<1>3. S \in SUBSET S /\ \A x \in S : S \ {x} \in SUBSET S
  OBVIOUS
<1> QED
  BY <1>1, <1>2, <1>3

\* Functions that agree have the same sum.
LEMMA SumOfEqual ==
    ASSUME NEW S, IsFiniteSet(S), NEW f, NEW h, \A x \in S : f[x] = h[x]
    PROVE  SumFunctionOnSet(f, S) = SumFunctionOnSet(h, S)
<1>1. PICK g : /\ AddsUp(g, f, S)
               /\ \A s \in SUBSET S : SumFunctionOnSet(f, s) = g[s]
  BY SumRecursion
<1> DEFINE k == IterOf(h, S)
<1>2. AddsUp(k, h, S) /\ \A s \in SUBSET S : SumFunctionOnSet(h, s) = k[s]
  BY SumRecursion
<1> HIDE DEF k
<1> DEFINE Same == {s \in SUBSET S : g[s] = k[s]}
<1>3. ASSUME NEW V \in SUBSET S, \A U \in SUBSET V : U # V => U \in Same
      PROVE  V \in Same
  <2>1. g[V] = Add(f, g, V) /\ k[V] = Add(h, k, V)
    BY <1>1, <1>2 DEF AddsUp
  <2>2. CASE V = {}
    BY <2>1, <2>2 DEF Add, AddsUp
  <2>3. CASE V # {}
    <3> DEFINE c == CHOOSE x \in V : TRUE
    <3>1. c \in V
      BY <2>3
    <3>2. g[V] = f[c] + g[V \ {c}] /\ k[V] = h[c] + k[V \ {c}]
      BY <2>1, <2>3, Zenon DEF Add, AddsUp
    <3> HIDE DEF c
    <3> QED
      BY <1>3, <3>1, <3>2
  <2> QED
    BY <2>2, <2>3
<1> HIDE DEF Same
<1>4. \A s \in SUBSET S : s \in Same
  BY <1>3, SetInduction
<1> QED
  BY <1>1, <1>2, <1>4 DEF Same

\* Nothings add up to nothing.
LEMMA SumOfNothing ==
    ASSUME NEW S, IsFiniteSet(S), NEW f, \A x \in S : f[x] = 0
    PROVE  SumFunctionOnSet(f, S) = 0
<1> DEFINE Nil == {s \in SUBSET S : SumFunctionOnSet(f, s) = 0}
<1>1. ASSUME NEW T \in SUBSET S, \A U \in SUBSET T : U # T => U \in Nil
      PROVE  T \in Nil
  <2>1. CASE T = {}
    BY <2>1, SumEmpty
  <2>2. ASSUME NEW x \in T PROVE T \in Nil
    <3>1. T \ {x} \in Nil
      BY <1>1
    <3>2. IsFiniteSet(T) /\ \A y \in T : f[y] \in Int
      BY FS_Subset
    <3>3. SumFunctionOnSet(f, T) = f[x] + SumFunctionOnSet(f, T \ {x})
      BY <3>2, SumTakesAny
    <3> QED
      BY <3>1, <3>3
  <2> QED
    BY <2>1, <2>2
<1> HIDE DEF Nil
<1>2. \A s \in SUBSET S : s \in Nil
  BY <1>1, SetInduction
<1> QED
  BY <1>2 DEF Nil

\* A sum moves by as much as the one value that changed.
LEMMA SumChangesAt ==
    ASSUME NEW S, IsFiniteSet(S), NEW f, NEW h, NEW x \in S,
           \A y \in S : f[y] \in Int /\ h[y] \in Int,
           \A y \in S \ {x} : f[y] = h[y]
    PROVE  SumFunctionOnSet(h, S) = SumFunctionOnSet(f, S) + h[x] - f[x]
<1>1. IsFiniteSet(S \ {x})
  BY FS_RemoveElement
<1>2. SumFunctionOnSet(f, S) = f[x] + SumFunctionOnSet(f, S \ {x}) /\ SumFunctionOnSet(h, S) = h[x] + SumFunctionOnSet(h, S \ {x})
  BY SumTakesAny
<1>3. SumFunctionOnSet(f, S \ {x}) = SumFunctionOnSet(h, S \ {x}) /\ SumFunctionOnSet(f, S \ {x}) \in Int
  BY <1>1, SumOfEqual, SumTakesAny
<1> QED
  BY <1>2, <1>3

\* What counts for nothing may be left in or out.
LEMMA SumOfPart ==
    ASSUME NEW S, IsFiniteSet(S), NEW T \in SUBSET S, NEW f, NEW h,
           \A x \in S : f[x] \in Int /\ h[x] = IF x \in T THEN f[x] ELSE 0
    PROVE  SumFunctionOnSet(f, T) = SumFunctionOnSet(h, S)
<1> DEFINE Alike == {s \in SUBSET S : SumFunctionOnSet(f, s \cap T) = SumFunctionOnSet(h, s)}
<1>1. ASSUME NEW V \in SUBSET S, \A U \in SUBSET V : U # V => U \in Alike
      PROVE  V \in Alike
  <2>1. CASE V = {}
    <3>1. V \cap T = {}
      BY <2>1
    <3> QED
      BY <2>1, <3>1, SumEmpty
  <2>2. ASSUME NEW x \in V PROVE V \in Alike
    <3>1. SumFunctionOnSet(f, (V \ {x}) \cap T) = SumFunctionOnSet(h, V \ {x})
      BY <1>1
    <3>2. IsFiniteSet(V) /\ IsFiniteSet(V \cap T) /\ \A y \in V : f[y] \in Int /\ h[y] \in Int
      BY FS_Subset
    <3>3. SumFunctionOnSet(h, V) = h[x] + SumFunctionOnSet(h, V \ {x}) /\ SumFunctionOnSet(h, V \ {x}) \in Int
      <4>1. IsFiniteSet(V \ {x})
        BY <3>2, FS_RemoveElement
      <4> QED
        BY <3>2, <4>1, SumTakesAny
    <3>4. CASE x \in T
      <4>1. (V \cap T) \ {x} = (V \ {x}) \cap T
        OBVIOUS
      <4>2. SumFunctionOnSet(f, V \cap T) = f[x] + SumFunctionOnSet(f, (V \cap T) \ {x})
        BY <3>2, <3>4, SumTakesAny
      <4> QED
        BY <3>1, <3>3, <3>4, <4>1, <4>2
    <3>5. CASE x \notin T
      <4>1. V \cap T = (V \ {x}) \cap T
        BY <3>5
      <4> QED
        BY <3>1, <3>3, <3>5, <4>1
    <3> QED
      BY <3>4, <3>5
  <2> QED
    BY <2>1, <2>2
<1> HIDE DEF Alike
<1>2. \A s \in SUBSET S : s \in Alike
  BY <1>1, SetInduction
<1>3. S \cap T = T
  OBVIOUS
<1> QED
  BY <1>2, <1>3 DEF Alike

-----------------------------------------------------------------------------
(* Credits add up.                                                          *)

\* The credited total of an asset is the sum of what is owed in it.
CreditsAreTheSum ==
    \A t \in Tokens : totalCredited[t] = SumFunctionOnSet(credits[t], Payable)

LEMMA PayableFinite == IsFiniteSet(Payable)
BY FiniteAddressAssumption, FS_Union DEF Payable

\* A book of credits in which one account is owed more or less adds up to as
\* much more or less.
LEMMA OneAccountMoves ==
  ASSUME NEW owed \in [Payable -> Nat], NEW owed2 \in [Payable -> Nat], NEW a \in Payable,
         \A b \in Payable \ {a} : owed2[b] = owed[b]
  PROVE  SumFunctionOnSet(owed2, Payable) = SumFunctionOnSet(owed, Payable) + owed2[a] - owed[a]
BY PayableFinite, SumChangesAt

\* A sum of credits is a number,
LEMMA OwedIsNumber ==
  ASSUME NEW owed \in [Payable -> Nat]
  PROVE  SumFunctionOnSet(owed, Payable) \in Int
BY PayableFinite, SumTakesAny

\* a credit adds its amount to it,
LEMMA CreditAdds ==
  ASSUME NEW owed \in [Payable -> Nat], NEW to \in Payable, NEW amount \in Nat
  PROVE  /\ OwedAfter(owed, to, amount) \in [Payable -> Nat]
         /\ SumFunctionOnSet(OwedAfter(owed, to, amount), Payable)
               = SumFunctionOnSet(owed, Payable) + amount
<1> DEFINE owed2 == OwedAfter(owed, to, amount)
<1>1. owed2 \in [Payable -> Nat] /\ owed2[to] = owed[to] + amount
  BY DEF OwedAfter
<1>2. \A b \in Payable \ {to} : owed2[b] = owed[b]
  BY DEF OwedAfter
<1> HIDE DEF owed2
<1>3. SumFunctionOnSet(owed2, Payable) = SumFunctionOnSet(owed, Payable) + owed2[to] - owed[to]
  BY <1>1, <1>2, OneAccountMoves
<1>4. SumFunctionOnSet(owed, Payable) \in Int
  BY OwedIsNumber
<1> QED
  BY <1>1, <1>3, <1>4 DEF owed2

\* a settlement credits the heir and the fee recipient, who may be the same,
LEMMA ReleaseAddsUp ==
  ASSUME LaneTypeOK, CreditsAreTheSum, NEW t \in Tokens, NEW to \in Payable, NEW feeTo,
         NEW amount \in Nat, NEW fee \in Nat, fee # 0 => feeTo \in Payable,
         Release(t, to, amount, feeTo, fee)
  PROVE  CreditsAreTheSum'
<1> DEFINE owed == OwedAfter(credits[t], to, amount)
           owed2 == IF fee = 0 THEN owed ELSE OwedAfter(owed, feeTo, fee)
           before == SumFunctionOnSet(credits[t], Payable)
<1>1. credits[t] \in [Payable -> Nat] /\ before \in Int /\ totalCredited[t] = before
  BY OwedIsNumber DEF LaneTypeOK, CreditsAreTheSum
<1>2. owed \in [Payable -> Nat] /\ SumFunctionOnSet(owed, Payable) = before + amount
  BY <1>1, CreditAdds
<1>3. SumFunctionOnSet(owed2, Payable) = before + amount + fee
  <2> HIDE DEF owed
  <2>1. CASE fee = 0
    BY <1>1, <1>2, <2>1
  <2>2. CASE fee # 0
    <3> HIDE DEF before
    <3>1. SumFunctionOnSet(OwedAfter(owed, feeTo, fee), Payable) = before + amount + fee
      BY <1>2, <2>2, CreditAdds
    <3> QED
      BY <2>2, <3>1
  <2> QED
    BY <2>1, <2>2
<1>4. /\ totalCredited' = [totalCredited EXCEPT ![t] = @ + amount + fee]
      /\ credits' = [credits EXCEPT ![t] = owed2]
  BY DEF Release
<1> HIDE DEF owed2, before
<1>5. totalCredited'[t] = before + amount + fee /\ credits'[t] = owed2
  BY <1>1, <1>4 DEF LaneTypeOK
<1>6. \A u \in Tokens \ {t} : totalCredited'[u] = totalCredited[u] /\ credits'[u] = credits[u]
  BY <1>4 DEF LaneTypeOK
<1> QED
  BY <1>3, <1>5, <1>6 DEF CreditsAreTheSum

\* and a payment takes from the total what it takes from the account.
LEMMA PayCreditAddsUp ==
  ASSUME LaneTypeOK, CreditsAreTheSum, NEW t \in Tokens, NEW account \in Payable,
         NEW to, NEW amount \in Nat, PayCredit(t, account, to, amount)
  PROVE  CreditsAreTheSum'
<1>1. /\ amount \in 1..credits[t][account]
      /\ credits' = [credits EXCEPT ![t][account] = @ - amount]
      /\ totalCredited' = [totalCredited EXCEPT ![t] = @ - amount]
  BY DEF PayCredit
<1>2. credits[t] \in [Payable -> Nat] /\ credits'[t] \in [Payable -> Nat]
  BY <1>1 DEF LaneTypeOK
<1>3. /\ credits'[t][account] = credits[t][account] - amount
      /\ \A b \in Payable \ {account} : credits'[t][b] = credits[t][b]
  BY <1>1 DEF LaneTypeOK
<1>4. SumFunctionOnSet(credits'[t], Payable)
         = SumFunctionOnSet(credits[t], Payable) + credits'[t][account] - credits[t][account]
  BY <1>2, <1>3, OneAccountMoves
<1>5. SumFunctionOnSet(credits[t], Payable) \in Int /\ credits[t][account] \in Int
  BY <1>2, OwedIsNumber
<1>6. totalCredited'[t] = totalCredited[t] - amount
  BY <1>1 DEF LaneTypeOK
<1>7. totalCredited'[t] = SumFunctionOnSet(credits'[t], Payable)
  BY <1>3, <1>4, <1>5, <1>6 DEF CreditsAreTheSum
<1>8. \A u \in Tokens \ {t} : totalCredited'[u] = totalCredited[u] /\ credits'[u] = credits[u]
  BY <1>1 DEF LaneTypeOK
<1> QED
  BY <1>7, <1>8 DEF CreditsAreTheSum

\* What moves no credit leaves the sums alone.
LEMMA NoCreditMoves ==
  ASSUME CreditsAreTheSum, UNCHANGED <<totalCredited, credits>>
  PROVE  CreditsAreTheSum'
BY DEF CreditsAreTheSum

LEMMA LaneStepAddsUp ==
  ASSUME LaneTypeOK, CreditsAreTheSum, [LaneNext]_laneVars
  PROVE  CreditsAreTheSum'
<1>1. CASE UNCHANGED <<totalCredited, credits>>
  BY <1>1, NoCreditMoves
<1>2. CASE ReleaseAction
  <2>1. PICK t \in Tokens, to \in Accounts, feeTo \in Accounts :
          \E balance \in 1..totalLocked[t] :
              \E fee \in 0..(balance - 1) : Release(t, to, balance - fee, feeTo, fee)
    BY <1>2 DEF ReleaseAction
  <2>2. PICK balance \in 1..totalLocked[t] :
              \E fee \in 0..(balance - 1) : Release(t, to, balance - fee, feeTo, fee)
    BY <2>1
  <2>3. PICK fee \in 0..(balance - 1) : Release(t, to, balance - fee, feeTo, fee)
    BY <2>2
  <2>4. totalLocked[t] \in Nat
    BY DEF LaneTypeOK
  <2>5. balance - fee \in Nat /\ fee \in Nat /\ to \in Payable /\ feeTo \in Payable
    BY <2>4 DEF Payable
  <2> QED
    BY <2>3, <2>5, ReleaseAddsUp
<1>3. CASE CreditAction
  <2>1. ASSUME NEW t \in Tokens, NEW account \in Accounts, NEW to \in AnyAddress,
               NEW amount \in 1..credits[t][account], WithdrawCredit(t, account, to, amount)
        PROVE  CreditsAreTheSum'
    <3>1. account \in Payable /\ amount \in Nat
      BY DEF Payable, LaneTypeOK
    <3> QED
      BY <2>1, <3>1, PayCreditAddsUp DEF WithdrawCredit
  <2>2. ASSUME NEW caller \in Accounts, NEW t \in Tokens, NEW account \in Payable,
               PushCredit(caller, t, account)
        PROVE  CreditsAreTheSum'
    <3>1. credits[t][account] \in Nat
      BY DEF LaneTypeOK
    <3> QED
      BY <2>2, <3>1, PayCreditAddsUp DEF PushCredit
  <2> QED
    BY <1>3, <2>1, <2>2 DEF CreditAction
<1>4. CASE (Tick /\ UNCHANGED lanes) \/ DepositAction \/ SweepAction \/ GiftAction
  BY <1>1, <1>4 DEF lanes, DepositAction, Deposit, SweepAction, SweepSurplus, GiftAction, ForceFeed
<1>5. CASE UNCHANGED laneVars
  BY <1>1, <1>5 DEF laneVars, lanes
<1> QED
  BY <1>2, <1>3, <1>4, <1>5 DEF LaneNext

LEMMA LaneStartsAtNothing == LaneInit => CreditsAreTheSum
<1> SUFFICES ASSUME LaneInit, NEW t \in Tokens
             PROVE  totalCredited[t] = SumFunctionOnSet(credits[t], Payable)
  BY DEF CreditsAreTheSum
<1>1. totalCredited[t] = 0 /\ \A a \in Payable : credits[t][a] = 0
  BY DEF LaneInit
<1> QED
  BY <1>1, PayableFinite, SumOfNothing

\* The credited total of every asset is exactly what is owed in it, to
\* whomever it is owed and in whatever order it was credited, withdrawn and pushed.
THEOREM CreditsStayTheSum == LaneSpec => []CreditsAreTheSum
<1>1. LaneTypeOK /\ CreditsAreTheSum /\ [LaneNext]_laneVars => CreditsAreTheSum'
  BY LaneStepAddsUp
<1> QED
  BY <1>1, LaneStartsAtNothing, LaneTypeCorrect, PTL DEF LaneSpec
=============================================================================
