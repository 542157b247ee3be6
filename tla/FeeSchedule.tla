----------------------------- MODULE FeeSchedule -----------------------------
(***************************************************************************)
(* The claim fee of contracts/InheritanceVault.sol: the recorded rate, one *)
(* scheduled raise, and the recipient with the time from which it counts.  *)
(* The administrator may cut the fee at once but may raise it, or turn it  *)
(* back on after a period with no recipient, only FEE_RAISE_DELAY ahead.   *)
(***************************************************************************)
EXTENDS BlockClock, Addresses

CONSTANTS
    FEE_RAISE_DELAY,
    MAX_CLAIM_FEE_BPS,
    InitialFeeBps,        \* constructor arguments
    InitialFeeRecipient,
    FeeInputs             \* bps values setClaimFee is called with

ASSUME FeeAssumption ==
    /\ FEE_RAISE_DELAY \in Nat \ {0}
    /\ MAX_CLAIM_FEE_BPS \in Nat
    /\ InitialFeeBps \in 0..MAX_CLAIM_FEE_BPS
    /\ InitialFeeRecipient \in Accounts \cup {NoOne}
    /\ FeeInputs \subseteq Nat

VARIABLES
    recordedFeeBps,       \* _claimFeeBps: the rate last recorded
    pendingClaimFeeBps,   \* the scheduled raise, 0 when there is none
    pendingClaimFeeAt,    \* when it takes effect, 0 when there is none
    feeRecipient,
    feeRecipientActiveAt  \* the recipient counts only from this time

schedule == <<recordedFeeBps, pendingClaimFeeBps, pendingClaimFeeAt>>
recipient == <<feeRecipient, feeRecipientActiveAt>>
feeState == <<schedule, recipient>>
feeVars == <<now, feeState>>

-----------------------------------------------------------------------------
(* What the schedule answers. *)

\* The rate the schedule gives at time t, if nothing is changed before t.
RateAt(t) ==
    IF pendingClaimFeeAt # 0 /\ t >= pendingClaimFeeAt
    THEN pendingClaimFeeBps
    ELSE recordedFeeBps

\* claimFeeBps(): folds in a raise that has matured and nobody has recorded.
ClaimFeeBps == RateAt(now)

RecipientActive(t) == feeRecipient # NoOne /\ t >= feeRecipientActiveAt

\* The test initiateClaim and finalizeClaim both make.
RecipientInForce == RecipientActive(now)

\* What a settlement at time t would be charged at most, the vault's own
\* ceiling and lock aside.
ChargeAt(t) == IF RecipientActive(t) THEN RateAt(t) ELSE 0

RaiseMatured == pendingClaimFeeAt # 0 /\ now >= pendingClaimFeeAt

-----------------------------------------------------------------------------
(* The handlers. *)

ScheduleRaise(newBps) ==
    /\ pendingClaimFeeBps' = newBps
    /\ pendingClaimFeeAt' = now + FEE_RAISE_DELAY

ClearRaise ==
    /\ pendingClaimFeeBps' = 0
    /\ pendingClaimFeeAt' = 0

\* Variation: a matured raise is not recorded first.
SetClaimFee_NotRecording(newBps) ==
    /\ newBps <= MAX_CLAIM_FEE_BPS
    /\ \/ newBps > recordedFeeBps /\ ScheduleRaise(newBps) /\ UNCHANGED recordedFeeBps
       \/ newBps <= recordedFeeBps /\ recordedFeeBps' = newBps /\ ClearRaise
    /\ UNCHANGED <<now, recipient>>

\* setClaimFee records a matured raise first (_recordMaturedRaise), so the
\* rate it compares against, and leaves recorded under a raise, is the rate
\* in force.  A higher rate is scheduled, replacing any other; a rate at or
\* below applies at once and calls a pending raise off.
SetClaimFee(newBps) ==
    /\ newBps <= MAX_CLAIM_FEE_BPS
    /\ \/ /\ newBps > ClaimFeeBps
          /\ recordedFeeBps' = ClaimFeeBps
          /\ ScheduleRaise(newBps)
       \/ /\ newBps <= ClaimFeeBps
          /\ recordedFeeBps' = newBps
          /\ ClearRaise
    /\ UNCHANGED <<now, recipient>>

\* Permissionless: records a raise whose time has come.
ApplyClaimFee ==
    /\ RaiseMatured
    /\ recordedFeeBps' = pendingClaimFeeBps
    /\ ClearRaise
    /\ UNCHANGED <<now, recipient>>

\* Variation: only the first recipient ever named is delayed.
SetFeeRecipient_DelayedOnce(newRecipient) ==
    /\ newRecipient # NoOne => PayeeAllowed(newRecipient)
    /\ feeRecipient' = newRecipient
    /\ feeRecipientActiveAt' =
         IF newRecipient # NoOne /\ feeRecipient = NoOne /\ feeRecipientActiveAt = 0
         THEN now + FEE_RAISE_DELAY
         ELSE feeRecipientActiveAt
    /\ UNCHANGED <<now, schedule>>

\* Removing the recipient is a cut and immediate; naming one after a period
\* with none is a raise from zero; replacing one by another is neither.
SetFeeRecipient(newRecipient) ==
    /\ newRecipient # NoOne => PayeeAllowed(newRecipient)
    /\ feeRecipient' = newRecipient
    /\ feeRecipientActiveAt' =
         IF newRecipient # NoOne /\ feeRecipient = NoOne
         THEN now + FEE_RAISE_DELAY
         ELSE feeRecipientActiveAt
    /\ UNCHANGED <<now, schedule>>

FeeInit ==
    /\ ClockInit
    /\ recordedFeeBps = InitialFeeBps
    /\ pendingClaimFeeBps = 0
    /\ pendingClaimFeeAt = 0
    /\ feeRecipient = InitialFeeRecipient
    /\ feeRecipientActiveAt = 0

FeeNext ==
    \/ Tick /\ UNCHANGED feeState
    \/ \E newBps \in FeeInputs : SetClaimFee(newBps)
    \/ ApplyClaimFee
    \/ \E newRecipient \in AnyAddress : SetFeeRecipient(newRecipient)

FeeSpec == FeeInit /\ [][FeeNext]_feeVars

-----------------------------------------------------------------------------
(* Properties. *)

\* Types of the schedule's state.
FeeTypeOK ==
    /\ ClockTypeOK
    /\ recordedFeeBps \in 0..MAX_CLAIM_FEE_BPS
    /\ pendingClaimFeeBps \in 0..MAX_CLAIM_FEE_BPS
    /\ pendingClaimFeeAt \in 0..(MaxTime + FEE_RAISE_DELAY)
    /\ feeRecipient \in Accounts \cup {NoOne}
    /\ feeRecipientActiveAt \in 0..(MaxTime + FEE_RAISE_DELAY)

\* A scheduled raise is a raise: it is above the recorded rate for as long as
\* it is pending.  setClaimFee's cut branch relies on it ("A pending raise is
\* always above the recorded rate, so it is above this one too").
PendingAboveRecorded ==
    IF pendingClaimFeeAt = 0
    THEN pendingClaimFeeBps = 0
    ELSE pendingClaimFeeBps > recordedFeeBps

\* No surprise: whatever the administrator does, in whatever order, no step
\* raises the charge at any moment of the next FEE_RAISE_DELAY seconds.  An
\* owner or an heir who reads the charge that holds until then can act on it.
NoSurpriseRaise ==
    [][\A t \in now..(now + FEE_RAISE_DELAY - 1) : ChargeAt(t)' <= ChargeAt(t)]_feeVars

\* A rate at or below the one in force holds from the very step that sets it
\* and for good: no raise announced or matured earlier comes back over it.
CutIsFinal ==
    [][\A newBps \in FeeInputs :
          (SetClaimFee(newBps) /\ newBps <= ClaimFeeBps)
              => \A t \in now..(MaxTime + FEE_RAISE_DELAY) : RateAt(t)' = newBps]_feeVars

\* Applying a matured raise is housekeeping: whether and when anybody does it
\* changes the rate of no present or future second.
ApplyIsNeutral ==
    [][ApplyClaimFee
          => \A t \in now..(MaxTime + FEE_RAISE_DELAY) : RateAt(t)' = RateAt(t)]_feeVars
=============================================================================
