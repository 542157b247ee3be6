--------------------------- MODULE InheritanceVault ---------------------------
(***************************************************************************)
(* contracts/InheritanceVault.sol: a dead man's switch.  An owner locks    *)
(* value for an heir; while the owner keeps showing up the deadline moves, *)
(* as far as a horizon; once it lapses the heir may claim, the owner has a *)
(* challenge window to object, and then anyone may settle the claim into   *)
(* the credit lane.                                                        *)
(*                                                                         *)
(* One action per external function; a call that reverts is no step.  Each *)
(* action carries its function's checks as guards and its whole effect.    *)
(* Every function that changes a vault or the lanes is nonReentrant, so a  *)
(* call is one step even though payouts and deposits run foreign code.     *)
(***************************************************************************)
EXTENDS FeeSchedule, CreditLane, Sequences, FiniteSets

CONSTANTS
    Owners,           \* who creates vaults
    Heirs,            \* addresses owners name as beneficiary
    Recipients,       \* addresses named as the destination of a payout
    MaxVaults,        \* bound: vaults one owner ever creates
    MIN_INACTIVITY, MAX_INACTIVITY,
    MIN_CHALLENGE, MAX_CHALLENGE,
    MAX_HORIZON,
    MAX_OPEN_VAULTS,
    MAX_BATCH,
    MAX_HB_COUNT,
    MaxEpoch,         \* bound: chain installations of one vault
    NoValue,          \* bytes32(0)
    BPS_DENOMINATOR,
    FeeRecipients     \* addresses the administrator names as fee recipient

ASSUME VaultAssumption ==
    /\ Owners \subseteq Accounts
    /\ Heirs \subseteq AnyAddress
    /\ Recipients \subseteq AnyAddress
    /\ MaxVaults \in Nat
    /\ MIN_INACTIVITY \in Nat \ {0} /\ MAX_INACTIVITY \in Nat
    /\ MIN_CHALLENGE \in Nat \ {0} /\ MAX_CHALLENGE \in Nat
    /\ MAX_HORIZON \in Nat
    /\ MAX_OPEN_VAULTS \in Nat
    /\ MAX_BATCH \in Nat
    /\ MAX_HB_COUNT \in Nat
    /\ MaxEpoch \in Nat
    /\ FeeRecipients \subseteq AnyAddress
    /\ BPS_DENOMINATOR \in Nat /\ MAX_CLAIM_FEE_BPS < BPS_DENOMINATOR

VARIABLES
    vault,            \* _vaults: <<owner, id>> => Vault
    vaultCount,       \* per owner, over the contract's life; ids are never reused
    openIds,          \* _openIds: per owner, the ids of the vaults that are live
    creationPaused,
    tally             \* vaultsCreated, vaultsSettled, vaultsClosed

vaultState == <<vault, vaultCount, openIds, creationPaused, tally>>
vars == <<now, feeState, lanes, vaultState>>

VaultIds == 0..(MaxVaults - 1)
Keys == Owners \X VaultIds
Dates == 0..(MaxTime + MAX_HORIZON)

STATE_NONE == "NONE"
STATE_ACTIVE == "ACTIVE"
STATE_CLAIM_PENDING == "CLAIM_PENDING"
STATE_SETTLED == "SETTLED"
STATE_CLOSED == "CLOSED"

-----------------------------------------------------------------------------
(* Check-in chains.  A link is named by the vault and epoch its chain was   *)
(* built for and by its distance from the tip; hashing is injective, and a  *)
(* hash under another vault or epoch is a value nobody holds a link for.    *)

Links == Keys \X (1..MaxEpoch) \X (0..MAX_HB_COUNT)

NoLink == <<"a hash that is no link of any chain">>

\* Variation: a step is not bound to the installation epoch.
hbStep_AnyEpoch(k, epoch, value) ==
    IF value[1] = k THEN <<k, value[2], value[3] + 1>> ELSE NoLink

hbStep(k, epoch, value) ==
    IF value[1] = k /\ value[2] = epoch
    THEN <<k, epoch, value[3] + 1>>
    ELSE NoLink

-----------------------------------------------------------------------------
(* Vaults. *)

NoVault == [
    state |-> STATE_NONE, openIndex |-> 0, feeBps |-> 0,
    beneficiary |-> NoOne, deadline |-> 0, inactivityPeriod |-> 0,
    token |-> NATIVE, absoluteDeadline |-> 0, challengeWindow |-> 0,
    balance |-> 0, claimInitiatedAt |-> 0, claimRecipient |-> NoOne,
    lockedFeeBps |-> 0, hbAnchor |-> NoValue, hbLeft |-> 0, hbEpoch |-> 0]

\* _vault and _requireLive.
Exists(k) == k[2] < vaultCount[k[1]]
Live(k) == Exists(k) /\ vault[k].state \in {STATE_ACTIVE, STATE_CLAIM_PENDING}
Pending(k) == Exists(k) /\ vault[k].state = STATE_CLAIM_PENDING
Active(k) == Exists(k) /\ vault[k].state = STATE_ACTIVE

HorizonReached(k) == now >= vault[k].absoluteDeadline

\* The remaining helpers take a vault and return what it becomes.
NextDeadline(v) == Smaller(now + v.inactivityPeriod, v.absoluteDeadline)

ResetClock(v) == [v EXCEPT !.deadline = NextDeadline(v)]

WithoutClaim(v) ==
    [v EXCEPT !.state = STATE_ACTIVE, !.claimInitiatedAt = 0, !.claimRecipient = NoOne]

\* Variation: the claim's own fields survive its end.
ClearPending_StateOnly(v) ==
    IF v.state = STATE_CLAIM_PENDING THEN [v EXCEPT !.state = STATE_ACTIVE] ELSE v

\* _clearPending: an owner's action ends a claim, but past the horizon the
\* action reverts instead.  extendHorizon alone is exempt.
ClearPending(v) == IF v.state = STATE_CLAIM_PENDING THEN WithoutClaim(v) ELSE v

MayClearPending(k) == Pending(k) => ~HorizonReached(k)

\* _removeFromOpen: the last id takes the slot of the one that leaves, and
\* the vault it names learns its new slot.
OpenIdsWithout(k) ==
    LET ids == openIds[k[1]]
        slot == vault[k].openIndex + 1
    IN  [openIds EXCEPT ![k[1]] =
            [i \in 1..(Len(ids) - 1) |-> IF i = slot THEN ids[Len(ids)] ELSE ids[i]]]

MovedKey(k) == <<k[1], openIds[k[1]][Len(openIds[k[1]])]>>

\* Variation: the vault that is moved does not learn its new slot.
LeaveOpen_StaleIndex(k, ended) ==
    /\ openIds[k[1]] # <<>>
    /\ openIds' = OpenIdsWithout(k)
    /\ vault' = [vault EXCEPT ![k] = ended]

\* Vault k leaves the open list as `ended`.
LeaveOpen(k, ended) ==
    /\ openIds[k[1]] # <<>>
    /\ openIds' = OpenIdsWithout(k)
    /\ vault' = [[vault EXCEPT ![MovedKey(k)].openIndex =
                     IF MovedKey(k) = k THEN @ ELSE vault[k].openIndex]
                 EXCEPT ![k] = ended]

Becomes(k, v) == vault' = [vault EXCEPT ![k] = v]

\* An owner's action that leaves the vault open and touches no value.
OwnVaultOnly ==
    UNCHANGED <<now, feeState, lanes, vaultCount, openIds, creationPaused, tally>>

-----------------------------------------------------------------------------
(* Lifecycle. *)

\* The open slot and the clock are set as part of the creation; what is locked
\* is what arrived.
CreateVault(o, t, amount, arrived, beneficiary, period, window, horizon) ==
    LET k == <<o, vaultCount[o]>> IN
    /\ ~creationPaused
    /\ beneficiary \notin {NoOne, Self, o}
    /\ period \in MIN_INACTIVITY..MAX_INACTIVITY
    /\ window \in MIN_CHALLENGE..MAX_CHALLENGE
    /\ horizon >= now + period
    /\ horizon <= now + MAX_HORIZON
    /\ Len(openIds[o]) < MAX_OPEN_VAULTS
    /\ vaultCount[o] < MaxVaults
    /\ Deposit(t, amount, arrived)
    /\ vaultCount' = [vaultCount EXCEPT ![o] = @ + 1]
    /\ Becomes(k, ResetClock([NoVault EXCEPT
          !.state = STATE_ACTIVE,
          !.openIndex = Len(openIds[o]),
          !.feeBps = ClaimFeeBps,
          !.beneficiary = beneficiary,
          !.inactivityPeriod = period,
          !.token = t,
          !.absoluteDeadline = horizon,
          !.challengeWindow = window,
          !.balance = Received(amount, arrived)]))
    /\ openIds' = [openIds EXCEPT ![o] = Append(@, vaultCount[o])]
    /\ tally' = [tally EXCEPT !.created = @ + 1]
    /\ UNCHANGED <<now, feeState, creationPaused>>

\* Variation: a top-up is taken while a claim is pending.
TopUp_MidClaim(k, amount, arrived) ==
    /\ Live(k)
    /\ Deposit(vault[k].token, amount, arrived)
    /\ Becomes(k, [vault[k] EXCEPT !.balance = @ + Received(amount, arrived)])
    /\ UNCHANGED <<now, feeState, vaultCount, openIds, creationPaused, tally>>

\* Variation: a top-up is taken for a sign of life.
TopUp_ResetsClock(k, amount, arrived) ==
    /\ Active(k)
    /\ Deposit(vault[k].token, amount, arrived)
    /\ Becomes(k, ResetClock([vault[k] EXCEPT !.balance = @ + Received(amount, arrived)]))
    /\ UNCHANGED <<now, feeState, vaultCount, openIds, creationPaused, tally>>

\* Variation: the vault is credited what was declared.
TopUp_Declared(k, amount, arrived) ==
    /\ Active(k)
    /\ Deposit(vault[k].token, amount, arrived)
    /\ Becomes(k, [vault[k] EXCEPT !.balance = @ + amount])
    /\ UNCHANGED <<now, feeState, vaultCount, openIds, creationPaused, tally>>

\* Permissionless, and no sign of life: the clock is left alone.
TopUp(k, amount, arrived) ==
    /\ Active(k)
    /\ Deposit(vault[k].token, amount, arrived)
    /\ Becomes(k, [vault[k] EXCEPT !.balance = @ + Received(amount, arrived)])
    /\ UNCHANGED <<now, feeState, vaultCount, openIds, creationPaused, tally>>

-----------------------------------------------------------------------------
(* Liveness. *)

CheckIn(k) ==
    /\ Active(k)
    /\ ~HorizonReached(k)
    /\ vault[k].deadline < vault[k].absoluteDeadline
    /\ Becomes(k, ResetClock(vault[k]))
    /\ OwnVaultOnly

\* The ids of a batch that are refreshed; every other one is skipped: unknown,
\* terminal, claimed, past its horizon, pinned at it, or moved this second.
Refreshable(o, ids) ==
    {id \in ids :
        LET k == <<o, id>> IN
        /\ Active(k)
        /\ ~HorizonReached(k)
        /\ vault[k].deadline < vault[k].absoluteDeadline
        /\ NextDeadline(vault[k]) > vault[k].deadline}

\* A repeat of an id in the batch is skipped, so the batch is a set.
CheckInMany(o, ids) ==
    /\ Cardinality(ids) <= MAX_BATCH
    /\ Refreshable(o, ids) # {}
    /\ vault' = [k \in Keys |->
                    IF k[1] = o /\ k[2] \in Refreshable(o, ids)
                    THEN ResetClock(vault[k])
                    ELSE vault[k]]
    /\ OwnVaultOnly

\* Arms, re-arms or (NoValue, 0) disarms the chain, on a new epoch each time.
SetCheckInChain(k, anchor, count) ==
    /\ (anchor = NoValue) <=> (count = 0)
    /\ count <= MAX_HB_COUNT
    /\ Live(k)
    /\ ~HorizonReached(k)
    /\ vault[k].hbEpoch < MaxEpoch
    /\ Becomes(k, ResetClock(ClearPending([vault[k] EXCEPT
          !.hbEpoch = @ + 1, !.hbAnchor = anchor, !.hbLeft = count])))
    /\ OwnVaultOnly

\* Variation: the epoch compared is the one before the installation.
SetCheckInChainFor_OldEpoch(k, anchor, count, expectedEpoch) ==
    /\ vault[k].hbEpoch = expectedEpoch
    /\ SetCheckInChain(k, anchor, count)

\* The overload that names the epoch the chain was built for.
SetCheckInChainFor(k, anchor, count, expectedEpoch) ==
    /\ vault[k].hbEpoch + 1 = expectedEpoch
    /\ SetCheckInChain(k, anchor, count)

\* Permissionless: possession of the preimage is the authentication.
CheckInByChain(k, preimage) ==
    /\ Active(k)
    /\ vault[k].hbAnchor # NoValue
    /\ vault[k].hbLeft > 0
    /\ ~HorizonReached(k)
    /\ vault[k].deadline < vault[k].absoluteDeadline
    /\ NextDeadline(vault[k]) > vault[k].deadline
    /\ preimage \notin {NoValue, vault[k].hbAnchor}
    /\ hbStep(k, vault[k].hbEpoch, preimage) = vault[k].hbAnchor
    /\ Becomes(k, ResetClock([vault[k] EXCEPT !.hbAnchor = preimage, !.hbLeft = @ - 1]))
    /\ OwnVaultOnly

-----------------------------------------------------------------------------
(* The owner's actions. *)

\* Taking everything closes the vault, and with it any claim.  Taking a part
\* is a sign of life that ends a claim, but not once the horizon is reached:
\* there the claim goes on.
Withdraw(k, amount, to) ==
    LET taken == ResetClock([vault[k] EXCEPT !.balance = @ - amount]) IN
    /\ to # NoOne
    /\ PayeeAllowed(to)
    /\ Live(k)
    /\ amount \in 1..vault[k].balance
    /\ Release(vault[k].token, to, amount, NoOne, 0)
    /\ \/ /\ amount = vault[k].balance
          /\ LeaveOpen(k, [WithoutClaim(taken) EXCEPT !.state = STATE_CLOSED])
          /\ tally' = [tally EXCEPT !.closed = @ + 1]
       \/ /\ amount < vault[k].balance
          /\ Becomes(k, IF HorizonReached(k) THEN taken ELSE ClearPending(taken))
          /\ UNCHANGED <<openIds, tally>>
    /\ UNCHANGED <<now, feeState, vaultCount, creationPaused>>

\* Variation: naming a new heir leaves a pending claim standing.
SetBeneficiary_KeepsClaim(k, newBeneficiary) ==
    /\ newBeneficiary \notin {NoOne, Self, k[1]}
    /\ Live(k)
    /\ Becomes(k, ResetClock([vault[k] EXCEPT !.beneficiary = newBeneficiary]))
    /\ OwnVaultOnly

SetBeneficiary(k, newBeneficiary) ==
    /\ newBeneficiary \notin {NoOne, Self, k[1]}
    /\ Live(k)
    /\ MayClearPending(k)
    /\ Becomes(k, ResetClock(ClearPending([vault[k] EXCEPT !.beneficiary = newBeneficiary])))
    /\ OwnVaultOnly

\* Variation: a new period does not restart the clock.
SetInactivityPeriod_OldClock(k, newPeriod) ==
    /\ newPeriod \in MIN_INACTIVITY..MAX_INACTIVITY
    /\ Live(k)
    /\ MayClearPending(k)
    /\ Becomes(k, ClearPending([vault[k] EXCEPT !.inactivityPeriod = newPeriod]))
    /\ OwnVaultOnly

SetInactivityPeriod(k, newPeriod) ==
    /\ newPeriod \in MIN_INACTIVITY..MAX_INACTIVITY
    /\ Live(k)
    /\ MayClearPending(k)
    /\ Becomes(k, ResetClock(ClearPending([vault[k] EXCEPT !.inactivityPeriod = newPeriod])))
    /\ OwnVaultOnly

\* Variation: any later horizon will do.
ExtendHorizon_AnyLater(k, newHorizon) ==
    /\ Live(k)
    /\ newHorizon > vault[k].absoluteDeadline
    /\ newHorizon <= now + MAX_HORIZON
    /\ Becomes(k, ResetClock(ClearPending([vault[k] EXCEPT !.absoluteDeadline = newHorizon])))
    /\ OwnVaultOnly

\* The one action that ends a claim past the horizon; the new horizon is at
\* least a full inactivity period away.
ExtendHorizon(k, newHorizon) ==
    /\ Live(k)
    /\ newHorizon > vault[k].absoluteDeadline
    /\ newHorizon >= now + vault[k].inactivityPeriod
    /\ newHorizon <= now + MAX_HORIZON
    /\ Becomes(k, ResetClock(ClearPending([vault[k] EXCEPT !.absoluteDeadline = newHorizon])))
    /\ OwnVaultOnly

-----------------------------------------------------------------------------
(* Claims. *)

\* The fee a claim locks: the rate in force, under the vault's ceiling, or
\* nothing when no recipient is in force.
FeeToLock(v) == IF RecipientInForce THEN Smaller(ClaimFeeBps, v.feeBps) ELSE 0

\* Variation: the recipient is not held to the payout-address rule.
InitiateClaim_AnyPayee(caller, k, to) ==
    /\ to \notin {NoOne, Self}
    /\ Active(k)
    /\ caller = vault[k].beneficiary
    /\ now >= vault[k].deadline
    /\ Becomes(k, [vault[k] EXCEPT
          !.lockedFeeBps = FeeToLock(vault[k]), !.claimRecipient = to,
          !.claimInitiatedAt = now, !.state = STATE_CLAIM_PENDING])
    /\ OwnVaultOnly

InitiateClaim(caller, k, to) ==
    /\ to \notin {NoOne, Self}
    /\ PayeeAllowed(to)
    /\ Active(k)
    /\ caller = vault[k].beneficiary
    /\ now >= vault[k].deadline
    /\ vault[k].balance > 0
    /\ Becomes(k, [vault[k] EXCEPT
          !.lockedFeeBps = FeeToLock(vault[k]),
          !.claimRecipient = to,
          !.claimInitiatedAt = now,
          !.state = STATE_CLAIM_PENDING])
    /\ OwnVaultOnly

BeneficiaryCancelClaim(caller, k) ==
    /\ Pending(k)
    /\ caller = vault[k].beneficiary
    /\ Becomes(k, WithoutClaim(vault[k]))
    /\ OwnVaultOnly

\* Variation: the veto stays open past the horizon.
AbortClaim_Always(k) ==
    /\ Pending(k)
    /\ Becomes(k, ResetClock(WithoutClaim(vault[k])))
    /\ OwnVaultOnly

\* The owner's veto.
AbortClaim(k) ==
    /\ Pending(k)
    /\ ~HorizonReached(k)
    /\ Becomes(k, ResetClock(WithoutClaim(vault[k])))
    /\ OwnVaultOnly

\* Variation: the lock of the claim is not consulted.
SettlementFee_NoLock(v) ==
    IF RecipientInForce
    THEN (v.balance * Smaller(v.feeBps, ClaimFeeBps)) \div BPS_DENOMINATOR
    ELSE 0

SettlementFee(v) ==
    IF RecipientInForce
    THEN (v.balance * Smaller(v.lockedFeeBps, ClaimFeeBps)) \div BPS_DENOMINATOR
    ELSE 0

\* Variation: the window is counted from the deadline.
FinalizeClaim_FromDeadline(k) ==
    LET v == vault[k] fee == SettlementFee(v) IN
    /\ Pending(k)
    /\ now >= v.deadline + v.challengeWindow
    /\ Release(v.token, v.claimRecipient, v.balance - fee, feeRecipient, fee)
    /\ LeaveOpen(k, [v EXCEPT !.balance = 0, !.state = STATE_SETTLED])
    /\ tally' = [tally EXCEPT !.settled = @ + 1]
    /\ UNCHANGED <<now, feeState, vaultCount, creationPaused>>

\* Permissionless.  The claim's fields stay as they were, as in the code.
FinalizeClaim(k) ==
    LET v == vault[k]
        fee == SettlementFee(v)
    IN  /\ Pending(k)
        /\ now >= v.claimInitiatedAt + v.challengeWindow
        /\ Release(v.token, v.claimRecipient, v.balance - fee, feeRecipient, fee)
        /\ LeaveOpen(k, [v EXCEPT !.balance = 0, !.state = STATE_SETTLED])
        /\ tally' = [tally EXCEPT !.settled = @ + 1]
        /\ UNCHANGED <<now, feeState, vaultCount, creationPaused>>

\* onlyOwner.
SetCreationPaused(paused) ==
    /\ creationPaused' = paused
    /\ UNCHANGED <<now, feeState, lanes, vault, vaultCount, openIds, tally>>

-----------------------------------------------------------------------------
(* Who may do what. *)

Arrivals(amount) == 1..amount \cup {amount + g : g \in Gifts}

CreationStep(o) ==
    \E t \in Tokens, amount \in Deposits, beneficiary \in Heirs,
       period \in MIN_INACTIVITY..MAX_INACTIVITY,
       window \in MIN_CHALLENGE..MAX_CHALLENGE, horizon \in Dates :
          \E arrived \in Arrivals(amount) :
              CreateVault(o, t, amount, arrived, beneficiary, period, window, horizon)

\* What the owner's automation (a keeper holding the owner's key) calls on its
\* own: the check-ins and the veto.
AutomatedStep(k) == CheckIn(k) \/ AbortClaim(k)

\* What only the owner in person decides.
DeliberateStep(k) ==
    \/ \E anchor \in Links \cup {NoValue}, count \in 0..MAX_HB_COUNT :
          \/ SetCheckInChain(k, anchor, count)
          \/ \E epoch \in 1..MaxEpoch : SetCheckInChainFor(k, anchor, count, epoch)
    \/ \E to \in Recipients : \E amount \in 1..vault[k].balance : Withdraw(k, amount, to)
    \/ \E newBeneficiary \in Heirs : SetBeneficiary(k, newBeneficiary)
    \/ \E newPeriod \in MIN_INACTIVITY..MAX_INACTIVITY : SetInactivityPeriod(k, newPeriod)
    \/ \E newHorizon \in Dates : ExtendHorizon(k, newHorizon)

OwnerStep(k) == AutomatedStep(k) \/ DeliberateStep(k)

BatchStep(o) == \E ids \in SUBSET VaultIds : CheckInMany(o, ids)

ChainStep(k) == \E preimage \in Links \cup {NoValue} : CheckInByChain(k, preimage)

HeirStep(caller, k) ==
    \/ \E to \in Recipients : InitiateClaim(caller, k, to)
    \/ BeneficiaryCancelClaim(caller, k)

TopUpStep(k) ==
    \E amount \in Deposits : \E arrived \in Arrivals(amount) : TopUp(k, amount, arrived)

AdminStep ==
    \/ /\ \/ \E newBps \in FeeInputs : SetClaimFee(newBps)
          \/ \E newRecipient \in FeeRecipients : SetFeeRecipient(newRecipient)
       /\ UNCHANGED <<lanes, vaultState>>
    \/ \E paused \in BOOLEAN : SetCreationPaused(paused)
    \/ SweepAction /\ UNCHANGED <<feeState, vaultState>>

\* Calls and events that need no standing at all.
AnyoneStep ==
    \/ \E k \in Keys : FinalizeClaim(k)
    \/ \E k \in Keys : TopUpStep(k)
    \/ ApplyClaimFee /\ UNCHANGED <<lanes, vaultState>>
    \/ GiftAction /\ UNCHANGED <<feeState, vaultState>>

PayoutStep == CreditAction /\ UNCHANGED <<feeState, vaultState>>

TickStep == Tick /\ UNCHANGED <<feeState, lanes, vaultState>>

Init ==
    /\ FeeInit
    /\ LaneInit
    /\ vault = [k \in Keys |-> NoVault]
    /\ vaultCount = [o \in Owners |-> 0]
    /\ openIds = [o \in Owners |-> <<>>]
    /\ creationPaused = FALSE
    /\ tally = [created |-> 0, settled |-> 0, closed |-> 0]

Next ==
    \/ TickStep
    \/ \E o \in Owners : CreationStep(o) \/ BatchStep(o)
    \/ \E k \in Keys : OwnerStep(k) \/ ChainStep(k)
    \/ \E caller \in Heirs, k \in Keys : HeirStep(caller, k)
    \/ AdminStep
    \/ AnyoneStep
    \/ PayoutStep

Spec == Init /\ [][Next]_vars

-----------------------------------------------------------------------------
(* Properties. *)

VaultRecords == [
    state : {STATE_NONE, STATE_ACTIVE, STATE_CLAIM_PENDING, STATE_SETTLED, STATE_CLOSED},
    openIndex : 0..MAX_OPEN_VAULTS, feeBps : 0..MAX_CLAIM_FEE_BPS,
    beneficiary : AnyAddress, deadline : Nat, inactivityPeriod : Nat,
    token : Tokens, absoluteDeadline : Nat, challengeWindow : Nat,
    balance : Nat, claimInitiatedAt : Nat, claimRecipient : AnyAddress,
    lockedFeeBps : 0..MAX_CLAIM_FEE_BPS, hbAnchor : Links \cup {NoValue},
    hbLeft : Nat, hbEpoch : Nat]

\* Types of the vaults' state; the parts of the state that FeeSchedule and
\* CreditLane declare have type invariants of their own.
TypeOK ==
    /\ FeeTypeOK
    /\ LaneTypeOK
    /\ vault \in [Keys -> VaultRecords]
    /\ vaultCount \in [Owners -> 0..MaxVaults]
    /\ openIds \in [Owners -> Seq(VaultIds)]
    /\ creationPaused \in BOOLEAN
    /\ tally \in [created : Nat, settled : Nat, closed : Nat]

\* The clock promise that _nextDeadline states: whatever was done to a live
\* vault's period and horizon, its deadline is never later than a check-in
\* now would put it, so an owner's action can only postpone the claim, and no
\* deadline lies past the horizon.
DeadlineWithinReach ==
    \A k \in Keys : Live(k) => vault[k].deadline <= NextDeadline(vault[k])

\* A claim stands only on a lapsed deadline.  Whoever moves the deadline into
\* the future (any owner's action) has ended the claim, and who cannot end it
\* (a top-up, a chain value, a partial withdrawal past the horizon) has not
\* moved it.
PendingStaysExpired ==
    \A k \in Keys : Pending(k) => now >= vault[k].deadline

\* A claim's fields exist exactly while it is pending, so a new claim can
\* never inherit the start of an old one and be settled without a window of
\* its own, or to the recipient of the claim that was vetoed.
ClaimFieldsMatchState ==
    \A k \in Keys :
        /\ Pending(k) => /\ vault[k].claimInitiatedAt \in 1..now
                         /\ vault[k].claimRecipient \in Accounts
                         /\ vault[k].lockedFeeBps <= vault[k].feeBps
        /\ Active(k) => /\ vault[k].claimInitiatedAt = 0
                        /\ vault[k].claimRecipient = NoOne

\* "A live vault never holds 0", and a vault that is settled or closed holds
\* nothing: no value is left outside every exit.
OnlyLiveVaultsHoldValue ==
    \A k \in Keys : vault[k].balance > 0 <=> Live(k)

\* The open list of an owner names each of the owner's live vaults once and
\* nothing else, within its cap, and every vault on it knows its own slot.
OpenListExact ==
    \A o \in Owners :
        LET ids == openIds[o] IN
        /\ Len(ids) <= MAX_OPEN_VAULTS
        /\ \A i \in 1..Len(ids) : /\ Live(<<o, ids[i]>>)
                                  /\ vault[<<o, ids[i]>>].openIndex = i - 1
        /\ \A id \in VaultIds :
              Live(<<o, id>>) => \E i \in 1..Len(ids) : ids[i] = id

\* The veto cannot be looped.  Whatever the owner does that leaves the vault
\* open and ends a claim puts the deadline back into the future, so the heir
\* waits for a new silence and not for one block; and past the horizon it puts
\* it a full inactivity period ahead, which only a new horizon can do.
DisplacedClaimCoolsDown ==
    [][\A k \in Keys :
          (Pending(k) /\ OwnerStep(k) /\ vault'[k].state = STATE_ACTIVE) =>
              /\ vault'[k].deadline > now
              /\ HorizonReached(k) => vault'[k].deadline = now + vault[k].inactivityPeriod]_vars

\* Custody is CreditLane's: every function of the contract, whatever it does to
\* a vault, takes one of the steps of that specification on the lanes, or none.
CustodyImplemented == LaneSpec

\* An armed chain whose every link was built for this vault and installation
\* can be used: installed with the epoch it was built for, the link below its
\* anchor is accepted.  (Installed at any other epoch it is dead from the
\* start, which is what naming the epoch is for.)
NamedEpochInstallsLiveChainStep ==
    \A k \in Keys, epoch \in 1..MaxEpoch, j \in 1..MAX_HB_COUNT, count \in 1..MAX_HB_COUNT :
       SetCheckInChainFor(k, <<k, epoch, j>>, count, epoch)
           => hbStep(k, vault'[k].hbEpoch, <<k, epoch, j - 1>>) = vault'[k].hbAnchor

\* Nobody shortens the time an owner has to object: while a claim is pending
\* its start, its window and the fee it locked never change, and neither does
\* its recipient or, except by leaving with the claim, the heir.
PendingClaimIsFrozen ==
    [][\A k \in Keys :
          (Pending(k) /\ vault'[k].state = STATE_CLAIM_PENDING) =>
              /\ vault'[k].claimInitiatedAt = vault[k].claimInitiatedAt
              /\ vault'[k].challengeWindow = vault[k].challengeWindow
              /\ vault'[k].claimRecipient = vault[k].claimRecipient
              /\ vault'[k].lockedFeeBps = vault[k].lockedFeeBps
              /\ vault'[k].beneficiary = vault[k].beneficiary
              /\ vault'[k].balance <= vault[k].balance]_vars
=============================================================================
