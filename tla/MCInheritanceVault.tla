-------------------------- MODULE MCInheritanceVault --------------------------
(***************************************************************************)
(* InheritanceVault with the sum that needs a fold over the vaults, and    *)
(* the mapping under which every vault is a dead man's switch.  Value,     *)
(* fees, chains, the open list, the clock of the other vaults: a step that *)
(* is about those is a stutter of the switch.                              *)
(***************************************************************************)
EXTENDS InheritanceVault, Functions

CONSTANTS WatchedOwner, WatchedId   \* the vault looked at: any of them

ASSUME WatchedAssumption == WatchedOwner \in Owners /\ WatchedId \in VaultIds

\* The locked total of an asset is exactly the sum of the balances of the
\* vaults in it, over every order of deposits, withdrawals and settlements.
LockedAddsUp ==
    \A t \in Tokens :
        totalLocked[t] =
            SumFunctionOnSet([k \in Keys |-> vault[k].balance],
                             {k \in Keys : vault[k].token = t})

-----------------------------------------------------------------------------
(* The abstract specification. *)

Watched == <<WatchedOwner, WatchedId>>

Phase(state) ==
    CASE state = STATE_NONE -> "none"
      [] state = STATE_ACTIVE -> "active"
      [] state = STATE_CLAIM_PENDING -> "claimed"
      [] state = STATE_SETTLED -> "settled"
      [] state = STATE_CLOSED -> "closed"

\* What of a vault the switch keeps.
SwitchOf(v) == [
    phase |-> Phase(v.state), heir |-> v.beneficiary, deadline |-> v.deadline,
    period |-> v.inactivityPeriod, horizon |-> v.absoluteDeadline,
    window |-> v.challengeWindow, claimedAt |-> v.claimInitiatedAt,
    payee |-> v.claimRecipient]

Switch == INSTANCE DeadMansSwitch WITH
    switch <- SwitchOf(vault[Watched]),
    Persons <- AnyAddress \ {NoOne},
    Nobody <- NoOne,
    MinPeriod <- MIN_INACTIVITY, MaxPeriod <- MAX_INACTIVITY,
    MinWindow <- MIN_CHALLENGE, MaxWindow <- MAX_CHALLENGE,
    MaxHorizon <- MAX_HORIZON

\* Whatever order the owner, the heir, third parties and the administrator act
\* in, the vault starts as an unarmed switch and every call that changes it is
\* one of the switch's steps, under that step's own condition.
VaultIsASwitch == Switch!SwitchSpec
=============================================================================
