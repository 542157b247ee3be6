----------------------------- MODULE VaultHistory -----------------------------
(***************************************************************************)
(* InheritanceVault with history: what the parties did and were told, which *)
(* the contract does not store.  The history variables only watch.         *)
(***************************************************************************)
EXTENDS InheritanceVault

VARIABLES
    lastSign,     \* when the vault's owner last gave a sign of life on it
    claimant,     \* who started the claim
    ratePromised, \* claimFeeBps() when the vault was created
    rateQuoted,   \* the charge in force when the claim was started
    spent         \* chain links that were accepted, on any vault

history == <<lastSign, claimant, ratePromised, rateQuoted, spent>>
historyVars == <<vars, history>>

HistoryInit ==
    /\ Init
    /\ lastSign = [k \in Keys |-> 0]
    /\ claimant = [k \in Keys |-> NoOne]
    /\ ratePromised = [k \in Keys |-> 0]
    /\ rateQuoted = [k \in Keys |-> 0]
    /\ spent = {}

SignOfLife(signed) ==
    lastSign' = [k \in Keys |-> IF k \in signed THEN now ELSE lastSign[k]]

\* The owner creates a vault, and reads the fee.
HistoryCreation(o) ==
    /\ CreationStep(o)
    /\ SignOfLife({<<o, vaultCount[o]>>})
    /\ ratePromised' = [ratePromised EXCEPT ![<<o, vaultCount[o]>>] = ClaimFeeBps]
    /\ UNCHANGED <<claimant, rateQuoted, spent>>

\* A batch is a sign of life on the vaults it refreshes.  On one it skips it
\* is none: a pending claim does not end by a check-in.
HistoryBatch(o) ==
    /\ BatchStep(o)
    /\ SignOfLife({k \in Keys : vault'[k] # vault[k]})
    /\ UNCHANGED <<claimant, ratePromised, rateQuoted, spent>>

HistoryOwner(k) ==
    /\ OwnerStep(k)
    /\ SignOfLife({k})
    /\ UNCHANGED <<claimant, ratePromised, rateQuoted, spent>>

HistoryChain(k, preimage) ==
    /\ CheckInByChain(k, preimage)
    /\ SignOfLife({k})
    /\ spent' = spent \cup {preimage}
    /\ UNCHANGED <<claimant, ratePromised, rateQuoted>>

HistoryClaim(caller, k, to) ==
    /\ InitiateClaim(caller, k, to)
    /\ claimant' = [claimant EXCEPT ![k] = caller]
    /\ rateQuoted' = [rateQuoted EXCEPT ![k] = ChargeAt(now)]
    /\ UNCHANGED <<lastSign, ratePromised, spent>>

\* Everything else is nothing the owner of a vault or its heir did.
Bystanders ==
    \/ TickStep
    \/ \E caller \in Heirs, k \in Keys : BeneficiaryCancelClaim(caller, k)
    \/ AdminStep
    \/ AnyoneStep
    \/ PayoutStep

HistoryNext ==
    \/ \E o \in Owners : HistoryCreation(o) \/ HistoryBatch(o)
    \/ \E k \in Keys : HistoryOwner(k)
    \/ \E k \in Keys, preimage \in Links : HistoryChain(k, preimage)
    \/ \E caller \in Heirs, k \in Keys, to \in Recipients : HistoryClaim(caller, k, to)
    \/ Bystanders /\ UNCHANGED history

HistorySpec == HistoryInit /\ [][HistoryNext]_historyVars

-----------------------------------------------------------------------------
(* Properties. *)

\* The deadline of a live vault is one inactivity period after its owner's
\* last sign of life, cut off at the horizon - the period and the horizon as
\* they are now.  So nothing a stranger, an heir or the administrator does
\* moves it, and every sign of life counts in full.
DeadlineFollowsSignsOfLife ==
    \A k \in Keys : Live(k) =>
        vault[k].deadline =
            Smaller(lastSign[k] + vault[k].inactivityPeriod, vault[k].absoluteDeadline)

\* Before the horizon an estate passes only after the owner was silent for a
\* whole inactivity period and then for the whole challenge window; past it,
\* still only after the claim has stood for its window.
SettledOnlyAfterSilence ==
    [][\A k \in Keys :
          (Pending(k) /\ vault'[k].state = STATE_SETTLED) =>
              /\ now >= vault[k].claimInitiatedAt + vault[k].challengeWindow
              /\ ~HorizonReached(k) =>
                    now >= lastSign[k] + vault[k].inactivityPeriod + vault[k].challengeWindow]_historyVars

\* A claim is the named heir's own: naming another heir ends the claim of the
\* one before, and past the horizon, where it could not end it, is refused.
ClaimantIsHeir ==
    \A k \in Keys : Pending(k) => claimant[k] = vault[k].beneficiary

\* "Each value works once", on every vault and over every re-installation of
\* a chain, one built from the same seed and epoch included.
NoLinkWorksTwiceStep ==
    \A k \in Keys, preimage \in Links :
       CheckInByChain(k, preimage) => preimage \notin spent

\* A settlement takes no more than every rate somebody was told: the one in
\* force when the vault was created, the one when the claim was started, and
\* the one in force now; the rest is credited to the recipient of the claim.
SettlementHonoursQuotes ==
    [][\A k \in Keys :
          (Pending(k) /\ vault'[k].state = STATE_SETTLED) =>
              LET v == vault[k]
                  rate == Smaller(ratePromised[k], Smaller(rateQuoted[k], ChargeAt(now)))
              IN  credits'[v.token][v.claimRecipient] - credits[v.token][v.claimRecipient]
                      >= v.balance - (v.balance * rate) \div BPS_DENOMINATOR]_historyVars
=============================================================================
