------------------------------ MODULE ManyVaults ------------------------------
(***************************************************************************)
(* What takes several vaults of one owner: check-in chains whose links are *)
(* offered to every vault (VaultHistory, with this module's constants), or *)
(* more vaults that come and go on the open list, without chains.          *)
(***************************************************************************)
EXTENDS VaultHistory

CONSTANTS MaxListed, MaxListedOpen   \* the vaults of the second, and how many are open at once

ASSUME ManyAssumption == MaxListed \in Nat /\ MaxListedOpen \in Nat

VARIABLE part   \* "chains" or "list": which of the two a behaviour follows

manyVars == <<part, historyVars>>

List == INSTANCE InheritanceVault WITH
    MaxVaults <- MaxListed, MAX_OPEN_VAULTS <- MaxListedOpen, MaxHeld <- MaxListedOpen,
    MAX_HORIZON <- MIN_INACTIVITY, PUSH_GRACE <- 1, MaxEpoch <- 0, MAX_HB_COUNT <- 0,
    Recipients <- Heirs

ManyInit ==
    \/ part = "chains" /\ HistoryInit
    \/ part = "list" /\ List!Init
          /\ lastSign = <<>> /\ claimant = <<>> /\ ratePromised = <<>> /\ rateQuoted = <<>>
          /\ spent = {}

ManyNext ==
    \/ part = "chains" /\ HistoryNext /\ UNCHANGED part
    \/ part = "list" /\ List!Next /\ UNCHANGED <<part, history>>

ManySpec == ManyInit /\ [][ManyNext]_manyVars

-----------------------------------------------------------------------------
(* Properties: VaultHistory and InheritanceVault say what each is about.    *)

\* Whatever strangers, heirs and the administrator do, a live vault's deadline
\* is one period after its owner's last sign of life, cut off at the horizon.
DeadlineFollows == part = "chains" => DeadlineFollowsSignsOfLife

\* "Each value works once", on every vault and over every re-installation of
\* a chain, one built from the same seed and epoch included.
NoLinkWorksTwice == [][part = "chains" => NoLinkWorksTwiceStep]_manyVars

\* A chain installed with the epoch it was built for is one that works: the
\* link below its anchor is accepted.
NamedEpochInstallsLiveChain ==
    [][part = "chains" => NamedEpochInstallsLiveChainStep]_manyVars

\* The open list of an owner names each of the owner's live vaults once and
\* nothing else, within its cap, and every vault on it knows its own slot.
OpenListStaysExact == IF part = "chains" THEN OpenListExact ELSE List!OpenListExact
=============================================================================
