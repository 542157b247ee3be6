------------------------------ MODULE Connection ------------------------------
(***************************************************************************)
(* site/assets/app.js: connecting a wallet and reading the contract's      *)
(* settings.  Every line that awaits the wallet or the chain is a step of  *)
(* its own; the person may change the account or the chain between any two *)
(* of them, and click the button again while an attempt is under way.      *)
(***************************************************************************)
EXTENDS Integers

CONSTANTS
    Accounts, Chains, None,
    Deployed,       \* the chains the page knows with a deployment
    Known,          \* the chains the page knows
    Genuine,        \* where the address it knows holds the code it was built for
    Attempts,       \* bound: attempts to connect, one after the other or at once
    MaxChanges      \* bound: changes of the wallet's account or chain

ConnectionAssumption ==
    Deployed \subseteq Known /\ Known \subseteq Chains /\ Genuine \subseteq Deployed /\ MaxChanges \in Nat

NoneAssumption == None \notin Accounts \cup Chains

VARIABLES
    wallet,     \* the wallet's account and chain, and how often they changed
    S,          \* the page's: account, signer, chain, the chain of its contract, whether it
                \* is ready and the chain its settings were read on
    attempts,   \* how far each attempt to connect is
    listening,  \* a change of account or chain reloads the page
    changed,    \* there was one since
    banner,     \* what the network banner says
    cards       \* the owner's vaults are on the page

connVars == <<wallet, S, attempts, listening, changed, banner, cards>>

Fresh == [account |-> None, signer |-> None, chain |-> None, contract |-> None, ready |-> FALSE, read |-> None]

-----------------------------------------------------------------------------
(* connect *)

\* The deployment in a chain's configuration, unless that holds placeholders.
deployment(chain) == IF chain \in Deployed THEN chain ELSE None

Moves(a, stage) == attempts' = [attempts EXCEPT ![a] = stage]

Begin(a) == Moves(a, "accounts") /\ UNCHANGED <<wallet, S, listening, changed, banner, cards>>

\* The button, or a page loaded by who is connected already.
Click(a) == attempts[a] = "idle" /\ Begin(a)

\* The request for accounts is answered, or declined.
AccountsAnswered(a) ==
    /\ attempts[a] = "accounts"
    /\ \/ S' = [S EXCEPT !.account = wallet.account] /\ Moves(a, "network")
       \/ Moves(a, "idle") /\ UNCHANGED S
    /\ UNCHANGED <<wallet, listening, changed, banner, cards>>

NetworkAnswered(a) ==
    /\ attempts[a] = "network"
    /\ S' = [S EXCEPT !.chain = wallet.chain]
    /\ Moves(a, "signer")
    /\ UNCHANGED <<wallet, listening, changed, banner, cards>>

\* From here on a change reloads the page.  A chain without a deployment ends
\* the attempt.
SignerAnswered(a) ==
    /\ attempts[a] = "signer"
    /\ listening' = TRUE
    /\ IF deployment(S.chain) = None
       THEN /\ S' = [S EXCEPT !.signer = wallet.account]
            /\ Moves(a, "idle")
            /\ banner' = IF S.chain \in Known THEN "notDeployed" ELSE "switch"
       ELSE /\ S' = [S EXCEPT !.signer = wallet.account, !.contract = deployment(S.chain)]
            /\ Moves(a, "code")
            /\ UNCHANGED banner
    /\ UNCHANGED <<wallet, changed, cards>>

\* loadConfig.  The wallet answers of the chain it is on.
SettingsUnread(a) ==
    /\ S' = [S EXCEPT !.ready = FALSE]
    /\ banner' = "retry"
    /\ Moves(a, "failed")

CodeAnswered(a) ==
    /\ attempts[a] = "code"
    /\ IF wallet.chain = S.contract /\ wallet.chain \in Genuine
       THEN Moves(a, "settings") /\ UNCHANGED <<S, banner>>
       ELSE SettingsUnread(a)
    /\ UNCHANGED <<wallet, listening, changed, cards>>

\* Tokens, pause, constants: read from the contract on the wallet's chain.
SettingsAnswered(a) ==
    /\ attempts[a] = "settings" /\ wallet.chain = S.contract
    /\ S' = [S EXCEPT !.ready = TRUE, !.read = wallet.chain]
    /\ banner' = "hidden"
    /\ Moves(a, "vaults")
    /\ UNCHANGED <<wallet, listening, changed, cards>>

ReadFails(a) ==
    /\ attempts[a] \in {"code", "settings"}
    /\ SettingsUnread(a)
    /\ UNCHANGED <<wallet, listening, changed, cards>>

\* "Try again" of the settings, and of the vaults: a read that fails is offered
\* once more.
TryAgain(a) ==
    /\ attempts[a] = "failed"
    /\ Moves(a, "code")
    /\ UNCHANGED <<wallet, S, listening, changed, banner, cards>>

VaultsAnswered(a) ==
    /\ attempts[a] = "vaults"
    /\ \/ cards' = S.ready /\ Moves(a, "idle")
       \/ UNCHANGED <<cards, attempts>>
    /\ UNCHANGED <<wallet, S, listening, changed, banner>>

-----------------------------------------------------------------------------
(* switchChain, and the person. *)

WalletChanges(account, chain) ==
    /\ wallet.changes < MaxChanges
    /\ wallet' = [account |-> account, chain |-> chain, changes |-> wallet.changes + 1]
    /\ changed' = (changed \/ listening)

ChangeWallet ==
    /\ \E account \in Accounts, chain \in Chains :
          /\ <<account, chain>> # <<wallet.account, wallet.chain>>
          /\ WalletChanges(account, chain)
    /\ UNCHANGED <<S, attempts, listening, banner, cards>>

\* The wallet is asked to switch.  It does and the banner says so; or it does
\* not know the chain, is asked to add it and then does; or it is declined.
SwitchChain ==
    /\ banner \in {"switch", "declined"}
    /\ \/ \E chain \in Deployed :
             /\ chain # wallet.chain
             /\ WalletChanges(wallet.account, chain)
             /\ banner' = "switching"
       \/ banner' = "declined" /\ UNCHANGED <<wallet, changed>>
    /\ UNCHANGED <<S, attempts, listening, cards>>

Reload ==
    /\ changed
    /\ S' = Fresh
    /\ attempts' = [a \in Attempts |-> "idle"]
    /\ listening' = FALSE /\ changed' = FALSE
    /\ banner' = "hidden" /\ cards' = FALSE
    /\ UNCHANGED wallet

Init ==
    /\ wallet \in [account : Accounts, chain : Chains, changes : {0}]
    /\ S = Fresh
    /\ attempts = [a \in Attempts |-> "idle"]
    /\ listening = FALSE /\ changed = FALSE
    /\ banner = "hidden" /\ cards = FALSE

Next ==
    \/ \E a \in Attempts :
          \/ Click(a) \/ AccountsAnswered(a) \/ NetworkAnswered(a) \/ SignerAnswered(a)
          \/ CodeAnswered(a) \/ SettingsAnswered(a) \/ ReadFails(a) \/ TryAgain(a) \/ VaultsAnswered(a)
    \/ ChangeWallet \/ SwitchChain \/ Reload

Spec == Init /\ [][Next]_connVars

-----------------------------------------------------------------------------
(* Properties. *)

\* Types; cards are drawn only of a page that was ready once.
ConnectionTypeOK ==
    /\ S.account \in Accounts \cup {None} /\ S.chain \in Chains \cup {None}
    /\ attempts \in [Attempts -> {"idle", "accounts", "network", "signer", "code", "settings", "failed", "vaults"}]
    /\ banner \in {"hidden", "switch", "declined", "switching", "notDeployed", "retry"}
    /\ changed => listening
    /\ cards => S.read # None

\* A page that is ready shows the settings of a contract whose code is the one
\* it was built for, on the chain the wallet is on and the page thinks it is
\* on, unless it is about to be loaded again.  No other attempt, one for
\* another chain or one that fails half-way, undoes that.
ReadyMeansVerified ==
    (S.ready /\ ~changed) =>
        S.read \in Genuine /\ S.read = S.contract /\ S.read = S.chain /\ S.read = wallet.chain
=============================================================================
