------------------------------ MODULE CreditLane ------------------------------
(***************************************************************************)
(* The custody of contracts/InheritanceVault.sol, without the vaults: what *)
(* the contract holds of each asset, and the two lanes it owes - Locked    *)
(* (the vaults' balances) and Credited (payouts waiting to be pulled).     *)
(* Deposit and Release are the two steps the vaults take on it; the rest   *)
(* are its own external functions.  LaneSpec on its own is the abstract    *)
(* specification of custody that InheritanceVault is shown to implement.   *)
(***************************************************************************)
EXTENDS BlockClock, Addresses

CONSTANTS
    Contracts,     \* the accounts with code: they act while they are paid in NATIVE
    Tokens,        \* NATIVE and the supported ERC20s
    NATIVE,
    FlakyTokens,   \* listed ERC20s whose balanceOf may fail inside _holdings
    PUSH_GRACE,
    Deposits,      \* amounts createVault and topUp are called with
    Gifts,         \* amounts force-fed, or moved into a _pull on top of its amount
    MaxHeld        \* bound: the most of one asset that ever enters the contract

ASSUME LaneAssumption ==
    /\ Contracts \subseteq Accounts
    /\ NATIVE \in Tokens
    /\ FlakyTokens \subseteq Tokens \ {NATIVE}
    /\ PUSH_GRACE \in Nat
    /\ Deposits \subseteq Nat
    /\ Gifts \subseteq Nat \ {0}
    /\ MaxHeld \in Nat

VARIABLES
    held,           \* the contract's balance of each asset
    totalLocked,
    totalCredited,
    credits,        \* _credits: token => account => amount
    creditedSince   \* token => account => when the push grace started

lanes == <<held, totalLocked, totalCredited, credits, creditedSince>>
laneVars == <<now, lanes>>

Smaller(a, b) == IF a <= b THEN a ELSE b

\* _surplus: what sweepSurplus can reach.
Surplus(t) ==
    IF held[t] > totalLocked[t] + totalCredited[t]
    THEN held[t] - (totalLocked[t] + totalCredited[t])
    ELSE 0

-----------------------------------------------------------------------------
(* Value in. *)

\* Variation: the declared amount is trusted.
Received_Declared(amount, arrived) == amount

\* What _pull records when `arrived` of asset t enters the contract during a
\* deposit that declared `amount`: never more than was declared.
Received(amount, arrived) == Smaller(amount, arrived)

\* _pull.  For NATIVE `arrived` is msg.value and must be the amount declared;
\* an ERC20 delivers what it likes (a fee on transfer, a rebase or a payment
\* landing in the same window), but nothing at all reverts.
Pull(t, amount, arrived) ==
    /\ amount > 0
    /\ IF t = NATIVE THEN arrived = amount ELSE arrived > 0
    /\ held[t] + arrived <= MaxHeld
    /\ held' = [held EXCEPT ![t] = @ + arrived]

Deposit(t, amount, arrived) ==
    /\ Pull(t, amount, arrived)
    /\ totalLocked' = [totalLocked EXCEPT ![t] = @ + Received(amount, arrived)]
    /\ UNCHANGED <<totalCredited, credits, creditedSince>>

\* Value that enters without running any code here: SELFDESTRUCT, a block
\* reward, a plain ERC20 transfer.
ForceFeed(t, amount) ==
    /\ held[t] + amount <= MaxHeld
    /\ held' = [held EXCEPT ![t] = @ + amount]
    /\ UNCHANGED <<now, totalLocked, totalCredited, credits, creditedSince>>

-----------------------------------------------------------------------------
(* From the locked lane to the credited lane. *)

\* Variation: a second credit replaces the first.
OwedAfter_Overwrites(owed, to, amount) == [owed EXCEPT ![to] = amount]

\* Variation: the end of the grace is stored instead of its start.
SinceAfter_StoresEnd(owed, since, to, amount) ==
    IF amount >= owed[to] THEN [since EXCEPT ![to] = now + PUSH_GRACE] ELSE since

\* _credit, on the books of one asset: what is owed, and since when.  The
\* grace starts again when nothing was owed, and when the new credit is at
\* least as large as what was.
OwedAfter(owed, to, amount) == [owed EXCEPT ![to] = @ + amount]

SinceAfter(owed, since, to, amount) ==
    IF amount >= owed[to] THEN [since EXCEPT ![to] = now] ELSE since

\* `amount` of t leaves the locked lane for `to`, and a `fee` that is not zero
\* for feeTo, one _credit after the other: they may be the same account.  The
\* locked total is checked arithmetic, so it never goes below zero.
Release(t, to, amount, feeTo, fee) ==
    LET owed  == OwedAfter(credits[t], to, amount)
        since == SinceAfter(credits[t], creditedSince[t], to, amount)
    IN  /\ amount + fee <= totalLocked[t]
        /\ totalLocked' = [totalLocked EXCEPT ![t] = @ - (amount + fee)]
        /\ totalCredited' = [totalCredited EXCEPT ![t] = @ + amount + fee]
        /\ credits' = [credits EXCEPT ![t] =
                          IF fee = 0 THEN owed ELSE OwedAfter(owed, feeTo, fee)]
        /\ creditedSince' = [creditedSince EXCEPT ![t] =
                          IF fee = 0 THEN since ELSE SinceAfter(owed, since, feeTo, fee)]
        /\ UNCHANGED held

-----------------------------------------------------------------------------
(* Value out. *)

\* Variation: a payout that debits less than the amount stands.
TokenPayout_ShortStands(t, amount) ==
    \E debited \in 0..amount : held' = [held EXCEPT ![t] = @ - debited]

\* An ERC20 payout: the token debits what it debits, and the payout stands
\* only when that is the amount (PayoutOverdebited, PayoutShortfall).
TokenPayout(t, amount) ==
    \E debited \in 0..held[t] :
        /\ ~(debited > amount)
        /\ ~(debited < amount)
        /\ held' = [held EXCEPT ![t] = @ - debited]

\* A native payout.  An address with code acts while it is paid and may send
\* value back, in any asset; the payout stands only when every balance that
\* _holdings could read is what it should be.  A flaky token's read can fail
\* both times, and then hides what came back in that token.
NativePayout(to, amount) ==
    \E back \in [Tokens -> 0..amount] :
        /\ to \notin Contracts => \A u \in Tokens : back[u] = 0
        /\ \A u \in Tokens \ FlakyTokens : back[u] = 0
        /\ \A u \in Tokens : held[u] + back[u] <= MaxHeld
        /\ held' = [u \in Tokens |->
                       held[u] + back[u] - (IF u = NATIVE THEN amount ELSE 0)]

Payout(t, to, amount) ==
    /\ PayeeAllowed(to)
    /\ amount <= held[t]
    /\ IF t = NATIVE THEN NativePayout(to, amount) ELSE TokenPayout(t, amount)

\* Variation: the grace of a credit that was paid in full is not deleted.
PayCredit_KeepsClock(t, account, to, amount) ==
    /\ amount \in 1..credits[t][account]
    /\ amount <= totalCredited[t]
    /\ credits' = [credits EXCEPT ![t][account] = @ - amount]
    /\ totalCredited' = [totalCredited EXCEPT ![t] = @ - amount]
    /\ Payout(t, to, amount)
    /\ UNCHANGED <<now, totalLocked, creditedSince>>

\* _payCredit: the debit, then the payout; a payout that fails undoes both.
PayCredit(t, account, to, amount) ==
    LET owed == credits[t][account] IN
    /\ owed > 0
    /\ amount \in 1..owed
    /\ credits' = [credits EXCEPT ![t][account] = @ - amount]
    /\ creditedSince' = [creditedSince EXCEPT ![t][account] = IF amount = owed THEN 0 ELSE @]
    /\ amount <= totalCredited[t]
    /\ totalCredited' = [totalCredited EXCEPT ![t] = @ - amount]
    /\ Payout(t, to, amount)
    /\ UNCHANGED <<now, totalLocked>>

\* Both overloads: the one without an amount is amount = the whole credit.
WithdrawCredit(t, account, to, amount) ==
    /\ to # NoOne
    /\ PayCredit(t, account, to, amount)

\* Variation: only the account itself may push.
PushCredit_SelfOnly(caller, t, account) ==
    /\ caller = account
    /\ PayCredit(t, account, account, credits[t][account])

\* The whole credit to the account itself: by the account at any time, by
\* anyone else only once the grace is over.
PushCredit(caller, t, account) ==
    /\ caller # account => now >= creditedSince[t][account] + PUSH_GRACE
    /\ PayCredit(t, account, account, credits[t][account])

\* onlyOwner.
SweepSurplus(t, to) ==
    /\ to # NoOne
    /\ Surplus(t) > 0
    /\ Payout(t, to, Surplus(t))
    /\ UNCHANGED <<now, totalLocked, totalCredited, credits, creditedSince>>

-----------------------------------------------------------------------------
LaneInit ==
    /\ ClockInit
    /\ held = [t \in Tokens |-> 0]
    /\ totalLocked = [t \in Tokens |-> 0]
    /\ totalCredited = [t \in Tokens |-> 0]
    /\ credits = [t \in Tokens |-> [a \in Payable |-> 0]]
    /\ creditedSince = [t \in Tokens |-> [a \in Payable |-> 0]]

\* The functions of the contract that touch custody and no vault.
CreditAction ==
    \/ \E t \in Tokens, account \in Accounts, to \in AnyAddress :
          \E amount \in 1..credits[t][account] : WithdrawCredit(t, account, to, amount)
    \/ \E caller \in Accounts, t \in Tokens, account \in Payable :
          PushCredit(caller, t, account)

SweepAction ==
    \E t \in Tokens, to \in AnyAddress : SweepSurplus(t, to)

GiftAction ==
    \E t \in Tokens, amount \in Gifts : ForceFeed(t, amount)

DepositAction ==
    /\ \E t \in Tokens, amount \in Deposits :
          \E arrived \in {amount} \cup 1..(amount - 1) \cup {amount + g : g \in Gifts} :
              Deposit(t, amount, arrived)
    /\ UNCHANGED now

\* A withdrawal credits one account; a settlement one, or two with a fee that
\* is a part of the balance settled.
ReleaseAction ==
    /\ \E t \in Tokens, to \in Accounts, feeTo \in Accounts :
          \E balance \in 1..totalLocked[t] :
              \E fee \in 0..(balance - 1) : Release(t, to, balance - fee, feeTo, fee)
    /\ UNCHANGED now

LaneNext ==
    \/ Tick /\ UNCHANGED lanes
    \/ DepositAction
    \/ ReleaseAction
    \/ CreditAction
    \/ SweepAction
    \/ GiftAction

LaneSpec == LaneInit /\ [][LaneNext]_laneVars

-----------------------------------------------------------------------------
(* Properties. *)

\* Types of the custody state.
LaneTypeOK ==
    /\ ClockTypeOK
    /\ held \in [Tokens -> 0..MaxHeld]
    /\ totalLocked \in [Tokens -> Nat]
    /\ totalCredited \in [Tokens -> Nat]
    /\ credits \in [Tokens -> [Payable -> Nat]]
    /\ creditedSince \in [Tokens -> [Payable -> Times]]

\* Solvency: of every asset the contract holds at least what it owes in the
\* two lanes, whatever the tokens and the payees do while value moves.
LanesBacked ==
    \A t \in Tokens : held[t] >= totalLocked[t] + totalCredited[t]

\* "No credit can ever be recorded for an address the payout rule refuses":
\* such a credit could be neither withdrawn nor pushed.
NoStrandedCredit ==
    \A t \in Tokens, a \in Refused : credits[t][a] = 0

\* creditedSince is "0 when nothing is owed", and a credit that is owed has a
\* start of its grace: without one a stranger could push it at once.
GraceRunsWhileOwed ==
    \A t \in Tokens, a \in Payable : credits[t][a] = 0 <=> creditedSince[t][a] = 0

\* Users' value never turns into surplus, which the administrator may sweep:
\* surplus in an asset grows only in a step in which more of that asset has
\* arrived, and never in a step that pays somebody's credit.  (A flaky token
\* is excluded: see the residual documented at _holdings.)
NoLeakToSurplus ==
    [][\A t \in Tokens \ FlakyTokens :
          Surplus(t)' > Surplus(t) =>
              /\ held'[t] > held[t]
              /\ \A u \in Tokens : totalCredited'[u] >= totalCredited[u]]_laneVars

=============================================================================
