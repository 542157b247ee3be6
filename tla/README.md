# A verification project for the inheritance vault

An owner locks value in a vault for an heir. While the owner keeps showing up the vault's deadline
moves, but never past a horizon the owner has chosen. Once the deadline lapses the heir may start a
claim; the owner has a challenge window in which to object; after it anyone may settle the claim.
What is paid out is first recorded as a credit and then withdrawn by its account, or pushed to it by
anyone after a grace period.

The core of the repository is `contracts/InheritanceVault.sol`. Around it are a web page
(`site/assets/app.js`), a program that mails reminders (`notify/watcher.js`), and scripts that
deploy, hand over, launch and test the system. This directory models them in TLA+, checks the models
with TLC on small instances, and proves with TLAPS, for every value of the constants, what matters most
about the contract, the page's transactions, the watcher and the programs beside them.

## 1. The system and its models

| Component | State | Operations | Modules |
|---|---|---|---|
| Claim fee schedule (`InheritanceVault.sol`) | recorded rate, one pending raise and its date, fee recipient and the date from which it counts | `setClaimFee`, `applyClaimFee`, `setFeeRecipient`, `claimFeeBps` | `FeeSchedule` |
| Custody and credit lane (same file) | per asset: what the contract holds, the locked and the credited total; per asset and account: the credit and the start of its grace | `_pull`, `_credit`, `_payCredit`, `_payout`, both `withdrawCredit`, `pushCredit`, `sweepSurplus`; value that arrives without a call | `CreditLane` |
| Vault lifecycle and claims (same file) | the vault records, the count and open list of each owner, `creationPaused`, three tallies | every external function that touches a vault | `InheritanceVault`, `VaultHistory`, `ManyVaults`, `MCInheritanceVault`; abstract: `SwitchRules`, `DeadMansSwitch` |
| Check-in chains (same file, `scripts/checkin-chain.ts`) | per vault: anchor, declared length, epoch | both `setCheckInChain`, `checkInByChain`; the generator of links | `InheritanceVault`, `ManyVaults`, `ChainKeeper` |
| Administration (`scripts/transfer-admin.ts`) | owner and pending owner of two contracts, the fee recipient, the key's pending transactions | the hand-over, in runs that overlap or stop with a transaction pending | `AdminHandover` |
| Watcher (`notify/watcher.js`) | sent keys, failure counts, vaults seen and log cursor in one state file | one run: read, queue, deliver, commit, save | `ReminderRules`, `Watcher` |
| Notification scenario (`scripts/notify-scenario.ts`) | a scripted vault and expected mails | one day after the other | none: it cannot run on this contract (section 4) |
| Web application (`site/assets/app.js`) | what was read, panels and reviews, transactions under way, searches | read, review, re-read, sign, watch | `FeeQuote`, `PageTx`, `TxLine`, `OwnerDesk`, `HeirDesk`, `CheckInAll`, `KnownHeirs`, `CreateForm`, `Connection`, `HeirSearch`, `PayoutDesk`, `VaultWords`, `TypedEntry` |
| Deployment and launch (`deploy.ts`, `set-launch-values.js`, `close-vault.ts`, `smoke.ts`) | deployment records, files of the site | deploy and read back, replace values in all files or none, owner's chores | `Deployment`, `LaunchValues`, `OwnerScripts` |
| Lifecycle test (`scripts/lifecycle.ts`) | a state file of signed transactions and done steps | a runner that may be killed anywhere | `LifecycleScenario`, `LifecycleRunner`, `LifecycleSetup`, `ChainReader` |
| End-to-end tests (`e2e/`) | snapshots, a page, a wallet | build the world, run each scenario from it, clean up | `EndToEnd` |

`Addresses` and `BlockClock` are what the contract modules share. `Money`, `ManyVaults`, `Site`,
`Operations` and `Progress` compose modules for a run.

How the parts interact. The page and the watcher poll the contract's views through an RPC node and
never share memory with it: what they know is a block or more old, each read may come from another
replica, and a transaction they send may be mined, replaced, lost or reverted while they look away.
The contract's functions call tokens and payees in the middle of a payout. The scripts keep their
progress in files and can be killed between any two of their steps.

What is hard here:

* **Many actors, no schedule.** Owner, the owner's keeper, heir, a replaced heir, holders of chain
  links, the administrator, strangers and time act in any order, each in one transaction.
* **The veto against the heir.** Before the horizon an owner's action ends a claim; past it the clock
  is clamped, so the same action could be repeated for ever. Three functions carry three rules for it.
* **Deadlines in several fields** that change independently, and a **swap-and-pop** list whose index
  is kept in each vault.
* **Foreign code in the middle of a payout**: wrong amounts, value sent back.
* **Rates that change around a settlement**, and a page that quotes them from an older block.
* **What was read is stale when it is used**: reviews, re-reads, answers that arrive out of order.
* **Kills, lost answers, lagging replicas, retries**: watcher, runner, deployment, launch.

`PROJECT.json` lists each hazard at its line with the properties that would catch it.

### Correspondence with the code, and what is abstracted

*The contract.* One action per external function, with the function's checks as guards, in the
code's vocabulary (`ResetClock`, `ClearPending`, `LeaveOpen` for `_removeFromOpen`). A call that
reverts is no step. Every function that changes a vault or a lane is `nonReentrant`, so what a token or
a payee does in the middle is folded into the step: the amount that arrives or is debited, and what
is sent back, are chosen by the environment. The fee setters and the pause are not `nonReentrant`; they
touch only state that no payout reads. A vault record has every field of the struct but `owner` (it is
the key), `createdAt` (nothing reads it) and the widths: periods and dates are far inside `uint64`,
and balances are cast with `toUint128`, which reverts. A token delivers any positive amount up to the
one asked, or more when something else lands in the same window. A token in `FlakyTokens` may hide
what came back, the residual the code documents; `NoLeakToSurplus` excludes those and only those. A
link of a chain is named by its vault, epoch and distance from the tip; `hbStep` is injective, and every
link is offered to every vault by anyone, which is more than the secrecy of the seed allows.
`checkInMany` takes a set of ids, since the code skips repeats. The administrator is one party that may
call any `onlyOwner` function at any time. `BPS_DENOMINATOR` is a constant so that small balances
produce fees; the integer division is the code's.

*`DeadMansSwitch`* is what the contract promises of one vault when value, fees, chains and the open
list are left out: eleven acts over one record. The page's and the watcher's models use it for the
contract, which is sound because every vault of the contract behaves so (sections 2 and 3). What
`getVault` answers and when two answers differ (`vaultChange`) is stated beside it.

*The page.* Reads that the page sends together (`Promise.all`) are answered in any order, each from
the block of its own moment: the six of `loadFee` (`FeeQuote`), and the vault and the time before a
cancellation is signed (`HeirDesk`). A part's state is what its closures and the DOM keep that a later step reads: panels,
reviews, generations, lines, the stored hold. Every `await` is a point where other parts, the chain and
other tabs move. Layout, wording and formatting are left out; `VaultWords` models what a refusal's text
says only as the call it sends the reader to, and `TypedEntry` what becomes of an entry.

*The watcher* is one watch of one vault. A run's reads, mails and save are steps of their own; each may
fail and the run may be killed between any two. The tiers are parameters. The state file may or may not
exist when the watcher is first started, and a log page may come from a replica that lags (`Fresh`,
`LaggingLogs`: the first is a choice of the initial state, the second of each reading of a vault that a log
names). Then the cursor can pass a settlement that nobody was told of; the history `skipped` keeps those
settlements and no others, so that the property excepts exactly them. Left out are the pruning of keys
older than `STATE_TTL` (lines 94-96) and the fresh start on an unreadable file (72-86). The watcher speaks the ABI of
the first contract version where the two differ, which is what its source does.

*The scripts.* A step ends where the program waits for the network or the disk. Mempool, receipts,
and files torn by a kill are the environment's choice. In the hand-over a transaction stays pending when its
run stops, while later runs read and send, and is mined in the order of its nonce, dropped, or fails because
the key has lost the contract by then. The deployment's read-back reads the contract's state, then what its
address holds, then what it says is surplus, and anybody may use the contract or give it something between
any two (a `Gift` also to an address whose contract does not exist yet).

*Composing modules.* Several parts share one TLC run: `part` tags which one a behaviour follows, its
variables are the first of the slots `s1`, `s2`, ..., the rest stay 0. Parts that share nothing are so
checked each on its own, at the bounds written beside its INSTANCE, and nothing is gained or lost by
the sum. What parts do share (the rules of the switch, the view of a vault) is in modules they extend.

Operators named `X_Something` with a comment that begins "Variation" are altered forms of the
definition below them; nothing uses them. Each documents a defect that a property excludes.

## 2. What is checked

Twelve runs. Ten must pass; two show a disagreement between the code and what it says of itself.

| Run | Module, config | Question |
|---|---|---|
| money | `Money` | Can any order of raises, cuts, recordings and recipients surprise anybody? Is what the page quotes what is charged? Is the credit lane solvent with bad tokens and payees that act? |
| lifecycle | `MCInheritanceVault`, `Lifecycle` | One vault through its whole life, before, at and past the horizon: clocks, claims and balances keep together, and the vault is a `DeadMansSwitch`. |
| accounting | `MCInheritanceVault`, `Accounting` | Two vaults in two assets, a fee, an heir with code: the sums over vaults, the payout rule, and that the contract implements `LaneSpec`. |
| settlement | `VaultHistory` | Claims under a moving fee and heirs who are replaced: who is paid, at what fee, after what wait. |
| many_vaults | `ManyVaults` | Every link of two vaults and epochs offered everywhere; three vaults coming to a list of two and leaving it in every order. |
| site | `Site` | The page, part by part, against the contract's rules and other people's transactions; and the promises of the switch that its cards take a vault for. |
| watcher | `Watcher` | Runs that may be killed or fail, a vault that moves and a replica that lags: are ends and remedies as told, is no settlement left behind that could be seen, is no ladder climbed back? |
| operations | `Operations` | The scripts under kills, retries, lagging nodes, pending transactions and overlapping runs. |
| progress | `Progress` | What must come to pass. |
| watcher_live | `Watcher`, `WatcherLive` | Is a claim, and is a settlement, told in the end wherever a run dies? |
| lifecycle_completes | `LifecycleRunner`, `LifecycleCompletes` | *Violated*, finding 1. |
| watcher_stranger | `Watcher`, `WatcherStranger` | *Violated*, finding 2. |

A property of a run is often the conjunction of named parts with one purpose; a part's module states
it in full and says which code it is about.

* *money*: `LanesBacked` (the contract holds what it owes), `GraceRunsWhileOwed`, `CreditsAddUp`,
  `NoLeakToSurplus`; `NoSurpriseRaise` (no step raises the charge at any moment inside the notice
  period), `CutIsFinal`; `QuotesAreReal` and `QuotesAreKept` (what the page works out from answers of
  several blocks is the rate of that moment, and what a claim locks and is charged; filing again as advised
  keeps the lower rate), both unless the administrator changed something since the first answer or a raise
  came due between two answers.
* *lifecycle*: `DeadlineWithinReach`, `PendingStaysExpired`, `ClaimFieldsMatchState`,
  `PendingClaimIsFrozen`, `DisplacedClaimCoolsDown`, and the refinement `VaultIsASwitch`.
* *accounting*: `LockedAddsUp`, `NoStrandedCredit`, and the refinement `CustodyImplemented`.
* *settlement*: `ClaimantIsHeir`, `SettlementHonoursQuotes`, `SettledOnlyAfterSilence`.
* *many_vaults*: `DeadlineFollows`, `OpenListStaysExact`, `NoLinkWorksTwice`,
  `NamedEpochInstallsLiveChain`.
* *site*: `NothingSignedTwice` (one review never has two transactions that are or could be mined),
  `PageKeepsItsWord` (cards offer what the contract accepts; reports are the receipts; searches leave
  nothing out; dates, remedies and reasons hold), `SignedAsReviewed`, `ReportsStand`, `SwitchPromises`.
* *watcher*: `AlertsAreTrue` (ends are so, remedies work, the cursor leaves no settlement behind but those in `skipped`),
  `NeverStepsBack`.
* *operations*: `RunsResume`, `KeysStayInHand`, `ProgramsKeepTheirWord`, `NothingIsUndone`.
* *progress*: `HorizonBeatsAutomation`, `CreditsDelivered`, `PageMovesOn`. *watcher_live*: `OwnersAreTold`.

### Bounds, and why they are enough

Constants of the code are scaled so that everything that compares them still happens.

* Periods of 1 or 2, windows of 1 or 2 and horizons up to 3 let a deadline be short of the horizon,
  pinned at it and past it, with a claim on either side. `MaxTime` 4 in *lifecycle* leaves room for a
  second life after an extension past the first horizon; its chain has one link, which is all one
  vault needs (*many_vaults* has two vaults and two epochs, the least for a replay across each).
* A notice period of 2 over 4 units of time lets two raises replace each other and a recipient be
  removed and named again inside it. Beside the page time ends at 3, where a raise or a recipient announced
  at first comes into force, between two of a reading's answers or before or after all of them.
* Two open slots and three vaults are the least in which the vault moved by one removal is the subject
  of the next, with another in the slot it left; `OpenListsStayExact` proves it for every number.
* Balances up to 3 are the least in which a fee, a shortfall and a remainder differ.
* The page: two reviews each sent at most twice (a third sending repeats the second), two cards drawn
  three times, one change of the vault between a review and its signature, two chains to come from and
  go to.
* In *watcher* a period of 4 and a window of 3 let two tiers of either ladder come due (a reminder
  needs a whole day between its tier and the deadline), a page of two blocks lets the cursor lag, and
  with a single attempt the one fault makes a mail a dead letter; *watcher_live* has three attempts and
  two faults. *watcher* explores files with and without a cursor and log pages that lag; the two others
  begin with a cursor and read without lag, so that what they show does not depend on either.
* Programs: two or three runs, one kill or fault each, one or two lagging backends. Two hand-over runs at
  a time and three in all let the second read before the first's transaction is mined and a third repeat
  both; one gift is the least that can fall between two reads.

`MaxVaults`, `MaxEpoch`, `MaxTime`, `PageTime`, `MaxHeld`, `MaxPlans`, `MaxCredit`, `MaxPanels`, `MaxPayouts`, `LastRelease`, `LastDeliberate`, `LastCancel`,
`LastCall`, `MaxFaults`, `MaxDelays`, `MaxRuns`, `MaxSends`, `MaxDraws`, `MaxChanges`, `MaxGeneration`,
`MaxHandlers`, `MaxBlock`, `MaxHead`, `MaxPending`, `MaxOutflows`, `MaxInstalls`, `MaxMoves`, `MaxLog`
`MaxGifts` (with `Gifted`) and `MaxEdits` exist only in the models; `Handovers` and `Deploys` bound the runs at a time. Deadlock is not checked where a part can be
over: a page with nothing left to send, a program that has ended, a clock at its bound.

### Fairness

* *The heir of a silent owner* (`Progress`, vault): time passes, the heir makes a claim that stays
  possible, somebody settles a claim that stays possible (`finalizeClaim` is permissionless). Nothing is
  assumed of owner, keeper, link holders or administrator. Because the model's clock ends, `HeirInTime`
  holds the last ticks back until a possible claim was made; otherwise "time ran out" would be the only
  counterexample.
* *Credits* (lane): time passes, and somebody other than the account keeps trying to push
  (`pushCredit` is permissionless after the grace). A payee that reverts for ever is outside the
  promise, as the code says.
* *The page*: a timer fires and a request is answered or fails, but does not fail for ever (strong
  fairness of an answer); what is in the pool is mined in the end; a call of the search ends by its
  timeout; the browser delivers the wallet's event.
* *Watcher and runner*: the program is started again and again, and a run goes on to its end. No
  fairness of faults, so a run may always be killed while the bound on faults lasts.

### Findings

1. `lifecycle_completes`, `scripts/lifecycle.ts:1573`. When a run stops after a settlement was verified
   and before its step was recorded, every later run reports that the step cannot be scheduled,
   although lines 19-20 and 44-45 promise that the next run heals.
2. `watcher_stranger`, `notify/watcher.js:333`. `terminalAlerts` mails the contact on file about a
   settlement without the test that lines 268-270 demand: a contact the owner has replaced is told.

Met while modelling, kept in the models as the code has them and not shown by a run of their own:

* `app.js`: 830, the answers to one reading of the fee come from several blocks: where a raise comes due
  between the answer for the rate and the one for the time, the page takes the old rate for the one in force
  and the raise for past, and no card tells of it until the next reading, although the page says it counts
  every change already announced (`touched` has "due" then, and the quotes are checked and proved without);
  1089, another tab's hold in `page_tx` overwritten; 1137, a repriced transaction
  watched under its old hash; 1235, signer of another account while connecting; 1307, a retry enables
  Review again; 1309, old panels after a failed re-read; 2977, "last check-in" told from the horizon
  before; 3216, any difference of the ceiling called a raise; 3493, lists of a search and of a lookup mix.
* `watcher.js`: 121, an outage of `MAX_ATTEMPTS` runs drops an alert; 363, a vault read from a lagging
  replica lets the cursor pass its settlement (`LaggingLogs`); 353, a fresh cursor starts a page before the
  head, after older settlements (`Fresh`). The watcher's ABI is the first version's (35-41), as `deploy.ts:664`
  says of it.
* `lifecycle.ts`: a step done by verification may be recorded by a skip that is evaluated after; the
  newest timestamp may come from a fresher backend than the rest; a restarted local node is not noticed.
* Scripts: a mistyped `COLD_ADDRESS`, confirmed once, can be sent the fees; of two hand-over runs that both
  found the key paid, the one mined later moves the fees from one cold wallet to the other
  (`transfer-admin.ts:107`, 129); something given to the new contract between the reading of its balance and
  of `surplus()` makes an unused contract "FAILED: do not use" (`deploy.ts:275-280`), although 267-271 say
  that what anybody sends must not sink a launch; `READBACK_ONLY=yes` without `ALLOW_DEPLOYER_ROLES=yes` fails
  a contract that was deployed with it (263-266); `notify-scenario.ts:32-33` deploys the contract with three
  of its five constructor arguments and stops there; a cold key that
  accepts one contract before the other was offered makes a rerun refuse; an "incomplete" read-back may
  overwrite a concurrent "ok"; documents may mix two deployments after a kill and other arguments;
  `close-vault.ts` says "Done" in cases it did not look at; `smoke.ts` fails when a credit exists.
* `e2e`: a page problem between `checkClean` and close is not counted; a site server that does not answer
  in 20 seconds is not killed.

## 3. What is proved

TLAPS checks each theorem for every value of the constants. The assumptions are the named ones of the
modules: payable and refused addresses are disjoint, the shortest period, window and notice are
positive, the ceiling on the fee is below `BPS_DENOMINATOR` (`AddressAssumption`, `FeeAssumption`,
`LaneAssumption`, `VaultAssumption`, `MaxTimeAssumption`, `ManyAssumption`, `WatchedAssumption`), and of the
programs that the zero address signs for nothing and names no vault or seed, and that bounds are
naturals (`AdminAssumption`, `DeployAssumption`, `KeeperAssumption`, `SetupAssumption`,
`EndToEndAssumption`, all conjuncts of `OperationsAssumption`); of the page's parts the shortest period and
window and the margins the code keeps (`SiteAssumption`, the conjunction of theirs). Passing runs
evaluate all of them.

`MoneyRules_proofs` (fees, custody). `FeeTypeCorrect` and `PendingIsARaise` are inductive together: a
pending raise lies above the recorded rate because `setClaimFee` compares with the rate in force. On
them rest `NoSurprise`, `CutsAreFinal`, `ApplyingIsNeutral`. For custody the inductive invariant is
`LaneTypeOK /\ LanesBacked`: solvency alone is not inductive, since a payout subtracts from holdings and
needs the totals to be naturals. A payout that stands has debited its amount exactly, whatever the
environment chose (`PayoutIsExact`). From it `Solvency`, `NoCreditStranded`, `GraceRuns`, `NothingLeaks`.

*Sums.* `totalCredited` and `totalLocked` are kept by adding and subtracting; that they are the sums of what
they stand for needs finitely many addresses (`FiniteAddressAssumption`) and facts about a fold over a
finite set. `MoneyRules_proofs` proves these by choosing a least counterexample among the sizes of sets
(`NatSetInduction`, `SetInduction`): taking any element out first gives the same sum (`SumTakesAny`), and
changing one value changes the sum by the difference (`SumChangesAt`). From them `CreditsStayTheSum`; in
`Money_proofs` `MoneyAddsUp`; in `VaultHistory_proofs` `LockedStaysTheSum` (each call moves one vault's
balance and its asset's total by the same amount) and `CreditedStaysTheSum`.

`InheritanceVault_proofs` (the whole contract). The inductive invariant `VaultsSound` says each vault
taken alone is `Sound` at the present time, and an id not given out has no vault. `Sound` strengthens
what the runs check where a step needs more: the deadline is within reach of `now`, a pending
claim's deadline has lapsed and stays lapsed (a partial withdrawal past the horizon would break it but
for the clamp), a live balance is positive. One lemma per function. From it `DeadlineStaysWithinReach`,
`ClaimsStandOnSilence`, `ClaimFieldsFollowState`, `ValueOnlyInLiveVaults`, `VetoLeavesCoolDown` and
`ContractTypeCorrect`; and the refinements `FeesImplemented` and `CustodyIsCreditLane`, which carry the
fee and custody theorems over to the contract (`ContractNoSurprise`, `ContractSolvency`, ...).

Its second half is about one step of the contract: who can change a vault at all (`WhoMoves`), what
each call leaves of it, and that all calls about other vaults leave it but for its slot on the list.
From that `ClaimsAreFrozen`, and the open list: `OpenListStaysTrue` is inductive with `VaultsSound`, and
rests on two lemmas about sequences, that appending and that swap-and-pop keep a list an exact
enumeration (`AppendedExact`, `RemovedExact`).

`VaultHistory_proofs` (a vault over its life).
* *Its past.* `PastSound` relates a vault to its history: the deadline is the last sign of life plus the
  period, cut at the horizon; the claimant is the heir named now; the locked rate is at most those that
  were promised and quoted. It gives `ClaimsAreTheHeirs`, `DeadlinesFollow`, `SettlementsFollowSilence`
  and `SettlementsHonourQuotes`, the last with custody's exact payouts.
* *Chains.* `ChainInv`: the links used so far of an installation all lie above what its vault still
  accepts, and an epoch that is not reached has no used link. Hence `LinksWorkOnce`, and
  `NamedEpochsInstallLiveChains`.
* *The list of `ManyVaults`* has other bounds than its chains. `LP` instantiates the contract's proofs
  at those bounds; `LP` and the model's own instance are shown to be the same actions, so
  `OpenListsStayExact` is a corollary and not a second proof. `DeadlinesFollowOwners` puts both parts
  together.
* *The refinement.* `EveryVaultIsASwitch`: `Spec => VaultIsASwitch`. The helpers of the contract are
  those of the switch under the mapping `SwitchOf` (`RestartedIs`, `UnclaimedIs`, `ActedIs`); each call on
  the vault looked at is one of the switch's steps under that step's own condition (one lemma each);
  every other step leaves the vault's terms, deadline and claim, and is a stutter. `VaultsSound` is
  needed: that a claim's payee is a person, that a pinned deadline refuses `checkIn`, that a
  withdrawal of the whole balance is a closing. Since the vault is any key, it holds of each.

`DeadMansSwitch` (its own last section) proves what the switch promises, from the invariant
`SwitchSound`: a claim stands on a deadline that had lapsed when it was made or on a horizon that has come,
and a settlement on a full window. `SwitchKeepsItsPromises` has the three promises in one formula.
`OwnersArePromised` carries them over to the contract through the refinement, and
`PageSwitchKeepsItsPromises` (in `Site_proofs`) to the switch that the page's run checks.

`Money_proofs` (the page's quotes). `PageInv` says what a reading tells of its block stays true of it:
the rate it computed for any later moment is the rate that will be in force then, unless the
administrator acted since. The answers come one by one, from different blocks; the invariant says of the
answers so far what those still to come may add. A recipient that comes into force, a raise recorded or a
vault that changes in between does no harm; a raise that comes due in between does, and is the one exception
of `QuotesTellTheTruth` and `QuotesAreHonoured` beside the administrator (`app.js:830`, above). `QuotedFeesImplemented` and `MoneyImplements` tie the composed
specifications to `FeeSpec`, `QuoteSpec` and `LaneSpec`; `MoneyAddsUp` says the credits add up in them too.

`Site_proofs` (the page), part by part of the composed state; the sizes of the parts, and how often each may
act, are constants of `Site`, to which the run gives small values and the proofs none. First `SignedOnce`,
`SiteSpec => []NothingSignedTwice`. For `PageTx`, `TxInv` says of each review: while its handler runs its
button is off; of all it sent at most the last can still be mined, and nothing can when the button is
offered or the handler is before its signature; a handler that waits, or a watcher, is after that last one;
a line says "confirmed" only when one succeeded. For the creation form, `FormInv`: an offered button is the
newest review's, and the plan of a review that sent, until it is known that nothing happened, has no button.
For payouts and for the owner's card, `PayInv` and `ButtonInv`: every review and every button has a
generation of its own, and what is offered is of the one on the page. `ButtonInv` is proved in `OwnerDesk`
(`OneButtonPerPanel`), and `Site_proofs` uses it at the bounds of both of its instances.

Then `SignedIsAsReviewed` and `ReportsStandOn`: `SignedAsReviewed` and `ReportsStand`, whole.
* `DeskInv` (in `OwnerDesk`): what a panel or a review shows was a live vault when it was read, another heir
  only one that takes the change, another horizon only dates that were possible then and leave the margin; and
  a deadline told as the last one is no sooner than its horizon for as long as period and horizon are what
  they were (`FollowUpFits`). What a call makes of the vault when it is mined (`SignedIs`) is compared with
  what was told of the vault as shown (`EffectsAreTold`). It rests on `SwitchSound` and on `OwnerLeaves`: what
  any act of the owner leaves of a switch (`DeadMansSwitch`).
* `HeirInv`: a claim's panel shows a vault that could be claimed; any claim of the vault after a cancel's
  panel opened was made no sooner than the claim it shows, so what was let through without a warning is in
  time, by the chain time that is read at once with the vault: either may be answered first, and what is
  signed fits the vault as it was re-read, whatever became of it while the time was still awaited.
* `PayCovers`: unless something was paid out since, the credit covers what is to be paid and what stays.
* `HeirsInv`: vaults are numbered as they are created, what is kept of a closed vault is true of it, and what
  a review has read of a vault is still so unless the vault changed. That the next number is the count
  needs the size of an interval (`OneMore`).
* `BatchInv`: a deadline is within a period of the present, and since a vault was read its horizon has at
  most moved away: hence a reason to hold it back is still one when the batch is mined. That the remedies
  of the report help needs that a period is shorter than the longest horizon (`CheckInAssumption`: 3,650
  and 36,500 days in the contract).
* `LineInv`: one result at most is unknown, and a line at the home of a view is of a transaction that is over.
* `Cursors`: the source that is asked is one of the list. A stop is heeded since each turn looks at it first.

Last `PageIsTrue`: `PageKeepsItsWord`, whole, for all sizes that `Site` leaves open; those it fixes (the clocks
and terms of the texts and of the form's plan, two attempts to connect) are as in the run. `ShownInv` is the
invariants above and, for what they leave open:
* `CardInv` (in `OwnerDesk`): a live vault's horizon is at most the longest one ahead, and less than that once
  its deadline has passed, so an extension a card offers is possible (`CanBeExtended`); a vault that is not
  closed holds something. That a new period fits under the longest horizon needs the condition on both in
  `DeskAssumption` (3,650 and 36,500 days in the contract).
* `LinesPlaced`: a line is where its review's card is, or at home when that card is gone and only then.
* `BatchTold`: an entry of the report says "checked in" of a vault exactly if the receipt moved its deadline,
  "sending" of none once it is mined, and otherwise a reason of the page's.
* `ConnInv`: while the wallet was not changed behind the page's back, an attempt that reads settings and a
  page that is ready have compared the wallet's network with that of a genuine contract.
* `Reached`: every record of a block before the cursor is a candidate; a source whose turn is over failed,
  does not keep the history or refuses the smallest range, unless nothing was left to read or the search was
  stopped; a summary claims no more than was read. Hence nothing is missed, and one good source suffices
  (`TurnReaches`, `NextReaches`). `SearchAssumption` says that there is a block after the deployment.
* `TellInv`: what a text says of a vault is true of the vault it was written of, and each reason the contract
  gives (`ReasonIs`, from the order of its checks) has a remedy that works or a date before which nothing does.
* `EntryInv`: a plan that is reviewed is what was typed, in base units and at the start of a real day. The
  calendar is proved to give each instant one date and back (`utcDay`), the sums of money exact to the decimals.

`Programs_proofs`, first part (the mails). Four invariants, inductive in this order: `WorldInv` (the replica is at most
one move behind and never behind an end; an armed vault's period fits its horizon), `RunInv` (a run works
on the file as read, at a head in the past, with mails neither sent nor given up), `EndInv` (`EndsAreTrue`
for what is queued as well as for what is mailed) and `LadderInv`: what is queued of a ladder is called for
at the run's head, and what was mailed has been due ever since, at the last head any run has read.
Because no head is read before an earlier one, a tier mailed later is the smaller: `LaddersNeverStepBack`.
`EndsStayTrue` holds for every setting; `RemediesWork` follows from `SwitchSound` for every live vault.
`AlertsStayTrue` adds `CursorInv`: a run that is about to forget the vault knows that its end was mailed,
or that the claim it looks for lies past its head, or that it was told, or that its cursor was set anew or
moves on an older reading, in which case the settlement goes to `skipped` with the cursor. It holds for every
setting, fresh files and lagging logs included; `WatcherAssumption` says that mails of ends are followed.

`Programs_proofs`, second part (the programs of `Operations`). What the parts of a behaviour are told, and
how often they may be run, are constants of `Operations`, to which the run gives small values and the proofs
none. Each part has an inductive invariant of its own, stated in its module and true of its slots:
* `AdminInv` (hand-over): a run moves the fee before it offers the vault, and waits for it, so while the key is
  paid the vault is still the key's and is offered to nobody, and whatever is pending moves the fee; a run or
  a pending transaction that moves the fee found it with the key, so that it is there or at an address of
  a confirmed run; whoever is offered anything was named in a run, and whoever accepts can sign.
* `DeployInv`: a prediction that is not outdated is of the next transaction; each mined deployment has its
  contract, and each contract its transaction; a deployment that was sent is on record, or its run waits for
  it, stopped, or was overlapped (`SentKept`, `SeenToOverlap`). The addresses need not even be distinct.
  `LookInv` says of a read-back under way that it reads what its record names, that what it found bad is a
  use or the deployer's roles, and that what it counted is still there unless a gift came in between.
* `ChainInv` (check-in chains): an armed chain is one of a seed and of the epoch that is armed; what a vault
  accepted was its own, of an epoch it has used, and of the one armed exactly when accepted since.
* `SetupInv` (lifecycle setup): what is known of a run at each of its stages and of the file it works on
  (`Fits`): past "keys" a vault is named and is the file's, past "fund" the keys are those of the file, and
  public ones only on a local chain.
* `WorldInv` (end-to-end test): the node's only snapshot is of the world, when nothing was logged yet.

A behaviour follows one part, so an invariant of a part is one of the composition. `KeysStay` and
`NothingUndone` prove `KeysStayInHand` and `NothingIsUndone` whole; `DeploymentsAreOnRecord` and `RunsContinue`
prove `RecordsAreReal`, `NothingGoesUnrecorded` and `ContinuesWhatIsOnFile`, conjuncts of the other two.

*Only model-checked.* The liveness properties (*progress*, *watcher_live*) need `ENABLED` and fairness.
Of *operations*, `RunsResume` and `ProgramsKeepTheirWord` are proved in the three conjuncts named above and
otherwise checked: the lifecycle runner is a script of fixed length, with numbers of its own, which the run
explores whole.

## 4. What is not modelled, and what comes next

Not modelled: views and getters (functions of state that is modelled); `NotifySubscription.sol`, three
short handlers whose one effect on the watcher, whether an owner is paid up, is a choice of the
environment in `Watcher`; the first version of the contract; test doubles and the audit's
demonstrations, whose hostile tokens and payees are the choices of `CreditLane`; the contents of the e2e
scenarios, `serve-site.js`, layout and wording; keccak (links are injective symbols). Nor is the notification
scenario: `notify-scenario.ts:32-33` deploys `InheritanceVault` with the three constructor arguments of the
first version, while the constructor takes five (`InheritanceVault.sol:598-604`), so it throws before its first
step; `AUDIT_SCOPE.md:113-114` says that it exercises the first version only.

Next, in this order: the snapshot of the lifecycle test (`ChainReader`); the invariant of the lifecycle
runner that `RunsResume` and `ProgramsKeepTheirWord` still need.
