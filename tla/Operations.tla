------------------------------ MODULE Operations ------------------------------
(***************************************************************************)
(* The programs that run beside the page and the watcher, in one run: the  *)
(* lifecycle test with its setup and its reader, the deployment and its    *)
(* launch values, the hand-over of the administration, the generator of    *)
(* check-in chains, the owner's small scripts and the end-to-end test.  A  *)
(* behaviour follows one of them; its variables are kept in the first of   *)
(* the slots s1 to s12, and the slots it does not need stay 0.             *)
(***************************************************************************)
EXTENDS Integers, Sequences, FiniteSets

CONSTANTS
    Parts,                                  \* the parts a behaviour may follow
    ColdWallets, SigningWallets,            \* the hand-over: what it may be given
    AdminContracts, Handovers, HandoverRuns,
    DeployRuns, Settings, RecordPaths,      \* the deployment: its runs, what they are told
    CreationAddresses, SystemAddresses, GiftedAddresses,
    Seeds, ChainVaults,                     \* the chains of check-in values, and their bounds
    ChainLength, ChainInstalls, ChainEpochs,
    SetupVaults, SetupRuns,                 \* the beginning of the lifecycle program
    TestScenarios, PageFunctions, TestLog   \* the end-to-end test, and its bounds

VARIABLES part, s1, s2, s3, s4, s5, s6, s7, s8, s9, s10, s11, s12

operationsVars == <<part, s1, s2, s3, s4, s5, s6, s7, s8, s9, s10, s11, s12>>

-----------------------------------------------------------------------------
(* What the deployment is told: a mainnet deployment that may pay its own   *)
(* key the fees, its near misses, and a rehearsal on a test chain with      *)
(* others.                                                                  *)

ProperDeployment == [
    mainnet |-> TRUE, allowMainnet |-> TRUE, dryRun |-> FALSE, checksummed |-> TRUE,
    allowRoles |-> TRUE, override |-> FALSE, allowOverride |-> FALSE, admin |-> "cold",
    fee |-> "hot", bps |-> 50, list |-> <<"usdc", "weth">>, wrapped |-> "weth",
    path |-> "base.json", funded |-> TRUE,
    onChain |-> [t \in {"usdc", "weth", "dai"} |-> "as listed"]]

Rehearsal == [ProperDeployment EXCEPT !.mainnet = FALSE, !.allowMainnet = FALSE, !.fee = "unset"]

SomeSettings == {
    ProperDeployment,
    [ProperDeployment EXCEPT !.onChain = [@ EXCEPT !["usdc"] = "differs"]],
    [ProperDeployment EXCEPT !.allowRoles = FALSE],
    [ProperDeployment EXCEPT !.list = <<"weth">>, !.override = TRUE],
    [Rehearsal EXCEPT !.admin = "at2", !.fee = "at1"],
    [Rehearsal EXCEPT !.admin = "unset", !.fee = "entrypoint"],
    [Rehearsal EXCEPT !.wrapped = "dai"],
    [Rehearsal EXCEPT !.list = <<"usdc", "usdc", "weth">>]}

SomeAddresses == <<"at1", "at2">>

-----------------------------------------------------------------------------
(* The files that hold launch values, two deployments they may name and a   *)
(* rehearsal's, and the runs that write them, mistakes among them.          *)

SomeFiles == <<"about.html", "app.html", "app.js", "README.md">>

SomeFields == [f \in {"about.html", "app.html", "app.js", "README.md"} |->
    CASE f = "about.html" -> {"address", "pause"}
      [] f = "app.html" -> {"address", "block", "tx"}
      [] f = "app.js" -> {"address", "block", "code", "testnet address", "testnet block", "testnet code"}
      [] f = "README.md" -> {"address", "date", "code"}]

Dep(c, a, b, t, d, k, p) ==
    [chain |-> c, address |-> a, block |-> b, tx |-> t, date |-> d, code |-> k, planned |-> p]

SomeDeployments == {
    Dep("base", "0xA", "100", "0xta", "28 September", "ka", TRUE),
    Dep("base", "0xB", "200", "0xtb", "29 September", "kb", TRUE),
    Dep("sepolia", "0xS", "300", "0xts", "20 September", "ks", FALSE)}

Run(c, a, b, t, d, p) ==
    [chain |-> c, address |-> a, block |-> b, tx |-> t, date |-> d, pause |-> p,
     options |-> <<"address", "block", "tx", "date">>]

RunA == Run("base", "0xA", "100", "0xta", "28 September", "none")
RunB == Run("base", "0xB", "200", "0xtb", "29 September", "0xpause")
RunS == Run("sepolia", "0xS", "300", "0xts", "20 September", "none")

SomeRuns == {
    RunA, RunB, RunS,
    [RunA EXCEPT !.pause = "0xpause"],
    [RunA EXCEPT !.options = @ \o <<"offline">>],
    [RunA EXCEPT !.address = "0xa"],
    [RunA EXCEPT !.date = "31 September"],
    [RunB EXCEPT !.block = "100"],
    [RunB EXCEPT !.options = @ \o <<"address">>],
    [RunB EXCEPT !.options = @ \o <<"dry-run">>]}

SomeLowerCase == [a \in {"0xA", "0xB", "0xS", "0xa", "0xV"} |->
    CASE a \in {"0xA", "0xa"} -> "0xa"
      [] a = "0xB" -> "0xb"
      [] a = "0xS" -> "0xs"
      [] a = "0xV" -> "0xv"]

-----------------------------------------------------------------------------
(* Small sets. *)

LifecyclePersons == {"owner", "heir", "keeper", "payout", "cold", "wrong", "treasury"}
Acceptable == {"finalize-A"}
OnePause == {"0xpause"}
TheSite == {"about.html", "app.html", "app.js"}
SomeDays == {"20 September", "28 September", "29 September"}
TwoBackends == {"b1", "b2"}
TwoFields == {"f1", "f2"}
SomeAmounts == {1, 2}

-----------------------------------------------------------------------------
(* The parts. *)

\* The whole scenario, with one fault and one delay.
Runner == INSTANCE LifecycleRunner WITH
    now <- s1, world <- s2, nonces <- s3, mempool <- s4, mined <- s5, file <- s6,
    run <- s7, lock <- s8, faults <- s9, delays <- s10, Persons <- LifecyclePersons,
    Nobody <- "nobody", MinPeriod <- 15, MaxPeriod <- 15, MinWindow <- 15,
    MaxWindow <- 15, MaxHorizon <- 200, Horizon <- 200, PushGrace <- 20, Eth <- 20,
    EthTopUp <- 10, Usdc <- 5, Scale <- 10, MaxFaults <- 1, MaxDelays <- 1,
    LateBy <- 3, MayAccept <- Acceptable

\* Runs for addresses that can sign, a mistyped one, and the key itself, at the
\* same time or one after the other.
Admin == INSTANCE AdminHandover WITH
    owner <- s1, pendingOwner <- s2, feeRecipient <- s3, handover <- s4, pool <- s5,
    mined <- s6, offered <- s7, runs <- s8, Wallets <- ColdWallets,
    Signing <- SigningWallets, Hot <- "hot", Else <- "else", Nobody <- "nobody",
    Contracts <- AdminContracts, Handovers <- Handovers, MaxRuns <- HandoverRuns

\* Runs of the deployment, at the same time or one after the other, with one gift.
Deploy == INSTANCE Deployment WITH
    sent <- s1, minedUpTo <- s2, contracts <- s3, record <- s4, run <- s5, lost <- s6,
    overlapped <- s7, held <- s8, look <- s9, shaken <- s10, Deploys <- DeployRuns,
    Settings <- Settings, Paths <- RecordPaths, AddressOf <- CreationAddresses,
    Hot <- "hot", Nobody <- "nobody", System <- SystemAddresses,
    Gifted <- GiftedAddresses, MaxGifts <- 1

\* Three runs over four files, which may be killed, and one edit in between.
Launch == INSTANCE LaunchValues WITH
    files <- s1, torn <- s2, asPlanned <- s3, launch <- s4, last <- s5, runs <- s6,
    edits <- s7, interrupted <- s8, Order <- SomeFiles, FieldsIn <- SomeFields,
    Deployments <- SomeDeployments, PauseTxs <- OnePause, Given <- SomeRuns,
    SiteFiles <- TheSite, LowerCase <- SomeLowerCase, Retired <- "0xV",
    CalendarDays <- SomeDays, RpcTries <- 1, MaxRuns <- 3, MaxEdits <- 1

\* Chains for several vaults, and several installations of each.
Keeper == INSTANCE ChainKeeper WITH
    mode <- s1, armed <- s2, before <- s3, call <- s4, accepted <- s5, installs <- s6,
    reused <- s7, Seeds <- Seeds, Vaults <- ChainVaults, MaxCount <- ChainLength,
    MaxInstalls <- ChainInstalls, MaxEpoch <- ChainEpochs

\* Two backends behind one address, two fields of a snapshot, two blocks.
Reader == INSTANCE ChainReader WITH
    head <- s1, gives <- s2, sees <- s3, lastBlock <- s4, pc <- s5, at <- s6,
    floor <- s7, tries <- s8, inFlight <- s9, got <- s10, picture <- s11,
    verdict <- s12, Backends <- TwoBackends, Fields <- TwoFields, Width <- 2,
    Attempts <- 2, MaxHead <- 2

\* Runs of the lifecycle program's beginning, on three chains.
Setup == INSTANCE LifecycleSetup WITH
    code <- s1, funds <- s2, file <- s3, old <- s4, run <- s5, runs <- s6,
    Vaults <- SetupVaults, NoVault <- "no vault", MaxRuns <- SetupRuns

\* Three vaults, and three moves of somebody else.
Scripts == INSTANCE OwnerScripts WITH
    vaults <- s1, credit <- s2, wallet <- s3, script <- s4, left <- s5, moves <- s6,
    DUST <- 2, Others <- SomeAmounts, MaxVaults <- 3, MaxMoves <- 3

\* Scenarios of several transactions each.
Tests == INSTANCE EndToEnd WITH
    stage <- s1, alive <- s2, cleanup <- s3, broken <- s4, exitCode <- s5, left <- s6,
    snapshots <- s7, snapshot <- s8, session <- s9, wallet <- s10, log <- s11,
    results <- s12, Scenarios <- TestScenarios, Functions <- PageFunctions,
    MaxLog <- TestLog

ASSUME OperationsAssumption ==
    /\ Admin!AdminAssumption /\ Deploy!DeployAssumption /\ Keeper!KeeperAssumption
    /\ Setup!SetupAssumption /\ Tests!EndToEndAssumption

-----------------------------------------------------------------------------
(* The slots from one on, when a part does not need them. *)

Idle12 == s12 = 0
Idle11 == s11 = 0 /\ Idle12
Idle10 == s10 = 0 /\ Idle11
Idle9 == s9 = 0 /\ Idle10
Idle8 == s8 = 0 /\ Idle9
Idle7 == s7 = 0 /\ Idle8

rest12 == s12
rest11 == <<s11, rest12>>
rest10 == <<s10, rest11>>
rest9 == <<s9, rest10>>
rest8 == <<s8, rest9>>
rest7 == <<s7, rest8>>

OperationsInit ==
    /\ part \in Parts
    /\ \/ part = "runner" /\ Runner!Init /\ Idle11
       \/ part = "admin" /\ Admin!AdminInit /\ Idle9
       \/ part = "deploy" /\ Deploy!DeployInit /\ Idle11
       \/ part = "launch" /\ Launch!LaunchInit /\ Idle9
       \/ part = "keeper" /\ Keeper!ChainInit /\ Idle8
       \/ part = "reader" /\ Reader!ReaderInit
       \/ part = "setup" /\ Setup!SetupInit /\ Idle7
       \/ part = "scripts" /\ Scripts!ScriptsInit /\ Idle7
       \/ part = "tests" /\ Tests!EndInit

OperationsNext ==
    \/ part = "runner" /\ Runner!Next /\ UNCHANGED <<part, rest11>>
    \/ part = "admin" /\ Admin!AdminNext /\ UNCHANGED <<part, rest9>>
    \/ part = "deploy" /\ Deploy!DeployNext /\ UNCHANGED <<part, rest11>>
    \/ part = "launch" /\ Launch!LaunchNext /\ UNCHANGED <<part, rest9>>
    \/ part = "keeper" /\ Keeper!ChainNext /\ UNCHANGED <<part, rest8>>
    \/ part = "reader" /\ Reader!ReaderNext /\ UNCHANGED part
    \/ part = "setup" /\ Setup!SetupNext /\ UNCHANGED <<part, rest7>>
    \/ part = "scripts" /\ Scripts!ScriptsNext /\ UNCHANGED <<part, rest7>>
    \/ part = "tests" /\ Tests!EndNext /\ UNCHANGED part

OperationsSpec == OperationsInit /\ [][OperationsNext]_operationsVars

-----------------------------------------------------------------------------
(* Properties.  The part's module states each in full.                      *)

\* Types of whichever part it is, with what its module says beside them.
OperationsTypeOK ==
    CASE part = "runner" -> Runner!RunnerTypeOK
      [] part = "admin" -> Admin!AdminTypeOK
      [] part = "deploy" -> Deploy!DeployTypeOK
      [] part = "launch" -> Launch!LaunchTypeOK
      [] part = "keeper" -> Keeper!ChainTypeOK
      [] part = "reader" -> Reader!ReaderTypeOK
      [] part = "setup" -> Setup!SetupTypeOK
      [] part = "scripts" -> Scripts!ScriptsTypeOK
      [] part = "tests" -> Tests!EndTypeOK

\* No step of the lifecycle is mined twice, wherever the runner is killed and
\* whatever answers are lost (tx, broadcast).
SentOnce == part = "runner" => Runner!SentOnce

\* What the state file says of a step that settled is what the chain holds
\* (advance).
FileTellsTheChain == part = "runner" => Runner!FileTellsTheChain

\* The runner's own model of the contract agrees with it at every step, and so do
\* its assertions (the Model class, the steps' checks).
AgreesWithContract == part = "runner" => Runner!AgreesWithContract

\* A step that cannot be scheduled is one whose transaction was verified: what is
\* under way is always taken up again (tx, advance).
PendingIsResumed == part = "runner" => Runner!PendingIsResumed

\* Fees never go to the retired key once it has lost the vault, whatever
\* stopped a run half-way (transfer-admin.ts).
NoFeesForTheRetiredKey == part = "admin" => Admin!NoFeesForTheRetiredKey

\* Control never goes to an address nobody can sign with (Ownable2Step,
\* transfer-admin.ts).
ControlIsNeverLost == part = "admin" => Admin!ControlIsNeverLost

\* Fees that are off, or somebody else's, stay so; the key's go to an address a run
\* named, and from one such address only to another (transfer-admin.ts).
FeesOnlyFollowTheKeyStep == part = "admin" => Admin!FeesOnlyFollowTheKeyStep

\* A record names a contract that exists and was made for that file (deploy.ts).
RecordsAreReal == part = "deploy" => Deploy!RecordsAreReal

\* A contract is on record, or about to be, unless its run stopped between
\* sending and recording or overlapped another one (deploy.ts).
NothingGoesUnrecorded == part = "deploy" => Deploy!NothingGoesUnrecorded

\* A contract is never its own administrator, unless something else was sent
\* after its address was predicted (deploy.ts).
NeverOwnsItself == part = "deploy" => Deploy!NeverOwnsItself

\* What the script lets through the constructor accepts (deploy.ts).
ChecksMirrorConstructor == part = "deploy" => Deploy!ChecksMirrorConstructor

\* A record of another deployment is never written over (deploy.ts).
RecordsStayStep == part = "deploy" => Deploy!RecordsStayStep

\* A deployment that read back well is called unusable only after it was used, for
\* roles of the deployer's, or where something reached its address between two
\* reads (readBack, readBackOnly).
GoodStaysGoodStep == part = "deploy" => Deploy!GoodStaysGoodStep

\* The page never holds values of two deployments, however many runs died
\* half-way (set-launch-values.js).
AppNamesOneDeployment == part = "launch" => Launch!AppNamesOneDeployment

\* A run that says it is done leaves the page naming what it verified (checkPublished).
DoneIsPublished == part = "launch" => Launch!DoneIsPublished

\* A run that says it is done leaves a site validate-site.js accepts (main).
DoneValidates == part = "launch" => Launch!DoneValidates

\* A run that says it is done leaves its values in every file (main).
DoneIsEverywhere == part = "launch" => Launch!DoneIsEverywhere

\* The run that died half-way can be given again and is not refused for what it
\* left behind (replaceMarkers).
CrashedRunCanBeRepeated == part = "launch" => Launch!CrashedRunCanBeRepeated

\* A value that a vault has accepted is not accepted again in a later
\* installation (tip).
SpentStaysSpent == part = "keeper" => Keeper!SpentStaysSpent

\* No v2 vault is armed twice for one epoch (cli: anchor).
EpochsAreNew == part = "keeper" => Keeper!EpochsAreNew

\* A value of one vault's chain is of no use for another vault
\* (tip).
ValuesDoNotCross == part = "keeper" => Keeper!ValuesDoNotCross

\* The value the generator names next is the one the contract accepts (nextValue).
NextValueWorks == part = "keeper" => Keeper!NextValueWorks

\* All of a snapshot is of one block, whichever backend answered each call
\* (snapshot).
SnapshotIsOneBlock == part = "reader" => Reader!SnapshotIsOneBlock

\* A snapshot is never of a block before the runner's own last transaction
\* (snapshot, tx).
SnapshotSeesOwnWork == part = "reader" => Reader!SnapshotSeesOwnWork

\* A wrong turn passes only for the revert that was asked for, at a block the
\* reader had reached (expectRevert).
PassedIsReverted == part = "reader" => Reader!PassedIsReverted

\* A development key that everybody knows never signs on a chain of value
\* (loadKeys).
KeysStayOnTestChains == part = "setup" => Setup!KeysStayOnTestChains

\* A run goes on with the vault and the accounts of its state file
\* (prepare, vaultAddress).
ContinuesWhatIsOnFile == part = "setup" => Setup!ContinuesWhatIsOnFile

\* --status changes nothing (status).
StatusOnlyReadsStep == part = "setup" => Setup!StatusOnlyReadsStep

\* A record of a lifecycle is put aside and never lost (prepare).
RecordsAreKeptStep == part = "setup" => Setup!RecordsAreKeptStep

\* A smoke test that passed has given back what it put in (smoke.ts).
PassedIsReturned == part = "scripts" => Scripts!PassedIsReturned

\* close-vault says that everything is back only when it is, unless somebody
\* moves something meanwhile (close-vault.ts).
DoneIsBack == part = "scripts" => Scripts!DoneIsBack

\* Each scenario begins from the world that was built, whatever the one before
\* it left (main of the end-to-end test).
EachFromTheWorldStep == part = "tests" => Tests!EachFromTheWorldStep

\* Whatever stage it fails in, the run leaves nothing behind but what a step
\* that failed did not register (main of the end-to-end test).
NothingLeftBehind == part = "tests" => Tests!NothingLeftBehind

\* The exit code tells whether anything went wrong, in a scenario or around
\* them (main).
ExitTellsAll == part = "tests" => Tests!ExitTellsAll

\* What a scenario puts between is mined before the page's own transaction, and
\* never counts as it (the test wallet's hook).
InterposedBeforeItsOwn == part = "tests" => Tests!InterposedBeforeItsOwn

\* An answer the test loses is lost after the transaction was mined (the
\* test wallet).
LostAfterTheReceipt == part = "tests" => Tests!LostAfterTheReceipt

\* A program that was killed anywhere can be run again: what it sent is on file
\* and is not sent twice, what it left half-done is taken up or taken back, and
\* it goes on with the vault and the accounts it had.
RunsResume ==
    /\ SentOnce
    /\ FileTellsTheChain
    /\ PendingIsResumed
    /\ CrashedRunCanBeRepeated
    /\ ContinuesWhatIsOnFile
    /\ NothingLeftBehind

\* Control, fees and check-in values stay with whom they were meant for: nobody
\* retired is paid, nothing is given to an address nobody signs for, a test key
\* signs for nothing of value, a revealed link opens nothing else.
KeysStayInHand ==
    /\ NoFeesForTheRetiredKey
    /\ ControlIsNeverLost
    /\ NeverOwnsItself
    /\ KeysStayOnTestChains
    /\ SpentStaysSpent
    /\ EpochsAreNew
    /\ ValuesDoNotCross
    /\ NextValueWorks

\* What a program reports, records or publishes is so: a record names the
\* contract that was made, "done" means every file and the page, and a passed check
\* was made at a block that holds the program's own work.
ProgramsKeepTheirWord ==
    /\ OperationsTypeOK
    /\ AgreesWithContract
    /\ RecordsAreReal
    /\ NothingGoesUnrecorded
    /\ ChecksMirrorConstructor
    /\ AppNamesOneDeployment
    /\ DoneIsPublished
    /\ DoneValidates
    /\ DoneIsEverywhere
    /\ SnapshotIsOneBlock
    /\ SnapshotSeesOwnWork
    /\ PassedIsReverted
    /\ PassedIsReturned
    /\ DoneIsBack
    /\ ExitTellsAll
    /\ InterposedBeforeItsOwn
    /\ LostAfterTheReceipt

\* No run undoes another's work: records and good verdicts stay, --status only
\* reads, fees move only from the key and among the addresses runs named, and each
\* scenario begins from the world that was built.
NothingIsUndone ==
    [][/\ FeesOnlyFollowTheKeyStep
       /\ RecordsStayStep
       /\ GoodStaysGoodStep
       /\ StatusOnlyReadsStep
       /\ RecordsAreKeptStep
       /\ EachFromTheWorldStep]_operationsVars
=============================================================================
