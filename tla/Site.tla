--------------------------------- MODULE Site ---------------------------------
(***************************************************************************)
(* The parts of site/assets/app.js in one run.  Each keeps state of its    *)
(* own, so a behaviour follows one part at a size of its own; what two     *)
(* of them share (the rules of the switch, the view of a vault) is in the  *)
(* modules they are built on.  A part's variables are kept in the first of *)
(* the slots s1 to s12, and the slots it does not need stay 0.             *)
(***************************************************************************)
EXTENDS Integers, Sequences, FiniteSets

CONSTANTS
    Parts,                  \* the parts a behaviour may follow
    Absent, Reviews, Cards,
    MaxSends,               \* bound: transactions of one review
    MaxPlans,               \* bound: reviews and edits of the create form
    MaxCredit, MaxPanels, MaxPayouts, MaxOutflows,  \* bounds of a payout's panel
    Persons, OnePerson, Me,
    Owner, SiteAddresses, Alike,
    Chains, Deployed, Known, Genuine,
    Limits, Skews, Years, Tokens, Tabled, Special, RetiredVaults,
    MaxDraws,               \* bound: how often a part of the page is drawn
    MaxHeirVaults,          \* bound: vaults whose heirs are compared
    Sources, SpanOf,        \* of a search, in the order they are tried
    DeskSize, LongDeskSize, HeirSize, CheckInSize, SearchSize, PromiseSize  \* limits and bounds of these parts

VARIABLES part, s1, s2, s3, s4, s5, s6, s7, s8, s9, s10, s11, s12

siteVars == <<part, s1, s2, s3, s4, s5, s6, s7, s8, s9, s10, s11, s12>>

\* The sizes a run takes.  First a vault that may change once under a panel.
SomeDeskSize == [
    MaxTime |-> 2, MinPeriod |-> 1, MaxPeriod |-> 1, MinWindow |-> 1, MaxWindow |-> 1, MaxHorizon |-> 3,
    HORIZON_MARGIN |-> 1, MaxBalance |-> 2, MaxGeneration |-> 3, MaxHandlers |-> 1, MaxChanges |-> 1]

\* A period so long that a new horizon must leave room for it.
SomeLongDeskSize == [
    MaxTime |-> 3, MinPeriod |-> 3, MaxPeriod |-> 3, MinWindow |-> 1, MaxWindow |-> 1, MaxHorizon |-> 6,
    HORIZON_MARGIN |-> 1, MaxBalance |-> 1, MaxGeneration |-> 2, MaxHandlers |-> 1, MaxChanges |-> 0]

SomeHeirSize == [
    MaxTime |-> 4, MinPeriod |-> 1, MaxPeriod |-> 1, MinWindow |-> 1, MaxWindow |-> 2, MaxHorizon |-> 2,
    CANCEL_MARGIN |-> 2, ClockError |-> 1]

\* Time enough for a claim and for a horizon to come.
SomeCheckInSize == [
    MaxTime |-> 3, MinPeriod |-> 1, MaxPeriod |-> 1, MinWindow |-> 1, MaxWindow |-> 1, MaxHorizon |-> 2]

\* The wallet's connection with a wide first range, the public one with the least.
SomeSources == <<"wallet", "public">>
SomeSpans == [wallet |-> 6, public |-> 2]
SomeSearchSize == [MIN_LOG_SPAN |-> 2, Shrink |-> 2, RateWaits |-> 0, MaxBlock |-> 3, MaxPending |-> 0]

\* Two choices of everything.
SomePromiseSize == [
    MaxTime |-> 7, MinPeriod |-> 1, MaxPeriod |-> 2, MinWindow |-> 1, MaxWindow |-> 2, MaxHorizon |-> 4]

\* Reviews whose transactions are under way together, each sent at most MaxSends times.
Tx == INSTANCE PageTx WITH
    sign <- s1, step <- s2, fate <- s3, line <- s4, unsettled <- s5, watchers <- s6,
    asked <- s7, Reviews <- Reviews, None <- Absent, MaxSends <- MaxSends

\* Two transactions on two cards, while the part is drawn anew.
TxLog == INSTANCE TxLine WITH
    home <- s1, card <- s2, open <- s3, shown <- s4, drawn <- s5, at <- s6, st <- s7,
    read <- s8, movedAt <- s9, text <- s10, homeText <- s11, unsettled <- s12,
    Txs <- Reviews, Cards <- Cards, MaxDraws <- MaxDraws

\* The owner's card, a few panels and reviews, and a vault that changes under them.
Desk == INSTANCE OwnerDesk WITH
    now <- s1, switch <- s2, balance <- s3, panel <- s4, generation <- s5, reviews <- s6,
    signs <- s7, changes <- s8, MaxTime <- DeskSize.MaxTime, Persons <- Persons, Nobody <- Absent,
    MinPeriod <- DeskSize.MinPeriod, MaxPeriod <- DeskSize.MaxPeriod,
    MinWindow <- DeskSize.MinWindow, MaxWindow <- DeskSize.MaxWindow,
    MaxHorizon <- DeskSize.MaxHorizon, HORIZON_MARGIN <- DeskSize.HORIZON_MARGIN,
    MaxBalance <- DeskSize.MaxBalance, MaxGeneration <- DeskSize.MaxGeneration,
    MaxHandlers <- DeskSize.MaxHandlers, MaxChanges <- DeskSize.MaxChanges

\* The same at another size.
LongDesk == INSTANCE OwnerDesk WITH
    now <- s1, switch <- s2, balance <- s3, panel <- s4, generation <- s5, reviews <- s6,
    signs <- s7, changes <- s8, MaxTime <- LongDeskSize.MaxTime, Persons <- OnePerson,
    Nobody <- Absent, MinPeriod <- LongDeskSize.MinPeriod, MaxPeriod <- LongDeskSize.MaxPeriod,
    MinWindow <- LongDeskSize.MinWindow, MaxWindow <- LongDeskSize.MaxWindow,
    MaxHorizon <- LongDeskSize.MaxHorizon, HORIZON_MARGIN <- LongDeskSize.HORIZON_MARGIN,
    MaxBalance <- LongDeskSize.MaxBalance, MaxGeneration <- LongDeskSize.MaxGeneration,
    MaxHandlers <- LongDeskSize.MaxHandlers, MaxChanges <- LongDeskSize.MaxChanges

\* One heir, a second person to pay, and an owner who comes and goes.
Heir == INSTANCE HeirDesk WITH
    now <- s1, switch <- s2, panel <- s3, stage <- s4, late <- s5, clock <- s6, fresh <- s7,
    asked <- s8, MaxTime <- HeirSize.MaxTime, Persons <- Persons, Nobody <- Absent, Me <- Me,
    MinPeriod <- HeirSize.MinPeriod, MaxPeriod <- HeirSize.MaxPeriod,
    MinWindow <- HeirSize.MinWindow, MaxWindow <- HeirSize.MaxWindow,
    MaxHorizon <- HeirSize.MaxHorizon, CANCEL_MARGIN <- HeirSize.CANCEL_MARGIN,
    ClockError <- HeirSize.ClockError

\* The vaults of a batch.
CheckIns == INSTANCE CheckInAll WITH
    now <- s1, vaults <- s2, stage <- s3, read <- s4, clock <- s5, sent <- s6, moved <- s7,
    report <- s8, MaxTime <- CheckInSize.MaxTime, Persons <- OnePerson, Nobody <- Absent,
    MinPeriod <- CheckInSize.MinPeriod, MaxPeriod <- CheckInSize.MaxPeriod,
    MinWindow <- CheckInSize.MinWindow, MaxWindow <- CheckInSize.MaxWindow,
    MaxHorizon <- CheckInSize.MaxHorizon, Vaults <- Cards

\* An heir, its look-alike, the owner's look-alike and three vaults.
Heirs == INSTANCE KnownHeirs WITH
    vaults <- s1, closedHeirs <- s2, review <- s3, touched <- s4,
    Addresses <- SiteAddresses, Nobody <- Absent, Owner <- Owner, Alike <- Alike,
    MaxVaults <- MaxHeirVaults

\* Reviews, edits and signatures in any order.
Form == INSTANCE CreateForm WITH
    generation <- s1, reviews <- s2, signs <- s3, creating <- s4, sending <- s5,
    unsettled <- s6, canReview <- s7, paused <- s8, fates <- s9, MaxGeneration <- MaxPlans

\* Two attempts, an account and a chain to change to, a chain with another code.
Conn == INSTANCE Connection WITH
    wallet <- s1, S <- s2, attempts <- s3, listening <- s4, changed <- s5, banner <- s6,
    cards <- s7, Accounts <- Persons, Chains <- Chains, None <- Absent,
    Deployed <- Deployed, Known <- Known, Genuine <- Genuine, Attempts <- {1, 2},
    MaxChanges <- 2

\* A search, over one source after another.
Search == INSTANCE HeirSearch WITH
    head <- s1, records <- s2, keeps <- s3, limit <- s4, scan <- s5, at <- s6, list <- s7,
    heirView <- s8, pending <- s9, faulty <- s10, Vaults <- OnePerson, Sources <- Sources,
    SpanOf <- SpanOf, Limits <- Limits, MIN_LOG_SPAN <- SearchSize.MIN_LOG_SPAN,
    Shrink <- SearchSize.Shrink, RateWaits <- SearchSize.RateWaits, MaxBlock <- SearchSize.MaxBlock,
    MaxPending <- SearchSize.MaxPending

\* A few payouts under way, and some of other devices.
Payout == INSTANCE PayoutDesk WITH
    credit <- s1, outflows <- s2, opening <- s3, panel <- s4, generation <- s5,
    reviews <- s6, signs <- s7, MaxCredit <- MaxCredit, MaxGeneration <- MaxPanels,
    MaxHandlers <- MaxPayouts, MaxOutflows <- MaxOutflows

\* One vault through its life, its cards and the texts of refused calls.
Words == INSTANCE VaultWords WITH
    now <- s1, switch <- s2, said <- s3, MaxTime <- 3, Persons <- OnePerson,
    Nobody <- Absent, MinPeriod <- 1, MaxPeriod <- 2, MinWindow <- 1, MaxWindow <- 1,
    MaxHorizon <- 3

\* The switch that all of these take a vault for.
Promise == INSTANCE DeadMansSwitch WITH
    now <- s1, switch <- s2, Persons <- Persons, Nobody <- Absent,
    MinPeriod <- PromiseSize.MinPeriod, MaxPeriod <- PromiseSize.MaxPeriod,
    MinWindow <- PromiseSize.MinWindow, MaxWindow <- PromiseSize.MaxWindow,
    MaxHorizon <- PromiseSize.MaxHorizon, MaxTime <- PromiseSize.MaxTime

\* Every entry that strays in one part, under two clocks.
Entry == INSTANCE TypedEntry WITH
    now <- s1, skew <- s2, chainRead <- s3, listed <- s4, reported <- s5, plan <- s6,
    outcome <- s7, advised <- s8, change <- s9, Day <- 4, HORIZON_MARGIN <- 2,
    MAX_HORIZON <- 24, Period <- 5, Skews <- Skews, MaxTime <- 4, Years <- Years,
    Tokens <- Tokens, Tabled <- Tabled, Special <- Special, Retired <- RetiredVaults,
    Wallets <- OnePerson, NoDate <- Absent

\* The parts' own conditions on their constants.
ASSUME SiteAssumption ==
    /\ Tx!PageAssumption
    /\ {DeskSize.MaxTime, LongDeskSize.MaxTime, HeirSize.MaxTime, CheckInSize.MaxTime,
        PromiseSize.MaxTime} \subseteq Nat \ {0}
    /\ Desk!SwitchAssumption /\ Desk!DeskAssumption
    /\ LongDesk!SwitchAssumption /\ LongDesk!DeskAssumption
    /\ Heir!SwitchAssumption /\ Heir!HeirAssumption
    /\ CheckIns!SwitchAssumption /\ CheckIns!CheckInAssumption
    /\ Heirs!HeirsAssumption /\ Form!FormAssumption
    /\ Conn!ConnectionAssumption /\ Conn!NoneAssumption
    /\ Search!SearchAssumption /\ Payout!PayoutAssumption /\ Words!SwitchAssumption
    /\ Promise!SwitchAssumption /\ Entry!EntryAssumption /\ MaxDraws \in Nat \ {0}

-----------------------------------------------------------------------------
(* The slots from one on, when a part does not need them.                   *)

Idle12 == s12 = 0
Idle11 == s11 = 0 /\ Idle12
Idle10 == s10 = 0 /\ Idle11
Idle9 == s9 = 0 /\ Idle10
Idle8 == s8 = 0 /\ Idle9
Idle7 == s7 = 0 /\ Idle8
Idle6 == s6 = 0 /\ Idle7
Idle5 == s5 = 0 /\ Idle6
Idle4 == s4 = 0 /\ Idle5
Idle3 == s3 = 0 /\ Idle4

rest11 == <<s11, s12>>
rest10 == <<s10, rest11>>
rest9 == <<s9, rest10>>
rest8 == <<s8, rest9>>
rest7 == <<s7, rest8>>
rest6 == <<s6, rest7>>
rest5 == <<s5, rest6>>
rest4 == <<s4, rest5>>
rest3 == <<s3, rest4>>

SiteInit ==
    /\ part \in Parts
    /\ \/ part = "pageTx" /\ Tx!PageInit /\ Idle8
       \/ part = "txLine" /\ TxLog!LineInit
       \/ part = "desk" /\ Desk!DeskInit /\ Idle9
       \/ part = "longDesk" /\ LongDesk!DeskInit /\ Idle9
       \/ part = "heirDesk" /\ Heir!HeirInit /\ Idle9
       \/ part = "checkIns" /\ CheckIns!Init /\ Idle9
       \/ part = "heirs" /\ Heirs!Init /\ Idle5
       \/ part = "form" /\ Form!Init /\ Idle10
       \/ part = "connection" /\ Conn!Init /\ Idle8
       \/ part = "search" /\ Search!Init /\ Idle11
       \/ part = "payout" /\ Payout!Init /\ Idle8
       \/ part = "words" /\ Words!WordsInit /\ Idle4
       \/ part = "promise" /\ Promise!SwitchInit /\ Idle3
       \/ part = "entry" /\ Entry!EntryInit /\ Idle10

SiteNext ==
    \/ part = "pageTx" /\ Tx!PageNext /\ UNCHANGED <<part, rest8>>
    \/ part = "txLine" /\ TxLog!LineNext /\ UNCHANGED part
    \/ part = "desk" /\ Desk!DeskNext /\ UNCHANGED <<part, rest9>>
    \/ part = "longDesk" /\ LongDesk!DeskNext /\ UNCHANGED <<part, rest9>>
    \/ part = "heirDesk" /\ Heir!HeirNext /\ UNCHANGED <<part, rest9>>
    \/ part = "checkIns" /\ CheckIns!Next /\ UNCHANGED <<part, rest9>>
    \/ part = "heirs" /\ Heirs!Next /\ UNCHANGED <<part, rest5>>
    \/ part = "form" /\ Form!Next /\ UNCHANGED <<part, rest10>>
    \/ part = "connection" /\ Conn!Next /\ UNCHANGED <<part, rest8>>
    \/ part = "search" /\ Search!Next /\ UNCHANGED <<part, rest11>>
    \/ part = "payout" /\ Payout!Next /\ UNCHANGED <<part, rest8>>
    \/ part = "words" /\ Words!WordsNext /\ UNCHANGED <<part, rest4>>
    \/ part = "promise" /\ Promise!SwitchNext /\ UNCHANGED <<part, rest3>>
    \/ part = "entry" /\ Entry!EntryNext /\ UNCHANGED <<part, rest10>>

SiteSpec == SiteInit /\ [][SiteNext]_siteVars

-----------------------------------------------------------------------------
(* Properties.  The part's module states each in full.                      *)

\* Types of whichever part it is, with what its module says beside them.
SiteTypeOK ==
    CASE part = "pageTx" -> Tx!PageTypeOK
      [] part = "txLine" -> TxLog!LineTypeOK
      [] part = "desk" -> Desk!DeskTypeOK
      [] part = "longDesk" -> LongDesk!DeskTypeOK
      [] part = "heirDesk" -> Heir!HeirTypeOK
      [] part = "checkIns" -> CheckIns!CheckInTypeOK
      [] part = "heirs" -> Heirs!HeirsTypeOK
      [] part = "form" -> Form!FormTypeOK
      [] part = "connection" -> Conn!ConnectionTypeOK
      [] part = "search" -> Search!SearchTypeOK
      [] part = "payout" -> Payout!PayoutTypeOK
      [] part = "words" -> Words!WordsTypeOK
      [] part = "promise" -> Promise!SwitchTypeOK
      [] part = "entry" -> Entry!EntryTypeOK

\* A Sign button that can be pressed stands for something that has not happened
\* and that what it sent before cannot make happen any more (runTx).
OfferedMeansNothingHappened == part = "pageTx" => Tx!OfferedMeansNothingHappened

\* One review never has two transactions that are mined or still could be,
\* whatever the wallet and the connection answer (runTx).
DoneAtMostOnce == part = "pageTx" => Tx!DoneAtMostOnce

\* What a line says of its transaction, confirmed or failed, is so (runTx,
\* watchUnsettled).
VerdictsTrue == part = "pageTx" => Tx!VerdictsTrue

\* A transaction whose end was read leaves its result on the page, however
\* often its card was drawn anew or taken away meanwhile (relocate).
ResultIsShownStep == part = "txLine" => TxLog!ResultIsShownStep

\* Neither a draw nor a refused transaction takes the warning of an unknown
\* result off its card (movedLogs, newLogs).
WarningStaysStep == part = "txLine" => TxLog!WarningStaysStep

\* No result stands at the view's home while its card, on the page, has an
\* empty log (relocate).
HomeIsForTheGone == part = "txLine" => TxLog!HomeIsForTheGone

\* "Two quick clicks can never leave two Sign buttons": in an owner's panel, on
\* the create form and in a payout's panel, whatever reviews are under way and
\* in whatever order their reads return.
OneSignButton ==
    /\ part = "desk" => Desk!OneSignButton
    /\ part = "longDesk" => LongDesk!OneSignButton
    /\ part = "form" => Form!OneSignButton
    /\ part = "payout" => Payout!OneSignButton

\* A vault's card offers exactly the actions the contract would accept
\* (ownerActions).
OffersWhatWorks ==
    /\ part = "desk" => Desk!OffersWhatWorks
    /\ part = "longDesk" => LongDesk!OffersWhatWorks

\* The card of a claimed vault names exactly the calls that end the claim
\* (Stoppers).
StoppersAsTold ==
    /\ part = "desk" => Desk!StoppersAsTold
    /\ part = "longDesk" => LongDesk!StoppersAsTold

\* A signature does what its review said, unless the vault changed after the
\* last read in a way vaultChange would have stopped (vaultChange, the notes of
\* a review).
EffectAsToldStep ==
    /\ part = "desk" => Desk!EffectAsToldStep
    /\ part = "longDesk" => LongDesk!EffectAsToldStep

\* "Withdraw everything" closes the vault, whatever was added to it or taken
\* from it since it was shown (the panel of an owner).
EverythingClosesStep ==
    /\ part = "desk" => Desk!EverythingClosesStep
    /\ part = "longDesk" => LongDesk!EverythingClosesStep

\* No review of an unchanged vault leads to a call the contract refuses
\* (reviewed changes of heir and of horizon).
SignedCallAcceptedStep ==
    /\ part = "desk" => Desk!SignedCallAcceptedStep
    /\ part = "longDesk" => LongDesk!SignedCallAcceptedStep

\* A vault of which "that was the last check-in" is told takes no check-in any
\* more (the follow-up of a check-in).
LastIsLastStep ==
    /\ part = "desk" => Desk!LastIsLastStep
    /\ part = "longDesk" => LongDesk!LastIsLastStep

\* A claim the wallet is asked to sign the contract would accept then; a cancel
\* is of the claim shown, and refused only if the vault changed after it was
\* re-read (the heir's last re-read).
AskedOnlyWhatWorksStep == part = "heirDesk" => Heir!AskedOnlyWhatWorksStep

\* A cancel that asked for no acknowledgement is not overtaken by a settlement
\* within the margin (CANCEL_MARGIN).
UnwarnedCancelInTimeStep == part = "heirDesk" => Heir!UnwarnedCancelInTimeStep

\* A vault is reported as checked in exactly when the mined batch moved its
\* deadline (reportCheckIn).
ReportIsTheReceipt == part = "checkIns" => CheckIns!ReportIsTheReceipt

\* Check in on all holds a vault back only for the reason the contract would
\* skip it for (checkInBlocker).
HeldBackAsSkippedStep == part = "checkIns" => CheckIns!HeldBackAsSkippedStep

\* A button of the report of a batch is one the contract accepts, and who is
\* told nothing is wrong has a deadline where a check-in would put it (the
\* report's remedies).
RemediesHelpStep == part = "checkIns" => CheckIns!RemediesHelpStep

\* Who is told "checked in" without more has a deadline later check-ins can
\* move (the report of a batch).
NoUntoldLastCheckInStep == part = "checkIns" => CheckIns!NoUntoldLastCheckInStep

\* A vault reported as merely not sent is one a check-in on its card would help
\* (the re-read after a refused batch).
NotSentCanBeSentStep == part = "checkIns" => CheckIns!NotSentCanBeSentStep

\* An address the page lets through imitates neither the owner nor an heir in
\* use (heirProblem).
ImitationRefusedStep == part = "heirs" => Heirs!ImitationRefusedStep

\* An address a warning names is not accepted as a new heir, and an heir that
\* is offered is refused only where a warning says why (renderHeirAlerts).
AlertsAreKeptStep == part = "heirs" => Heirs!AlertsAreKeptStep

\* The page's remedy for two heirs that look alike works: with the wrong one in
\* no open vault the other is accepted (knownHeirs).
ConfirmedHeirAcceptedStep == part = "heirs" => Heirs!ConfirmedHeirAcceptedStep

\* A create that was mined, or whose result is unknown, never gets a second
\* signature from its review (the create form).
OneCreatePerReview == part = "form" => Form!OneCreatePerReview

\* A page that is ready shows the settings of the contract it was built for, on
\* the wallet's chain, or is about to be loaded again (connect).
ReadyMeansVerified == part = "connection" => Conn!ReadyMeansVerified

\* No record in the blocks the heir search calls searched is left out, through
\* stops, refusals and sources without old blocks (searchHeir).
NothingMissed == part = "search" => Search!NothingMissed

\* A search that was not stopped is complete if one source was well
\* (searchHeir).
OneSourceSuffices == part = "search" => Search!OneSourceSuffices

\* After a stop no source is asked for another range (the search's stop
\* button).
StopIsHeededStep == part = "search" => Search!StopIsHeededStep

\* A payout does what its review said although the credit is not read again
\* (the panel of a payout).
PaysAsToldStep == part = "payout" => Payout!PaysAsToldStep

\* What a card or the text of a refusal tells the reader to do the contract
\* accepts, and what it says is over the contract refuses (likelyRevert, the
\* cards).
AdviceWorks == part = "words" => Words!AdviceWorks

\* A date given with a refusal is the first at which the call works (the texts
\* of refusals).
DatesAreFirst == part = "words" => Words!DatesAreFirst

\* A text blames the vault only for a call that fails on it, and something else
\* only for one that would not (revertOf).
RefusedForCause == part = "words" => Words!RefusedForCause

\* A refusal is never told as a failure of something else, wherever ethers or
\* the wallet put its data (revertOf).
CauseIsNamed == part = "words" => Words!CauseIsNamed

\* An heir who waits for the horizon is paid no sooner than the card's payout
\* date (horizonText).
HorizonDateHolds == part = "words" => Words!HorizonDateHolds

\* A plan reviewed by chain time is accepted within the margin, however wrong
\* the device's clock is (the form's horizon).
ReviewedHorizonWorks == part = "entry" => Entry!ReviewedHorizonWorks

\* The day a refusal names as the earliest is enough by either clock, and the
\* day before it is not (utcDayCeil).
EarliestDayPasses == part = "entry" => Entry!EarliestDayPasses

\* The date, the two addresses and the amount that were typed are what is
\* signed (parseUtcDate, the units of an amount).
TypedIsSigned == part = "entry" => Entry!TypedIsSigned

\* An heir the form lets through is never an address the contract refuses as a
\* payee (refusedPayee).
HeirCanBePaid == part = "entry" => Entry!HeirCanBePaid

\* The change of horizon a review shows is whole years and the days left over,
\* leap days and all (fmtSpan).
SpanIsExact == part = "entry" => Entry!SpanIsExact

\* A list that says every block to X was searched leaves out no record up to
\* X, also when the sources change or the next search is under way (summary).
SummaryTrue == part = "search" => Search!SummaryTrue

\* A settlement comes a full window after its claim, and a claim after a period
\* of silence or at the horizon (the contract's promise to the owner).
SettledOnlyAfterSilence == part = "promise" => Promise!SettledOnlyAfterSilence

\* Each act of an owner that leaves the vault open puts the claim a full period
\* away or at the horizon (_resetClock).
ActsBuyTimeStep == part = "promise" => Promise!ActsBuyTimeStep

\* At the horizon a claim is out of the owner's reach except by a later horizon
\* that leaves a full period, or by closing (extendHorizon, withdraw).
OnlyTwoWaysOutAtHorizonStep == part = "promise" => Promise!OnlyTwoWaysOutAtHorizonStep

\* What was decided once is not signed or mined twice: no transaction of a review
\* after one that was or may still be mined, no second Sign button for one
\* decision, no line that calls a transaction over which is not (runTx,
\* watchUnsettled, the panels).
NothingSignedTwice ==
    /\ OfferedMeansNothingHappened
    /\ DoneAtMostOnce
    /\ VerdictsTrue
    /\ OneSignButton
    /\ OneCreatePerReview

\* What the page shows and offers is so: its cards offer what the contract
\* accepts, its dates, remedies and reasons hold, its reports are the receipts,
\* its searches leave nothing out, what was typed is what is sent.
PageKeepsItsWord ==
    /\ SiteTypeOK
    /\ HomeIsForTheGone
    /\ OffersWhatWorks
    /\ StoppersAsTold
    /\ ReportIsTheReceipt
    /\ ReadyMeansVerified
    /\ NothingMissed
    /\ OneSourceSuffices
    /\ SummaryTrue
    /\ AdviceWorks
    /\ DatesAreFirst
    /\ RefusedForCause
    /\ CauseIsNamed
    /\ HorizonDateHolds
    /\ ReviewedHorizonWorks
    /\ EarliestDayPasses
    /\ TypedIsSigned
    /\ HeirCanBePaid
    /\ SpanIsExact

\* A signature does what its review said, and the contract accepts it: no call
\* is asked for that would fail then, none overtakes the heir's own margin, and
\* no heir is let in who imitates another (vaultChange, the last re-reads,
\* heirProblem).
SignedAsReviewed ==
    [][/\ EffectAsToldStep
       /\ EverythingClosesStep
       /\ SignedCallAcceptedStep
       /\ AskedOnlyWhatWorksStep
       /\ UnwarnedCancelInTimeStep
       /\ PaysAsToldStep
       /\ ConfirmedHeirAcceptedStep
       /\ ImitationRefusedStep]_siteVars

\* What the page has told stands: results and warnings stay where they were put,
\* a check-in told as the last one is, what a batch held back the contract would
\* have skipped, alerts are kept and a stop is heeded.
ReportsStand ==
    [][/\ ResultIsShownStep
       /\ WarningStaysStep
       /\ LastIsLastStep
       /\ HeldBackAsSkippedStep
       /\ RemediesHelpStep
       /\ NoUntoldLastCheckInStep
       /\ NotSentCanBeSentStep
       /\ AlertsAreKeptStep
       /\ StopIsHeededStep]_siteVars

\* The switch keeps its promise to the owner: acts buy time, a claim at the
\* horizon cannot be put off for ever, and a settlement comes only after silence
\* (the contract, as the page and the watcher take it).
SwitchPromises ==
    [][/\ ActsBuyTimeStep
       /\ OnlyTwoWaysOutAtHorizonStep
       /\ SettledOnlyAfterSilence']_siteVars
===============================================================================
