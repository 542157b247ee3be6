------------------------------- MODULE Progress -------------------------------
(***************************************************************************)
(* What must come to pass, in one run.                                     *)
(*                                                                         *)
(* The promise of the product is that an owner who is gone is inherited    *)
(* from.  After LastDeliberate the owner decides nothing any more, but all *)
(* that can go on without the owner does - a keeper with the owner's key   *)
(* that checks in and vetoes, holders of chain links, top-ups, gifts, the  *)
(* administrator - and none of it may keep the heir out past the horizon.  *)
(*                                                                         *)
(* The other parts are the credit lane and, of the page, its transactions, *)
(* the heir search and the connection.  A behaviour follows one part;      *)
(* where it is not the vault's, its variables are kept in the first of the *)
(* slots s1 to s10 and the contract stands still.                          *)
(***************************************************************************)
EXTENDS InheritanceVault

CONSTANTS
    LastDeliberate,  \* bound: the owner's last act in person
    LastCancel,      \* bound: the heir's last change of mind about a recipient
    LastCall,        \* bound: a claim that is possible by now is made by now
    LastRelease,     \* bound: no new credit arrives after this time
    Parts,           \* the parts a behaviour may follow
    None, Reviews, Chains, Deployed, Known, Genuine, Limits

ASSUME LivenessAssumption ==
    /\ LastDeliberate + MAX_HORIZON <= LastCall
    /\ LastCancel <= LastCall
    /\ LastCall + MAX_CHALLENGE <= MaxTime

VARIABLES part, s1, s2, s3, s4, s5, s6, s7, s8, s9, s10

slots == <<s1, s2, s3, s4, s5, s6, s7, s8, s9, s10>>
progressVars == <<vars, part, slots>>

-----------------------------------------------------------------------------
(* The contract. *)

\* Time does not run out on an heir who has a claim to make: the window of
\* the claim must fit before MaxTime, where the model's clock stops.
HeirInTime ==
    now >= LastCall => \A k \in Keys : Active(k) => now < vault[k].deadline

TimelyTick == HeirInTime /\ TickStep

HeirClaims(k) == \E caller \in Heirs, to \in Recipients : InitiateClaim(caller, k, to)

LivenessNext ==
    \/ TimelyTick
    \/ /\ now <= LastDeliberate
       /\ \/ \E o \in Owners : CreationStep(o)
          \/ \E k \in Keys : DeliberateStep(k)
    \/ \E o \in Owners : BatchStep(o)
    \/ \E k \in Keys : AutomatedStep(k) \/ ChainStep(k) \/ HeirClaims(k)
    \/ /\ now <= LastCancel
       /\ \E caller \in Heirs, k \in Keys : BeneficiaryCancelClaim(caller, k)
    \/ AdminStep
    \/ AnyoneStep
    \/ PayoutStep

-----------------------------------------------------------------------------
(* The credit lane.  pushCredit "exists so a contract that can receive but *)
(* cannot originate a transaction is still paid".  Anyone may call it once *)
(* the grace is over; what is assumed is that time passes and that         *)
(* somebody keeps trying.  A payee that refuses, or a token that blocks    *)
(* it, is outside the promise.                                             *)

PayeeWithCode == CHOOSE a \in Heirs : TRUE
PayeesWithCode == {PayeeWithCode}
TwoUnits == {2}
OneUnit == {1}

Lane == INSTANCE CreditLane WITH
    now <- s1, held <- s2, totalLocked <- s3, totalCredited <- s4, credits <- s5,
    creditedSince <- s6, Contracts <- PayeesWithCode, PUSH_GRACE <- 2,
    Deposits <- TwoUnits, Gifts <- OneUnit, MaxHeld <- 3, MaxTime <- 5

LaneTick == Lane!Tick /\ UNCHANGED <<s2, s3, s4, s5, s6>>

DeliveryNext ==
    \/ LaneTick
    \/ Lane!DepositAction
    \/ s1 <= LastRelease /\ Lane!ReleaseAction
    \/ Lane!CreditAction
    \/ Lane!SweepAction
    \/ Lane!GiftAction

\* Somebody who is not the account itself pushes its credit.
PushedByAnother(t, account) ==
    \E caller \in Accounts \ {account} : Lane!PushCredit(caller, t, account)

-----------------------------------------------------------------------------
(* The programs. *)

\* Two reviews, each signed once.
Tx == INSTANCE PageTx WITH
    sign <- s1, step <- s2, fate <- s3, line <- s4, unsettled <- s5, watchers <- s6,
    asked <- s7, MaxSends <- 1

\* A search over one vault, while blocks arrive and the list is drawn again.
Sources == <<"wallet", "public">>
SpanOf == [wallet |-> 6, public |-> 2]

Search == INSTANCE HeirSearch WITH
    head <- s1, records <- s2, keeps <- s3, limit <- s4, scan <- s5, at <- s6,
    list <- s7, heirView <- s8, pending <- s9, faulty <- s10, Vaults <- Heirs,
    Sources <- Sources, SpanOf <- SpanOf, Limits <- Limits, MIN_LOG_SPAN <- 2,
    Shrink <- 2, RateWaits <- 1, MaxBlock <- 2, MaxPending <- 1

\* One account, and a chain of each kind the page tells apart.
Conn == INSTANCE Connection WITH
    wallet <- s1, S <- s2, attempts <- s3, listening <- s4, changed <- s5, banner <- s6,
    cards <- s7, Accounts <- Heirs, Chains <- Chains, None <- None,
    Deployed <- Deployed, Known <- Known, Genuine <- Genuine, Attempts <- OneUnit,
    MaxChanges <- 2

ASSUME ProgressAssumption ==
    /\ LastRelease + 2 <= 5
    /\ Tx!PageAssumption /\ Search!SearchAssumption
    /\ Conn!ConnectionAssumption /\ Conn!NoneAssumption

-----------------------------------------------------------------------------
(* The slots from one on, when a part does not need them. *)

Idle8 == s8 = 0 /\ s9 = 0 /\ s10 = 0
Idle7 == s7 = 0 /\ Idle8
Idle1 == s1 = 0 /\ s2 = 0 /\ s3 = 0 /\ s4 = 0 /\ s5 = 0 /\ s6 = 0 /\ Idle7

rest8 == <<s8, s9, s10>>
rest7 == <<s7, rest8>>

\* What a step of each part leaves alone.
OfVault(A) == part = "vault" /\ A /\ UNCHANGED <<part, slots>>
OfLane(A) == part = "lane" /\ A /\ UNCHANGED <<vars, part, rest7>>
OfPage(A) == part = "pageTx" /\ A /\ UNCHANGED <<vars, part, rest8>>
OfSearch(A) == part = "search" /\ A /\ UNCHANGED <<vars, part>>
OfConn(A) == part = "connection" /\ A /\ UNCHANGED <<vars, part, rest8>>

ProgressInit ==
    /\ Init
    /\ part \in Parts
    /\ \/ part = "vault" /\ Idle1
       \/ part = "lane" /\ Lane!LaneInit /\ Idle7
       \/ part = "pageTx" /\ Tx!PageInit /\ Idle8
       \/ part = "search" /\ Search!Init
       \/ part = "connection" /\ Conn!Init /\ Idle8

ProgressNext ==
    \/ OfVault(LivenessNext)
    \/ OfLane(DeliveryNext)
    \/ OfPage(Tx!PageNext)
    \/ OfSearch(Search!Next)
    \/ OfConn(Conn!Next)

VaultFairness ==
    /\ WF_progressVars(OfVault(TimelyTick))
    /\ \A k \in Keys :
          WF_progressVars(OfVault(HeirClaims(k))) /\ WF_progressVars(OfVault(FinalizeClaim(k)))

LaneFairness ==
    /\ WF_progressVars(OfLane(LaneTick))
    /\ \A t \in Tokens, account \in Accounts :
          WF_progressVars(OfLane(PushedByAnother(t, account)))

\* The watch's timer fires; its requests may fail, but not for ever; and a
\* transaction does not stay in the pool for ever.
PageFairness ==
    \A r \in Reviews :
        /\ WF_progressVars(OfPage(Tx!WatchAsks(r)))
        /\ WF_progressVars(OfPage(Tx!WatchAnsweredNone(r)))
        /\ SF_progressVars(OfPage(Tx!WatchAnswered(r)))
        /\ WF_progressVars(OfPage(Tx!Land(r)))

\* A call of the search is answered, or its timeout ends it; the browser
\* delivers the wallet's events.
SearchFairness == WF_progressVars(OfSearch(Search!Answer \/ Search!Failure))
ConnFairness == WF_progressVars(OfConn(Conn!Reload))

ProgressSpec ==
    /\ ProgressInit /\ [][ProgressNext]_progressVars
    /\ VaultFairness /\ LaneFairness /\ PageFairness /\ SearchFairness /\ ConnFairness

-----------------------------------------------------------------------------
(* Properties. *)

\* A vault whose owner is gone is settled to its heir in the end, however
\* long the automation left behind keeps checking in and objecting.
HorizonBeatsAutomation ==
    \A k \in Keys :
        (Live(k) /\ now > LastDeliberate) ~> vault[k].state = STATE_SETTLED

\* Every credit is paid in the end, even to an account that never acts: no
\* order of further credits, partial withdrawals and grace restarts keeps the
\* push lane shut for good (pushCredit).
CreditsDelivered ==
    \A t \in Tokens, a \in Accounts :
        (part = "lane" /\ s5[t][a] > 0) ~> (part = "lane" /\ s5[t][a] = 0)

\* The page does not stay held back by a transaction that was mined under its
\* own hash, whatever requests fail meanwhile (watchUnsettled).
HoldEnds ==
    \A r \in Reviews :
        (part = "pageTx" /\ s5 = r /\ Tx!FateOf(r) \in {"mined", "reverted"})
            ~> (part = "pageTx" /\ s5 # r)

\* However its sources answer, a search ends (searchHeir).
SearchEnds ==
    (part = "search" /\ s5.running) ~> (part = "search" /\ ~s5.running)

\* A page that asked the wallet for another chain and was told it changed is
\* loaded anew (switchNetwork).
SwitchReloads ==
    (part = "connection" /\ s6 = "switching") ~> (part = "connection" /\ s2 = Conn!Fresh)

\* Nothing the page waits for keeps it waiting for good: a hold ends, a search
\* ends, a changed wallet has the page loaded anew.
PageMovesOn == HoldEnds /\ SearchEnds /\ SwitchReloads
=============================================================================
