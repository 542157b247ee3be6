------------------------------- MODULE OwnerDesk -------------------------------
(***************************************************************************)
(* site/assets/app.js: the owner's card of one vault, its panels, reviews  *)
(* and Sign buttons.  The vault is a DeadMansSwitch with a balance; the    *)
(* heir, third parties and the owner's other devices act on it meanwhile.  *)
(*                                                                         *)
(* A handler runs to its next await.  Nothing a panel says is read in the  *)
(* step that signs it: a vault read when the panel opened is compared with *)
(* one read when the review runs, and that with one read at the signature, *)
(* and the transaction is mined some time after.  How it is sent is PageTx.*)
(***************************************************************************)
EXTENDS DeadMansSwitch, FiniteSets, FiniteSetTheorems

CONSTANTS
    HORIZON_MARGIN,   \* allowance for mining, on top of the earliest new horizon
    MaxBalance,       \* bound: units in the vault
    MaxGeneration,    \* bound: panels opened, reviews started and edits made
    MaxHandlers,      \* bound: handlers that run at a time
    MaxChanges        \* bound: acts of the others and of the owner's other devices

DeskAssumption ==
    /\ HORIZON_MARGIN \in Nat /\ MaxBalance \in Nat \ {0} /\ MaxGeneration \in Nat /\ MaxHandlers \in Nat
    /\ MaxChanges \in Nat
    /\ MaxPeriod <= MaxHorizon

VARIABLES
    balance,
    panel,        \* the open panel: its kind and the vault it was opened on
    generation,   \* the panel area's, counted on across panels
    reviews,      \* reviews that wait for an answer
    signs,        \* the Sign buttons on the page, and the handlers of buttons that were clicked
    changes       \* acts that were not this page's

deskVars == <<switchVars, balance, panel, generation, reviews, signs, changes>>
deskOnly == <<panel, generation, reviews, signs>>

Kinds == {"topUp", "part", "everything", "heir", "horizon"}

\* Signed straight from the card.
Pressed == {"checkIn", "veto"}

View == ViewOf(balance)

NoPanel == [kind |-> "none", form |-> FALSE, view |-> NoView, floor |-> 0, ceiling |-> 0]
NoEntry == [amount |-> 0, heir |-> Nobody, horizon |-> 0]

-----------------------------------------------------------------------------
(* What the page works out from a view v. *)

Later(a, b) == IF a > b THEN a ELSE b

horizonFloor(v, at) == Later(v.horizon + 1, at + v.period + HORIZON_MARGIN)

\* The buttons of a card.
ownerActions(v) ==
    CASE v.reached /\ v.phase = "claimed" -> {"horizon", "everything", "part"}
      [] v.reached /\ v.phase # "claimed" -> {"horizon", "topUp", "part", "everything", "heir"}
      [] ~v.reached /\ v.phase = "claimed" -> {"veto", "part", "everything", "heir", "horizon"}
      [] isPinned(v) -> {"horizon", "topUp", "part", "everything", "heir"}
      [] OTHER -> {"checkIn", "topUp", "part", "everything", "heir", "horizon"}

\* What the card of a claimed vault says will stop the claim.
Stoppers(v) ==
    IF v.reached THEN {"horizon", "everything"}
    ELSE {"veto", "heir", "horizon", "part", "everything"}

\* What the notes of a review say the signature does.
Told(kind, v) == [
    endsClaim |-> /\ v.phase = "claimed"
                  /\ \/ kind \in {"heir", "horizon", "everything"}
                     \/ kind = "part" /\ ~v.reached
                     \/ kind = "veto",
    restarts |-> \/ kind = "horizon"
                 \/ kind = "veto"
                 \/ kind \in {"heir", "part"} /\ ~v.reached,
    closes |-> kind = "everything"]

-----------------------------------------------------------------------------
(* What the contract does with the calls. *)

\* Whether a call would be accepted on s at t.
Accepts(kind, s, t) ==
    CASE kind = "checkIn" -> CanShowLife(s, t)
      [] kind = "veto" -> CanVeto(s, t)
      [] kind = "topUp" -> s.phase = "active"
      [] kind \in {"part", "everything"} -> IsLive(s)
      [] kind = "heir" -> CanAct(s, t)
      [] kind = "horizon" -> \E h \in Horizons : CanExtend(s, t, h)

AcceptsSigned(sign) ==
    CASE sign.kind = "horizon" -> CanExtend(switch, now, sign.entry.horizon)
      [] sign.kind = "part" -> IsLive(switch) /\ sign.entry.amount <= balance
      [] sign.kind = "topUp" -> switch.phase = "active" /\ balance + sign.entry.amount <= MaxBalance
      [] OTHER -> Accepts(sign.kind, switch, now)

\* "Everything" is whatever is there when the call is mined.
Taken(sign) == IF sign.kind = "everything" THEN balance ELSE sign.entry.amount

AfterSigned(sign) ==
    CASE sign.kind = "topUp" -> switch
      [] sign.kind \in {"part", "everything"} ->
            IF Taken(sign) = balance
            THEN [Acted(switch, now) EXCEPT !.phase = "closed"]
            ELSE PartWithdrawn(switch, now)
      [] sign.kind = "checkIn" -> Restarted(switch, now)
      [] sign.kind = "veto" -> Acted(switch, now)
      [] sign.kind = "heir" -> Acted([switch EXCEPT !.heir = sign.entry.heir], now)
      [] sign.kind = "horizon" -> Acted([switch EXCEPT !.horizon = sign.entry.horizon], now)

BalanceAfterSigned(sign) ==
    CASE sign.kind = "topUp" -> balance + sign.entry.amount
      [] sign.kind \in {"part", "everything"} -> balance - Taken(sign)
      [] OTHER -> balance

-----------------------------------------------------------------------------
(* Panels and reviews. *)

NextGeneration == generation < MaxGeneration /\ generation' = generation + 1

Shown(sign) == sign.generation = generation /\ panel # NoPanel

\* Buttons taken off the page can no longer be clicked; a handler goes on.
Handlers == {s \in signs : s.stage # "offered"}

\* The cards are drawn anew: the panel and what it showed is gone.
CardsRedrawn == panel' = NoPanel /\ UNCHANGED generation

NewSign(kind, entry, v, g) ==
    [kind |-> kind, entry |-> entry, view |-> v, generation |-> g, stage |-> "offered", at |-> 0]

\* An action's handler reads the vault and opens its panel, in the place of the
\* one that is open.
Opens(kind, form, floor, ceiling) ==
    /\ IsLive(switch)
    /\ NextGeneration
    /\ panel' = [kind |-> kind, form |-> form, view |-> View, floor |-> floor, ceiling |-> ceiling]
    /\ UNCHANGED <<switchVars, balance, reviews>>

\* (Of a token that the app knows.)
actTopUp == Opens("topUp", TRUE, 0, 0) /\ signs' = Handlers

\* (Of a token whose decimals can be read.)
actWithdraw == Opens("part", TRUE, 0, 0) /\ signs' = Handlers

\* There is no review: the panel carries the Sign button.
actWithdrawAll ==
    /\ Opens("everything", FALSE, 0, 0)
    /\ signs' = Handlers \cup {NewSign("everything", NoEntry, View, generation + 1)}

\* Past the horizon there is no form yet: it takes an acknowledgement, and for
\* a claimed vault there is none.
actHeir == Opens("heir", ~View.reached, 0, 0) /\ signs' = Handlers

ChangeWithoutExtending ==
    /\ panel.kind = "heir" /\ ~panel.form /\ panel.view.phase # "claimed"
    /\ panel' = [panel EXCEPT !.form = TRUE]
    /\ UNCHANGED <<switchVars, balance, generation, reviews, signs>>

actHorizon ==
    /\ Opens("horizon", TRUE, horizonFloor(View, now), now + MaxHorizon - HORIZON_MARGIN)
    /\ signs' = Handlers

ClosePanel ==
    /\ panel # NoPanel
    /\ CardsRedrawn
    /\ signs' = Handlers
    /\ UNCHANGED <<switchVars, balance, reviews>>

\* area.start() and area.reset(): the Sign button shown so far is removed.
StartReview ==
    /\ panel.form
    /\ NextGeneration
    /\ reviews' = reviews \cup {[generation |-> generation + 1, view |-> NoView]}
    /\ signs' = Handlers
    /\ UNCHANGED <<switchVars, balance, panel>>

Edit ==
    /\ panel.form
    /\ NextGeneration
    /\ signs' = Handlers
    /\ UNCHANGED <<switchVars, balance, panel, reviews>>

\* What may be entered in the panel and passes the checks of its review.
Entries(kind, v) ==
    CASE kind = "topUp" -> {[NoEntry EXCEPT !.amount = 1]}
      [] kind = "part" -> {[NoEntry EXCEPT !.amount = n] : n \in 1..(v.balance - 1)}
      [] kind = "heir" -> {[NoEntry EXCEPT !.heir = p] : p \in Persons \ {v.heir}}
      [] kind = "horizon" ->
            {[NoEntry EXCEPT !.horizon = h] :
                h \in panel.floor..panel.ceiling}

Current(review) == review.generation = generation /\ panel # NoPanel

Waiting == {r \in reviews : r.view = NoView}

\* recheckVault answers the review with a vault that changed: the cards are
\* re-read, or that read fails and the panel stays with the message.
ReviewFindsChange(r) ==
    /\ r \in Waiting /\ panel # NoPanel
    /\ vaultChange(panel.view, View)
    /\ reviews' = reviews \ {r}
    /\ \/ CardsRedrawn /\ signs' = Handlers
       \/ UNCHANGED <<panel, generation, signs>>
    /\ UNCHANGED <<switchVars, balance>>

\* A review that is not the newest shows nothing; nor does one whose read fails.
ReviewDropped(r) ==
    /\ r \in reviews
    /\ reviews' = reviews \ {r}
    /\ UNCHANGED <<switchVars, balance, panel, generation, signs>>

\* The heir's form reads the known heirs and the address's code next.
ReviewReads(r) ==
    /\ r \in Waiting /\ Current(r) /\ panel.kind = "heir"
    /\ ~vaultChange(panel.view, View)
    /\ reviews' = (reviews \ {r}) \cup {[r EXCEPT !.view = View]}
    /\ UNCHANGED <<switchVars, balance, panel, generation, signs>>

\* The review is shown with its Sign button.
ReviewShown(r) ==
    /\ r \in reviews /\ Current(r)
    /\ (panel.kind = "heir") <=> (r.view # NoView)
    /\ LET v == IF r.view = NoView THEN View ELSE r.view IN
       /\ ~vaultChange(panel.view, v)
       /\ panel.kind = "topUp" => v.phase = "active"
       /\ \E entry \in Entries(panel.kind, v) :
             signs' = signs \cup {NewSign(panel.kind, entry, v, generation)}
    /\ reviews' = reviews \ {r}
    /\ UNCHANGED <<switchVars, balance, panel, generation>>

-----------------------------------------------------------------------------
(* Signing. *)

Becomes(sign, stage) ==
    signs' = (signs \ {sign}) \cup {[sign EXCEPT !.stage = stage, !.at = IF stage = "prompt" THEN now ELSE 0]}

Click(sign) ==
    /\ sign.stage = "offered" /\ Cardinality(Handlers) < MaxHandlers
    /\ Becomes(sign, "recheck")
    /\ UNCHANGED <<switchVars, balance, panel, generation, reviews>>

\* Check in and Veto have neither a panel nor a review; a card that is out of
\* date offers what the contract will refuse.
Press(kind) ==
    /\ Cardinality(Handlers) < MaxHandlers
    /\ signs' = signs \cup {[NewSign(kind, NoEntry, View, 0) EXCEPT !.stage = "prompt", !.at = now]}
    /\ UNCHANGED <<switchVars, balance, panel, generation, reviews>>

actCheckIn == Press("checkIn")
actAbort == Press("veto")

\* The button is offered again, if it is still on the page.
OfferedAgain(sign) ==
    IF Shown(sign) THEN Becomes(sign, "offered") ELSE signs' = signs \ {sign}

RecheckFails(sign) ==
    /\ sign.stage = "recheck"
    /\ OfferedAgain(sign)
    /\ UNCHANGED <<switchVars, balance, panel, generation, reviews>>

RecheckFindsChange(sign) ==
    /\ sign.stage = "recheck"
    /\ vaultChange(sign.view, View)
    /\ \/ CardsRedrawn /\ signs' = Handlers \ {sign}
       \/ OfferedAgain(sign) /\ UNCHANGED <<panel, generation>>
    /\ UNCHANGED <<switchVars, balance, reviews>>

\* A part that has become the whole is not signed, and not offered again.
RecheckFindsWhole(sign) ==
    /\ sign.stage = "recheck" /\ sign.kind = "part"
    /\ ~vaultChange(sign.view, View)
    /\ sign.entry.amount >= balance
    /\ signs' = signs \ {sign}
    /\ UNCHANGED <<switchVars, balance, panel, generation, reviews>>

\* A new horizon is held against the floor once more; a top-up in a token may
\* need an approval first.
RecheckPasses(sign) ==
    /\ sign.stage = "recheck"
    /\ ~vaultChange(sign.view, View)
    /\ sign.kind = "part" => sign.entry.amount < balance
    /\ \/ sign.kind # "horizon" /\ Becomes(sign, "prompt")
       \/ sign.kind = "horizon" /\ Becomes(sign, "floor")
       \/ sign.kind = "topUp" /\ Becomes(sign, "approve")
    /\ UNCHANGED <<switchVars, balance, panel, generation, reviews>>

FloorChecked(sign) ==
    /\ sign.stage = "floor"
    /\ IF sign.entry.horizon < horizonFloor(sign.view, now)
       THEN OfferedAgain(sign)
       ELSE Becomes(sign, "prompt")
    /\ UNCHANGED <<switchVars, balance, panel, generation, reviews>>

Approval(sign) ==
    /\ sign.stage = "approve"
    /\ Becomes(sign, "prompt") \/ OfferedAgain(sign)
    /\ UNCHANGED <<switchVars, balance, panel, generation, reviews>>

Decline(sign) ==
    /\ sign.stage = "prompt"
    /\ OfferedAgain(sign)
    /\ UNCHANGED <<switchVars, balance, panel, generation, reviews>>

\* What is reported of a check-in once the vault was read again: how far it
\* moved the deadline (and, of the vault it was mined on, the period).
FollowUp(sign) == [sign EXCEPT !.stage = "followUp", !.at = 0, !.view = NoView,
                       !.entry.horizon = Restarted(switch, now).deadline, !.entry.amount = switch.period]

\* Mined: done, or reverted; in both cases the cards are re-read.
Mined(sign) ==
    /\ sign.stage = "prompt"
    /\ IF AcceptsSigned(sign)
       THEN switch' = AfterSigned(sign) /\ balance' = BalanceAfterSigned(sign)
       ELSE UNCHANGED <<switch, balance>>
    /\ signs' = (Handlers \ {sign}) \cup (IF sign.kind = "checkIn" /\ AcceptsSigned(sign) THEN {FollowUp(sign)} ELSE {})
    /\ CardsRedrawn
    /\ UNCHANGED <<now, reviews>>

\* "That was the last check-in that can move this deadline."
ToldLast(sign) == sign.entry.horizon >= switch.horizon

FollowedUp(sign) ==
    /\ sign.stage = "followUp"
    /\ signs' = signs \ {sign}
    /\ UNCHANGED <<switchVars, balance, panel, generation, reviews>>

-----------------------------------------------------------------------------
(* The others. *)

OtherDevice ==
    /\ ShowLife \/ Rearm \/ ChangeHeir \/ ChangePeriod \/ Extend \/ Veto
    /\ UNCHANGED <<balance, deskOnly>>

OtherDeviceWithdraws ==
    /\ balance > 1 /\ WithdrawPart
    /\ balance' = balance - 1
    /\ UNCHANGED deskOnly

AnyoneTopsUp ==
    /\ switch.phase = "active" /\ balance < MaxBalance
    /\ balance' = balance + 1
    /\ UNCHANGED <<switchVars, deskOnly>>

OthersAct ==
    /\ HeirActs \/ Settle
    /\ UNCHANGED <<balance, deskOnly>>

NextBlock == Tick /\ UNCHANGED <<switch, balance, deskOnly, changes>>

DeskInit ==
    /\ ClockInit
    /\ \E heir \in Persons, period \in Periods, window \in Windows, horizon \in Horizons :
          /\ horizon >= now + period /\ horizon <= now + MaxHorizon
          /\ switch = Restarted([Unarmed EXCEPT !.phase = "active", !.heir = heir,
                        !.period = period, !.horizon = horizon, !.window = window], now)
    /\ balance \in 1..MaxBalance
    /\ panel = NoPanel
    /\ generation = 0
    /\ reviews = {}
    /\ signs = {} /\ changes = 0

ThisPage ==
    \/ actTopUp \/ actWithdraw \/ actWithdrawAll \/ actHeir \/ ChangeWithoutExtending \/ actHorizon
    \/ actCheckIn \/ actAbort
    \/ ClosePanel \/ StartReview \/ Edit
    \/ \E r \in reviews : ReviewFindsChange(r) \/ ReviewDropped(r) \/ ReviewReads(r) \/ ReviewShown(r)
    \/ \E s \in signs : \/ Click(s) \/ RecheckFails(s) \/ RecheckFindsChange(s) \/ RecheckFindsWhole(s)
                        \/ RecheckPasses(s) \/ FloorChecked(s) \/ Approval(s) \/ Decline(s) \/ Mined(s)
                        \/ FollowedUp(s)

DeskNext ==
    \/ ThisPage /\ UNCHANGED changes
    \/ changes < MaxChanges /\ changes' = changes + 1 /\ (OtherDevice \/ OtherDeviceWithdraws \/ AnyoneTopsUp \/ OthersAct)
    \/ NextBlock

DeskSpec == DeskInit /\ [][DeskNext]_deskVars

-----------------------------------------------------------------------------
(* Properties. *)

\* Types of the desk; a live vault holds something.
DeskTypeOK ==
    /\ SwitchTypeOK
    /\ balance \in 0..MaxBalance
    /\ (switch.phase = "closed") <=> (balance = 0)
    /\ generation \in 0..MaxGeneration
    /\ \A s \in signs : s.kind \in Kinds \cup Pressed /\ s.generation \in 0..MaxGeneration

\* "Two quick clicks can never leave two Sign buttons", however many reviews
\* are under way and in whatever order their reads return.
OneSignButton == Cardinality(signs \ Handlers) <= 1

\* The effects the notes of a review tell apart, of a call that takes s to s2 at t.
Effect(s, s2, t) == [
    endsClaim |-> s.phase = "claimed" /\ s2.phase \in {"active", "closed"},
    restarts |-> s2.deadline > t /\ s2.deadline # s.deadline,
    closes |-> s2.phase = "closed"]

\* A signature does what its review said, whatever check-ins, top-ups and
\* withdrawals came between, unless something happened after the page's last
\* read that vaultChange would have stopped: vaultChange misses nothing that
\* the notes depend on.  (A top-up says it restarts nothing; a withdrawal of
\* everything says nothing of the timer.)
EffectAsToldStep ==
    \A s \in signs :
        (s.kind # "checkIn" /\ Mined(s) /\ AcceptsSigned(s) /\ ~vaultChange(s.view, View)) =>
            LET retimes == s.kind \in {"heir", "horizon", "part", "veto"} /\ switch'.phase # "closed"
            IN  /\ (s.kind = "part" => Taken(s) < balance) =>
                      Effect(switch, switch', now).endsClaim = Told(s.kind, s.view).endsClaim
                /\ retimes /\ ~Told(s.kind, s.view).restarts => switch'.deadline <= Later(now, switch.deadline)
                /\ retimes /\ Told(s.kind, s.view).restarts => switch'.deadline > now
                /\ s.kind = "topUp" => switch'.deadline = switch.deadline

\* And it is accepted: no review of an unchanged vault leads to a call the
\* contract refuses, a new horizon as long as it is mined within the margin.
SignedCallAcceptedStep ==
    \A s \in signs :
        (/\ Mined(s) /\ s.kind \in {"everything", "heir", "horizon"} /\ ~vaultChange(s.view, View)
         /\ s.kind = "horizon" => now <= s.at + HORIZON_MARGIN)
           => AcceptsSigned(s)

\* "Withdraw everything" closes the vault, and any claim with it, whatever was
\* added to it or taken from it since it was shown.
EverythingClosesStep ==
    \A s \in signs : Mined(s) /\ s.kind = "everything" /\ IsLive(switch) => switch'.phase = "closed"

\* "That was the last check-in that can move this deadline" is never told of a
\* vault that still takes check-ins, whatever was done to it since it was mined
\* (but for a period that the owner shortened on another device).
LastIsLastStep ==
    \A s \in signs :
        FollowedUp(s) /\ ToldLast(s) /\ s.entry.amount = switch.period => ~Accepts("checkIn", switch, now)

\* A card offers exactly the actions the contract would accept of the vault it
\* shows.  (Extending is offered also when no later horizon is allowed.)
OffersWhatWorks ==
    IsLive(switch) =>
        \A a \in Kinds \cup {"checkIn", "veto"} :
            \/ a \in ownerActions(View) <=> Accepts(a, switch, now)
            \/ a = "horizon" /\ switch.horizon + 1 > now + MaxHorizon

\* The card of a claimed vault names exactly the calls that end the claim, and
\* of those it offers, it names each that does.
StoppersAsTold ==
    switch.phase = "claimed" =>
        /\ \A a \in Stoppers(View) : Accepts(a, switch, now)
        /\ \A a \in ownerActions(View) :
              a \in Stoppers(View) <=> (a = "part" => PartWithdrawn(switch, now).phase # "claimed")

-----------------------------------------------------------------------------
(* One Sign button: the inductive invariant and its proof.                  *)

SignFields == {"kind", "entry", "view", "generation", "stage", "at"}

\* Each review and each Sign button belongs to one generation of the panel
\* area, and a generation has at most one of them; a button that is offered
\* belongs to the one that is on the page.  What is pressed on the card itself
\* has no generation, and is never offered.
ButtonInv ==
    /\ generation \in Nat
    /\ panel # NoPanel => generation > 0
    /\ \A r \in reviews : DOMAIN r = {"generation", "view"} /\ r.generation \in 1..generation
    /\ \A r, q \in reviews : r.generation = q.generation => r = q
    /\ \A s \in signs :
          /\ DOMAIN s = SignFields /\ s.generation \in 0..generation
          /\ s.stage = "offered" => Shown(s)
          /\ \A r \in reviews : r.generation # s.generation
    /\ \A s, t \in signs : s.generation = t.generation /\ s.generation > 0 => s = t

\* A handler goes on in another stage, or its button goes.
LEMMA ButtonGoesOn ==
  ASSUME ButtonInv, NEW sign \in signs, NEW stage,
         \/ Becomes(sign, stage) /\ stage # "offered"
         \/ OfferedAgain(sign)
         \/ signs' = signs \ {sign},
         UNCHANGED <<panel, generation, reviews>>
  PROVE  ButtonInv'
<1> DEFINE Went(st) == [sign EXCEPT !.stage = st, !.at = IF st = "prompt" THEN now ELSE 0]
<1>1. \A st : /\ DOMAIN Went(st) = SignFields
              /\ Went(st).stage = st /\ Went(st).generation = sign.generation
  BY DEF ButtonInv, SignFields
<1>2. PICK st : /\ signs' \subseteq (signs \ {sign}) \cup {Went(st)}
                /\ st = "offered" => signs' \subseteq (signs \ {sign}) \/ Shown(sign)
  <2>1. CASE Becomes(sign, stage) /\ stage # "offered"
    BY <2>1 DEF Becomes
  <2>2. CASE OfferedAgain(sign)
    BY <2>2 DEF OfferedAgain, Becomes
  <2>3. CASE signs' = signs \ {sign}
    BY <2>3
  <2> QED
    BY <2>1, <2>2, <2>3
<1> HIDE DEF Went
<1> QED
  BY <1>1, <1>2 DEF ButtonInv, Shown

\* The panel area starts anew: no button stays offered but the new one.
LEMMA AreaStartsAnew ==
  ASSUME ButtonInv, generation' = generation + 1, NEW sign, NEW review,
         DOMAIN sign = SignFields, sign.generation = generation + 1,
         DOMAIN review = {"generation", "view"}, review.generation = generation + 1,
         \/ signs' = Handlers /\ reviews' \subseteq reviews \cup {review}
         \/ signs' = Handlers \cup {sign} /\ reviews' = reviews /\ panel' # NoPanel
  PROVE  ButtonInv'
<1>1. CASE signs' = Handlers /\ reviews' \subseteq reviews \cup {review}
  BY <1>1 DEF ButtonInv, Handlers, Shown
<1>2. CASE signs' = Handlers \cup {sign} /\ reviews' = reviews /\ panel' # NoPanel
  BY <1>2 DEF ButtonInv, Handlers, Shown
<1> QED
  BY <1>1, <1>2

\* The panel goes, and with it what it offered.
LEMMA AreaIsCleared ==
  ASSUME ButtonInv, CardsRedrawn, signs' \subseteq Handlers, reviews' \subseteq reviews
  PROVE  ButtonInv'
BY DEF ButtonInv, CardsRedrawn, Handlers, Shown

\* No step of the page, of the vault or of anybody else leads out of it.
LEMMA ButtonStep ==
  ASSUME ButtonInv, [DeskNext]_deskVars
  PROVE  ButtonInv'
<1> DEFINE review == [generation |-> generation + 1, view |-> NoView]
           Fresh(kind) == NewSign(kind, NoEntry, View, generation + 1)
<1>0. /\ \A kind : DOMAIN Fresh(kind) = SignFields /\ Fresh(kind).generation = generation + 1
      /\ DOMAIN review = {"generation", "view"} /\ review.generation = generation + 1
  BY DEF NewSign, SignFields
<1>1. CASE UNCHANGED deskOnly
  BY <1>1 DEF deskOnly, ButtonInv, Shown
<1>2. ASSUME NEW kind, NEW form, NEW floor, NEW ceiling, Opens(kind, form, floor, ceiling),
             kind # "none", signs' = Handlers \/ signs' = Handlers \cup {Fresh(kind)}
      PROVE  ButtonInv'
  <2>1. panel' # NoPanel
    BY <1>2 DEF Opens, NoPanel
  <2>2. generation' = generation + 1 /\ reviews' = reviews
    BY <1>2 DEF Opens, NextGeneration
  <2> HIDE DEF Fresh, review
  <2> QED
    BY <1>0, <1>2, <2>1, <2>2, AreaStartsAnew
<1>3. CASE actTopUp \/ actWithdraw \/ actWithdrawAll \/ actHeir \/ actHorizon
  BY <1>2, <1>3 DEF actTopUp, actWithdraw, actWithdrawAll, actHeir, actHorizon
<1>4. CASE ChangeWithoutExtending
  <2>1. panel # NoPanel /\ UNCHANGED <<generation, reviews, signs>>
    BY <1>4 DEF ChangeWithoutExtending, NoPanel
  <2>2. panel' # NoPanel
    BY <1>4 DEF ChangeWithoutExtending, NoPanel
  <2> QED
    BY <2>1, <2>2 DEF ButtonInv, Shown
<1>5. CASE actCheckIn \/ actAbort
  <2>1. PICK kind : Press(kind)
    BY <1>5 DEF actCheckIn, actAbort
  <2> DEFINE pressed == [NewSign(kind, NoEntry, View, 0) EXCEPT !.stage = "prompt", !.at = now]
  <2>2. /\ DOMAIN pressed = SignFields /\ pressed.generation = 0 /\ pressed.stage = "prompt"
    BY DEF NewSign, SignFields
  <2>3. signs' = signs \cup {pressed} /\ UNCHANGED <<panel, generation, reviews>>
    BY <2>1 DEF Press
  <2> HIDE DEF pressed
  <2> QED
    BY <2>2, <2>3 DEF ButtonInv, Shown
<1>6. CASE ClosePanel
  BY <1>6, AreaIsCleared DEF ClosePanel
<1>7. CASE StartReview \/ Edit
  <2>1. generation' = generation + 1 /\ signs' = Handlers /\ reviews' \subseteq reviews \cup {review}
    BY <1>7 DEF StartReview, Edit, NextGeneration
  <2> HIDE DEF Fresh, review
  <2> QED
    BY <1>0, <2>1, AreaStartsAnew
<1>8. ASSUME NEW r \in reviews, ReviewFindsChange(r) \/ ReviewDropped(r)
      PROVE  ButtonInv'
  <2>1. CASE CardsRedrawn /\ signs' = Handlers /\ reviews' = reviews \ {r}
    BY <2>1, AreaIsCleared
  <2>2. CASE UNCHANGED <<panel, generation, signs>> /\ reviews' = reviews \ {r}
    BY <2>2 DEF ButtonInv, Shown
  <2> QED
    BY <1>8, <2>1, <2>2 DEF ReviewFindsChange, ReviewDropped
<1>9. ASSUME NEW r \in reviews, ReviewReads(r)
      PROVE  ButtonInv'
  <2> DEFINE with == [r EXCEPT !.view = View]
  <2>1. DOMAIN with = {"generation", "view"} /\ with.generation = r.generation
    BY DEF ButtonInv
  <2>2. UNCHANGED <<panel, generation, signs>> /\ reviews' = (reviews \ {r}) \cup {with}
    BY <1>9 DEF ReviewReads
  <2> HIDE DEF with
  <2> QED
    BY <2>1, <2>2 DEF ButtonInv, Shown
<1>10. ASSUME NEW r \in reviews, ReviewShown(r)
       PROVE  ButtonInv'
  <2>1. PICK kind, entry, v : signs' = signs \cup {NewSign(kind, entry, v, generation)}
    BY <1>10 DEF ReviewShown
  <2> DEFINE shown == NewSign(kind, entry, v, generation)
  <2>2. DOMAIN shown = SignFields /\ shown.generation = generation
    BY DEF NewSign, SignFields
  <2>3. /\ UNCHANGED <<panel, generation>> /\ reviews' = reviews \ {r}
        /\ r.generation = generation /\ panel # NoPanel
    BY <1>10 DEF ReviewShown, Current
  <2> HIDE DEF shown
  <2> QED
    BY <2>1, <2>2, <2>3 DEF ButtonInv, Shown, shown
<1>11. ASSUME NEW s \in signs, Click(s) \/ RecheckPasses(s) \/ FloorChecked(s) \/ Approval(s)
       PROVE  ButtonInv'
  BY <1>11, ButtonGoesOn DEF Click, RecheckPasses, FloorChecked, Approval
<1>12. ASSUME NEW s \in signs,
              RecheckFails(s) \/ RecheckFindsWhole(s) \/ Decline(s) \/ FollowedUp(s)
       PROVE  ButtonInv'
  BY <1>12, ButtonGoesOn DEF RecheckFails, RecheckFindsWhole, Decline, FollowedUp
<1>13. ASSUME NEW s \in signs, RecheckFindsChange(s)
       PROVE  ButtonInv'
  BY <1>13, ButtonGoesOn, AreaIsCleared DEF RecheckFindsChange
<1>14. ASSUME NEW s \in signs, Mined(s)
       PROVE  ButtonInv'
  <2> DEFINE told == FollowUp(s)
  <2>1. DOMAIN told = SignFields /\ told.generation = s.generation /\ told.stage = "followUp"
    BY DEF FollowUp, ButtonInv, SignFields
  <2>2. /\ signs' \subseteq (Handlers \ {s}) \cup {told}
        /\ panel' = NoPanel /\ UNCHANGED <<generation, reviews>>
    BY <1>14 DEF Mined, CardsRedrawn
  <2> HIDE DEF told
  <2> QED
    BY <2>1, <2>2 DEF ButtonInv, Handlers, Shown
<1>15. CASE ThisPage
  BY <1>3, <1>4, <1>5, <1>6, <1>7, <1>8, <1>9, <1>10, <1>11, <1>12, <1>13, <1>14, <1>15 DEF ThisPage
<1>16. CASE NextBlock \/ OtherDevice \/ OtherDeviceWithdraws \/ AnyoneTopsUp \/ OthersAct
  BY <1>1, <1>16 DEF NextBlock, OtherDevice, OtherDeviceWithdraws, AnyoneTopsUp, OthersAct, deskOnly
<1> QED
  BY <1>1, <1>15, <1>16 DEF DeskNext, deskVars, deskOnly

\* A set whose elements are all the same has at most one.
LEMMA AtMostOne ==
  ASSUME NEW S, \A s, t \in S : s = t
  PROVE  Cardinality(S) <= 1
<1>1. CASE S = {}
  BY <1>1, FS_EmptySet
<1>2. ASSUME NEW s, S = {s}
      PROVE  Cardinality(S) <= 1
  <2>1. Cardinality({s}) = 1
    BY FS_Singleton
  <2> QED
    BY <1>2, <2>1
<1> QED
  BY <1>1, <1>2

\* The page starts in it, with no panel and no button,
LEMMA ButtonStart ==
  ASSUME DeskInit
  PROVE  ButtonInv
BY DEF DeskInit, ButtonInv, NoPanel

\* and in it the buttons that are offered are one, of the panel on the page.
LEMMA ButtonsAreOne ==
  ASSUME ButtonInv
  PROVE  OneSignButton
<1>1. \A s, t \in signs \ Handlers : s = t
  BY DEF ButtonInv, Handlers, Shown
<1> QED
  BY <1>1, AtMostOne DEF OneSignButton

\* Whatever reviews are under way, however the reads of the page return, and
\* whatever others do to the vault, an owner's panel never shows two Sign
\* buttons for one decision.
THEOREM OneButtonPerPanel == DeskSpec => []OneSignButton
<1>1. DeskInit => ButtonInv
  BY ButtonStart
<1>2. ButtonInv /\ [DeskNext]_deskVars => ButtonInv'
  BY ButtonStep
<1>3. ButtonInv => OneSignButton
  BY ButtonsAreOne
<1> QED
  BY <1>1, <1>2, <1>3, PTL DEF DeskSpec

-----------------------------------------------------------------------------
(* A signature does what its review said, and the contract takes it.        *)

\* What the open panel shows: a vault that was live when it opened; for another heir one
\* that takes the change, for another horizon dates the contract takes.  A review that
\* may still be shown belongs to a panel that has a form.
PanelFits ==
    /\ DOMAIN panel = {"kind", "form", "view", "floor", "ceiling"}
    /\ panel.view.horizon \in Nat /\ panel.view.period \in Nat
    /\ panel # NoPanel => panel.kind \in Kinds /\ IsLive(panel.view)
    /\ panel.form => panel.kind \in Kinds \ {"everything"}
    /\ panel.kind = "heir" /\ panel.form => ~(panel.view.phase = "claimed" /\ panel.view.reached)
    /\ panel.kind = "horizon" =>
          /\ panel.floor \in Nat /\ panel.ceiling \in Int
          /\ panel.floor > panel.view.horizon /\ panel.ceiling <= now + MaxHorizon
    /\ \A r \in reviews : Current(r) => panel.form

\* What is told of a check-in: the deadline it made is no later than the horizon, and as
\* long as that is still the horizon, and the period what it was, no check-in is later.
FollowUpFits(s) ==
    /\ s.kind = "checkIn" /\ s.entry.horizon <= switch.horizon
    /\ s.entry.horizon >= switch.horizon =>
          /\ now + s.entry.amount >= switch.horizon
          /\ switch.period = s.entry.amount /\ IsLive(switch) => switch.deadline >= switch.horizon

\* What a Sign button, and the handler of one, stands for.
SignFits(s) ==
    /\ s.kind \in Kinds \cup Pressed
    /\ DOMAIN s.entry = {"amount", "heir", "horizon"}
    /\ s.entry.amount \in Nat /\ s.entry.horizon \in Nat /\ s.at \in Nat
    /\ s.kind = "everything" => IsLive(s.view)
    /\ s.kind = "heir" => /\ s.entry.heir \in Persons /\ IsLive(s.view)
                          /\ ~(s.view.phase = "claimed" /\ s.view.reached)
    /\ s.kind = "horizon" =>
          /\ IsLive(s.view) /\ s.view.horizon \in Nat /\ s.view.period \in Nat
          /\ s.entry.horizon > s.view.horizon /\ s.entry.horizon <= now + MaxHorizon
          /\ s.stage = "prompt" => s.entry.horizon >= s.at + s.view.period + HORIZON_MARGIN
    /\ s.stage = "approve" => s.kind = "topUp"
    /\ s.stage = "floor" => s.kind = "horizon"
    /\ s.stage = "followUp" => FollowUpFits(s)

\* The inductive invariant: a sound switch with a period, a panel and buttons that fit it.
DeskInv ==
    /\ ButtonInv
    /\ SwitchSound /\ switch.period > 0
    /\ balance \in Nat
    /\ PanelFits
    /\ \A s \in signs : SignFits(s)

\* What is told of a check-in outlasts whatever is done to the vault,
LEMMA FollowUpOutlasts ==
  ASSUME SwitchAssumption, SwitchSound, UNCHANGED switchVars \/ LaterStep, NEW s,
         s.entry.amount \in Nat, s.entry.horizon \in Nat, FollowUpFits(s)
  PROVE  FollowUpFits(s)'
<1>1. now \in Nat /\ switch \in Switches /\ switch.horizon \in Nat /\ switch.period \in Nat
  BY MaxTimeAssumption DEF SwitchSound, ClockTypeOK, Switches
<1>2. CASE UNCHANGED switchVars
  BY <1>2 DEF FollowUpFits, switchVars
<1>3. CASE LaterStep
  <2> DEFINE D == s.entry.horizon
             A == s.entry.amount
  <2>1. /\ s.kind = "checkIn" /\ D <= switch.horizon
        /\ D >= switch.horizon =>
              /\ now + A >= switch.horizon
              /\ switch.period = A /\ IsLive(switch) => switch.deadline >= switch.horizon
    BY DEF FollowUpFits
  <2>2. /\ now' \in Nat /\ now' >= now /\ switch' \in Switches /\ switch'.horizon >= switch.horizon
        /\ IsLive(switch') =>
              /\ IsLive(switch)
              /\ \/ /\ switch'.deadline = switch.deadline /\ switch'.period = switch.period
                    /\ switch'.horizon = switch.horizon
                 \/ switch'.deadline = Sooner(now + switch'.period, switch'.horizon)
    BY <1>3, SwitchStepLeaves
  <2>3. switch'.horizon \in Nat
    BY <2>2 DEF Switches
  <2>4. D \in Nat /\ A \in Nat
    OBVIOUS
  <2> HIDE DEF D, A
  <2>5. /\ D <= switch'.horizon
        /\ D >= switch'.horizon => switch'.horizon = switch.horizon /\ now' + A >= switch'.horizon
    BY <1>1, <2>1, <2>2, <2>3, <2>4
  <2>6. ASSUME D >= switch'.horizon, switch'.period = A, IsLive(switch')
        PROVE  switch'.deadline >= switch'.horizon
    BY <1>1, <2>1, <2>2, <2>3, <2>4, <2>5, <2>6 DEF Sooner
  <2> QED
    BY <2>1, <2>5, <2>6 DEF FollowUpFits, D, A
<1> QED
  BY <1>2, <1>3

\* as does what a Sign button stands for.
LEMMA SignOutlasts ==
  ASSUME SwitchAssumption, DeskAssumption, SwitchSound, UNCHANGED switchVars \/ LaterStep,
         NEW s, SignFits(s)
  PROVE  SignFits(s)'
<1>1. now \in Nat /\ now' \in Nat /\ now' >= now
  <2>1. now \in Nat
    BY MaxTimeAssumption DEF SwitchSound, ClockTypeOK
  <2> QED
    BY <2>1, SwitchStepLeaves DEF switchVars
<1>2. MaxHorizon \in Nat /\ s.entry.amount \in Nat /\ s.entry.horizon \in Nat
  BY DEF SwitchAssumption, SignFits
<1>3. s.stage = "followUp" => FollowUpFits(s)'
  BY <1>2, FollowUpOutlasts DEF SignFits
<1>4. s.entry.horizon <= now + MaxHorizon => s.entry.horizon <= now' + MaxHorizon
  BY <1>1, <1>2
<1> QED
  BY <1>3, <1>4 DEF SignFits

\* A call that is accepted is an act of the owner, but for a top-up.
LEMMA SignedActs ==
  ASSUME SwitchAssumption, DeskAssumption, DeskInv, NEW s \in signs, AcceptsSigned(s),
         Becoming(AfterSigned(s))
  PROVE  (s.kind = "topUp" /\ UNCHANGED switchVars) \/ OwnerActs
<1>1. SignFits(s) /\ now \in Nat /\ now <= MaxTime /\ MaxTime \in Nat /\ MaxHorizon \in Nat
  BY MaxTimeAssumption DEF DeskInv, SwitchSound, ClockTypeOK, SwitchAssumption
<1>2. s.kind \in {"topUp", "part", "everything", "heir", "horizon", "checkIn", "veto"}
  BY <1>1 DEF SignFits, Kinds, Pressed
<1>3. CASE s.kind = "topUp"
  BY <1>3 DEF AfterSigned, Becoming, switchVars
<1>4. CASE s.kind \in {"part", "everything"}
  <2>1. IsLive(switch)
    BY <1>4 DEF AcceptsSigned, Accepts
  <2>2. Becoming(IF Taken(s) = balance THEN [Acted(switch, now) EXCEPT !.phase = "closed"]
                 ELSE PartWithdrawn(switch, now))
    BY <1>4 DEF AfterSigned
  <2> QED
    BY <2>1, <2>2 DEF OwnerActs, Close, WithdrawPart
<1>5. CASE s.kind = "checkIn"
  BY <1>5 DEF AcceptsSigned, Accepts, AfterSigned, OwnerActs, ShowLife
<1>6. CASE s.kind = "veto"
  BY <1>6 DEF AcceptsSigned, Accepts, AfterSigned, OwnerActs, Veto
<1>7. CASE s.kind = "heir"
  <2>1. CanAct(switch, now) /\ s.entry.heir \in Persons
    BY <1>1, <1>7 DEF AcceptsSigned, Accepts, SignFits
  <2>2. Becoming(Acted([switch EXCEPT !.heir = s.entry.heir], now))
    BY <1>7 DEF AfterSigned
  <2> QED
    BY <2>1, <2>2 DEF OwnerActs, ChangeHeir
<1>8. CASE s.kind = "horizon"
  <2>1. CanExtend(switch, now, s.entry.horizon) /\ s.entry.horizon \in Nat
    BY <1>1, <1>8 DEF AcceptsSigned, SignFits
  <2>2. s.entry.horizon \in Horizons
    BY <1>1, <2>1 DEF Horizons, CanExtend
  <2>3. Becoming(Acted([switch EXCEPT !.horizon = s.entry.horizon], now))
    BY <1>8 DEF AfterSigned
  <2> QED
    BY <2>1, <2>2, <2>3 DEF OwnerActs, Extend
<1> QED
  BY <1>2, <1>3, <1>4, <1>5, <1>6, <1>7, <1>8

\* Every step of the desk is one of the switch, or leaves it as it is.
LEMMA DeskStepsSwitch ==
  ASSUME SwitchAssumption, DeskAssumption, DeskInv, [DeskNext]_deskVars
  PROVE  UNCHANGED switchVars \/ LaterStep
<1>1. ASSUME NEW s \in signs, Mined(s)
      PROVE  UNCHANGED switchVars \/ LaterStep
  <2>1. CASE AcceptsSigned(s)
    <3>1. Becoming(AfterSigned(s))
      BY <1>1, <2>1 DEF Mined, Becoming
    <3> QED
      BY <2>1, <3>1, SignedActs DEF LaterStep
  <2>2. CASE ~AcceptsSigned(s)
    BY <1>1, <2>2 DEF Mined, switchVars
  <2> QED
    BY <2>1, <2>2
<1>2. ASSUME ThisPage, ~\E s \in signs : Mined(s)
      PROVE  UNCHANGED switchVars
  BY <1>2 DEF ThisPage, actTopUp, actWithdraw, actWithdrawAll, actHeir, actHorizon, Opens,
     ChangeWithoutExtending, actCheckIn, actAbort, Press, ClosePanel, StartReview, Edit,
     ReviewFindsChange, ReviewDropped, ReviewReads, ReviewShown, Click, RecheckFails,
     RecheckFindsChange, RecheckFindsWhole, RecheckPasses, FloorChecked, Approval, Decline, FollowedUp
<1>3. CASE OtherDevice \/ OtherDeviceWithdraws \/ AnyoneTopsUp \/ OthersAct \/ NextBlock
  BY <1>3 DEF OtherDevice, OtherDeviceWithdraws, AnyoneTopsUp, OthersAct, NextBlock, LaterStep, OwnerActs
<1>4. CASE UNCHANGED deskVars
  BY <1>4 DEF deskVars
<1> QED
  BY <1>1, <1>2, <1>3, <1>4 DEF DeskNext

\* The page starts with a vault that was just armed.
LEMMA DeskStarts ==
  ASSUME SwitchAssumption, DeskAssumption PROVE DeskInit => DeskInv
<1> SUFFICES ASSUME DeskInit PROVE DeskInv
  OBVIOUS
<1>1. now = 1 /\ now \in Nat /\ ClockTypeOK
  BY MaxTimeAssumption DEF DeskInit, ClockInit, ClockTypeOK
<1>2. PICK heir \in Persons, period \in Periods, window \in Windows, horizon \in Horizons :
        switch = Restarted([Unarmed EXCEPT !.phase = "active", !.heir = heir,
                      !.period = period, !.horizon = horizon, !.window = window], now)
  BY DEF DeskInit
<1>3. switch = ArmedAs(heir, period, window, horizon, now)
  BY <1>2 DEF ArmedAs
<1>4. period > 0
  BY DEF Periods, SwitchAssumption
<1>5. SwitchSound /\ switch.period > 0
  <2> DEFINE s == ArmedAs(heir, period, window, horizon, now)
  <2>1. /\ s \in Switches /\ ClaimFieldsFit(s) /\ WaitedFor(s, now) /\ s.period = period
    BY <1>1, ArmedIs
  <2> QED
    BY <1>1, <1>3, <1>4, <2>1 DEF SwitchSound
<1>6. panel = NoPanel /\ reviews = {} /\ signs = {} /\ balance \in Nat
  BY DEF DeskInit, DeskAssumption
<1>7. PanelFits
  BY <1>6 DEF PanelFits, NoPanel, NoView
<1> QED
  BY <1>5, <1>6, <1>7, ButtonStart DEF DeskInv

\* The vault as the page reads it.
LEMMA ViewIs ==
  ASSUME DeskInv
  PROVE  /\ View.phase = switch.phase /\ View.horizon = switch.horizon /\ View.period = switch.period
         /\ View.heir = switch.heir
         /\ View.reached = AtHorizon(switch, now) /\ View.balance = balance
         /\ View.horizon \in Nat /\ View.period \in Nat /\ now \in Nat
         /\ switch \in Switches /\ switch.horizon \in Nat /\ switch.period \in Nat
BY MaxTimeAssumption DEF DeskInv, SwitchSound, ClockTypeOK, View, ViewOf, Switches

\* A panel goes, or stays as it is with the reviews it had.
LEMMA PanelGoes == ASSUME panel' = NoPanel PROVE PanelFits'
BY DEF PanelFits, NoPanel, NoView, Current

LEMMA PanelStays ==
  ASSUME PanelFits, panel' = panel, generation' = generation, now \in Nat, now' \in Nat, now' >= now,
         MaxHorizon \in Nat,
         \A r \in reviews' : \E q \in reviews : q.generation = r.generation
  PROVE  PanelFits'
<1>1. panel.kind = "horizon" /\ panel.ceiling \in Int /\ panel.ceiling <= now + MaxHorizon
         => panel.ceiling <= now' + MaxHorizon
  OBVIOUS
<1>2. \A r \in reviews' : Current(r)' => panel'.form
  BY DEF PanelFits, Current
<1> QED
  BY <1>1, <1>2 DEF PanelFits

\* What a panel shows when it is opened, and while it stands.
LEMMA PanelStep ==
  ASSUME SwitchAssumption, DeskAssumption, DeskInv, [DeskNext]_deskVars
  PROVE  PanelFits'
<1>1. /\ PanelFits /\ now \in Nat /\ MaxHorizon \in Nat /\ HORIZON_MARGIN \in Nat /\ ButtonInv
  BY ViewIs DEF DeskInv, SwitchAssumption, DeskAssumption
<1>2. now' \in Nat /\ now' >= now
  BY <1>1, DeskStepsSwitch, SwitchStepLeaves DEF switchVars, DeskInv
\* A panel is opened on the vault as it is, and no review of an earlier one is current.
<1>3. ASSUME NEW kind \in Kinds, NEW form, NEW floor, NEW ceiling, Opens(kind, form, floor, ceiling),
             form => kind # "everything",
             kind = "heir" /\ form => ~View.reached,
             kind = "horizon" => /\ floor \in Nat /\ ceiling \in Int
                                 /\ floor > View.horizon /\ ceiling <= now + MaxHorizon
      PROVE  PanelFits'
  <2>1. /\ panel' = [kind |-> kind, form |-> form, view |-> View, floor |-> floor, ceiling |-> ceiling]
        /\ IsLive(switch) /\ generation' = generation + 1 /\ reviews' = reviews /\ now' = now
    BY <1>3 DEF Opens, NextGeneration, switchVars
  <2>2. \A r \in reviews : r.generation # generation'
    BY <1>1, <2>1 DEF ButtonInv
  <2>3. \A r \in reviews' : ~Current(r)'
    BY <2>1, <2>2 DEF Current
  <2>4. IsLive(View)
    BY <2>1, ViewIs DEF IsLive
  <2>5. /\ DOMAIN panel' = {"kind", "form", "view", "floor", "ceiling"}
        /\ panel'.kind = kind /\ panel'.form = form /\ panel'.view = View
        /\ panel'.floor = floor /\ panel'.ceiling = ceiling
    BY <2>1
  <2> QED
    BY <1>1, <1>3, <2>1, <2>3, <2>4, <2>5, ViewIs DEF PanelFits
<1>4. CASE actTopUp \/ actWithdraw \/ actWithdrawAll
  BY <1>3, <1>4 DEF actTopUp, actWithdraw, actWithdrawAll, Kinds
<1>5. CASE actHeir
  BY <1>3, <1>5 DEF actHeir, Kinds
<1>6. CASE actHorizon
  <2> DEFINE floor == horizonFloor(View, now)
             ceiling == now + MaxHorizon - HORIZON_MARGIN
  <2>1. floor \in Nat /\ ceiling \in Int /\ floor > View.horizon /\ ceiling <= now + MaxHorizon
    BY <1>1, ViewIs DEF horizonFloor, Later
  <2>2. Opens("horizon", TRUE, floor, ceiling)
    BY <1>6 DEF actHorizon
  <2> HIDE DEF floor, ceiling
  <2> QED
    BY <1>3, <2>1, <2>2 DEF Kinds
<1>7. CASE ChangeWithoutExtending
  <2>1. /\ panel.kind = "heir" /\ panel.view.phase # "claimed" /\ panel # NoPanel
        /\ panel' = [panel EXCEPT !.form = TRUE] /\ UNCHANGED <<now, generation, reviews>>
    BY <1>7 DEF ChangeWithoutExtending, NoPanel, switchVars
  <2>2. /\ DOMAIN panel' = DOMAIN panel /\ panel'.kind = panel.kind /\ panel'.view = panel.view
        /\ panel'.form = TRUE
    BY <1>1, <2>1 DEF PanelFits
  <2> QED
    BY <1>1, <2>1, <2>2 DEF PanelFits, Kinds
<1>8. CASE ClosePanel
  BY <1>8, PanelGoes DEF ClosePanel, CardsRedrawn
<1>9. ASSUME NEW s \in signs, Mined(s)
      PROVE  PanelFits'
  BY <1>9, PanelGoes DEF Mined, CardsRedrawn
<1>10. CASE StartReview
  <2>1. panel.form /\ panel' = panel /\ now' = now
    BY <1>10 DEF StartReview, switchVars
  <2> QED
    BY <1>1, <2>1 DEF PanelFits, Current
<1>11. CASE Edit
  <2>1. panel.form /\ panel' = panel /\ now' = now
    BY <1>11 DEF Edit, switchVars
  <2> QED
    BY <1>1, <2>1 DEF PanelFits, Current
<1>12. ASSUME NEW r \in reviews, ReviewFindsChange(r) \/ ReviewDropped(r) \/ ReviewReads(r) \/ ReviewShown(r)
       PROVE  PanelFits'
  <2>1. CASE panel' = NoPanel
    BY <2>1, PanelGoes
  <2>2. CASE panel' # NoPanel
    <3> DEFINE with == [r EXCEPT !.view = View]
    <3>1. with.generation = r.generation
      BY <1>1 DEF ButtonInv
    <3>2. /\ panel' = panel /\ generation' = generation
          /\ reviews' \subseteq (reviews \ {r}) \cup {with}
      BY <1>12, <2>2 DEF ReviewFindsChange, ReviewDropped, ReviewReads, ReviewShown, CardsRedrawn
    <3> HIDE DEF with
    <3>3. \A p \in reviews' : \E q \in reviews : q.generation = p.generation
      BY <3>1, <3>2
    <3> QED
      BY <1>1, <1>2, <3>2, <3>3, PanelStays
  <2> QED
    BY <2>1, <2>2
<1>13. ASSUME UNCHANGED <<panel, generation, reviews>>
       PROVE  PanelFits'
  BY <1>1, <1>2, <1>13, PanelStays
<1>14. CASE actCheckIn \/ actAbort
  BY <1>13, <1>14 DEF actCheckIn, actAbort, Press
<1>15. ASSUME NEW s \in signs,
              \/ Click(s) \/ RecheckFails(s) \/ RecheckFindsWhole(s) \/ RecheckPasses(s)
              \/ FloorChecked(s) \/ Approval(s) \/ Decline(s) \/ FollowedUp(s)
       PROVE  PanelFits'
  BY <1>13, <1>15 DEF Click, RecheckFails, RecheckFindsWhole, RecheckPasses, FloorChecked, Approval,
     Decline, FollowedUp
<1>16. ASSUME NEW s \in signs, RecheckFindsChange(s)
       PROVE  PanelFits'
  BY <1>13, <1>16, PanelGoes DEF RecheckFindsChange, CardsRedrawn
<1>17. CASE ThisPage
  BY <1>4, <1>5, <1>6, <1>7, <1>8, <1>9, <1>10, <1>11, <1>12, <1>14, <1>15, <1>16, <1>17 DEF ThisPage
<1>18. CASE NextBlock \/ OtherDevice \/ OtherDeviceWithdraws \/ AnyoneTopsUp \/ OthersAct
  BY <1>13, <1>18 DEF NextBlock, OtherDevice, OtherDeviceWithdraws, AnyoneTopsUp, OthersAct, deskOnly
<1> QED
  BY <1>13, <1>17, <1>18 DEF DeskNext, deskVars

\* A handler in another stage stands for what its button stood for.
LEMMA StageFits ==
  ASSUME SwitchAssumption, DeskAssumption, DeskInv, NEW s \in signs, NEW stage, now' = now,
         switch' = switch,
         stage \in {"offered", "recheck", "prompt", "floor", "approve"},
         stage = "approve" => s.kind = "topUp",
         stage = "floor" => s.kind = "horizon",
         stage = "prompt" /\ s.kind = "horizon" =>
             s.entry.horizon >= now + s.view.period + HORIZON_MARGIN,
         NEW u, u = [s EXCEPT !.stage = stage, !.at = IF stage = "prompt" THEN now ELSE 0]
  PROVE  SignFits(u)'
<1> DEFINE at == IF stage = "prompt" THEN now ELSE 0
<1>1. SignFits(s) /\ DOMAIN s = SignFields /\ now \in Nat
  BY ViewIs DEF DeskInv, ButtonInv
<1>2. at \in Nat /\ (stage = "prompt" => at = now)
  BY <1>1
<1> HIDE DEF at
<1>3. /\ u.kind = s.kind /\ u.entry = s.entry /\ u.view = s.view /\ u.stage = stage /\ u.at = at
  <2>1. u = [s EXCEPT !.stage = stage, !.at = at]
    BY DEF at
  <2> QED
    BY <1>1, <2>1 DEF SignFields
<1> QED
  BY <1>1, <1>2, <1>3 DEF SignFits

\* What a review may enter fits the call it is for.
LEMMA EntryFits ==
  ASSUME SwitchAssumption, DeskAssumption, DeskInv, NEW r \in reviews, ReviewShown(r),
         NEW entry, NEW v, v = IF r.view = NoView THEN View ELSE r.view,
         entry \in Entries(panel.kind, v), ~vaultChange(panel.view, v),
         NEW s, s = NewSign(panel.kind, entry, v, generation)
  PROVE  SignFits(s)'
<1>1. /\ s.kind = panel.kind /\ s.entry = entry /\ s.view = v /\ s.stage = "offered" /\ s.at = 0
  BY DEF NewSign
<1>2. /\ panel.form /\ panel # NoPanel /\ panel.kind \in Kinds \ {"everything"}
      /\ panel.kind # "heir" => r.view = NoView
      /\ now' = now /\ now \in Nat /\ MaxHorizon \in Nat
  BY ViewIs DEF ReviewShown, DeskInv, PanelFits, Current, switchVars, SwitchAssumption
<1>3. /\ v.phase = panel.view.phase /\ v.reached = panel.view.reached
      /\ v.horizon = panel.view.horizon /\ v.period = panel.view.period
  BY DEF vaultChange
<1>4. /\ IsLive(v) /\ v.horizon \in Nat /\ v.period \in Nat
      /\ panel.kind = "heir" => ~(v.phase = "claimed" /\ v.reached)
      /\ panel.kind = "horizon" =>
            /\ panel.floor \in Nat /\ panel.ceiling \in Int
            /\ panel.floor > v.horizon /\ panel.ceiling <= now + MaxHorizon
  BY <1>2, <1>3 DEF DeskInv, PanelFits, IsLive
<1>5. CASE panel.kind = "topUp"
  <2>1. entry = [NoEntry EXCEPT !.amount = 1]
    BY <1>5 DEF Entries
  <2>2. /\ DOMAIN entry = {"amount", "heir", "horizon"} /\ entry.amount = 1 /\ entry.horizon = 0
    BY <2>1 DEF NoEntry
  <2> QED
    BY <1>1, <1>5, <2>2 DEF SignFits, Kinds
<1>6. CASE panel.kind = "part"
  <2>1. v = View /\ v.balance \in Nat
    BY <1>2, <1>6, ViewIs DEF DeskInv
  <2>2. PICK n \in 1..(v.balance - 1) : entry = [NoEntry EXCEPT !.amount = n]
    BY <1>6 DEF Entries
  <2>3. n \in Nat
    BY <2>1
  <2>4. /\ DOMAIN entry = {"amount", "heir", "horizon"} /\ entry.amount = n /\ entry.horizon = 0
    BY <2>2 DEF NoEntry
  <2> QED
    BY <1>1, <1>6, <2>3, <2>4 DEF SignFits, Kinds
<1>7. CASE panel.kind = "heir"
  <2>1. PICK p \in Persons : entry = [NoEntry EXCEPT !.heir = p]
    BY <1>7 DEF Entries
  <2>2. /\ DOMAIN entry = {"amount", "heir", "horizon"} /\ entry.amount = 0 /\ entry.horizon = 0
        /\ entry.heir = p
    BY <2>1 DEF NoEntry
  <2> QED
    BY <1>1, <1>4, <1>7, <2>2 DEF SignFits, Kinds
<1>8. CASE panel.kind = "horizon"
  <2>1. PICK h \in panel.floor..panel.ceiling : entry = [NoEntry EXCEPT !.horizon = h]
    BY <1>8 DEF Entries
  <2>2. h \in Nat /\ h > v.horizon /\ h <= now + MaxHorizon
    BY <1>2, <1>4, <1>8
  <2>3. /\ DOMAIN entry = {"amount", "heir", "horizon"} /\ entry.amount = 0 /\ entry.horizon = h
    BY <2>1 DEF NoEntry
  <2> QED
    BY <1>1, <1>2, <1>4, <1>8, <2>2, <2>3 DEF SignFits, Kinds
<1> QED
  BY <1>2, <1>5, <1>6, <1>7, <1>8 DEF Kinds

\* What is told of a check-in that was just mined.
LEMMA ToldFits ==
  ASSUME SwitchAssumption, DeskAssumption, DeskInv, NEW s \in signs, Mined(s), s.kind = "checkIn",
         AcceptsSigned(s), NEW t, t = FollowUp(s)
  PROVE  SignFits(t)'
<1> DEFINE d == Restarted(switch, now).deadline
<1>1. SignFits(s) /\ DOMAIN s = SignFields /\ now \in Nat /\ switch \in Switches
      /\ switch.horizon \in Nat /\ switch.period \in Nat
  BY ViewIs DEF DeskInv, ButtonInv
<1>2. /\ switch' = Restarted(switch, now) /\ now' = now
  BY DEF Mined, AfterSigned
<1>3. /\ switch'.deadline = d /\ switch'.horizon = switch.horizon /\ switch'.period = switch.period
      /\ d = Sooner(now + switch.period, switch.horizon)
  BY <1>1, <1>2, RestartedTyped DEF Restarted, Switches
<1>4. d \in Nat /\ d <= switch.horizon /\ (d >= switch.horizon => now + switch.period >= switch.horizon)
  BY <1>1, <1>3 DEF Sooner
<1>5. DOMAIN s.entry = {"amount", "heir", "horizon"}
  BY <1>1 DEF SignFits
<1> DEFINE p == switch.period
<1>6. /\ t.kind = s.kind /\ t.stage = "followUp" /\ t.at = 0
      /\ DOMAIN t.entry = {"amount", "heir", "horizon"}
      /\ t.entry.horizon = d /\ t.entry.amount = p
  <2>1. t = [s EXCEPT !.stage = "followUp", !.at = 0, !.view = NoView,
                      !.entry.horizon = d, !.entry.amount = p]
    BY DEF FollowUp
  <2> HIDE DEF d, p
  <2>2. /\ t.kind = s.kind /\ t.stage = "followUp" /\ t.at = 0
        /\ t.entry = [[s.entry EXCEPT !.horizon = d] EXCEPT !.amount = p]
    BY <1>1, <2>1 DEF SignFields
  <2> QED
    BY <1>5, <2>2
<1>7. FollowUpFits(t)'
  BY <1>1, <1>2, <1>3, <1>4, <1>6 DEF FollowUpFits
<1> HIDE DEF d
<1> QED
  BY <1>1, <1>4, <1>6, <1>7 DEF SignFits, Pressed

\* What every button and handler of the next state stands for.
LEMMA SignStep ==
  ASSUME SwitchAssumption, DeskAssumption, DeskInv, [DeskNext]_deskVars, NEW t \in signs'
  PROVE  SignFits(t)'
<1>1. SwitchSound /\ \A s \in signs : SignFits(s)
  BY DEF DeskInv
<1>2. CASE t \in signs
  BY <1>1, <1>2, DeskStepsSwitch, SignOutlasts
<1>3. now \in Nat /\ MaxHorizon \in Nat
  BY ViewIs DEF SwitchAssumption
<1>4. ASSUME actWithdrawAll, t \notin signs
      PROVE  SignFits(t)'
  <2>1. t = NewSign("everything", NoEntry, View, generation + 1) /\ IsLive(switch)
    BY <1>4 DEF actWithdrawAll, Handlers, Opens
  <2>2. IsLive(View)
    BY <2>1, ViewIs DEF IsLive
  <2>3. /\ t.kind = "everything" /\ t.entry = NoEntry /\ t.view = View /\ t.stage = "offered" /\ t.at = 0
    BY <2>1 DEF NewSign
  <2>4. DOMAIN NoEntry = {"amount", "heir", "horizon"} /\ NoEntry.amount = 0 /\ NoEntry.horizon = 0
    BY DEF NoEntry
  <2> QED
    BY <2>2, <2>3, <2>4 DEF SignFits, Kinds
<1>5. ASSUME actCheckIn \/ actAbort, t \notin signs
      PROVE  SignFits(t)'
  <2>1. PICK kind \in Pressed :
          t = [NewSign(kind, NoEntry, View, 0) EXCEPT !.stage = "prompt", !.at = now]
    BY <1>5 DEF actCheckIn, actAbort, Press, Pressed
  <2>2. /\ t.kind = kind /\ t.entry = NoEntry /\ t.stage = "prompt" /\ t.at = now
    BY <2>1 DEF NewSign
  <2>3. DOMAIN NoEntry = {"amount", "heir", "horizon"} /\ NoEntry.amount = 0 /\ NoEntry.horizon = 0
    BY DEF NoEntry
  <2> QED
    BY <1>3, <2>2, <2>3 DEF SignFits, Pressed
<1>6. ASSUME NEW r \in reviews, ReviewShown(r), t \notin signs
      PROVE  SignFits(t)'
  <2> DEFINE v == IF r.view = NoView THEN View ELSE r.view
  <2>1. PICK entry \in Entries(panel.kind, v) :
          /\ ~vaultChange(panel.view, v)
          /\ signs' = signs \cup {NewSign(panel.kind, entry, v, generation)}
    BY <1>6 DEF ReviewShown
  <2>2. t = NewSign(panel.kind, entry, v, generation) /\ ~vaultChange(panel.view, v)
    BY <1>6, <2>1
  <2> QED
    BY <1>6, <2>2, EntryFits
\* A handler that goes on: only to the stages its kind allows.
<1>7. ASSUME NEW s \in signs, NEW stage, Becomes(s, stage), t \notin signs, UNCHANGED switchVars,
             stage \in {"offered", "recheck", "prompt", "floor", "approve"},
             stage = "approve" => s.kind = "topUp",
             stage = "floor" => s.kind = "horizon",
             stage = "prompt" /\ s.kind = "horizon" =>
                 s.entry.horizon >= now + s.view.period + HORIZON_MARGIN
      PROVE  SignFits(t)'
  <2>1. t = [s EXCEPT !.stage = stage, !.at = IF stage = "prompt" THEN now ELSE 0]
    BY <1>7 DEF Becomes
  <2>2. now' = now /\ switch' = switch
    BY <1>7 DEF switchVars
  <2> QED
    BY <1>7, <2>1, <2>2, StageFits
<1>8. ASSUME NEW s \in signs, OfferedAgain(s), t \notin signs, UNCHANGED switchVars
      PROVE  SignFits(t)'
  <2>1. CASE Becomes(s, "offered")
    BY <1>7, <1>8, <2>1
  <2> QED
    BY <1>8, <2>1 DEF OfferedAgain
<1>9. ASSUME NEW s \in signs, Click(s), t \notin signs
      PROVE  SignFits(t)'
  BY <1>7, <1>9 DEF Click
<1>10. ASSUME NEW s \in signs, RecheckFails(s) \/ RecheckFindsWhole(s) \/ RecheckFindsChange(s) \/ Decline(s),
              t \notin signs
       PROVE  SignFits(t)'
  BY <1>8, <1>10 DEF RecheckFails, RecheckFindsWhole, RecheckFindsChange, Decline, Handlers
<1>11. ASSUME NEW s \in signs, RecheckPasses(s), t \notin signs
       PROVE  SignFits(t)'
  <2>1. \/ s.kind # "horizon" /\ Becomes(s, "prompt")
        \/ s.kind = "horizon" /\ Becomes(s, "floor")
        \/ s.kind = "topUp" /\ Becomes(s, "approve")
    BY <1>11 DEF RecheckPasses
  <2>2. UNCHANGED switchVars
    BY <1>11 DEF RecheckPasses
  <2>3. CASE s.kind # "horizon" /\ Becomes(s, "prompt")
    BY <1>7, <1>11, <2>2, <2>3
  <2>4. CASE s.kind = "horizon" /\ Becomes(s, "floor")
    BY <1>7, <1>11, <2>2, <2>4
  <2>5. CASE s.kind = "topUp" /\ Becomes(s, "approve")
    BY <1>7, <1>11, <2>2, <2>5
  <2> QED
    BY <2>1, <2>3, <2>4, <2>5
<1>12. ASSUME NEW s \in signs, FloorChecked(s), t \notin signs
       PROVE  SignFits(t)'
  <2>1. UNCHANGED switchVars /\ s.stage = "floor"
    BY <1>12 DEF FloorChecked
  <2>2. CASE OfferedAgain(s)
    BY <1>8, <1>12, <2>1, <2>2
  <2>3. CASE Becomes(s, "prompt") /\ ~(s.entry.horizon < horizonFloor(s.view, now))
    <3>1. s.view.horizon \in Nat /\ s.view.period \in Nat /\ s.entry.horizon \in Nat
      BY <1>1, <2>1 DEF SignFits
    <3>2. HORIZON_MARGIN \in Nat
      BY DEF DeskAssumption
    <3>3. s.entry.horizon >= now + s.view.period + HORIZON_MARGIN
      BY <1>3, <2>3, <3>1, <3>2 DEF horizonFloor, Later
    <3> QED
      BY <1>7, <1>12, <2>1, <2>3, <3>3
  <2> QED
    BY <1>12, <2>2, <2>3 DEF FloorChecked
<1>13. ASSUME NEW s \in signs, Approval(s), t \notin signs
       PROVE  SignFits(t)'
  <2>1. UNCHANGED switchVars /\ s.kind = "topUp"
    BY <1>1, <1>13 DEF Approval, SignFits
  <2>2. CASE OfferedAgain(s)
    BY <1>8, <1>13, <2>1, <2>2
  <2>3. CASE Becomes(s, "prompt")
    BY <1>7, <1>13, <2>1, <2>3
  <2> QED
    BY <1>13, <2>2, <2>3 DEF Approval
<1>14. ASSUME NEW s \in signs, Mined(s), t \notin signs
       PROVE  SignFits(t)'
  <2>1. t = FollowUp(s) /\ s.kind = "checkIn" /\ AcceptsSigned(s)
    BY <1>14 DEF Mined, Handlers
  <2> QED
    BY <1>14, <2>1, ToldFits
<1>15. ASSUME NEW s \in signs, FollowedUp(s)
       PROVE  t \in signs
  BY <1>15 DEF FollowedUp
<1>16. ASSUME NEW r \in reviews, ReviewFindsChange(r) \/ ReviewDropped(r) \/ ReviewReads(r)
       PROVE  t \in signs
  BY <1>16 DEF ReviewFindsChange, ReviewDropped, ReviewReads, Handlers
<1>17. ASSUME \/ actTopUp \/ actWithdraw \/ actHeir \/ actHorizon \/ ChangeWithoutExtending
              \/ ClosePanel \/ StartReview \/ Edit
       PROVE  t \in signs
  BY <1>17 DEF actTopUp, actWithdraw, actHeir, actHorizon, ChangeWithoutExtending, ClosePanel,
     StartReview, Edit, Handlers
<1>18. CASE ThisPage
  BY <1>2, <1>4, <1>5, <1>6, <1>9, <1>10, <1>11, <1>12, <1>13, <1>14, <1>15, <1>16, <1>17, <1>18
     DEF ThisPage
<1>19. CASE NextBlock \/ OtherDevice \/ OtherDeviceWithdraws \/ AnyoneTopsUp \/ OthersAct \/ UNCHANGED deskVars
  BY <1>2, <1>19 DEF NextBlock, OtherDevice, OtherDeviceWithdraws, AnyoneTopsUp, OthersAct, deskOnly,
     deskVars
<1> QED
  BY <1>18, <1>19 DEF DeskNext

\* What the vault holds stays a number.
LEMMA BalanceStep ==
  ASSUME SwitchAssumption, DeskAssumption, DeskInv, [DeskNext]_deskVars
  PROVE  balance' \in Nat
<1>1. balance \in Nat /\ MaxBalance \in Nat
  BY DEF DeskInv, DeskAssumption
<1>2. ASSUME NEW s \in signs, Mined(s)
      PROVE  balance' \in Nat
  <2>1. CASE ~AcceptsSigned(s)
    BY <1>1, <1>2, <2>1 DEF Mined
  <2>2. CASE AcceptsSigned(s)
    <3>1. SignFits(s) /\ balance' = BalanceAfterSigned(s)
      BY <1>2, <2>2 DEF Mined, DeskInv
    <3>2. s.entry.amount \in Nat /\ s.kind \in Kinds \cup Pressed
      BY <3>1 DEF SignFits
    <3>3. s.kind = "part" => s.entry.amount <= balance
      BY <2>2 DEF AcceptsSigned
    <3> QED
      BY <1>1, <3>1, <3>2, <3>3 DEF BalanceAfterSigned, Taken, Kinds, Pressed
  <2> QED
    BY <2>1, <2>2
<1>3. ASSUME ThisPage, ~\E s \in signs : Mined(s)
      PROVE  UNCHANGED balance
  BY <1>3 DEF ThisPage, actTopUp, actWithdraw, actWithdrawAll, actHeir, actHorizon, Opens,
     ChangeWithoutExtending, actCheckIn, actAbort, Press, ClosePanel, StartReview, Edit,
     ReviewFindsChange, ReviewDropped, ReviewReads, ReviewShown, Click, RecheckFails,
     RecheckFindsChange, RecheckFindsWhole, RecheckPasses, FloorChecked, Approval, Decline, FollowedUp
<1>4. CASE OtherDevice \/ OtherDeviceWithdraws \/ AnyoneTopsUp \/ OthersAct \/ NextBlock \/ UNCHANGED deskVars
  BY <1>1, <1>4 DEF OtherDevice, OtherDeviceWithdraws, AnyoneTopsUp, OthersAct, NextBlock, deskVars
<1> QED
  BY <1>1, <1>2, <1>3, <1>4 DEF DeskNext

\* No step leads out of the invariant.
LEMMA DeskGoesOn ==
  ASSUME SwitchAssumption, DeskAssumption, DeskInv, [DeskNext]_deskVars
  PROVE  DeskInv'
<1>1. UNCHANGED switchVars \/ LaterStep
  BY DeskStepsSwitch
<1>2. SwitchSound'
  <2>1. [SwitchNext]_switchVars
    BY <1>1 DEF LaterStep, SwitchNext
  <2> QED
    BY <2>1, SwitchGoesOn DEF DeskInv
<1>3. (switch.period > 0)'
  <2>1. switch.period > 0 /\ SwitchSound
    BY DEF DeskInv
  <2>2. CASE UNCHANGED switchVars
    BY <2>1, <2>2 DEF switchVars
  <2>3. CASE LaterStep
    <3>1. switch'.period = switch.period \/ switch'.period \in Periods
      BY <2>1, <2>3, SwitchStepLeaves
    <3> QED
      BY <2>1, <3>1 DEF Periods, SwitchAssumption
  <2> QED
    BY <1>1, <2>2, <2>3
<1>4. ButtonInv'
  BY ButtonStep DEF DeskInv
<1>5. PanelFits' /\ balance' \in Nat
  BY PanelStep, BalanceStep
<1>6. \A t \in signs' : SignFits(t)'
  BY SignStep
<1> QED
  BY <1>2, <1>3, <1>4, <1>5, <1>6 DEF DeskInv

\* What a call that is accepted makes of the vault, kind by kind.
LEMMA SignedIs ==
  ASSUME SwitchAssumption, DeskAssumption, DeskInv, NEW s \in signs, Mined(s), AcceptsSigned(s)
  PROVE  /\ SignFits(s) /\ now' = now /\ switch' \in Switches
         /\ s.kind = "topUp" => switch.phase = "active" /\ switch' = switch
         /\ s.kind = "everything" => IsLive(switch) /\ switch'.phase = "closed"
         /\ s.kind = "part" =>
               /\ IsLive(switch)
               /\ Taken(s) = balance => switch'.phase = "closed"
               /\ Taken(s) # balance =>
                     /\ switch'.phase = IF AtHorizon(switch, now) THEN switch.phase ELSE "active"
                     /\ switch'.deadline = Sooner(now + switch.period, switch.horizon)
         /\ s.kind = "heir" =>
               /\ CanAct(switch, now) /\ switch'.phase = "active"
               /\ switch'.deadline = Sooner(now + switch.period, switch.horizon)
         /\ s.kind = "veto" =>
               /\ CanVeto(switch, now) /\ switch'.phase = "active"
               /\ switch'.deadline = Sooner(now + switch.period, switch.horizon)
         /\ s.kind = "horizon" =>
               /\ IsLive(switch) /\ s.entry.horizon >= now + switch.period /\ switch'.phase = "active"
               /\ switch'.deadline = Sooner(now + switch.period, s.entry.horizon)
<1>1. SignFits(s) /\ now \in Nat /\ switch \in Switches
  BY ViewIs DEF DeskInv
<1>2. switch' = AfterSigned(s) /\ now' = now
  BY DEF Mined
<1>3. switch' \in Switches
  <2>1. (s.kind = "topUp" /\ UNCHANGED switchVars) \/ OwnerActs
    BY <1>2, SignedActs DEF Becoming
  <2> QED
    BY <1>1, <2>1, OwnerLeaves DEF switchVars
<1>4. ASSUME NEW t \in Switches, IsLive(t), t.period = switch.period
      PROVE  /\ Acted(t, now) \in Switches /\ Acted(t, now).phase = "active"
             /\ Acted(t, now).deadline = Sooner(now + switch.period, t.horizon)
  BY <1>1, <1>4, ActedIs DEF IsLive
<1>5. s.kind = "topUp" => switch.phase = "active" /\ switch' = switch
  BY <1>2 DEF AcceptsSigned, AfterSigned
<1>6. CASE s.kind \in {"part", "everything"}
  <2>1. /\ IsLive(switch)
        /\ Taken(s) = balance => switch' = [Acted(switch, now) EXCEPT !.phase = "closed"]
        /\ Taken(s) # balance => switch' = PartWithdrawn(switch, now)
        /\ s.kind = "everything" => Taken(s) = balance
    BY <1>2, <1>6 DEF AcceptsSigned, Accepts, AfterSigned, Taken
  <2> DEFINE a == Acted(switch, now)
  <2>2. a \in Switches /\ a.phase = "active" /\ a.deadline = Sooner(now + switch.period, switch.horizon)
    BY <1>1, <1>4, <2>1
  <2>3. Taken(s) = balance => switch' = [a EXCEPT !.phase = "closed"]
    BY <2>1
  <2>4. PartWithdrawn(switch, now) = IF AtHorizon(switch, now) THEN Restarted(switch, now) ELSE a
    BY DEF PartWithdrawn
  <2> HIDE DEF a
  <2>5. Taken(s) = balance => switch'.phase = "closed"
    BY <2>2, <2>3 DEF Switches
  <2>6. /\ Restarted(switch, now).phase = switch.phase
        /\ Restarted(switch, now).deadline = Sooner(now + switch.period, switch.horizon)
    BY <1>1, RestartedTyped DEF Restarted, Switches
  <2> QED
    BY <1>1, <1>2, <1>3, <1>6, <2>1, <2>2, <2>4, <2>5, <2>6
<1>7. CASE s.kind = "heir"
  <2> DEFINE t == [switch EXCEPT !.heir = s.entry.heir]
  <2>1. CanAct(switch, now) /\ switch' = Acted(t, now) /\ s.entry.heir \in Persons
    BY <1>1, <1>2, <1>7 DEF AcceptsSigned, Accepts, AfterSigned, SignFits
  <2>2. t \in Switches /\ t.period = switch.period /\ t.horizon = switch.horizon /\ t.phase = switch.phase
    BY <1>1, <2>1 DEF Switches
  <2> HIDE DEF t
  <2>3. IsLive(t)
    BY <2>1, <2>2 DEF CanAct, IsLive
  <2> QED
    BY <1>1, <1>2, <1>3, <1>4, <1>7, <2>1, <2>2, <2>3
<1>8. CASE s.kind = "veto"
  <2>1. CanVeto(switch, now) /\ switch' = Acted(switch, now)
    BY <1>2, <1>8 DEF AcceptsSigned, Accepts, AfterSigned
  <2>2. IsLive(switch)
    BY <2>1 DEF CanVeto, IsLive
  <2> QED
    BY <1>1, <1>2, <1>3, <1>4, <1>8, <2>1, <2>2
<1>9. CASE s.kind = "horizon"
  <2> DEFINE t == [switch EXCEPT !.horizon = s.entry.horizon]
  <2>1. /\ CanExtend(switch, now, s.entry.horizon) /\ switch' = Acted(t, now) /\ s.entry.horizon \in Nat
    BY <1>1, <1>2, <1>9 DEF AcceptsSigned, AfterSigned, SignFits
  <2>2. t \in Switches /\ t.period = switch.period /\ t.horizon = s.entry.horizon /\ t.phase = switch.phase
    BY <1>1, <2>1 DEF Switches
  <2> HIDE DEF t
  <2>3. IsLive(t) /\ IsLive(switch) /\ s.entry.horizon >= now + switch.period
    BY <2>1, <2>2 DEF CanExtend, IsLive
  <2> QED
    BY <1>1, <1>2, <1>3, <1>4, <1>9, <2>1, <2>2, <2>3
<1> QED
  BY <1>1, <1>2, <1>3, <1>5, <1>6, <1>7, <1>8, <1>9

\* A signature does what its review said.
LEMMA EffectsAreTold ==
  ASSUME SwitchAssumption, DeskAssumption, DeskInv PROVE EffectAsToldStep
<1> SUFFICES ASSUME NEW s \in signs, s.kind # "checkIn", Mined(s), AcceptsSigned(s),
                    ~vaultChange(s.view, View)
             PROVE  LET retimes == s.kind \in {"heir", "horizon", "part", "veto"} /\ switch'.phase # "closed"
                    IN  /\ (s.kind = "part" => Taken(s) < balance) =>
                              Effect(switch, switch', now).endsClaim = Told(s.kind, s.view).endsClaim
                        /\ retimes /\ ~Told(s.kind, s.view).restarts => switch'.deadline <= Later(now, switch.deadline)
                        /\ retimes /\ Told(s.kind, s.view).restarts => switch'.deadline > now
                        /\ s.kind = "topUp" => switch'.deadline = switch.deadline
  BY DEF EffectAsToldStep
<1>1. /\ s.view.phase = switch.phase /\ s.view.reached = AtHorizon(switch, now)
  BY ViewIs DEF vaultChange
<1>2. /\ now \in Nat /\ switch.horizon \in Nat /\ switch.period \in Nat /\ switch.period > 0
      /\ switch.deadline \in Nat /\ balance \in Nat
  BY ViewIs DEF DeskInv, Switches
<1>3. s.kind \in {"topUp", "part", "everything", "heir", "horizon", "veto"} /\ SignFits(s)
  BY DEF DeskInv, SignFits, Kinds, Pressed
<1>4. /\ switch.phase = "claimed" => IsLive(switch)
      /\ IsLive(switch) => switch.phase \in {"active", "claimed"}
  BY DEF IsLive
<1>5. Effect(switch, switch', now).endsClaim = (switch.phase = "claimed" /\ switch'.phase \in {"active", "closed"})
  BY DEF Effect
<1>6. Told(s.kind, s.view).endsClaim =
        /\ s.view.phase = "claimed"
        /\ \/ s.kind \in {"heir", "horizon", "everything"}
           \/ s.kind = "part" /\ ~s.view.reached
           \/ s.kind = "veto"
  BY DEF Told
<1>7. Told(s.kind, s.view).restarts =
        \/ s.kind = "horizon"
        \/ s.kind = "veto"
        \/ s.kind \in {"heir", "part"} /\ ~s.view.reached
  BY DEF Told
<1>8. ASSUME s.kind = "part" => Taken(s) < balance
      PROVE  (switch.phase = "claimed" /\ switch'.phase \in {"active", "closed"})
                <=> /\ s.view.phase = "claimed"
                    /\ \/ s.kind \in {"heir", "horizon", "everything"}
                       \/ s.kind = "part" /\ ~s.view.reached
                       \/ s.kind = "veto"
  <2>1. s.kind = "part" => Taken(s) # balance
    BY <1>2, <1>8
  <2> QED
    BY <1>1, <1>3, <1>4, <2>1, SignedIs
<1>9. ASSUME s.kind \in {"heir", "horizon", "part", "veto"}, switch'.phase # "closed"
      PROVE  /\ \/ s.kind \in {"heir", "part"} /\ AtHorizon(switch, now)
                      /\ switch'.deadline = Sooner(now + switch.period, switch.horizon)
                \/ s.kind = "horizon" /\ switch'.deadline = now + switch.period
                \/ s.kind \in {"heir", "part", "veto"} /\ ~AtHorizon(switch, now)
                      /\ switch'.deadline = Sooner(now + switch.period, switch.horizon)
  <2>1. s.kind = "horizon" => Sooner(now + switch.period, s.entry.horizon) = now + switch.period
    <3>1. s.kind = "horizon" => s.entry.horizon >= now + switch.period /\ s.entry.horizon \in Nat
      BY <1>3, SignedIs DEF SignFits
    <3> QED
      BY <1>2, <3>1 DEF Sooner
  <2>2. s.kind = "veto" => ~AtHorizon(switch, now)
    BY SignedIs DEF CanVeto
  <2> QED
    BY <1>9, <2>1, <2>2, SignedIs
<1>10. ASSUME s.kind \in {"heir", "horizon", "part", "veto"}, switch'.phase # "closed"
       PROVE  /\ ~Told(s.kind, s.view).restarts => switch'.deadline <= Later(now, switch.deadline)
              /\ Told(s.kind, s.view).restarts => switch'.deadline > now
  <2>1. AtHorizon(switch, now) => Sooner(now + switch.period, switch.horizon) <= Later(now, switch.deadline)
    BY <1>2 DEF AtHorizon, Sooner, Later
  <2>2. ~AtHorizon(switch, now) => Sooner(now + switch.period, switch.horizon) > now
    BY <1>2 DEF AtHorizon, Sooner
  <2>3. now + switch.period > now
    BY <1>2
  <2> QED
    BY <1>1, <1>7, <1>9, <1>10, <2>1, <2>2, <2>3
<1>11. s.kind = "topUp" => switch'.deadline = switch.deadline
  BY SignedIs
<1> QED
  BY <1>5, <1>6, <1>8, <1>10, <1>11

\* Signed calls are accepted, "everything" closes, and who is told it was the last
\* check-in has made the last.
LEMMA DeskStepsTrue ==
  ASSUME SwitchAssumption, DeskAssumption, DeskInv
  PROVE  EffectAsToldStep /\ EverythingClosesStep /\ SignedCallAcceptedStep /\ LastIsLastStep
<1>1. /\ now \in Nat /\ switch.horizon \in Nat /\ switch.period \in Nat /\ switch.deadline \in Nat
      /\ MaxHorizon \in Nat /\ HORIZON_MARGIN \in Nat
  BY ViewIs DEF Switches, SwitchAssumption, DeskAssumption
<1>2. EverythingClosesStep
  <2>1. SUFFICES ASSUME NEW s \in signs, Mined(s), s.kind = "everything", IsLive(switch)
                 PROVE  switch'.phase = "closed"
    BY DEF EverythingClosesStep
  <2>2. AcceptsSigned(s)
    BY <2>1 DEF AcceptsSigned, Accepts
  <2> QED
    BY <2>1, <2>2, SignedIs
<1>3. SignedCallAcceptedStep
  <2>1. SUFFICES ASSUME NEW s \in signs, Mined(s), s.kind \in {"everything", "heir", "horizon"},
                        ~vaultChange(s.view, View),
                        s.kind = "horizon" => now <= s.at + HORIZON_MARGIN
                 PROVE  AcceptsSigned(s)
    BY DEF SignedCallAcceptedStep
  <2>2. /\ s.view.phase = switch.phase /\ s.view.reached = AtHorizon(switch, now)
        /\ s.view.horizon = switch.horizon /\ s.view.period = switch.period
    BY <2>1, ViewIs DEF vaultChange
  <2>3. SignFits(s) /\ s.stage = "prompt"
    BY <2>1 DEF DeskInv, Mined
  <2>4. IsLive(switch)
    BY <2>1, <2>2, <2>3 DEF SignFits, IsLive
  <2>5. CASE s.kind = "everything"
    BY <2>4, <2>5 DEF AcceptsSigned, Accepts
  <2>6. CASE s.kind = "heir"
    BY <2>2, <2>3, <2>4, <2>6 DEF AcceptsSigned, Accepts, CanAct, SignFits
  <2>7. CASE s.kind = "horizon"
    <3>1. /\ s.entry.horizon \in Nat /\ s.at \in Nat /\ s.entry.horizon > switch.horizon
          /\ s.entry.horizon <= now + MaxHorizon
          /\ s.entry.horizon >= s.at + switch.period + HORIZON_MARGIN
      BY <2>2, <2>3, <2>7 DEF SignFits
    <3>2. s.entry.horizon >= now + switch.period
      BY <1>1, <2>1, <2>7, <3>1
    <3> QED
      BY <2>4, <2>7, <3>1, <3>2 DEF AcceptsSigned, CanExtend
  <2> QED
    BY <2>1, <2>5, <2>6, <2>7
<1>4. LastIsLastStep
  <2>1. SUFFICES ASSUME NEW s \in signs, FollowedUp(s), ToldLast(s), s.entry.amount = switch.period
                 PROVE  ~Accepts("checkIn", switch, now)
    BY DEF LastIsLastStep
  <2>2. FollowUpFits(s)
    BY <2>1 DEF FollowedUp, DeskInv, SignFits
  <2>3. IsLive(switch) => switch.deadline >= switch.horizon
    BY <2>1, <2>2 DEF FollowUpFits, ToldLast
  <2> QED
    BY <1>1, <2>3 DEF Accepts, CanShowLife, IsLive
<1> QED
  BY <1>2, <1>3, <1>4, EffectsAreTold

-----------------------------------------------------------------------------
(* A card offers what the contract accepts.                                 *)

\* A live vault's horizon is within reach of a later one: it was at most MaxHorizon
\* ahead when it was set, and by the time the vault has lapsed it is less.
HorizonInv ==
    /\ switch.period <= MaxHorizon
    /\ IsLive(switch) =>
          /\ switch.horizon <= now + MaxHorizon
          /\ switch.deadline <= now => switch.horizon < now + MaxHorizon
    /\ switch.phase = "claimed" => switch.deadline <= now

\* A vault that is not closed holds something, and one that is holds nothing.
HoldingsInv ==
    /\ switch.phase # "none"
    /\ balance \in 0..MaxBalance
    /\ (switch.phase = "closed") <=> (balance = 0)

\* The inductive invariant of what a card offers.
CardInv ==
    /\ DeskInv
    /\ HorizonInv
    /\ HoldingsInv
    /\ generation <= MaxGeneration

\* No act of the owner sets a horizon that is out of reach.
LEMMA HorizonIsSet ==
  ASSUME SwitchAssumption, SwitchSound, OwnerActs
  PROVE  switch'.horizon = switch.horizon \/ switch'.horizon <= now + MaxHorizon
<1>1. now \in Nat /\ switch \in Switches
  BY MaxTimeAssumption DEF SwitchSound, ClockTypeOK
<1>2. Acted(switch, now).horizon = switch.horizon /\ Restarted(switch, now).horizon = switch.horizon
  BY <1>1, ActedIs, RestartedTyped DEF Restarted, Switches
<1>3. CASE ShowLife \/ WithdrawPart \/ Rearm \/ Veto
  BY <1>2, <1>3 DEF ShowLife, WithdrawPart, Rearm, Veto, Becoming, PartWithdrawn
<1>4. CASE ChangeHeir
  <2>1. PICK heir \in Persons : switch' = Acted([switch EXCEPT !.heir = heir], now)
    BY <1>4 DEF ChangeHeir, Becoming
  <2> DEFINE s == [switch EXCEPT !.heir = heir]
  <2>2. s \in Switches /\ s.horizon = switch.horizon
    BY <1>1 DEF Switches
  <2> HIDE DEF s
  <2> QED
    BY <1>1, <2>1, <2>2, ActedIs DEF s
<1>5. CASE ChangePeriod
  <2>1. PICK period \in Periods : switch' = Acted([switch EXCEPT !.period = period], now)
    BY <1>5 DEF ChangePeriod, Becoming
  <2> DEFINE s == [switch EXCEPT !.period = period]
  <2>2. s \in Switches /\ s.horizon = switch.horizon
    BY <1>1 DEF Switches, Periods, SwitchAssumption
  <2> HIDE DEF s
  <2> QED
    BY <1>1, <2>1, <2>2, ActedIs DEF s
<1>6. CASE Extend
  <2>1. PICK horizon \in Horizons :
          CanExtend(switch, now, horizon) /\ switch' = Acted([switch EXCEPT !.horizon = horizon], now)
    BY <1>6 DEF Extend, Becoming
  <2> DEFINE s == [switch EXCEPT !.horizon = horizon]
  <2>2. s \in Switches /\ s.horizon = horizon
    BY <1>1 DEF Switches, Horizons
  <2>3. Acted(s, now).horizon = s.horizon
    BY <1>1, <2>2, ActedIs
  <2> HIDE DEF s
  <2> QED
    BY <2>1, <2>2, <2>3 DEF s, CanExtend
<1>7. CASE Close
  <2> DEFINE a == Acted(switch, now)
  <2>1. a \in Switches /\ a.horizon = switch.horizon
    BY <1>1, ActedIs
  <2>2. switch' = [a EXCEPT !.phase = "closed"]
    BY <1>7 DEF Close, Becoming
  <2> HIDE DEF a
  <2> QED
    BY <2>1, <2>2 DEF Switches
<1> QED
  BY <1>3, <1>4, <1>5, <1>6, <1>7 DEF OwnerActs

\* Whatever is done to the vault, its horizon stays within reach.
LEMMA HorizonStep ==
  ASSUME SwitchAssumption, DeskAssumption, DeskInv, HorizonInv, UNCHANGED switchVars \/ LaterStep
  PROVE  HorizonInv'
<1>1. /\ now \in Nat /\ switch \in Switches /\ switch.horizon \in Nat /\ switch.period \in Nat
      /\ switch.deadline \in Nat /\ switch.period > 0 /\ MaxHorizon \in Nat
      /\ MaxPeriod \in Nat /\ MaxPeriod <= MaxHorizon /\ MinPeriod \in Nat /\ MinPeriod > 0 /\ SwitchSound
  BY ViewIs DEF DeskInv, Switches, SwitchAssumption, DeskAssumption
<1>2. CASE UNCHANGED switchVars
  BY <1>2 DEF HorizonInv, switchVars
<1>3. CASE OwnerActs
  <2>1. /\ IsLive(switch) /\ now' = now /\ switch' \in Switches
        /\ switch'.period = switch.period \/ switch'.period \in Periods
        /\ switch'.phase = "claimed" => switch'.horizon = switch.horizon /\ AtHorizon(switch, now)
        /\ switch'.deadline = Sooner(now + switch'.period, switch'.horizon)
    BY <1>1, <1>3, OwnerLeaves
  <2>2. switch'.horizon = switch.horizon \/ switch'.horizon <= now + MaxHorizon
    BY <1>1, <1>3, HorizonIsSet
  <2>3. switch'.period \in Nat /\ switch'.horizon \in Nat /\ switch'.period > 0 /\ switch'.period <= MaxHorizon
    BY <1>1, <2>1 DEF Switches, Periods, HorizonInv
  <2>4. switch'.horizon <= now + MaxHorizon
    BY <2>1, <2>2 DEF HorizonInv
  <2>5. switch'.deadline <= now => switch'.horizon <= now
    BY <1>1, <2>1, <2>3 DEF Sooner
  <2>6. switch'.phase = "claimed" => switch'.deadline <= now
    BY <1>1, <2>1, <2>3 DEF Sooner, AtHorizon
  <2>7. switch'.horizon <= now => switch'.horizon < now + MaxHorizon
    BY <1>1, <2>3
  <2> QED
    BY <2>1, <2>3, <2>4, <2>5, <2>6, <2>7 DEF HorizonInv
<1>4. CASE HeirActs \/ Settle
  <2>1. /\ now' = now /\ switch'.period = switch.period /\ switch'.horizon = switch.horizon
        /\ switch'.deadline = switch.deadline
        /\ IsLive(switch') => IsLive(switch)
        /\ switch'.phase = "claimed" => switch.deadline <= now
    <3>1. CASE Claim
      <4>1. PICK payee \in Persons : switch' = ClaimedBy(switch, now, payee) /\ now' = now
        BY <3>1 DEF Claim, Becoming
      <4> QED
        BY <1>1, <3>1, <4>1 DEF Claim, CanClaim, IsExpired, ClaimedBy, Switches, IsLive
    <3>2. CASE CancelClaim
      BY <1>1, <3>2, UnclaimedTyped DEF CancelClaim, Becoming, IsLive
    <3>3. CASE Settle
      BY <1>1, <3>3 DEF Settle, CanSettle, Becoming, Switches, IsLive
    <3> QED
      BY <1>4, <3>1, <3>2, <3>3 DEF HeirActs
  <2> QED
    BY <2>1 DEF HorizonInv
<1>5. CASE Tick /\ UNCHANGED switch
  <2>1. now' = now + 1 /\ switch' = switch
    BY <1>5 DEF Tick
  <2> QED
    BY <1>1, <2>1 DEF HorizonInv, IsLive
<1> QED
  BY <1>2, <1>3, <1>4, <1>5 DEF LaterStep

\* What a call that was signed takes and adds, and what it makes of the vault.
LEMMA SignedHolds ==
  ASSUME SwitchAssumption, DeskAssumption, DeskInv, HoldingsInv, NEW s \in signs, Mined(s)
  PROVE  HoldingsInv'
<1>1. /\ MaxBalance \in Nat /\ balance \in Nat /\ balance <= MaxBalance /\ now \in Nat
      /\ switch \in Switches
  BY ViewIs DEF HoldingsInv, DeskAssumption
<1>2. CASE ~AcceptsSigned(s)
  BY <1>2 DEF Mined, HoldingsInv
<1>3. ASSUME AcceptsSigned(s) PROVE HoldingsInv'
  <2>1. /\ SignFits(s) /\ switch' = AfterSigned(s) /\ balance' = BalanceAfterSigned(s) /\ now' = now
        /\ s.entry.amount \in Nat /\ s.kind \in Kinds \cup Pressed
    BY <1>3 DEF Mined, DeskInv, SignFits
  <2>2. CASE s.kind = "topUp"
    <3>1. switch' = switch /\ balance' = balance + s.entry.amount /\ switch.phase = "active"
          /\ balance' <= MaxBalance
      BY <1>3, <2>1, <2>2 DEF AfterSigned, BalanceAfterSigned, AcceptsSigned
    <3> QED
      BY <1>1, <2>1, <3>1 DEF HoldingsInv
  <2>3. CASE s.kind \in {"part", "everything"}
    <3>1. /\ IsLive(switch) /\ Taken(s) \in Nat /\ Taken(s) <= balance
      <4>1. CASE s.kind = "part"
        BY <1>1, <1>3, <2>1, <4>1 DEF AcceptsSigned, Taken
      <4>2. CASE s.kind = "everything"
        BY <1>1, <1>3, <2>1, <4>2 DEF AcceptsSigned, Accepts, Taken
      <4> QED
        BY <2>3, <4>1, <4>2
    <3>2. balance' = balance - Taken(s)
      BY <2>1, <2>3 DEF BalanceAfterSigned
    <3>3. Taken(s) = balance => switch'.phase = "closed"
      <4>1. Acted(switch, now) \in Switches
        BY <1>1, ActedIs
      <4> QED
        BY <2>1, <2>3, <4>1 DEF AfterSigned, Switches
    <3>4. Taken(s) # balance => switch'.phase \in {"active", "claimed"}
      <4>1. /\ Acted(switch, now).phase \in {"active", "claimed"}
            /\ Restarted(switch, now).phase \in {"active", "claimed"}
        BY <1>1, <3>1, ActedIs, RestartedTyped DEF IsLive, Restarted, Switches
      <4> QED
        BY <2>1, <2>3, <4>1 DEF AfterSigned, PartWithdrawn
    <3> HIDE DEF Taken
    <3> QED
      BY <1>1, <3>1, <3>2, <3>3, <3>4 DEF HoldingsInv
  <2>4. CASE s.kind \in {"checkIn", "veto", "heir", "horizon"}
    <3>1. IsLive(switch) /\ balance' = balance
      BY <1>3, <2>1, <2>4 DEF AcceptsSigned, Accepts, BalanceAfterSigned, CanShowLife, CanVeto, CanAct,
         CanExtend, IsLive
    <3>2. switch'.phase \in {"active", "claimed"}
      <4>1. /\ Acted(switch, now).phase \in {"active", "claimed"}
            /\ Restarted(switch, now).phase \in {"active", "claimed"}
        BY <1>1, <3>1, ActedIs, RestartedTyped DEF IsLive, Restarted, Switches
      <4>2. CASE s.kind \in {"checkIn", "veto"}
        BY <2>1, <4>1, <4>2 DEF AfterSigned
      <4>3. CASE s.kind = "heir"
        <5> DEFINE t == [switch EXCEPT !.heir = s.entry.heir]
        <5>1. t \in Switches /\ t.phase = switch.phase
          BY <1>1, <2>1, <4>3 DEF SignFits, Switches
        <5>2. switch' = Acted(t, now)
          BY <2>1, <4>3 DEF AfterSigned
        <5> HIDE DEF t
        <5> QED
          BY <1>1, <3>1, <5>1, <5>2, ActedIs DEF IsLive
      <4>4. CASE s.kind = "horizon"
        <5> DEFINE t == [switch EXCEPT !.horizon = s.entry.horizon]
        <5>1. t \in Switches /\ t.phase = switch.phase
          BY <1>1, <2>1, <4>4 DEF SignFits, Switches
        <5>2. switch' = Acted(t, now)
          BY <2>1, <4>4 DEF AfterSigned
        <5> HIDE DEF t
        <5> QED
          BY <1>1, <3>1, <5>1, <5>2, ActedIs DEF IsLive
      <4> QED
        BY <2>4, <4>2, <4>3, <4>4
    <3> QED
      BY <3>1, <3>2 DEF HoldingsInv, IsLive
  <2> QED
    BY <2>1, <2>2, <2>3, <2>4 DEF Kinds, Pressed
<1> QED
  BY <1>2, <1>3

\* The page's own steps, signatures aside, leave the vault and its contents alone,
LEMMA PageLeavesVault ==
  ASSUME ThisPage, ~\E s \in signs : Mined(s)
  PROVE  UNCHANGED <<switchVars, balance>>
BY DEF ThisPage, actTopUp, actWithdraw, actWithdrawAll, actHeir, actHorizon, Opens,
     ChangeWithoutExtending, actCheckIn, actAbort, Press, ClosePanel, StartReview, Edit,
     ReviewFindsChange, ReviewDropped, ReviewReads, ReviewShown, Click, RecheckFails,
     RecheckFindsChange, RecheckFindsWhole, RecheckPasses, FloorChecked, Approval, Decline, FollowedUp

\* and nobody takes the last unit but by closing.
LEMMA HoldingsStep ==
  ASSUME SwitchAssumption, DeskAssumption, DeskInv, HoldingsInv, [DeskNext]_deskVars
  PROVE  HoldingsInv'
<1>1. /\ MaxBalance \in Nat /\ balance \in Nat /\ balance <= MaxBalance /\ now \in Nat
      /\ switch \in Switches /\ SwitchSound
  BY ViewIs DEF HoldingsInv, DeskAssumption, DeskInv
<1>2. CASE ThisPage
  BY <1>2, SignedHolds, PageLeavesVault DEF HoldingsInv, switchVars
<1>3. CASE OtherDevice
  <2>1. OwnerActs /\ balance' = balance
    BY <1>3 DEF OtherDevice, OwnerActs
  <2>2. IsLive(switch) /\ switch'.phase \in {"active", "claimed", "closed"}
    BY <1>1, <2>1, OwnerLeaves
  <2>3. switch'.phase # "closed"
    <3>1. /\ Acted(switch, now).phase \in {"active", "claimed"}
          /\ Restarted(switch, now).phase \in {"active", "claimed"}
      BY <1>1, <2>2, ActedIs, RestartedTyped DEF IsLive, Restarted, Switches
    <3>2. CASE ShowLife \/ Rearm \/ Veto
      BY <3>1, <3>2 DEF ShowLife, Rearm, Veto, Becoming
    <3>3. CASE ChangeHeir
      <4>1. PICK heir \in Persons : switch' = Acted([switch EXCEPT !.heir = heir], now)
        BY <3>3 DEF ChangeHeir, Becoming
      <4> DEFINE s == [switch EXCEPT !.heir = heir]
      <4>2. s \in Switches /\ s.phase = switch.phase
        BY <1>1 DEF Switches
      <4> HIDE DEF s
      <4>3. Acted(s, now).phase # "closed"
        BY <1>1, <2>2, <4>2, ActedIs DEF IsLive
      <4> QED
        BY <4>1, <4>3 DEF s
    <3>4. CASE ChangePeriod
      <4>1. PICK period \in Periods : switch' = Acted([switch EXCEPT !.period = period], now)
        BY <3>4 DEF ChangePeriod, Becoming
      <4> DEFINE s == [switch EXCEPT !.period = period]
      <4>2. s \in Switches /\ s.phase = switch.phase
        BY <1>1 DEF Switches, Periods, SwitchAssumption
      <4> HIDE DEF s
      <4>3. Acted(s, now).phase # "closed"
        BY <1>1, <2>2, <4>2, ActedIs DEF IsLive
      <4> QED
        BY <4>1, <4>3 DEF s
    <3>5. CASE Extend
      <4>1. PICK horizon \in Horizons : switch' = Acted([switch EXCEPT !.horizon = horizon], now)
        BY <3>5 DEF Extend, Becoming
      <4> DEFINE s == [switch EXCEPT !.horizon = horizon]
      <4>2. s \in Switches /\ s.phase = switch.phase
        BY <1>1 DEF Switches, Horizons
      <4> HIDE DEF s
      <4>3. Acted(s, now).phase # "closed"
        BY <1>1, <2>2, <4>2, ActedIs DEF IsLive
      <4> QED
        BY <4>1, <4>3 DEF s
    <3> QED
      BY <1>3, <3>2, <3>3, <3>4, <3>5 DEF OtherDevice
  <2> QED
    BY <2>1, <2>2, <2>3 DEF HoldingsInv, IsLive
<1>4. CASE OtherDeviceWithdraws
  <2>1. balance > 1 /\ balance' = balance - 1 /\ IsLive(switch) /\ switch' = PartWithdrawn(switch, now)
    BY <1>4 DEF OtherDeviceWithdraws, WithdrawPart, Becoming
  <2>2. switch'.phase \in {"active", "claimed"}
    BY <1>1, <2>1, ActedIs, RestartedTyped DEF IsLive, Restarted, Switches, PartWithdrawn
  <2> QED
    BY <1>1, <2>1, <2>2 DEF HoldingsInv
<1>5. CASE AnyoneTopsUp
  <2>1. switch.phase = "active" /\ balance < MaxBalance /\ balance' = balance + 1 /\ switch' = switch
    BY <1>5 DEF AnyoneTopsUp, switchVars
  <2> QED
    BY <1>1, <2>1 DEF HoldingsInv
<1>6. CASE OthersAct
  <2>1. IsLive(switch) /\ switch'.phase \in {"active", "claimed", "settled"} /\ balance' = balance
    <3>1. CASE Claim
      BY <1>1, <1>6, <3>1 DEF OthersAct, Claim, CanClaim, Becoming, ClaimedBy, Switches, IsLive
    <3>2. CASE CancelClaim
      BY <1>1, <1>6, <3>2, UnclaimedTyped DEF OthersAct, CancelClaim, Becoming, IsLive
    <3>3. CASE Settle
      BY <1>1, <1>6, <3>3 DEF OthersAct, Settle, CanSettle, Becoming, Switches, IsLive
    <3> QED
      BY <1>6, <3>1, <3>2, <3>3 DEF OthersAct, HeirActs
  <2> QED
    BY <2>1 DEF HoldingsInv, IsLive
<1>7. CASE NextBlock \/ UNCHANGED deskVars
  BY <1>7 DEF NextBlock, deskVars, switchVars, HoldingsInv
<1> QED
  BY <1>2, <1>3, <1>4, <1>5, <1>6, <1>7 DEF DeskNext

\* No step leads out of it.
LEMMA CardGoesOn ==
  ASSUME SwitchAssumption, DeskAssumption, CardInv, [DeskNext]_deskVars
  PROVE  CardInv'
<1>1. DeskInv' /\ HorizonInv' /\ HoldingsInv'
  BY DeskGoesOn, DeskStepsSwitch, HorizonStep, HoldingsStep DEF CardInv
<1>2. generation \in Nat /\ generation <= MaxGeneration /\ MaxGeneration \in Nat
  BY DEF CardInv, DeskInv, ButtonInv, DeskAssumption
<1>3. generation' = generation \/ (generation < MaxGeneration /\ generation' = generation + 1)
  BY DEF DeskNext, ThisPage, NextBlock, OtherDevice, OtherDeviceWithdraws, AnyoneTopsUp, OthersAct,
     deskOnly, deskVars, actTopUp, actWithdraw, actWithdrawAll, actHeir, actHorizon, Opens,
     ChangeWithoutExtending, actCheckIn, actAbort, Press, ClosePanel, StartReview, Edit, NextGeneration,
     CardsRedrawn, ReviewFindsChange, ReviewDropped, ReviewReads, ReviewShown, Click, RecheckFails,
     RecheckFindsChange, RecheckFindsWhole, RecheckPasses, FloorChecked, Approval, Decline, Mined, FollowedUp
<1> QED
  BY <1>1, <1>2, <1>3 DEF CardInv

\* A vault that was just armed fits it.
LEMMA CardStarts ==
  ASSUME SwitchAssumption, DeskAssumption PROVE DeskInit => CardInv
<1> SUFFICES ASSUME DeskInit PROVE CardInv
  OBVIOUS
<1>1. DeskInv /\ now = 1 /\ balance \in 1..MaxBalance /\ generation = 0
  BY DeskStarts DEF DeskInit, ClockInit
<1>2. PICK heir \in Persons, period \in Periods, window \in Windows, horizon \in Horizons :
        /\ horizon >= now + period /\ horizon <= now + MaxHorizon
        /\ switch = ArmedAs(heir, period, window, horizon, now)
  BY DEF DeskInit, ArmedAs
<1>3. /\ switch.phase = "active" /\ switch.period = period /\ switch.horizon = horizon
      /\ switch.deadline = Sooner(now + period, horizon)
  BY <1>1, <1>2, ArmedIs
<1>4. period \in Nat /\ period > 0 /\ horizon \in Nat /\ MaxHorizon \in Nat
  BY DEF Periods, Horizons, SwitchAssumption
<1>5. HorizonInv
  BY <1>1, <1>2, <1>3, <1>4 DEF HorizonInv, Sooner
<1> QED
  BY <1>1, <1>3, <1>5 DEF CardInv, HoldingsInv, DeskAssumption

\* A later horizon is accepted on every live vault, unless none is allowed.
LEMMA CanBeExtended ==
  ASSUME SwitchAssumption, DeskAssumption, CardInv, IsLive(switch), switch.horizon + 1 <= now + MaxHorizon
  PROVE  Accepts("horizon", switch, now)
<1> DEFINE h == Later(switch.horizon + 1, now + switch.period)
<1>1. /\ now \in Nat /\ now <= MaxTime /\ MaxTime \in Nat /\ MaxHorizon \in Nat
      /\ switch.horizon \in Nat /\ switch.period \in Nat /\ switch.period <= MaxHorizon
  BY ViewIs, MaxTimeAssumption DEF CardInv, DeskInv, SwitchSound, ClockTypeOK, HorizonInv, SwitchAssumption
<1>2. h \in Nat /\ h > switch.horizon /\ h >= now + switch.period /\ h <= now + MaxHorizon
  BY <1>1 DEF Later
<1> HIDE DEF h
<1>3. h \in Horizons
  BY <1>1, <1>2 DEF Horizons
<1> QED
  BY <1>2, <1>3 DEF Accepts, CanExtend

\* The buttons of a live vault's card, at the horizon and before it.
LEMMA ActionsAre ==
  ASSUME CardInv
  PROVE  /\ AtHorizon(switch, now) /\ switch.phase = "claimed" =>
               ownerActions(View) = {"horizon", "everything", "part"}
         /\ AtHorizon(switch, now) /\ switch.phase = "active" =>
               ownerActions(View) = {"horizon", "topUp", "part", "everything", "heir"}
         /\ ~AtHorizon(switch, now) /\ switch.phase = "claimed" =>
               ownerActions(View) = {"veto", "part", "everything", "heir", "horizon"}
         /\ ~AtHorizon(switch, now) /\ switch.phase = "active" =>
               IF switch.deadline >= switch.horizon
               THEN ownerActions(View) = {"horizon", "topUp", "part", "everything", "heir"}
               ELSE ownerActions(View) = {"checkIn", "topUp", "part", "everything", "heir", "horizon"}
<1> DEFINE v == View
<1>1. /\ v.phase = switch.phase /\ (v.reached <=> AtHorizon(switch, now))
      /\ (v.pinned <=> switch.deadline >= switch.horizon)
  BY DEF View, ViewOf
<1>2. isPinned(v) <=> v.phase = "active" /\ switch.deadline >= switch.horizon /\ ~AtHorizon(switch, now)
  BY <1>1 DEF isPinned
<1> HIDE DEF v
<1>3. CASE AtHorizon(switch, now) /\ switch.phase = "claimed"
  BY <1>1, <1>2, <1>3 DEF ownerActions, v
<1>4. CASE AtHorizon(switch, now) /\ switch.phase = "active"
  BY <1>1, <1>2, <1>4 DEF ownerActions, v
<1>5. CASE ~AtHorizon(switch, now) /\ switch.phase = "claimed"
  BY <1>1, <1>2, <1>5 DEF ownerActions, v
<1>6. CASE ~AtHorizon(switch, now) /\ switch.phase = "active" /\ switch.deadline >= switch.horizon
  BY <1>1, <1>2, <1>6 DEF ownerActions, v
<1>7. CASE ~AtHorizon(switch, now) /\ switch.phase = "active" /\ ~(switch.deadline >= switch.horizon)
  BY <1>1, <1>2, <1>7 DEF ownerActions, v
<1> QED
  BY <1>3, <1>4, <1>5, <1>6, <1>7

\* Types, what a card offers and what it says will stop a claim.
LEMMA CardPromises ==
  ASSUME SwitchAssumption, DeskAssumption, CardInv
  PROVE  DeskTypeOK /\ OffersWhatWorks /\ StoppersAsTold
<1>1. /\ View.phase = switch.phase /\ View.reached = AtHorizon(switch, now)
      /\ View.pinned = (switch.deadline >= switch.horizon)
      /\ now \in Nat /\ switch \in Switches /\ switch.horizon \in Nat /\ switch.period \in Nat
      /\ switch.deadline \in Nat /\ switch.period > 0 /\ MaxHorizon \in Nat /\ switch.period <= MaxHorizon
  BY ViewIs DEF CardInv, DeskInv, HorizonInv, View, ViewOf, Switches, SwitchAssumption
<1>2. DeskTypeOK
  <2>1. SwitchTypeOK
    BY DEF CardInv, DeskInv, SwitchSound, SwitchTypeOK, ClaimFieldsFit
  <2>2. generation \in 0..MaxGeneration
    BY DEF CardInv, DeskInv, ButtonInv, DeskAssumption
  <2>3. \A s \in signs : s.kind \in Kinds \cup Pressed /\ s.generation \in 0..generation
    BY DEF CardInv, DeskInv, SignFits, ButtonInv
  <2>4. \A s \in signs : s.kind \in Kinds \cup Pressed /\ s.generation \in 0..MaxGeneration
    BY <2>2, <2>3 DEF DeskAssumption
  <2> QED
    BY <2>1, <2>2, <2>4 DEF DeskTypeOK, CardInv, HoldingsInv
<1>3. OffersWhatWorks
  <2>1. SUFFICES ASSUME IsLive(switch), NEW a \in {"topUp", "part", "everything", "heir", "checkIn", "veto"}
                 PROVE  a \in ownerActions(View) <=> Accepts(a, switch, now)
    <3>1. IsLive(switch) => "horizon" \in ownerActions(View)
      BY <1>1 DEF ownerActions, IsLive
    <3>2. IsLive(switch) => Accepts("horizon", switch, now) \/ switch.horizon + 1 > now + MaxHorizon
      BY <1>1, CanBeExtended
    <3> QED
      BY <2>1, <3>1, <3>2 DEF OffersWhatWorks, Kinds
  <2>2. switch.phase \in {"active", "claimed"}
    BY <2>1 DEF IsLive
  <2>3. CASE AtHorizon(switch, now)
    BY <1>1, <2>1, <2>2, <2>3, ActionsAre DEF Accepts, CanShowLife, CanVeto, CanAct, IsLive
  <2>4. CASE ~AtHorizon(switch, now)
    <3>1. CASE switch.phase = "claimed"
      BY <1>1, <2>1, <2>4, <3>1, ActionsAre DEF Accepts, CanShowLife, CanVeto, CanAct, IsLive
    <3>2. CASE switch.phase = "active" /\ switch.deadline >= switch.horizon
      <4>1. ownerActions(View) = {"horizon", "topUp", "part", "everything", "heir"}
        BY <2>4, <3>2, ActionsAre
      <4>2. ~CanShowLife(switch, now) /\ ~CanVeto(switch, now) /\ CanAct(switch, now)
        BY <1>1, <2>1, <2>4, <3>2 DEF CanShowLife, CanVeto, CanAct
      <4> QED
        BY <2>1, <3>2, <4>1, <4>2 DEF Accepts
    <3>3. CASE switch.phase = "active" /\ ~(switch.deadline >= switch.horizon)
      <4>1. ownerActions(View) = {"checkIn", "topUp", "part", "everything", "heir", "horizon"}
        BY <2>4, <3>3, ActionsAre
      <4>2. CanShowLife(switch, now) /\ ~CanVeto(switch, now) /\ CanAct(switch, now)
        BY <1>1, <2>1, <2>4, <3>3 DEF CanShowLife, CanVeto, CanAct
      <4> QED
        BY <2>1, <3>3, <4>1, <4>2 DEF Accepts
    <3> QED
      BY <1>1, <2>2, <3>1, <3>2, <3>3
  <2> QED
    BY <2>3, <2>4
<1>4. StoppersAsTold
  <2>1. SUFFICES ASSUME switch.phase = "claimed"
                 PROVE  /\ \A a \in Stoppers(View) : Accepts(a, switch, now)
                        /\ \A a \in ownerActions(View) :
                              a \in Stoppers(View) <=> (a = "part" => PartWithdrawn(switch, now).phase # "claimed")
    BY DEF StoppersAsTold
  <2>2. switch.horizon < now + MaxHorizon /\ IsLive(switch)
    BY <2>1 DEF CardInv, HorizonInv, IsLive
  <2>3. Accepts("horizon", switch, now)
    BY <1>1, <2>2, CanBeExtended
  <2>4. CASE AtHorizon(switch, now)
    <3>1. Stoppers(View) = {"horizon", "everything"} /\ ownerActions(View) = {"horizon", "everything", "part"}
      BY <1>1, <2>1, <2>4, ActionsAre DEF Stoppers
    <3>2. PartWithdrawn(switch, now).phase = "claimed"
      BY <1>1, <2>1, <2>4 DEF PartWithdrawn, Restarted, Switches
    <3>3. Accepts("everything", switch, now)
      BY <2>2 DEF Accepts
    <3> QED
      BY <2>3, <3>1, <3>2, <3>3
  <2>5. CASE ~AtHorizon(switch, now)
    <3>1. /\ Stoppers(View) = {"veto", "heir", "horizon", "part", "everything"}
          /\ ownerActions(View) = {"veto", "part", "everything", "heir", "horizon"}
      BY <1>1, <2>1, <2>5, ActionsAre DEF Stoppers
    <3>2. PartWithdrawn(switch, now).phase = "active"
      BY <1>1, <2>1, <2>5, ActedIs DEF PartWithdrawn
    <3>3. \A a \in {"veto", "heir", "part", "everything"} : Accepts(a, switch, now)
      BY <2>1, <2>2, <2>5 DEF Accepts, CanVeto, CanAct
    <3> QED
      BY <2>3, <3>1, <3>2, <3>3
  <2> QED
    BY <2>4, <2>5
<1> QED
  BY <1>2, <1>3, <1>4

=============================================================================
