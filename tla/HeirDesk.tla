------------------------------- MODULE HeirDesk -------------------------------
(***************************************************************************)
(* site/assets/app.js: the heir's card of a vault, from the review of a    *)
(* claim to its cancellation and its settlement.  The vault is a           *)
(* DeadMansSwitch; its owner, and whoever may settle a claim, act on it    *)
(* between any two reads of the page.  (The page is OwnerDesk's otherwise: *)
(* its reviews, generations and panels are modelled there.)                *)
(***************************************************************************)
EXTENDS DeadMansSwitch

CONSTANTS
    Me,              \* the connected wallet
    CANCEL_MARGIN,   \* a cancel signed this close to finalizableAt counts as late
    ClockError       \* bound: how far the device clock is off, either way

HeirAssumption ==
    /\ Me \in Persons
    /\ CANCEL_MARGIN \in Nat /\ ClockError \in Nat

VARIABLES
    panel,   \* what the open panel is for, the vault it shows and the payee entered
    stage,   \* how far its handler is
    late,    \* the panel warns that a finalize may come first, and its box must be ticked
    clock,   \* the chain time a cancel read, or 0
    fresh,   \* whether a cancel's vault was re-read, and the vault if it was as shown
    asked    \* when a cancel's chain time was read, or the wallet asked for another call

heirVars == <<switchVars, panel, stage, late, clock, fresh, asked>>
heirOnly == <<panel, stage, late, clock, fresh, asked>>

View == ViewOf(0)
NotReread == [read |-> FALSE, vault |-> Unarmed]
NoPanel == [kind |-> "none", view |-> NoView, finalizableAt |-> 0, payee |-> Nobody]

-----------------------------------------------------------------------------
(* What is asked of the contract. *)

Accepts(p) ==
    CASE p.kind = "claim" -> CanClaim(switch, now) /\ switch.heir = Me
      [] p.kind = "cancel" -> switch.phase = "claimed" /\ switch.heir = Me
      [] p.kind = "finalize" -> CanSettle(switch, now)

AfterCall(p) ==
    CASE p.kind = "claim" -> ClaimedBy(switch, now, p.payee)
      [] p.kind = "cancel" -> Unclaimed(switch)
      [] p.kind = "finalize" -> [switch EXCEPT !.phase = "settled"]

-----------------------------------------------------------------------------
(* What the page reads. *)

\* The newest block's time, or the device's if no block can be read.
chainNow == {now} \cup {t \in 1..(MaxTime + ClockError) : t >= now - ClockError /\ t <= now + ClockError}

isLate(t) == t >= panel.finalizableAt - CANCEL_MARGIN

\* What recheckHeirVault refuses.
Changed == switch.heir # Me \/ vaultChange(panel.view, View)

heirActions ==
    (IF switch.phase = "active" /\ IsExpired(switch, now) THEN {"claim"} ELSE {})
    \cup (IF switch.phase = "claimed" THEN {"cancel"} ELSE {})
    \cup (IF CanSettle(switch, now) THEN {"finalize"} ELSE {})

-----------------------------------------------------------------------------
(* Opening, reviewing, signing. *)

Opened(kind, st, warned) ==
    /\ panel' = [kind |-> kind, view |-> View, payee |-> Nobody,
                 finalizableAt |-> IF switch.phase = "claimed" THEN FinalizableAt(switch) ELSE 0]
    /\ stage' = st
    /\ late' = warned
    /\ clock' = 0 /\ fresh' = NotReread /\ asked' = 0
    /\ UNCHANGED switchVars

\* actClaim: the form.
OpenClaim == Opened("claim", "form", FALSE)

\* actCancelClaim: the panel carries its Sign button, and whether the cancel is
\* late is decided now.
OpenCancel ==
    /\ switch.phase = "claimed" /\ switch.heir = Me
    /\ \E t \in chainNow : Opened("cancel", "offered", t >= FinalizableAt(switch) - CANCEL_MARGIN)

\* actFinalize asks the wallet at once.
OpenFinalize ==
    /\ "finalize" \in heirActions
    /\ panel' = [NoPanel EXCEPT !.kind = "finalize"]
    /\ stage' = "prompt" /\ asked' = now
    /\ late' = FALSE
    /\ UNCHANGED <<switchVars, clock, fresh>>

ClosePanel ==
    /\ stage \in {"form", "offered"}
    /\ panel' = NoPanel /\ stage' = "closed"
    /\ late' = FALSE
    /\ UNCHANGED <<switchVars, clock, fresh, asked>>

MovesTo(st) == stage' = st /\ UNCHANGED <<switchVars, late, clock, fresh, asked>>

\* The review of a claim reads the vault, and for another payee than the heir
\* its code and credit after that; the vault read first is the one it shows.
ReviewReads ==
    /\ stage = "form"
    /\ \E payee \in Persons :
          /\ panel' = [panel EXCEPT !.view = View, !.payee = payee]
          /\ IF CanClaim(switch, now) /\ switch.heir = Me
             THEN MovesTo(IF payee = Me THEN "offered" ELSE "reading")
             ELSE MovesTo("form")

ReviewShown == stage = "reading" /\ MovesTo("offered") /\ UNCHANGED panel

\* An edit, or a read of the review that fails.
ReviewAgain == panel.kind = "claim" /\ stage \in {"reading", "offered"} /\ MovesTo("form") /\ UNCHANGED panel

\* The boxes are ticked first.
Click == stage = "offered" /\ MovesTo("recheck") /\ UNCHANGED panel

\* A cancel reads the time and its vault at once (Promise.all): either may be
\* answered first, and the vault change while the other is waited for.
ClockRead ==
    /\ stage = "recheck" /\ panel.kind = "cancel" /\ clock = 0
    /\ \E t \in chainNow : clock' = t
    /\ asked' = now
    /\ UNCHANGED <<switchVars, panel, stage, late, fresh>>

\* The vault as shown; or one that changed, or that could not be read.
VaultRead ==
    /\ stage = "recheck" /\ panel.kind = "cancel" /\ ~fresh.read
    /\ \/ ~Changed /\ fresh' = [read |-> TRUE, vault |-> switch]
       \/ fresh' = [read |-> TRUE, vault |-> Unarmed]
    /\ UNCHANGED <<switchVars, panel, stage, late, clock, asked>>

BothRead == clock # 0 /\ fresh.read
AsShown == fresh.vault.phase # "none"

RecheckRefuses ==
    /\ stage = "recheck"
    /\ panel.kind = "cancel" => BothRead /\ ~AsShown
    /\ stage' = "offered"
    /\ clock' = 0 /\ fresh' = NotReread
    /\ UNCHANGED <<switchVars, panel, late, asked>>

\* A check-in changes nothing that vaultChange looks at: it is looked for.
SignClaim ==
    /\ stage = "recheck" /\ panel.kind = "claim"
    /\ ~Changed
    /\ IF IsExpired(switch, now)
       THEN stage' = "prompt" /\ asked' = now
       ELSE stage' = "form" /\ UNCHANGED asked
    /\ UNCHANGED <<switchVars, panel, late, clock, fresh>>

\* A cancel that is late by now, and did not say so, warns and is not signed.
SignCancel ==
    /\ stage = "recheck" /\ panel.kind = "cancel"
    /\ BothRead /\ AsShown
    /\ IF ~late /\ isLate(clock)
       THEN stage' = "offered" /\ late' = TRUE
       ELSE stage' = "prompt" /\ UNCHANGED late
    /\ clock' = 0 /\ fresh' = NotReread
    /\ UNCHANGED <<switchVars, panel, asked>>

\* Declined: the button is there again.
Decline ==
    /\ stage = "prompt"
    /\ stage' = IF panel.kind = "finalize" THEN "closed" ELSE "offered"
    /\ UNCHANGED <<switchVars, panel, late, clock, fresh, asked>>

\* Mined, or reverted: the cards are drawn anew.
Mined ==
    /\ stage = "prompt"
    /\ switch' = IF Accepts(panel) THEN AfterCall(panel) ELSE switch
    /\ stage' = "closed" /\ panel' = NoPanel /\ late' = FALSE
    /\ UNCHANGED <<now, clock, fresh, asked>>

-----------------------------------------------------------------------------
\* The owner, anyone who settles the claim, and the heir's other devices.
OthersAct ==
    /\ OwnerActs \/ HeirActs \/ Settle \/ (Tick /\ UNCHANGED switch)
    /\ UNCHANGED heirOnly

HeirInit ==
    /\ ClockInit
    /\ \E period \in Periods, window \in Windows, horizon \in Horizons :
          /\ horizon >= now + period /\ horizon <= now + MaxHorizon
          /\ switch = Restarted([Unarmed EXCEPT !.phase = "active", !.heir = Me,
                        !.period = period, !.horizon = horizon, !.window = window], now)
    /\ panel = NoPanel
    /\ stage = "closed"
    /\ late = FALSE
    /\ clock = 0 /\ fresh = NotReread
    /\ asked = 0

HeirNext ==
    \/ stage \in {"closed", "form", "offered"} /\ (OpenClaim \/ OpenCancel \/ OpenFinalize)
    \/ ClosePanel \/ ReviewReads \/ ReviewShown \/ ReviewAgain
    \/ Click \/ ClockRead \/ VaultRead \/ RecheckRefuses \/ SignClaim \/ SignCancel
    \/ Decline \/ Mined
    \/ OthersAct

HeirSpec == HeirInit /\ [][HeirNext]_heirVars

-----------------------------------------------------------------------------
(* Properties. *)

\* Types; a payee is set once a review has run, and a warning belongs to a cancel.
HeirTypeOK ==
    /\ SwitchTypeOK
    /\ stage \in {"closed", "form", "reading", "offered", "recheck", "prompt"}
    /\ late => panel.kind = "cancel"
    /\ clock # 0 \/ fresh # NotReread => stage = "recheck" /\ panel.kind = "cancel"
    /\ stage = "offered" /\ panel.kind = "claim" => panel.payee \in Persons

\* What the wallet is asked to sign works, whatever the owner did since the
\* review: a claim is one the contract would accept then, check-ins too.  A
\* cancel is of the claim whose payee and date the panel shows, and the contract
\* would accept it then too, unless the vault changed after it was re-read,
\* while the time was still waited for.
AskedOnlyWhatWorksStep ==
    (stage = "recheck" /\ stage' = "prompt") =>
       /\ panel.kind = "claim" => Accepts(panel)
       /\ panel.kind = "cancel" =>
             /\ fresh.vault.payee = panel.view.payee
             /\ FinalizableAt(fresh.vault) = panel.finalizableAt
             /\ switch = fresh.vault => Accepts(panel)

\* A cancel that asked for no acknowledgement is not overtaken: mined within
\* the margin of the time it was signed by (a device clock's error taken off
\* it), it finds the claim unsettled, whichever of the two reads came first.
UnwarnedCancelInTimeStep ==
    (Mined /\ panel.kind = "cancel" /\ ~late /\ now <= asked + CANCEL_MARGIN - ClockError)
       => switch.phase # "settled"

=============================================================================
