---------------------------- MODULE DeadMansSwitch ----------------------------
(***************************************************************************)
(* What contracts/InheritanceVault.sol promises of one vault, value, fees, *)
(* check-in chains and the open list left out: a switch that the owner's   *)
(* signs of life hold back, that the heir may claim once it lapses, that   *)
(* the owner may take back during a window, and that anyone settles after. *)
(*                                                                         *)
(* MCInheritanceVault shows that every vault of the contract behaves so,   *)
(* and the models of the page and of the watcher take a vault for a switch.*)
(***************************************************************************)
EXTENDS BlockClock, SwitchRules, TLAPS

VARIABLE switch

switchVars == <<now, switch>>

Horizons == 0..(MaxTime + MaxHorizon)

-----------------------------------------------------------------------------
(* The steps of its parties. *)

Becoming(s) == switch' = s /\ UNCHANGED now

Arm ==
    /\ switch.phase = "none"
    /\ \E heir \in Persons, period \in Periods, window \in Windows, horizon \in Horizons :
          /\ horizon >= now + period
          /\ horizon <= now + MaxHorizon
          /\ Becoming(Restarted(
                [Unarmed EXCEPT !.phase = "active", !.heir = heir, !.period = period,
                                !.horizon = horizon, !.window = window], now))

ShowLife == CanShowLife(switch, now) /\ Becoming(Restarted(switch, now))

WithdrawPart == IsLive(switch) /\ Becoming(PartWithdrawn(switch, now))

\* setCheckInChain: as any owner's act, and refused at the horizon.
Rearm == IsLive(switch) /\ ~AtHorizon(switch, now) /\ Becoming(Acted(switch, now))

ChangeHeir ==
    /\ CanAct(switch, now)
    /\ \E heir \in Persons : Becoming(Acted([switch EXCEPT !.heir = heir], now))

ChangePeriod ==
    /\ CanAct(switch, now)
    /\ \E period \in Periods : Becoming(Acted([switch EXCEPT !.period = period], now))

\* Variation: any later horizon will do.
Extend_AnyLater ==
    \E horizon \in Horizons :
        /\ IsLive(switch) /\ horizon > switch.horizon /\ horizon <= now + MaxHorizon
        /\ Becoming(Acted([switch EXCEPT !.horizon = horizon], now))

Extend ==
    \E horizon \in Horizons :
        /\ CanExtend(switch, now, horizon)
        /\ Becoming(Acted([switch EXCEPT !.horizon = horizon], now))

Veto == CanVeto(switch, now) /\ Becoming(Acted(switch, now))

\* Taking everything out.
Close == IsLive(switch) /\ Becoming([Acted(switch, now) EXCEPT !.phase = "closed"])

Claim ==
    /\ CanClaim(switch, now)
    /\ \E payee \in Persons : Becoming(ClaimedBy(switch, now, payee))

CancelClaim == switch.phase = "claimed" /\ Becoming(Unclaimed(switch))

Settle == CanSettle(switch, now) /\ Becoming([switch EXCEPT !.phase = "settled"])

SwitchInit == ClockInit /\ switch = Unarmed

OwnerActs ==
    \/ ShowLife \/ WithdrawPart \/ Rearm \/ ChangeHeir \/ ChangePeriod \/ Extend \/ Veto \/ Close

HeirActs == Claim \/ CancelClaim

SwitchNext == Arm \/ OwnerActs \/ HeirActs \/ Settle \/ (Tick /\ UNCHANGED switch)

SwitchSpec == SwitchInit /\ [][SwitchNext]_switchVars

-----------------------------------------------------------------------------
(* What others read of it: site/assets/app.js keeps the answer of one       *)
(* getVault call, draws the cards, panels and reviews of owner and heir     *)
(* from it, and asks whether two of them differ in a way that matters.      *)

\* What a call of getVault answers at this moment, as far as the page uses it,
\* of a vault that holds units.
ViewOf(units) == [
    phase |-> switch.phase, heir |-> switch.heir, payee |-> switch.payee,
    claimedAt |-> switch.claimedAt, period |-> switch.period, horizon |-> switch.horizon,
    reached |-> AtHorizon(switch, now), pinned |-> switch.deadline >= switch.horizon,
    balance |-> units]

NoView == [
    phase |-> "none", heir |-> Nobody, payee |-> Nobody, claimedAt |-> 0, period |-> 0,
    horizon |-> 0, reached |-> FALSE, pinned |-> FALSE, balance |-> 0]

isPinned(v) == v.phase = "active" /\ v.pinned /\ ~v.reached

\* Variation: the horizon is not looked at.
vaultChange_NoHorizon(v, w) ==
    \/ w.phase # v.phase
    \/ w.phase = "claimed" /\ (w.claimedAt # v.claimedAt \/ w.payee # v.payee)
    \/ w.heir # v.heir \/ w.horizon # v.horizon \/ w.period # v.period

\* Whether what a panel says of v may be wrong of w.
vaultChange(v, w) ==
    \/ w.phase # v.phase
    \/ w.phase = "claimed" /\ (w.claimedAt # v.claimedAt \/ w.payee # v.payee)
    \/ w.reached # v.reached
    \/ w.heir # v.heir \/ w.horizon # v.horizon \/ w.period # v.period

-----------------------------------------------------------------------------
(* Properties. *)

\* Types of the switch, and the fields a claim brings: they are set exactly
\* while it stands and after it was settled.
SwitchTypeOK ==
    /\ ClockTypeOK
    /\ switch \in Switches
    /\ (switch.payee # Nobody) <=> (switch.phase \in {"claimed", "settled"})
    /\ (switch.claimedAt > 0) <=> (switch.phase \in {"claimed", "settled"})

\* The promise to the owner, in one formula over a whole life: value is handed
\* over only when a full window has passed since the claim, and the claim was
\* made when the owner had been silent for a period or had let the horizon
\* come, and nothing the owner did since could have ended it without doing so.
SettledOnlyAfterSilence ==
    /\ switch.phase \in {"claimed", "settled"} =>
          \/ switch.deadline <= switch.claimedAt
          \/ switch.deadline = switch.horizon /\ now >= switch.horizon
    /\ switch.phase = "settled" => now >= FinalizableAt(switch)

\* An owner who keeps acting cannot be overtaken: each act that leaves the
\* vault open puts the claim either a full period away or at the horizon.
ActsBuyTimeStep ==
    (OwnerActs /\ IsLive(switch'))
          => switch'.deadline \in {now + switch'.period, switch'.horizon}

\* At the horizon a claim is out of the owner's reach except by a later horizon
\* that leaves a full period, or by closing.
OnlyTwoWaysOutAtHorizonStep ==
    (switch.phase = "claimed" /\ AtHorizon(switch, now) /\ OwnerActs /\ switch'.phase # "claimed")
          => \/ switch'.phase = "closed"
             \/ switch'.deadline >= now + switch.period

-----------------------------------------------------------------------------
(* Proofs, for every value of the constants that SwitchAssumption allows.   *)

\* The helpers keep a switch a switch, and a switch without a claim one.
LEMMA RestartedTyped ==
  ASSUME NEW s \in Switches, NEW t \in Nat
  PROVE  /\ Restarted(s, t) \in Switches
         /\ Restarted(s, t) = [s EXCEPT !.deadline = Restarted(s, t).deadline]
         /\ Restarted(s, t).deadline = Sooner(t + s.period, s.horizon)
<1>1. Sooner(t + s.period, s.horizon) \in Nat
  BY DEF Sooner, Switches
<1> QED
  BY <1>1 DEF Restarted, Switches

\* Ending a claim takes its fields away and nothing else.
LEMMA UnclaimedTyped ==
  ASSUME NEW s \in Switches
  PROVE  /\ Unclaimed(s) \in Switches
         /\ Unclaimed(s).heir = s.heir /\ Unclaimed(s).period = s.period
         /\ Unclaimed(s).horizon = s.horizon /\ Unclaimed(s).window = s.window
         /\ Unclaimed(s).deadline = s.deadline
         /\ s.phase = "claimed" => /\ Unclaimed(s).phase = "active"
                                   /\ Unclaimed(s).claimedAt = 0 /\ Unclaimed(s).payee = Nobody
         /\ s.phase # "claimed" => Unclaimed(s) = s
BY DEF Unclaimed, Switches

\* What an act leaves: no claim, and the clock restarted.
LEMMA ActedIs ==
  ASSUME NEW s \in Switches, NEW t \in Nat
  PROVE  /\ Acted(s, t) \in Switches
         /\ Acted(s, t).heir = s.heir /\ Acted(s, t).period = s.period
         /\ Acted(s, t).horizon = s.horizon /\ Acted(s, t).window = s.window
         /\ Acted(s, t).deadline = Sooner(t + s.period, s.horizon)
         /\ s.phase = "claimed" => /\ Acted(s, t).phase = "active"
                                   /\ Acted(s, t).claimedAt = 0 /\ Acted(s, t).payee = Nobody
         /\ s.phase # "claimed" => /\ Acted(s, t).phase = s.phase
                                   /\ Acted(s, t).claimedAt = s.claimedAt
                                   /\ Acted(s, t).payee = s.payee
<1> DEFINE u == Unclaimed(s)
<1>1. u \in Switches
  BY UnclaimedTyped
<1>2. /\ Restarted(u, t) \in Switches
      /\ Restarted(u, t) = [u EXCEPT !.deadline = Restarted(u, t).deadline]
      /\ Restarted(u, t).deadline = Sooner(t + u.period, u.horizon)
  BY <1>1, RestartedTyped
<1>3. /\ Acted(s, t) = Restarted(u, t)
      /\ u.heir = s.heir /\ u.period = s.period /\ u.horizon = s.horizon /\ u.window = s.window
      /\ s.phase = "claimed" => u.phase = "active" /\ u.claimedAt = 0 /\ u.payee = Nobody
      /\ s.phase # "claimed" => u = s
  BY UnclaimedTyped DEF Acted
<1> HIDE DEF u
<1> QED
  BY <1>1, <1>2, <1>3 DEF Switches

\* The fields a claim brings, of a switch s.
ClaimFieldsFit(s) ==
    /\ (s.payee # Nobody) <=> (s.phase \in {"claimed", "settled"})
    /\ (s.claimedAt > 0) <=> (s.phase \in {"claimed", "settled"})

\* A claim s at time t was made after silence, and settled after its window.
WaitedFor(s, t) ==
    /\ s.phase \in {"claimed", "settled"} =>
          \/ s.deadline <= s.claimedAt
          \/ s.deadline = s.horizon /\ t >= s.horizon
    /\ s.phase = "settled" => t >= FinalizableAt(s)

SwitchSound ==
    /\ ClockTypeOK
    /\ switch \in Switches
    /\ ClaimFieldsFit(switch)
    /\ WaitedFor(switch, now)

\* An act on a live switch leaves it open, with no claim.
LEMMA ActSound ==
  ASSUME NEW s \in Switches, NEW t \in Nat, IsLive(s), ClaimFieldsFit(s)
  PROVE  /\ Acted(s, t) \in Switches /\ Acted(s, t).phase = "active"
         /\ ClaimFieldsFit(Acted(s, t)) /\ WaitedFor(Acted(s, t), t)
<1>1. Acted(s, t) \in Switches /\ Acted(s, t).phase = "active"
  BY ActedIs DEF IsLive
<1>2. Acted(s, t).claimedAt = 0 /\ Acted(s, t).payee = Nobody
  <2>1. CASE s.phase = "claimed"
    BY <2>1, ActedIs
  <2>2. CASE s.phase = "active"
    <3>1. s.claimedAt = 0 /\ s.payee = Nobody
      BY <2>2 DEF ClaimFieldsFit, Switches
    <3> QED
      BY <2>2, <3>1, ActedIs
  <2> QED
    BY <2>1, <2>2 DEF IsLive
<1>3. ClaimFieldsFit(Acted(s, t))
  BY <1>1, <1>2 DEF ClaimFieldsFit
<1> QED
  BY <1>1, <1>3 DEF WaitedFor

\* A switch just armed at time t.
ArmedAs(heir, period, window, horizon, t) ==
    Restarted([Unarmed EXCEPT !.phase = "active", !.heir = heir, !.period = period,
                              !.horizon = horizon, !.window = window], t)

\* ... which has no claim, and what it was armed with.
LEMMA ArmedIs ==
  ASSUME SwitchAssumption, NEW heir \in Persons, NEW period \in Periods,
         NEW window \in Windows, NEW horizon \in Horizons, NEW t \in Nat
  PROVE  LET s == ArmedAs(heir, period, window, horizon, t)
         IN  /\ s \in Switches /\ s.phase = "active" /\ s.claimedAt = 0 /\ s.payee = Nobody
             /\ s.heir = heir /\ s.period = period /\ s.window = window /\ s.horizon = horizon
             /\ s.deadline = Sooner(t + period, horizon)
             /\ ClaimFieldsFit(s) /\ WaitedFor(s, t)
<1> DEFINE a == [Unarmed EXCEPT !.phase = "active", !.heir = heir, !.period = period,
                                !.horizon = horizon, !.window = window]
           s == ArmedAs(heir, period, window, horizon, t)
<1>1. Unarmed \in Switches /\ Unarmed.claimedAt = 0 /\ Unarmed.payee = Nobody
  BY DEF Unarmed, Switches
<1>0. period \in Nat /\ window \in Nat /\ horizon \in Nat
  BY MaxTimeAssumption DEF Periods, Windows, Horizons, SwitchAssumption
<1>2. /\ a \in Switches /\ a.phase = "active" /\ a.claimedAt = 0 /\ a.payee = Nobody
      /\ a.heir = heir /\ a.period = period /\ a.window = window /\ a.horizon = horizon
  BY <1>0, <1>1 DEF Switches
<1>3. s = Restarted(a, t)
  BY DEF ArmedAs
<1> HIDE DEF a, s
<1>4. /\ s \in Switches /\ s.phase = "active" /\ s.claimedAt = 0 /\ s.payee = Nobody
      /\ s.heir = heir /\ s.period = period /\ s.window = window /\ s.horizon = horizon
      /\ s.deadline = Sooner(t + period, horizon)
  BY <1>0, <1>2, <1>3, RestartedTyped DEF Switches
<1>5. ClaimFieldsFit(s) /\ WaitedFor(s, t)
  BY <1>4 DEF ClaimFieldsFit, WaitedFor
<1> QED
  BY <1>4, <1>5 DEF s

\* Types, the fields of a claim and what a claim waited for, at the start and
\* after each step: the invariant that the theorems rest on.
LEMMA SwitchStarts == ASSUME SwitchAssumption PROVE SwitchInit => SwitchSound
<1>1. Unarmed \in Switches /\ ClaimFieldsFit(Unarmed)
  BY DEF Unarmed, Switches, ClaimFieldsFit
<1> QED
  BY <1>1, MaxTimeAssumption
  DEF SwitchInit, SwitchSound, ClockInit, ClockTypeOK, WaitedFor, Unarmed

\* ... and every step of a party and of the clock keeps it.
LEMMA SwitchGoesOn ==
  ASSUME SwitchAssumption, SwitchSound, [SwitchNext]_switchVars
  PROVE  SwitchSound'
<1> USE MaxTimeAssumption
<1>1. now \in Nat /\ now > 0 /\ now <= MaxTime /\ switch \in Switches
      /\ ClaimFieldsFit(switch) /\ WaitedFor(switch, now)
  BY DEF SwitchSound, ClockTypeOK
<1>2. SUFFICES ASSUME SwitchNext PROVE SwitchSound'
  <2>1. CASE UNCHANGED switchVars
    BY <2>1 DEF switchVars, SwitchSound, ClockTypeOK
  <2> QED
    BY <1>2, <2>1
\* It is enough to look at the switch a step makes.
<1>3. ASSUME NEW s \in Switches, ClaimFieldsFit(s), WaitedFor(s, now), Becoming(s)
      PROVE  SwitchSound'
  BY <1>1, <1>3 DEF Becoming, SwitchSound, ClockTypeOK
<1>4. CASE Arm
  <2>1. PICK heir \in Persons, period \in Periods, window \in Windows, horizon \in Horizons :
          Becoming(Restarted([Unarmed EXCEPT !.phase = "active", !.heir = heir, !.period = period,
                                             !.horizon = horizon, !.window = window], now))
    BY <1>4 DEF Arm
  <2> DEFINE s == ArmedAs(heir, period, window, horizon, now)
  <2>2. s \in Switches /\ ClaimFieldsFit(s) /\ WaitedFor(s, now)
    BY <1>1, ArmedIs
  <2>3. Becoming(s)
    BY <2>1 DEF ArmedAs
  <2> HIDE DEF s
  <2> QED
    BY <1>3, <2>2, <2>3
\* An act of the owner on the switch as it is, or with other terms.
<1>5. ASSUME NEW s \in Switches, IsLive(s), ClaimFieldsFit(s), Becoming(Acted(s, now))
      PROVE  SwitchSound'
  BY <1>1, <1>3, <1>5, ActSound
<1>6. CASE ShowLife
  <2>1. Unclaimed(switch) = switch /\ IsLive(switch)
    BY <1>6 DEF ShowLife, CanShowLife, Unclaimed, IsLive
  <2> QED
    BY <1>1, <1>5, <1>6, <2>1 DEF ShowLife, Acted
<1>7. CASE WithdrawPart
  <2>1. CASE ~AtHorizon(switch, now)
    BY <1>1, <1>5, <1>7, <2>1 DEF WithdrawPart, PartWithdrawn
  <2>2. CASE AtHorizon(switch, now)
    <3> DEFINE s == Restarted(switch, now)
    <3>1. /\ s \in Switches /\ s = [switch EXCEPT !.deadline = s.deadline]
          /\ s.deadline = switch.horizon
      <4>1. Sooner(now + switch.period, switch.horizon) = switch.horizon
        BY <1>1, <2>2 DEF AtHorizon, Sooner, Switches
      <4> QED
        BY <1>1, <4>1, RestartedTyped
    <3>2. Becoming(s) /\ IsLive(switch)
      BY <1>7, <2>2 DEF WithdrawPart, PartWithdrawn
    <3> HIDE DEF s
    <3>3. ClaimFieldsFit(s)
      BY <1>1, <3>1 DEF ClaimFieldsFit, Switches
    <3>4. WaitedFor(s, now)
      BY <1>1, <2>2, <3>1, <3>2 DEF WaitedFor, AtHorizon, IsLive, Switches
    <3> QED
      BY <1>3, <3>1, <3>2, <3>3, <3>4
  <2> QED
    BY <2>1, <2>2
<1>8. CASE Rearm \/ Veto
  BY <1>1, <1>5, <1>8 DEF Rearm, Veto, CanVeto, IsLive
<1>9. CASE ChangeHeir
  <2>1. PICK heir \in Persons : Becoming(Acted([switch EXCEPT !.heir = heir], now))
    BY <1>9 DEF ChangeHeir
  <2>2. /\ [switch EXCEPT !.heir = heir] \in Switches
        /\ IsLive([switch EXCEPT !.heir = heir]) /\ ClaimFieldsFit([switch EXCEPT !.heir = heir])
    BY <1>1, <1>9 DEF ChangeHeir, CanAct, IsLive, Switches, ClaimFieldsFit
  <2> QED
    BY <1>5, <2>1, <2>2
<1>10. CASE ChangePeriod
  <2>1. PICK period \in Periods : Becoming(Acted([switch EXCEPT !.period = period], now))
    BY <1>10 DEF ChangePeriod
  <2>2. period \in Nat
    BY DEF Periods, SwitchAssumption
  <2>3. /\ [switch EXCEPT !.period = period] \in Switches
        /\ IsLive([switch EXCEPT !.period = period])
        /\ ClaimFieldsFit([switch EXCEPT !.period = period])
    BY <1>1, <1>10, <2>2 DEF ChangePeriod, CanAct, IsLive, Switches, ClaimFieldsFit
  <2> QED
    BY <1>5, <2>1, <2>3
<1>11. CASE Extend
  <2>1. PICK horizon \in Horizons : /\ CanExtend(switch, now, horizon)
                                    /\ Becoming(Acted([switch EXCEPT !.horizon = horizon], now))
    BY <1>11 DEF Extend
  <2>2. horizon \in Nat
    BY DEF Horizons, SwitchAssumption
  <2>3. /\ [switch EXCEPT !.horizon = horizon] \in Switches
        /\ IsLive([switch EXCEPT !.horizon = horizon])
        /\ ClaimFieldsFit([switch EXCEPT !.horizon = horizon])
    BY <1>1, <2>1, <2>2 DEF CanExtend, IsLive, Switches, ClaimFieldsFit
  <2> QED
    BY <1>5, <2>1, <2>3
<1>12. CASE Close
  <2> DEFINE a == Acted(switch, now)
  <2>1. a \in Switches /\ a.phase = "active" /\ ClaimFieldsFit(a)
    BY <1>1, <1>12, ActSound DEF Close
  <2>2. Becoming([a EXCEPT !.phase = "closed"])
    BY <1>12 DEF Close
  <2> HIDE DEF a
  <2>3. [a EXCEPT !.phase = "closed"] \in Switches
    BY <2>1 DEF Switches
  <2>4. /\ ClaimFieldsFit([a EXCEPT !.phase = "closed"])
        /\ WaitedFor([a EXCEPT !.phase = "closed"], now)
    BY <2>1 DEF ClaimFieldsFit, WaitedFor, Switches
  <2> QED
    BY <1>3, <2>2, <2>3, <2>4
<1>13. CASE Claim
  <2>1. PICK payee \in Persons : Becoming(ClaimedBy(switch, now, payee))
    BY <1>13 DEF Claim
  <2>2. payee # Nobody
    BY DEF SwitchAssumption
  <2> DEFINE s == ClaimedBy(switch, now, payee)
  <2>3. /\ s \in Switches /\ s.phase = "claimed" /\ s.claimedAt = now /\ s.payee = payee
        /\ s.deadline = switch.deadline
    BY <1>1 DEF ClaimedBy, Switches
  <2>4. switch.deadline <= now
    BY <1>1, <1>13 DEF Claim, CanClaim, IsExpired, Switches
  <2>5. Becoming(s)
    BY <2>1
  <2> HIDE DEF s
  <2>6. ClaimFieldsFit(s) /\ WaitedFor(s, now)
    BY <1>1, <2>2, <2>3, <2>4 DEF ClaimFieldsFit, WaitedFor
  <2> QED
    BY <1>3, <2>3, <2>5, <2>6
<1>14. CASE CancelClaim
  <2>1. /\ Unclaimed(switch) \in Switches /\ Unclaimed(switch).phase = "active"
        /\ Unclaimed(switch).claimedAt = 0 /\ Unclaimed(switch).payee = Nobody
    BY <1>1, <1>14, UnclaimedTyped DEF CancelClaim
  <2>2. ClaimFieldsFit(Unclaimed(switch)) /\ WaitedFor(Unclaimed(switch), now)
    BY <2>1 DEF ClaimFieldsFit, WaitedFor
  <2> QED
    BY <1>3, <1>14, <2>1, <2>2 DEF CancelClaim
<1>15. CASE Settle
  <2> DEFINE s == [switch EXCEPT !.phase = "settled"]
  <2>1. s \in Switches /\ ClaimFieldsFit(s) /\ WaitedFor(s, now)
    BY <1>1, <1>15 DEF Settle, CanSettle, Switches, ClaimFieldsFit, WaitedFor, FinalizableAt
  <2> QED
    BY <1>3, <1>15, <2>1 DEF Settle
<1>16. CASE Tick /\ UNCHANGED switch
  <2>1. now' = now + 1 /\ now < MaxTime /\ switch' = switch
    BY <1>16 DEF Tick
  <2>2. WaitedFor(switch, now + 1)
    BY <1>1 DEF WaitedFor, FinalizableAt, Switches
  <2> QED
    BY <1>1, <2>1, <2>2 DEF SwitchSound, ClockTypeOK
<1> QED
  BY <1>2, <1>4, <1>6, <1>7, <1>8, <1>9, <1>10, <1>11, <1>12, <1>13, <1>14, <1>15, <1>16
     DEF SwitchNext, OwnerActs, HeirActs

\* ... so it always holds.
LEMMA SwitchStaysSound == ASSUME SwitchAssumption PROVE SwitchSpec => []SwitchSound
BY SwitchStarts, SwitchGoesOn, PTL DEF SwitchSpec

\* Types of the switch; the fields of a claim are set exactly while it stands
\* and after it was settled (startClaim, _clearPending).
THEOREM SwitchTypeCorrect == ASSUME SwitchAssumption PROVE SwitchSpec => []SwitchTypeOK
<1>1. SwitchSound => SwitchTypeOK
  BY DEF SwitchSound, SwitchTypeOK, ClaimFieldsFit
<1> QED
  BY <1>1, SwitchStaysSound, PTL

\* The promise to the owner: value goes to the heir only a full window after a
\* claim, and a claim comes only after a period of silence or at the horizon
\* (startClaim, finalizeClaim, and every act that ends a claim).
THEOREM SettledAfterSilence == ASSUME SwitchAssumption PROVE SwitchSpec => []SettledOnlyAfterSilence
<1>1. SwitchSound => SettledOnlyAfterSilence
  BY DEF SwitchSound, WaitedFor, SettledOnlyAfterSilence
<1> QED
  BY <1>1, SwitchStaysSound, PTL

\* What an act leaves of the deadline.
LEMMA ActBuysTime ==
  ASSUME SwitchAssumption, SwitchSound, [SwitchNext]_switchVars
  PROVE  ActsBuyTimeStep
<1>1. now \in Nat /\ switch \in Switches
  BY MaxTimeAssumption DEF SwitchSound, ClockTypeOK
<1>2. SUFFICES ASSUME OwnerActs, IsLive(switch')
               PROVE  switch'.deadline \in {now + switch'.period, switch'.horizon}
  BY DEF ActsBuyTimeStep
<1>3. ASSUME NEW s \in Switches, Becoming(Acted(s, now)) \/ Becoming(Restarted(s, now))
      PROVE  switch'.deadline \in {now + switch'.period, switch'.horizon}
  <2>1. CASE Becoming(Acted(s, now))
    BY <1>1, <2>1, ActedIs DEF Becoming, Sooner
  <2>2. CASE Becoming(Restarted(s, now))
    <3>1. /\ switch'.deadline = Sooner(now + s.period, s.horizon)
          /\ switch'.period = s.period /\ switch'.horizon = s.horizon
      BY <1>1, <2>2, RestartedTyped DEF Becoming, Restarted, Switches
    <3> QED
      BY <3>1 DEF Sooner
  <2> QED
    BY <1>3, <2>1, <2>2
<1>4. CASE ShowLife \/ WithdrawPart \/ Rearm \/ Veto
  BY <1>1, <1>3, <1>4 DEF ShowLife, WithdrawPart, PartWithdrawn, Rearm, Veto
<1>5. CASE ChangeHeir
  <2>1. PICK heir \in Persons : Becoming(Acted([switch EXCEPT !.heir = heir], now))
    BY <1>5 DEF ChangeHeir
  <2>2. [switch EXCEPT !.heir = heir] \in Switches
    BY <1>1 DEF Switches
  <2> QED
    BY <1>3, <2>1, <2>2
<1>6. CASE ChangePeriod
  <2>1. PICK period \in Periods : Becoming(Acted([switch EXCEPT !.period = period], now))
    BY <1>6 DEF ChangePeriod
  <2>2. period \in Nat
    BY DEF Periods, SwitchAssumption
  <2>3. [switch EXCEPT !.period = period] \in Switches
    BY <1>1, <2>2 DEF Switches
  <2> QED
    BY <1>3, <2>1, <2>3
<1>7. CASE Extend
  <2>1. PICK horizon \in Horizons : Becoming(Acted([switch EXCEPT !.horizon = horizon], now))
    BY <1>7 DEF Extend
  <2>2. horizon \in Nat
    BY MaxTimeAssumption DEF Horizons, SwitchAssumption
  <2>3. [switch EXCEPT !.horizon = horizon] \in Switches
    BY <1>1, <2>2 DEF Switches
  <2> QED
    BY <1>3, <2>1, <2>3
<1>8. CASE Close
  <2>1. Acted(switch, now) \in Switches /\ switch'.phase = "closed"
    BY <1>1, <1>8, ActedIs DEF Close, Becoming, Switches
  <2> QED
    BY <1>2, <2>1 DEF IsLive
<1> QED
  BY <1>2, <1>4, <1>5, <1>6, <1>7, <1>8 DEF OwnerActs

\* What an act of the owner leaves of a live switch, whichever act it is: the window, a
\* horizon no sooner, and of a claim either all or nothing.
LEMMA OwnerLeaves ==
  ASSUME SwitchAssumption, now \in Nat, switch \in Switches, OwnerActs
  PROVE  /\ IsLive(switch) /\ now' = now /\ switch' \in Switches
         /\ switch'.window = switch.window /\ switch'.horizon >= switch.horizon
         /\ switch'.period = switch.period \/ switch'.period \in Periods
         /\ switch'.phase \in {"active", "claimed", "closed"}
         /\ switch'.phase = "claimed" =>
               /\ switch.phase = "claimed" /\ switch'.claimedAt = switch.claimedAt
               /\ switch'.payee = switch.payee /\ switch'.heir = switch.heir
               /\ switch'.horizon = switch.horizon /\ AtHorizon(switch, now)
         /\ switch'.claimedAt \in {0, switch.claimedAt}
         /\ switch'.deadline = Sooner(now + switch'.period, switch'.horizon)
<1> DEFINE Left ==
      /\ IsLive(switch) /\ now' = now /\ switch' \in Switches
      /\ switch'.window = switch.window /\ switch'.horizon >= switch.horizon
      /\ switch'.period = switch.period \/ switch'.period \in Periods
      /\ switch'.phase \in {"active", "claimed", "closed"}
      /\ switch'.phase = "claimed" =>
            /\ switch.phase = "claimed" /\ switch'.claimedAt = switch.claimedAt
            /\ switch'.payee = switch.payee /\ switch'.heir = switch.heir
            /\ switch'.horizon = switch.horizon /\ AtHorizon(switch, now)
      /\ switch'.claimedAt \in {0, switch.claimedAt}
      /\ switch'.deadline = Sooner(now + switch'.period, switch'.horizon)
<1> SUFFICES Left
  OBVIOUS
<1>1. ASSUME NEW s \in Switches, IsLive(switch), s.phase = switch.phase,
             s.claimedAt = switch.claimedAt, s.window = switch.window,
             s.horizon >= switch.horizon, s.period = switch.period \/ s.period \in Periods,
             Becoming(Acted(s, now))
      PROVE  Left /\ switch'.phase = "active"
  <2> DEFINE a == Acted(s, now)
  <2>1. /\ a \in Switches /\ a.window = switch.window /\ a.horizon >= switch.horizon
        /\ a.period = switch.period \/ a.period \in Periods
        /\ a.phase = "active" /\ a.claimedAt \in {0, switch.claimedAt}
        /\ a.deadline = Sooner(now + a.period, a.horizon)
    BY <1>1, ActedIs DEF IsLive
  <2>2. now' = now /\ switch' = a
    BY <1>1 DEF Becoming
  <2> HIDE DEF a
  <2> QED
    BY <1>1, <2>1, <2>2
<1>2. switch.horizon \in Nat /\ switch.period \in Nat
  BY DEF Switches
<1> HIDE DEF Left
<1>3. CASE ShowLife
  <2>1. IsLive(switch) /\ Restarted(switch, now) = Acted(switch, now)
    BY <1>3 DEF ShowLife, CanShowLife, IsLive, Acted, Unclaimed
  <2> QED
    BY <1>1, <1>2, <1>3, <2>1 DEF ShowLife
<1>4. CASE WithdrawPart
  <2>1. CASE ~AtHorizon(switch, now)
    BY <1>1, <1>2, <1>4, <2>1 DEF WithdrawPart, PartWithdrawn
  <2>2. CASE AtHorizon(switch, now)
    <3>1. IsLive(switch) /\ now' = now /\ switch' = Restarted(switch, now)
      BY <1>4, <2>2 DEF WithdrawPart, PartWithdrawn, Becoming
    <3>2. /\ switch' \in Switches /\ switch'.phase = switch.phase
          /\ switch'.window = switch.window /\ switch'.horizon = switch.horizon
          /\ switch'.period = switch.period /\ switch'.claimedAt = switch.claimedAt
          /\ switch'.payee = switch.payee /\ switch'.heir = switch.heir
          /\ switch'.deadline = Sooner(now + switch.period, switch.horizon)
      BY <3>1, RestartedTyped DEF Restarted, Switches
    <3> QED
      BY <1>2, <2>2, <3>1, <3>2 DEF Left, IsLive
  <2> QED
    BY <2>1, <2>2
<1>5. CASE Rearm \/ Veto
  BY <1>1, <1>2, <1>5 DEF Rearm, Veto, CanVeto, IsLive
<1>6. CASE ChangeHeir
  <2>1. PICK heir \in Persons : Becoming(Acted([switch EXCEPT !.heir = heir], now))
    BY <1>6 DEF ChangeHeir
  <2> DEFINE s == [switch EXCEPT !.heir = heir]
  <2>2. /\ s \in Switches /\ s.phase = switch.phase /\ s.claimedAt = switch.claimedAt
        /\ s.window = switch.window /\ s.horizon = switch.horizon /\ s.period = switch.period
    BY DEF Switches
  <2>3. Becoming(Acted(s, now)) /\ IsLive(switch)
    BY <1>6, <2>1 DEF ChangeHeir, CanAct
  <2> HIDE DEF s
  <2> QED
    BY <1>1, <1>2, <2>2, <2>3
<1>7. CASE ChangePeriod
  <2>1. PICK period \in Periods : Becoming(Acted([switch EXCEPT !.period = period], now))
    BY <1>7 DEF ChangePeriod
  <2> DEFINE s == [switch EXCEPT !.period = period]
  <2>2. /\ s \in Switches /\ s.phase = switch.phase /\ s.claimedAt = switch.claimedAt
        /\ s.window = switch.window /\ s.horizon = switch.horizon /\ s.period \in Periods
    BY DEF Switches, Periods, SwitchAssumption
  <2>3. Becoming(Acted(s, now)) /\ IsLive(switch)
    BY <1>7, <2>1 DEF ChangePeriod, CanAct
  <2> HIDE DEF s
  <2> QED
    BY <1>1, <1>2, <2>2, <2>3
<1>8. CASE Extend
  <2>1. PICK horizon \in Horizons : /\ CanExtend(switch, now, horizon)
                                    /\ Becoming(Acted([switch EXCEPT !.horizon = horizon], now))
    BY <1>8 DEF Extend
  <2> DEFINE s == [switch EXCEPT !.horizon = horizon]
  <2>2. horizon \in Nat /\ horizon > switch.horizon /\ IsLive(switch)
    BY <2>1, MaxTimeAssumption DEF Horizons, SwitchAssumption, CanExtend
  <2>3. /\ s \in Switches /\ s.phase = switch.phase /\ s.claimedAt = switch.claimedAt
        /\ s.window = switch.window /\ s.horizon = horizon /\ s.period = switch.period
    BY <2>2 DEF Switches
  <2>4. Becoming(Acted(s, now))
    BY <2>1
  <2> HIDE DEF s
  <2> QED
    BY <1>1, <1>2, <2>2, <2>3, <2>4
<1>9. CASE Close
  <2> DEFINE a == Acted(switch, now)
  <2>1. /\ a \in Switches /\ a.window = switch.window /\ a.horizon = switch.horizon
        /\ a.period = switch.period /\ a.claimedAt \in {0, switch.claimedAt}
        /\ a.deadline = Sooner(now + a.period, a.horizon)
    BY <1>9, ActedIs DEF Close, IsLive
  <2>2. IsLive(switch) /\ now' = now /\ switch' = [a EXCEPT !.phase = "closed"]
    BY <1>9 DEF Close, Becoming
  <2> HIDE DEF a
  <2>3. /\ switch' \in Switches /\ switch'.phase = "closed" /\ switch'.window = a.window
        /\ switch'.horizon = a.horizon /\ switch'.period = a.period
        /\ switch'.claimedAt = a.claimedAt /\ switch'.deadline = a.deadline
    BY <2>1, <2>2 DEF Switches
  <2> QED
    BY <1>2, <2>1, <2>2, <2>3 DEF Left
<1> QED
  BY <1>3, <1>4, <1>5, <1>6, <1>7, <1>8, <1>9 DEF OwnerActs

\* A step of the switch once it is armed.
LaterStep == OwnerActs \/ HeirActs \/ Settle \/ (Tick /\ UNCHANGED switch)

\* ... and what any of them leaves: a claim that stands or was settled is the
\* one that was, or was made now.
LEMMA SwitchStepLeaves ==
  ASSUME SwitchAssumption, SwitchSound, LaterStep
  PROVE  /\ now' \in Nat /\ now' >= now /\ switch' \in Switches
         /\ switch'.window = switch.window /\ switch'.horizon >= switch.horizon
         /\ switch'.period = switch.period \/ switch'.period \in Periods
         /\ switch'.claimedAt \in {0, switch.claimedAt, now}
         /\ switch'.phase \in {"claimed", "settled"} =>
               \/ switch.phase \in {"claimed", "settled"} /\ switch'.claimedAt = switch.claimedAt
               \/ switch'.claimedAt = now
         /\ IsLive(switch') =>
               /\ IsLive(switch)
               /\ \/ /\ switch'.deadline = switch.deadline /\ switch'.period = switch.period
                     /\ switch'.horizon = switch.horizon
                  \/ switch'.deadline = Sooner(now + switch'.period, switch'.horizon)
<1>1. now \in Nat /\ switch \in Switches /\ switch.horizon \in Nat
  BY MaxTimeAssumption DEF SwitchSound, ClockTypeOK, Switches
<1>2. CASE OwnerActs
  BY <1>1, <1>2, OwnerLeaves
<1>3. CASE Claim
  <2>1. PICK payee \in Persons : switch' = ClaimedBy(switch, now, payee) /\ now' = now
    BY <1>3 DEF Claim, Becoming
  <2>2. /\ switch' \in Switches /\ switch'.phase = "claimed" /\ switch'.claimedAt = now
        /\ switch'.window = switch.window /\ switch'.horizon = switch.horizon
        /\ switch'.period = switch.period /\ switch'.deadline = switch.deadline
    BY <1>1, <2>1 DEF ClaimedBy, Switches
  <2>3. IsLive(switch)
    BY <1>3 DEF Claim, CanClaim, IsLive
  <2> QED
    BY <1>1, <2>1, <2>2, <2>3
<1>4. CASE CancelClaim
  BY <1>1, <1>4, UnclaimedTyped DEF CancelClaim, Becoming, IsLive
<1>5. CASE Settle
  <2>1. switch' = [switch EXCEPT !.phase = "settled"] /\ now' = now /\ switch.phase = "claimed"
    BY <1>5 DEF Settle, CanSettle, Becoming
  <2>2. /\ switch' \in Switches /\ switch'.phase = "settled"
        /\ switch'.claimedAt = switch.claimedAt /\ switch'.window = switch.window
        /\ switch'.horizon = switch.horizon /\ switch'.period = switch.period
    BY <1>1, <2>1 DEF Switches
  <2> QED
    BY <1>1, <2>1, <2>2 DEF IsLive
<1>6. CASE Tick /\ UNCHANGED switch
  BY <1>1, <1>6 DEF Tick
<1> QED
  BY <1>2, <1>3, <1>4, <1>5, <1>6 DEF HeirActs, LaterStep

\* Each act of the owner that leaves the vault open puts the claim a period
\* away or at the horizon (_resetClock).
THEOREM ActsBuyTime == ASSUME SwitchAssumption PROVE SwitchSpec => [][ActsBuyTimeStep]_switchVars
<1>1. SwitchSound /\ [SwitchNext]_switchVars => ActsBuyTimeStep
  BY ActBuysTime
<1> QED
  BY <1>1, SwitchStaysSound, PTL DEF SwitchSpec

\* Every other act is refused at the horizon, and a partial withdrawal leaves
\* the claim standing.
LEMMA TwoWaysOut ==
  ASSUME SwitchAssumption, SwitchSound, [SwitchNext]_switchVars
  PROVE  OnlyTwoWaysOutAtHorizonStep
<1>1. now \in Nat /\ switch \in Switches
  BY MaxTimeAssumption DEF SwitchSound, ClockTypeOK
<1>2. SUFFICES ASSUME switch.phase = "claimed", AtHorizon(switch, now), OwnerActs,
                      switch'.phase # "claimed"
               PROVE  \/ switch'.phase = "closed"
                      \/ switch'.deadline >= now + switch.period
  BY DEF OnlyTwoWaysOutAtHorizonStep
<1>3. ~(ShowLife \/ Rearm \/ ChangeHeir \/ ChangePeriod \/ Veto)
  BY <1>2 DEF ShowLife, CanShowLife, Rearm, ChangeHeir, ChangePeriod, CanAct, Veto, CanVeto
<1>4. CASE WithdrawPart
  <2>1. switch' = Restarted(switch, now)
    BY <1>2, <1>4 DEF WithdrawPart, PartWithdrawn, Becoming
  <2> QED
    BY <1>1, <1>2, <2>1 DEF Restarted, Switches
<1>5. CASE Extend
  <2>1. PICK horizon \in Horizons : /\ CanExtend(switch, now, horizon)
                                    /\ Becoming(Acted([switch EXCEPT !.horizon = horizon], now))
    BY <1>5 DEF Extend
  <2> DEFINE s == [switch EXCEPT !.horizon = horizon]
  <2>2. horizon \in Nat /\ horizon >= now + switch.period
    BY <2>1, MaxTimeAssumption DEF Horizons, SwitchAssumption, CanExtend
  <2>3. s \in Switches /\ s.horizon = horizon /\ s.period = switch.period
    BY <1>1, <2>2 DEF Switches
  <2>4. Becoming(Acted(s, now))
    BY <2>1
  <2> HIDE DEF s
  <2>5. switch'.deadline = Sooner(now + switch.period, horizon)
    BY <1>1, <2>3, <2>4, ActedIs DEF Becoming
  <2> QED
    BY <1>1, <2>2, <2>5 DEF Sooner, Switches
<1>6. CASE Close
  BY <1>1, <1>6, ActedIs DEF Close, Becoming, Switches
<1> QED
  BY <1>2, <1>3, <1>4, <1>5, <1>6 DEF OwnerActs

\* A claim at the horizon is ended by the owner in two ways: by taking all out,
\* or by a later horizon that leaves a full period (extendHorizon, withdraw).
THEOREM OnlyTwoWaysOut ==
  ASSUME SwitchAssumption PROVE SwitchSpec => [][OnlyTwoWaysOutAtHorizonStep]_switchVars
<1>1. SwitchSound /\ [SwitchNext]_switchVars => OnlyTwoWaysOutAtHorizonStep
  BY TwoWaysOut
<1> QED
  BY <1>1, SwitchStaysSound, PTL DEF SwitchSpec

\* The three promises as one formula.
THEOREM SwitchKeepsItsPromises ==
  ASSUME SwitchAssumption
  PROVE  SwitchSpec => [][/\ ActsBuyTimeStep
                          /\ OnlyTwoWaysOutAtHorizonStep
                          /\ SettledOnlyAfterSilence']_switchVars
<1>1. SwitchSound /\ [SwitchNext]_switchVars => ActsBuyTimeStep /\ OnlyTwoWaysOutAtHorizonStep
  BY ActBuysTime, TwoWaysOut
<1>2. SwitchSound => SettledOnlyAfterSilence
  BY DEF SwitchSound, WaitedFor, SettledOnlyAfterSilence
<1> QED
  BY <1>1, <1>2, SwitchStaysSound, PTL DEF SwitchSpec
=============================================================================
