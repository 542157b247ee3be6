------------------------------ MODULE SwitchRules ------------------------------
(***************************************************************************)
(* The rules of one vault of contracts/InheritanceVault.sol, value, fees,  *)
(* check-in chains and the open list left out: under what condition a call *)
(* is accepted on the vault s at time t, and what it makes of it.          *)
(***************************************************************************)
EXTENDS Integers

CONSTANTS
    Persons,          \* who may be named as heir or as the payee of a claim
    Nobody,
    MinPeriod, MaxPeriod,
    MinWindow, MaxWindow,
    MaxHorizon        \* a horizon lies at most this far ahead when it is set

SwitchAssumption ==
    /\ Nobody \notin Persons
    /\ MinPeriod \in Nat \ {0} /\ MaxPeriod \in Nat
    /\ MinWindow \in Nat \ {0} /\ MaxWindow \in Nat
    /\ MaxHorizon \in Nat

Periods == MinPeriod..MaxPeriod
Windows == MinWindow..MaxWindow

Unarmed == [
    phase |-> "none", heir |-> Nobody, deadline |-> 0, period |-> 0, horizon |-> 0,
    window |-> 0, claimedAt |-> 0, payee |-> Nobody]

Switches == [
    phase : {"none", "active", "claimed", "settled", "closed"},
    heir : Persons \cup {Nobody}, deadline : Nat, period : Nat, horizon : Nat,
    window : Nat, claimedAt : Nat, payee : Persons \cup {Nobody}]

(* A switch s at time t. *)

IsLive(s) == s.phase \in {"active", "claimed"}
IsExpired(s, t) == t >= s.deadline
AtHorizon(s, t) == t >= s.horizon
FinalizableAt(s) == s.claimedAt + s.window

Sooner(a, b) == IF a < b THEN a ELSE b

Restarted(s, t) == [s EXCEPT !.deadline = Sooner(t + s.period, s.horizon)]

Unclaimed(s) ==
    IF s.phase = "claimed"
    THEN [s EXCEPT !.phase = "active", !.claimedAt = 0, !.payee = Nobody]
    ELSE s

-----------------------------------------------------------------------------
(* When a call is accepted. *)

CanShowLife(s, t) == s.phase = "active" /\ ~AtHorizon(s, t) /\ s.deadline < s.horizon

\* An owner's act that touches the terms ends a claim, but not at the horizon.
CanAct(s, t) == IsLive(s) /\ (s.phase = "claimed" => ~AtHorizon(s, t))

CanVeto(s, t) == s.phase = "claimed" /\ ~AtHorizon(s, t)

CanExtend(s, t, horizon) ==
    IsLive(s) /\ horizon > s.horizon /\ horizon >= t + s.period /\ horizon <= t + MaxHorizon

CanClaim(s, t) == s.phase = "active" /\ IsExpired(s, t)

CanSettle(s, t) == s.phase = "claimed" /\ t >= FinalizableAt(s)

Acted(s, t) == Restarted(Unclaimed(s), t)

\* A partial withdrawal is accepted on a live vault at any time; at the
\* horizon it leaves the claim standing.
PartWithdrawn(s, t) == IF AtHorizon(s, t) THEN Restarted(s, t) ELSE Acted(s, t)

ClaimedBy(s, t, payee) == [s EXCEPT !.phase = "claimed", !.claimedAt = t, !.payee = payee]
=============================================================================
