--------------------------- MODULE LifecycleScenario ---------------------------
(***************************************************************************)
(* scripts/lifecycle.ts: the steps of the lifecycle test, what the         *)
(* contract makes of each one's transaction, and what the runner's own     *)
(* model of the contract predicts.  Gas, lanes and counters are left out.  *)
(*                                                                         *)
(* A world w is the four vaults, the credits and the fee; t is the time of *)
(* the block of a transaction.                                             *)
(***************************************************************************)
EXTENDS SwitchRules, Sequences, FiniteSets

CONSTANTS
    Eth, EthTopUp, Usdc,     \* what is deposited
    Horizon, PushGrace,
    Scale                 \* a fee is a number of parts of Scale

Letters == {"A", "B", "C", "D"}
Accounts == {"owner", "heir", "keeper", "payout", "cold", "wrong", "treasury"}
Coins == {"eth", "usdc"}
Coin(x) == IF x = "D" THEN "usdc" ELSE "eth"

Entry(id, role, call, x, who) == [id |-> id, role |-> role, call |-> call, x |-> x, who |-> who]

\* In the order they run: the step, who signs, the call, its vault, and the
\* payee, or the account that is paid.
Day0 == <<
    Entry("create-A", "owner", "createVault", "A", "heir"),
    Entry("create-B", "owner", "createVault", "B", "heir"),
    Entry("create-C", "owner", "createVault", "C", "heir"),
    Entry("approve", "owner", "approve", "D", "owner"),
    Entry("create-D", "owner", "createVault", "D", "heir"),
    Entry("checkin-A", "owner", "checkIn", "A", "owner"),
    Entry("topup-A", "keeper", "topUp", "A", "owner")>>

Day7 == <<
    Entry("claim-A", "heir", "initiateClaim", "A", "heir"),
    Entry("claim-B", "heir", "initiateClaim", "B", "heir"),
    Entry("veto-B", "owner", "abortClaim", "B", "owner"),
    Entry("claim-C", "heir", "initiateClaim", "C", "wrong"),
    Entry("cancel-C", "heir", "cancelClaim", "C", "heir"),
    Entry("refile-C", "heir", "initiateClaim", "C", "cold"),
    Entry("batch", "owner", "checkInMany", "A", "owner")>>

Day14 == <<
    Entry("finalize-A", "keeper", "finalizeClaim", "A", "heir"),
    Entry("finalize-C", "keeper", "finalizeClaim", "C", "cold"),
    Entry("partial", "heir", "withdrawThird", "A", "payout"),
    Entry("full", "heir", "withdrawAll", "A", "heir"),
    Entry("close-B", "owner", "close", "B", "owner"),
    Entry("pull-B", "owner", "withdrawAll", "B", "owner"),
    Entry("close-D", "owner", "close", "D", "owner"),
    Entry("pull-D", "owner", "withdrawAll", "D", "owner")>>

Day44 == <<
    Entry("push-cold", "keeper", "pushCredit", "C", "cold"),
    Entry("push-fee", "keeper", "pushCredit", "A", "treasury"),
    Entry("final", "keeper", "none", "A", "owner")>>

STEPS == Day0 \o Day7 \o Day14 \o Day44

-----------------------------------------------------------------------------
(* What the contract makes of a call: the worlds it may lead to, none when *)
(* the call is refused.                                                    *)

Rate(w, t) == IF w.fee.pendingAt # 0 /\ t >= w.fee.pendingAt THEN w.fee.pending ELSE w.fee.bps
InForce(w, t) == w.fee.recipient /\ t >= w.fee.activeAt

Credited(w, coin, who, n, t) ==
    [w EXCEPT !.credit[coin][who] = @ + n,
              !.since[coin][who] = IF n >= w.credit[coin][who] THEN t ELSE @]

Paid(w, coin, who, n) ==
    [w EXCEPT !.credit[coin][who] = @ - n,
              !.since[coin][who] = IF n = w.credit[coin][who] THEN 0 ELSE @]

Becomes(w, x, s) == [w EXCEPT !.vault[x].s = s,
                              !.vault[x].locked = IF s.phase = "claimed" THEN @ ELSE 0]

Created(w, x, t) ==
    [w EXCEPT !.vault[x] = [
        s |-> Restarted([Unarmed EXCEPT !.phase = "active", !.heir = "heir", !.period = MinPeriod,
                                        !.horizon = Horizon, !.window = MinWindow], t),
        units |-> IF x = "D" THEN Usdc ELSE Eth, ceiling |-> Rate(w, t), locked |-> 0]]

Settled(w, x, t) ==
    LET v == w.vault[x]
        fee == IF InForce(w, t) THEN (v.units * Sooner(v.locked, Rate(w, t))) \div Scale ELSE 0
        paid == Credited([Becomes(w, x, [v.s EXCEPT !.phase = "settled"]) EXCEPT !.vault[x].units = 0],
                         Coin(x), v.s.payee, v.units - fee, t)
    IN  IF fee = 0 THEN paid ELSE Credited(paid, Coin(x), "treasury", fee, t)

Refreshed(w, t) ==
    {x \in Letters : CanShowLife(w.vault[x].s, t)
                     /\ Restarted(w.vault[x].s, t).deadline > w.vault[x].s.deadline}

Takes(e, w, t) ==
    LET v == w.vault[e.x]
        owed == w.credit[Coin(e.x)][e.role]
    IN  CASE e.call = "createVault" /\ Coin(e.x) = "eth" -> {Created(w, e.x, t)}
          [] e.call = "createVault" /\ w.allowance >= Usdc /\ w.usdc >= Usdc ->
                {[Created(w, e.x, t) EXCEPT !.allowance = @ - Usdc, !.usdc = @ - Usdc]}
          [] e.call = "approve" -> {[w EXCEPT !.allowance = Usdc]}
          [] e.call = "checkIn" /\ CanShowLife(v.s, t) -> {Becomes(w, e.x, Restarted(v.s, t))}
          [] e.call = "topUp" /\ v.s.phase = "active" -> {[w EXCEPT !.vault[e.x].units = @ + EthTopUp]}
          [] e.call = "initiateClaim" /\ CanClaim(v.s, t) ->
                {[Becomes(w, e.x, ClaimedBy(v.s, t, e.who)) EXCEPT
                    !.vault[e.x].locked = IF InForce(w, t) THEN Sooner(v.ceiling, Rate(w, t)) ELSE 0]}
          [] e.call = "abortClaim" /\ CanVeto(v.s, t) -> {Becomes(w, e.x, Acted(v.s, t))}
          [] e.call = "cancelClaim" /\ v.s.phase = "claimed" -> {Becomes(w, e.x, Unclaimed(v.s))}
          [] e.call = "checkInMany" /\ Refreshed(w, t) # {} ->
                {[w EXCEPT !.vault = [x \in Letters |->
                    IF x \in Refreshed(w, t) THEN [@[x] EXCEPT !.s = Restarted(@, t)] ELSE @[x]]]}
          [] e.call = "finalizeClaim" /\ CanSettle(v.s, t) -> {Settled(w, e.x, t)}
          [] e.call = "close" /\ IsLive(v.s) ->
                {Credited([Becomes(w, e.x, [Acted(v.s, t) EXCEPT !.phase = "closed"])
                            EXCEPT !.vault[e.x].units = 0], Coin(e.x), "owner", v.units, t)}
          [] e.call = "withdrawThird" /\ owed >= 3 -> {Paid(w, "eth", e.role, owed \div 3)}
          [] e.call = "withdrawAll" /\ owed > 0 -> {Paid(w, Coin(e.x), e.role, owed)}
          [] e.call = "pushCredit" /\ w.credit["eth"][e.who] > 0 /\ t >= w.since["eth"][e.who] + PushGrace ->
                {Paid(w, "eth", e.who, w.credit["eth"][e.who])}
          [] OTHER -> {}

-----------------------------------------------------------------------------
(* The runner's model of the contract: class Model, and each step's part.  *)

claimFeeBps(w, t) == IF w.fee.pendingAt # 0 /\ t >= w.fee.pendingAt THEN w.fee.pending ELSE w.fee.bps

feeRecipientInForce(w, t) == w.fee.recipient /\ t >= w.fee.activeAt

resetClock(s, t) ==
    [s EXCEPT !.deadline = IF t + s.period < s.horizon THEN t + s.period ELSE s.horizon]

cleared(s) == [s EXCEPT !.phase = "active", !.claimedAt = 0, !.payee = Nobody]

credit(w, coin, to, amount, t) ==
    [w EXCEPT !.since[coin][to] = IF amount >= w.credit[coin][to] THEN t ELSE @,
              !.credit[coin][to] = @ + amount]

payCredit(w, coin, account, amount) ==
    [w EXCEPT !.since[coin][account] = IF amount = w.credit[coin][account] THEN 0 ELSE @,
              !.credit[coin][account] = @ - amount]

\* Which vaults a batch check-in skips, and why, before it moves the rest.
skip(s, t) ==
    CASE s.phase = "claimed" -> IF t < s.horizon THEN 3 ELSE 7
      [] s.phase # "active" -> 2
      [] s.phase = "active" /\ t >= s.horizon -> 4
      [] s.phase = "active" /\ t < s.horizon /\ s.deadline >= s.horizon -> 5
      [] OTHER -> IF resetClock(s, t).deadline <= s.deadline THEN 6 ELSE 0

\* What of vault x a call sets, by the model: the lock of a fee with it.
set(w, x, s, locked) == [w EXCEPT !.vault[x].s = s, !.vault[x].locked = locked]

createdBy(w, x, t) ==
    [w EXCEPT
        !.vault[x] = [
            s |-> [phase |-> "active", heir |-> "heir", period |-> MinPeriod,
                   deadline |-> IF t + MinPeriod < Horizon THEN t + MinPeriod ELSE Horizon,
                   horizon |-> Horizon, window |-> MinWindow, claimedAt |-> 0, payee |-> Nobody],
            units |-> IF Coin(x) = "usdc" THEN Usdc ELSE Eth,
            ceiling |-> claimFeeBps(w, t), locked |-> 0],
        !.usdc = IF Coin(x) = "usdc" THEN @ - Usdc ELSE @,
        !.allowance = IF Coin(x) = "usdc" THEN @ - Usdc ELSE @]

approved(w) == [w EXCEPT !.allowance = Usdc]

checkedIn(w, x, t) == set(w, x, resetClock(w.vault[x].s, t), w.vault[x].locked)

toppedUp(w, x) == [w EXCEPT !.vault[x].units = @ + EthTopUp]

claim(w, x, recipient, t) ==
    LET cur == claimFeeBps(w, t)
        ceiling == w.vault[x].ceiling
    IN  set(w, x, [w.vault[x].s EXCEPT !.phase = "claimed", !.payee = recipient, !.claimedAt = t],
            IF feeRecipientInForce(w, t) THEN IF cur < ceiling THEN cur ELSE ceiling ELSE 0)

vetoed(w, x, t) == set(w, x, resetClock(cleared(w.vault[x].s), t), 0)

cancelled(w, x) == set(w, x, cleared(w.vault[x].s), 0)

batch(w, t) ==
    [w EXCEPT !.vault = [x \in Letters |->
        IF skip(@[x].s, t) = 0 THEN [@[x] EXCEPT !.s = resetClock(@, t)] ELSE @[x]]]

finalize(w, x, t) ==
    LET v == w.vault[x]
        bps == IF claimFeeBps(w, t) < v.locked THEN claimFeeBps(w, t) ELSE v.locked
        fee == IF ~feeRecipientInForce(w, t) THEN 0 ELSE (v.units * bps) \div Scale
        out == [set(w, x, [v.s EXCEPT !.phase = "settled"], 0) EXCEPT !.vault[x].units = 0]
        paid == credit(out, Coin(x), v.s.payee, v.units - fee, t)
    IN  IF fee # 0 THEN credit(paid, Coin(x), "treasury", fee, t) ELSE paid

closeVault(w, x, t) ==
    LET s == [resetClock(cleared(w.vault[x].s), t) EXCEPT !.phase = "closed"]
    IN  credit([set(w, x, s, 0) EXCEPT !.vault[x].units = 0], Coin(x), "owner", w.vault[x].units, t)

withdrawCredit(w, coin, role, parts) == payCredit(w, coin, role, w.credit[coin][role] \div parts)

push(w, account) == payCredit(w, "eth", account, w.credit["eth"][account])

Model(e, w, t) ==
    CASE e.call = "createVault" -> createdBy(w, e.x, t)
      [] e.call = "approve" -> approved(w)
      [] e.call = "checkIn" -> checkedIn(w, e.x, t)
      [] e.call = "topUp" -> toppedUp(w, e.x)
      [] e.call = "initiateClaim" -> claim(w, e.x, e.who, t)
      [] e.call = "abortClaim" -> vetoed(w, e.x, t)
      [] e.call = "cancelClaim" -> cancelled(w, e.x)
      [] e.call = "checkInMany" -> batch(w, t)
      [] e.call = "finalizeClaim" -> finalize(w, e.x, t)
      [] e.call = "close" -> closeVault(w, e.x, t)
      [] e.call = "withdrawThird" -> withdrawCredit(w, "eth", e.role, 3)
      [] e.call = "withdrawAll" -> withdrawCredit(w, Coin(e.x), e.role, 1)
      [] e.call = "pushCredit" -> push(w, e.who)
      [] OTHER -> w

-----------------------------------------------------------------------------
(* When a step may run, and what it asserts once its transaction is mined. *)

\* Reasons not to run a step at all; ids are the vaults that are on file.
Skipped(e, w, ids, skipped) ==
    \/ e.id = "approve" /\ w.usdc < Usdc
    \/ e.id = "create-D" /\ ("approve" \in skipped \/ w.usdc < Usdc)
    \/ e.id \in {"close-D", "pull-D"} /\ "D" \notin ids
    \/ e.id = "push-fee" /\ (~w.fee.recipient \/ w.credit["eth"]["treasury"] = 0)

\* A step that has no due time runs at once.
Due(e, w) ==
    CASE e.id \in {"claim-A", "claim-B", "claim-C"} -> w.vault[e.x].s.deadline
      [] e.call = "finalizeClaim" -> FinalizableAt(w.vault[e.x].s)
      [] e.call = "pushCredit" -> w.since["eth"][e.who] + PushGrace
      [] OTHER -> 0

\* The due time of a settlement is that of a pending claim.
DueThrows(e, w) == e.call = "finalizeClaim" /\ w.vault[e.x].s.phase # "claimed"

Owes(w, who) == \E coin \in Coins : w.credit[coin][who] # 0

\* A wrong turn is tried by a call at time t, which must be refused.
Asserted(e, w, t) ==
    CASE e.id = "approve" -> w.allowance = Usdc
      [] e.id = "checkin-A" -> t < w.vault["A"].s.deadline
      [] e.id = "veto-B" -> w.vault["B"].s.phase = "active" /\ t < w.vault["B"].s.deadline
      [] e.id = "batch" -> w.vault["A"].s.phase = "claimed" /\ t < FinalizableAt(w.vault["A"].s)
      [] e.id = "finalize-A" -> w.vault["A"].s.phase = "settled"
      [] e.id = "finalize-C" -> t < w.since["eth"]["cold"] + PushGrace
      [] e.id = "partial" -> w.credit["eth"]["heir"] > 0
      [] e.id = "full" -> w.credit["eth"]["heir"] = 0
      [] e.id = "close-B" -> w.vault["B"].s.phase = "closed"
      [] e.id = "final" ->
            /\ \A x \in {"A", "C"} : w.vault[x].s.phase = "settled" /\ w.vault[x].units = 0
            /\ \A x \in {"B", "D"} : w.vault[x].s.phase \in {"none", "closed"} /\ w.vault[x].units = 0
            /\ \A who \in Accounts \ {"treasury"} : ~Owes(w, who)
      [] OTHER -> TRUE
=============================================================================
