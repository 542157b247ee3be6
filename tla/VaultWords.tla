------------------------------ MODULE VaultWords ------------------------------
(***************************************************************************)
(* site/assets/app.js: what the page says of a vault.  A card says, from   *)
(* one read, which actions work on the vault and which do not; the text    *)
(* for a call the contract refused says what would be accepted instead.    *)
(*                                                                         *)
(* The vault is a DeadMansSwitch and goes on changing; "said" is the       *)
(* latest card or text, with the switch and the time it spoke of.  Checks  *)
(* of arguments and payments, which say nothing of the vault, are left out.*)
(***************************************************************************)
EXTENDS DeadMansSwitch, Sequences

VARIABLE said

wordVars == <<switchVars, said>>

Calls == {"checkIn", "checkInMany", "veto", "extend", "heir", "part", "everything",
          "topUp", "claim", "cancel", "finalize"}

\* Where ethers and a wallet leave the data of a revert.
Places == {"revert", "data", "info.error.data", "error.data", "info.error.data.data", "error.data.data"}

Causes == {"vault", "otherContract", "declined", "connection"}

NotClaimed == 0

\* Said: on "card" or in a "text"; of this switch at this time; calls that
\* work, calls that do not, a call that works from a date on, and for a text
\* the call, the contract's reason, the cause and the cause the text names.
Silence == [
    on |-> "nothing", of |-> Unarmed, at |-> 0, works |-> {}, fails |-> {}, later |-> "none",
    from |-> 0, call |-> "none", reason |-> "none", cause |-> "none", names |-> "none"]

-----------------------------------------------------------------------------
(* The contract: the checks of a call on the switch s at t, in their order. *)

FirstOf(checks) ==
    LET failing == {i \in DOMAIN checks : checks[i][1]}
    IN  IF failing = {} THEN "none" ELSE checks[CHOOSE i \in failing : \A j \in failing : i <= j][2]

Terminal(s) == <<~IsLive(s), "VaultTerminal">>
AtItsHorizon(s, t) == <<AtHorizon(s, t), "HorizonReached">>

\* The reason checkInMany skips a vault for.
Skipped(s, t) ==
    CASE s.phase = "claimed" -> IF AtHorizon(s, t) THEN "7" ELSE "3"
      [] s.phase \in {"settled", "closed"} -> "2"
      [] s.phase = "active" /\ AtHorizon(s, t) -> "4"
      [] s.phase = "active" /\ ~AtHorizon(s, t) /\ s.deadline >= s.horizon -> "5"
      [] OTHER -> IF Restarted(s, t).deadline <= s.deadline THEN "6" ELSE "none"

Refusal(call, s, t, horizon) ==
    CASE call = "checkIn" -> FirstOf(<<
            <<s.phase = "claimed" /\ ~AtHorizon(s, t), "ClaimPendingUseAbort">>,
            <<~IsLive(s), "VaultNotActive">>,
            AtItsHorizon(s, t),
            <<s.deadline >= s.horizon, "DeadlinePinnedAtHorizon">> >>)
      [] call = "checkInMany" -> Skipped(s, t)
      [] call = "veto" -> FirstOf(<< <<s.phase # "claimed", "NoClaimPending">>, AtItsHorizon(s, t)>>)
      [] call = "extend" -> FirstOf(<<
            Terminal(s),
            <<horizon <= s.horizon, "HorizonNotExtended">>,
            <<horizon < t + s.period, "HorizonTooSoon">>,
            <<horizon > t + MaxHorizon, "HorizonTooFar">> >>)
      [] call = "heir" -> FirstOf(<<Terminal(s), <<s.phase = "claimed" /\ AtHorizon(s, t), "HorizonReached">> >>)
      [] call \in {"part", "everything"} -> FirstOf(<<Terminal(s)>>)
      [] call = "topUp" -> FirstOf(<< <<s.phase # "active", "VaultNotActive">> >>)
      [] call = "claim" -> FirstOf(<< <<s.phase # "active", "VaultNotActive">>, <<~IsExpired(s, t), "NotYetExpired">> >>)
      [] call = "cancel" -> FirstOf(<< <<s.phase # "claimed", "NoClaimPending">> >>)
      [] call = "finalize" -> FirstOf(<<
            <<s.phase # "claimed", "NoClaimPending">>,
            <<t < FinalizableAt(s), "ChallengeWindowOpen">> >>)

\* The rules of the switch, for the same calls.
Accepts(call, s, t) ==
    CASE call = "checkIn" -> CanShowLife(s, t)
      [] call = "checkInMany" -> CanShowLife(s, t) /\ Restarted(s, t).deadline > s.deadline
      [] call = "veto" -> CanVeto(s, t)
      [] call = "extend" -> \E h \in Horizons : CanExtend(s, t, h)
      [] call = "heir" -> CanAct(s, t)
      [] call \in {"part", "everything"} -> IsLive(s)
      [] call = "topUp" -> s.phase = "active"
      [] call = "claim" -> CanClaim(s, t)
      [] call = "cancel" -> s.phase = "claimed"
      [] call = "finalize" -> CanSettle(s, t)

-----------------------------------------------------------------------------
(* The texts. *)

\* The calls the text for a reason sends the reader to.
Remedies(reason) ==
    CASE reason \in {"ClaimPendingUseAbort", "3"} -> {"veto"}
      [] reason \in {"DeadlinePinnedAtHorizon", "4", "5"} -> {"extend"}
      [] reason = "7" -> {"extend", "everything"}
      [] OTHER -> {}

\* What REVERT_HELP says of the vault: "a pending claim is stopped only by
\* extending the horizon or by withdrawing everything".
REVERT_HELP(reason, s) ==
    [works |-> IF reason = "HorizonReached" /\ s.phase = "claimed"
               THEN {"extend", "everything"} ELSE Remedies(reason),
     fails |-> CASE reason = "HorizonReached" /\ s.phase = "claimed" -> {"veto", "checkIn", "heir"}
                 [] reason = "HorizonReached" /\ s.phase # "claimed" -> {"checkIn"}
                 [] reason = "VaultTerminal" -> Calls
                 [] reason = "NoClaimPending" -> {"veto", "cancel", "finalize"}
                 [] OTHER -> {}]

\* The date a text gives, from which the call works.
Dated(reason, s) ==
    CASE reason = "NotYetExpired" -> <<"claim", s.deadline>>
      [] reason = "ChallengeWindowOpen" -> <<"finalize", FinalizableAt(s)>>
      [] OTHER -> <<"none", 0>>

\* Whether the data of a revert is found in an error.
revertOf(place) == place \in Places

\* The cause a text names.  Error(string) and Panic come from a contract the
\* call ran into; an error that carries no data is the wallet's or the
\* connection's own.
errorText(cause, place) ==
    IF cause \in {"vault", "otherContract"}
    THEN IF revertOf(place) THEN cause ELSE "unknown"
    ELSE cause

TextFor(call, reason, s, t, cause, place) ==
    LET vaults == cause = "vault" /\ revertOf(place)
    IN  [on |-> "text", of |-> s, at |-> t,
         works |-> IF vaults THEN REVERT_HELP(reason, s).works ELSE {},
         fails |-> IF vaults THEN REVERT_HELP(reason, s).fails ELSE {},
         later |-> IF vaults THEN Dated(reason, s)[1] ELSE "none",
         from |-> IF vaults THEN Dated(reason, s)[2] ELSE 0,
         call |-> call, reason |-> reason, cause |-> cause, names |-> errorText(cause, place)]

HorizonsAsked(call) ==
    IF call = "extend" THEN {switch.horizon, switch.horizon + 1, now + MaxHorizon} ELSE {switch.horizon}

\* A call the wallet's estimate or a simulation sees refused, or that fails
\* for a reason of its own.
CallRefused ==
    /\ switch.phase # "none"
    /\ \E call \in Calls : \E horizon \in HorizonsAsked(call) :
          LET reason == Refusal(call, switch, now, horizon)
          IN  \E cause \in (IF reason = "none" THEN Causes \ {"vault"} ELSE {"vault"}) :
                 \E place \in (IF cause \in {"vault", "otherContract"} THEN Places ELSE {"none"}) :
                    said' = TextFor(call, reason, switch, now, cause, place)
    /\ UNCHANGED switchVars

\* Variation: the reason is asked of the block the card was read in.
likelyRevert_AtTheCard(call) == Refusal(call, said.of, said.at, said.of.horizon)

\* A transaction that was mined and reverted carries no reason: the call is
\* simulated against the latest block.
likelyRevert(call) == Refusal(call, switch, now, switch.horizon)

MinedReverted ==
    /\ said.on = "card"
    /\ \E call \in Calls \ {"extend"} :
          LET reason == likelyRevert(call)
          IN  /\ Refusal(call, switch, now, switch.horizon) # "none"
              /\ said' = IF reason = "none" THEN Silence
                         ELSE TextFor(call, reason, switch, now, "vault", "data")
    /\ UNCHANGED switchVars

-----------------------------------------------------------------------------
(* The cards. *)

\* The block or warning an owner's card carries.
vaultCard(s, t) ==
    CASE s.phase = "claimed" -> "claim"
      [] s.phase = "active" /\ AtHorizon(s, t) -> "horizon"
      [] s.phase = "active" /\ ~AtHorizon(s, t) /\ s.deadline >= s.horizon -> "pinned"
      [] OTHER -> IF IsExpired(s, t) THEN "late" ELSE "quiet"

claimBlock(s, t) ==
    IF AtHorizon(s, t)
    THEN [works |-> {"extend", "everything"}, fails |-> {"veto", "checkIn", "heir"}]
    ELSE [works |-> {"veto", "heir", "extend", "part", "everything"}, fails |-> {"checkIn"}]

horizonBlock == [works |-> {"extend", "claim"}, fails |-> {"checkIn"}]

pinnedBlock == [works |-> {"extend"}, fails |-> {"checkIn"}]

\* The expired timer's warning, and the deadline of a card without one.
warningLines(late) ==
    IF late THEN [works |-> {"checkIn", "claim"}, fails |-> {}] ELSE [works |-> {"checkIn"}, fails |-> {"claim"}]

OwnersCard(s, t) ==
    CASE vaultCard(s, t) = "claim" -> claimBlock(s, t)
      [] vaultCard(s, t) = "horizon" -> horizonBlock
      [] vaultCard(s, t) = "pinned" -> pinnedBlock
      [] OTHER -> warningLines(vaultCard(s, t) = "late")

HeirsCard(s, t) ==
    IF s.phase = "claimed"
    THEN IF t >= FinalizableAt(s)
         THEN [works |-> {"finalize"}, fails |-> {"claim"}]
         ELSE [works |-> {"cancel"}, fails |-> {"finalize", "claim"}]
    ELSE IF IsExpired(s, t) THEN [works |-> {"claim"}, fails |-> {}] ELSE [works |-> {}, fails |-> {"claim"}]

\* The horizon line of a vault without a claim: one filed at the horizon can
\* be finalized from guaranteedInheritanceAt.
horizonText(s) == s.horizon + s.window

DrawCard ==
    /\ IsLive(switch)
    /\ \E words \in {OwnersCard(switch, now), HeirsCard(switch, now)} :
          said' = [Silence EXCEPT
                      !.on = "card", !.of = switch, !.at = now, !.works = words.works, !.fails = words.fails,
                      !.from = IF switch.phase = "claimed" THEN NotClaimed ELSE horizonText(switch)]
    /\ UNCHANGED switchVars

WordsInit == SwitchInit /\ said = Silence

WordsNext == (SwitchNext /\ UNCHANGED said) \/ CallRefused \/ MinedReverted \/ DrawCard

WordsSpec == WordsInit /\ [][WordsNext]_wordVars

-----------------------------------------------------------------------------
(* Properties. *)

\* Types, and a refusal that lies in the past.
WordsTypeOK ==
    /\ SwitchTypeOK
    /\ said.on \in {"nothing", "card", "text"}
    /\ said.works \subseteq Calls /\ said.fails \subseteq Calls
    /\ said.of \in Switches /\ said.at \in 0..now
    /\ said.names \in Causes \cup {"none"}

\* Whatever a card or a refusal's text tells the reader to do is accepted by
\* the contract, and what it says is over is refused: no alarm sends an owner
\* to a veto, a check-in or a horizon that would revert.
AdviceWorks ==
    /\ \A call \in said.works : Accepts(call, said.of, said.at)
    /\ \A call \in said.fails \ {"claim"} : ~Accepts(call, said.of, said.at)
    /\ "claim" \in said.fails => ~CanClaim(said.of, said.at)

\* A date given with a refusal is the first at which the call works, if the
\* vault is left alone.
DatesAreFirst ==
    said.later # "none" =>
        /\ Accepts(said.later, said.of, said.from)
        /\ ~Accepts(said.later, said.of, said.from - 1)

\* The checks of a call, in the contract's order, refuse exactly what the
\* rules of the switch refuse: a text blames the vault only for a call that
\* fails on it, and something else only for one that would not.
RefusedForCause ==
    said.call \notin {"none", "extend"} =>
        ((said.cause = "vault") <=> ~Accepts(said.call, said.of, said.at))

\* A refusal is never told as a failure of something else, wherever the wallet
\* or ethers put its data, nor the other way round.
CauseIsNamed == said.cause # "none" => said.names = said.cause

\* The payout date of a card comes no sooner: an heir who waits for the
\* horizon settles no earlier, unless the owner moves it.
HorizonDateHolds ==
    (said.on = "card" /\ said.from > 0 /\ switch.horizon = said.of.horizon
        /\ switch.phase = "settled" /\ switch.claimedAt >= switch.horizon)
        => now >= said.from
=============================================================================
