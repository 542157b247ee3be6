-------------------------------- MODULE PageTx --------------------------------
(***************************************************************************)
(* site/assets/app.js, "transactions" and "unsettled transactions": how    *)
(* the page sends what a Sign button stands for, waits for it, and what it *)
(* does when the result cannot be read.  One load of the page.             *)
(*                                                                         *)
(* Handlers run to their next await, so an action is the code between two  *)
(* awaits.  A review is one panel with its own Sign button; reviews of     *)
(* several cards are under way at once.  What the wallet and the network   *)
(* do with a transaction is not the page's choice (Land).                  *)
(***************************************************************************)
EXTENDS Integers, Sequences

CONSTANTS
    Reviews,
    None,
    MaxSends      \* bound: transactions one Sign button sends

PageAssumption == None \notin Reviews /\ MaxSends \in Nat \ {0}

VARIABLES
    sign,         \* the Sign button of a review: "none", "offered" or "disabled"
    step,         \* where its handler is: "idle", "recheck", "prompt" or "wait"
    fate,         \* what became of the transactions it sent, in order
    line,         \* what the log says of the last: "none", "confirmed", "failed", "unknown"
    unsettled,    \* S.unsettled: the review whose transaction's result is unknown
    watchers,     \* the reviews whose watchUnsettled still runs
    asked         \* those of them that wait for an answer to their receipt request

pageVars == <<sign, step, fate, line, unsettled, watchers, asked>>

Succeeded == {"mined", "repriced"}
Ineffective == {"reverted", "repricedReverted", "replaced"}
Fates == {"pool"} \cup Succeeded \cup Ineffective

FateOf(r) == fate[r][Len(fate[r])]

PageInit ==
    /\ sign = [r \in Reviews |-> "none"]
    /\ step = [r \in Reviews |-> "idle"]
    /\ fate = [r \in Reviews |-> <<>>]
    /\ line = [r \in Reviews |-> "none"]
    /\ unsettled = None
    /\ watchers = {}
    /\ asked = {}

\* A review builds its Sign button, unless a transaction's result is unknown.
Review(r) ==
    /\ sign[r] = "none"
    /\ unsettled = None
    /\ sign' = [sign EXCEPT ![r] = "offered"]
    /\ UNCHANGED <<step, fate, line, unsettled, watchers, asked>>

Click(r) ==
    /\ sign[r] = "offered"
    /\ sign' = [sign EXCEPT ![r] = "disabled"]
    /\ step' = [step EXCEPT ![r] = "recheck"]
    /\ UNCHANGED <<fate, line, unsettled, watchers, asked>>

\* runTx returned false: nothing happened, so the button is offered again.
OfferAgain(r) ==
    /\ sign' = [sign EXCEPT ![r] = "offered"]
    /\ step' = [step EXCEPT ![r] = "idle"]

\* The last re-read finds a change, or fails.
RecheckRefuses(r) ==
    /\ step[r] = "recheck"
    /\ OfferAgain(r)
    /\ UNCHANGED <<fate, line, unsettled, watchers, asked>>

\* runTx starts: refused while a result is unknown, else the wallet asks.
StartRefused(r) ==
    /\ step[r] = "recheck"
    /\ unsettled # None
    /\ OfferAgain(r)
    /\ UNCHANGED <<fate, line, unsettled, watchers, asked>>

StartPrompt(r) ==
    /\ step[r] = "recheck"
    /\ unsettled = None
    /\ step' = [step EXCEPT ![r] = "prompt"]
    /\ UNCHANGED <<sign, fate, line, unsettled, watchers, asked>>

-----------------------------------------------------------------------------
(* How a call of runTx ends. *)

\* txFailed without a transaction that might still go through.
Failed(r) ==
    /\ OfferAgain(r)
    /\ line' = [line EXCEPT ![r] = "failed"]
    /\ UNCHANGED <<fate, unsettled, watchers, asked>>

\* finishTx.  The button stays disabled.
Confirmed(r) ==
    /\ step' = [step EXCEPT ![r] = "idle"]
    /\ line' = [line EXCEPT ![r] = "confirmed"]
    /\ UNCHANGED <<sign, fate, unsettled, watchers, asked>>

\* holdUnsettled: the entry takes the place of any earlier one, and a watch of
\* its own starts.
Unknown(r) ==
    /\ step' = [step EXCEPT ![r] = "idle"]
    /\ line' = [line EXCEPT ![r] = "unknown"]
    /\ unsettled' = r
    /\ watchers' = watchers \cup {r}
    /\ UNCHANGED <<sign, asked>>

\* The person declines, or the wallet's estimate reverts.
WalletRefuses(r) == step[r] = "prompt" /\ Failed(r)

Broadcast(r) ==
    /\ step[r] = "prompt"
    /\ Len(fate[r]) < MaxSends
    /\ fate' = [fate EXCEPT ![r] = Append(@, "pool")]
    /\ step' = [step EXCEPT ![r] = "wait"]
    /\ UNCHANGED <<sign, line, unsettled, watchers, asked>>

\* The wallet sent it, and the page learnt its hash from the error of send().
BroadcastLost(r) ==
    /\ step[r] = "prompt"
    /\ Len(fate[r]) < MaxSends
    /\ fate' = [fate EXCEPT ![r] = Append(@, "pool")]
    /\ Unknown(r)

\* Mined, or re-sent by the wallet at another price with the same call.
WaitConfirms(r) == step[r] = "wait" /\ FateOf(r) \in Succeeded /\ Confirmed(r)

\* Variation: every replacement is taken for another call.
WaitFails_AnyReplacement(r) ==
    /\ step[r] = "wait"
    /\ FateOf(r) \in {"reverted", "replaced", "repriced"}
    /\ Failed(r)

\* Reverted with a receipt, or replaced by another call with the same nonce.
WaitFails(r) == step[r] = "wait" /\ FateOf(r) \in {"reverted", "replaced"} /\ Failed(r)

\* The connection fails while waiting, whatever the transaction does; and a
\* re-priced transaction that reverted falls through to the same branch.
WaitLost(r) ==
    /\ step[r] = "wait"
    /\ Unknown(r)
    /\ UNCHANGED fate

-----------------------------------------------------------------------------
(* watchUnsettled, one loop per entry. *)

\* The loop's condition after a sleep: it asks, or it ends when another entry
\* has taken its place.
WatchAsks(r) ==
    /\ r \in watchers \ asked
    /\ IF unsettled = r
       THEN asked' = asked \cup {r} /\ UNCHANGED watchers
       ELSE watchers' = watchers \ {r} /\ UNCHANGED asked
    /\ UNCHANGED <<sign, step, fate, line, unsettled>>

\* Variation: one answer without a receipt ends the watch.
WatchAnsweredNone_GivesUp(r) ==
    /\ r \in asked
    /\ asked' = asked \ {r}
    /\ watchers' = watchers \ {r}
    /\ UNCHANGED <<sign, step, fate, line, unsettled>>

\* No receipt under the hash asked for, or the request fails.
WatchAnsweredNone(r) ==
    /\ r \in asked
    /\ asked' = asked \ {r}
    /\ UNCHANGED <<sign, step, fate, line, unsettled, watchers>>

\* A receipt: only the transaction that was sent has one under its hash, not
\* one that took its nonce.  S.unsettled is cleared whatever it holds by now.
WatchAnswered(r) ==
    /\ r \in asked
    /\ FateOf(r) \in {"mined", "reverted"}
    /\ line' = [line EXCEPT ![r] = IF FateOf(r) = "mined" THEN "confirmed" ELSE "failed"]
    /\ unsettled' = None
    /\ asked' = asked \ {r}
    /\ watchers' = watchers \ {r}
    /\ UNCHANGED <<sign, step, fate>>

-----------------------------------------------------------------------------
\* What a transaction in the pool comes to.
Land(r) ==
    \E i \in DOMAIN fate[r] :
        /\ fate[r][i] = "pool"
        /\ \E f \in Succeeded \cup Ineffective : fate' = [fate EXCEPT ![r][i] = f]
        /\ UNCHANGED <<sign, step, line, unsettled, watchers, asked>>

PageStep(r) ==
    \/ Review(r) \/ Click(r) \/ RecheckRefuses(r) \/ StartRefused(r) \/ StartPrompt(r)
    \/ WalletRefuses(r) \/ Broadcast(r) \/ BroadcastLost(r)
    \/ WaitConfirms(r) \/ WaitFails(r) \/ WaitLost(r)
    \/ WatchAsks(r) \/ WatchAnsweredNone(r) \/ WatchAnswered(r)

PageNext == \E r \in Reviews : PageStep(r) \/ Land(r)

PageSpec == PageInit /\ [][PageNext]_pageVars

-----------------------------------------------------------------------------
(* Properties. *)

\* Types of the page's state; a review waits only for what it sent.
PageTypeOK ==
    /\ sign \in [Reviews -> {"none", "offered", "disabled"}]
    /\ step \in [Reviews -> {"idle", "recheck", "prompt", "wait"}]
    /\ fate \in [Reviews -> Seq(Fates)]
    /\ line \in [Reviews -> {"none", "confirmed", "failed", "unknown"}]
    /\ unsettled \in Reviews \cup {None}
    /\ watchers \in SUBSET Reviews
    /\ asked \in SUBSET watchers

\* The rule runTx states for its callers: a Sign button that can be pressed
\* stands for something that has not happened and cannot happen any more by
\* what the button sent before, whatever the connection and the wallet did.
OfferedMeansNothingHappened ==
    \A r \in Reviews :
        (sign[r] = "offered" \/ step[r] \in {"recheck", "prompt"}) =>
            \A i \in DOMAIN fate[r] : fate[r][i] \in Ineffective

\* What the rule is for: one review never funds two vaults, makes two deposits
\* or two payouts, and never has two transactions that still could.
DoneAtMostOnce ==
    \A r \in Reviews : \A i, j \in DOMAIN fate[r] :
        (fate[r][i] \notin Ineffective /\ fate[r][j] \notin Ineffective) => i = j

\* What a line says of its transaction is so: confirmed means it, or its
\* re-priced twin, was mined; failed means nothing it sent can be any more.
VerdictsTrue ==
    \A r \in Reviews :
        /\ line[r] = "confirmed" => \E i \in DOMAIN fate[r] : fate[r][i] \in Succeeded
        /\ (line[r] = "failed" /\ step[r] # "wait") =>
              \A i \in DOMAIN fate[r] : fate[r][i] \in Ineffective
=============================================================================
