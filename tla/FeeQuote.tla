------------------------------- MODULE FeeQuote -------------------------------
(***************************************************************************)
(* site/assets/app.js, "fees": what the page tells an owner and an heir a  *)
(* claim will cost, against what contracts/InheritanceVault.sol charges.   *)
(*                                                                         *)
(* One vault.  A refresh sends its requests at once (Promise.all) and the  *)
(* answers come one by one, each from the block that is the latest when it *)
(* is answered; the card is drawn when all are there.  Between two answers *)
(* and between the drawing and the settlement anything may happen to the   *)
(* fee and to the claim.                                                   *)
(***************************************************************************)
EXTENDS FeeSchedule

CONSTANTS
    Ceilings,         \* the fee ceilings of the vaults looked at
    CHALLENGE         \* the vault's challenge window

ASSUME QuoteAssumption ==
    /\ Ceilings \subseteq 0..MAX_CLAIM_FEE_BPS
    /\ CHALLENGE \in Nat \ {0}

VARIABLES
    claim,        \* the vault, as far as its fee goes
    asked,        \* the requests of the refresh under way that are not answered yet
    fee,          \* S.fee, and the vault, as the answers came in
    card,         \* "none", "vault" or "create": what is drawn from it
    touched       \* history, since the first answer: what was changed ("fee", "claim"), and
                  \* whether an announced raise came due before the last one ("due")

quoteVars == <<feeVars, claim, asked, fee, card, touched>>

Requests == {"bps", "pendingBps", "pendingAt", "recipient", "recipientActiveAt", "now", "vault"}

NoVaultYet == [state |-> "none", ceiling |-> 0, locked |-> 0, finalizableAt |-> 0]

NotRead == [bps |-> 0, pendingBps |-> 0, pendingAt |-> 0, recipient |-> NoOne,
            recipientActiveAt |-> 0, now |-> 0, vault |-> NoVaultYet]

-----------------------------------------------------------------------------
(* What the page works out.  f is the fee it read, f.now the moment.        *)

Lesser(a, b) == IF a < b THEN a ELSE b

feeRecipientInForce(f, at) == f.recipient # NoOne /\ at >= f.recipientActiveAt

scheduledRaise(f) == f.pendingAt > f.now

lockNow(f) == IF feeRecipientInForce(f, f.now) THEN Lesser(f.vault.ceiling, f.bps) ELSE 0

\* Variation: an announced raise counts at once.
rateAt_AtOnce(f, at) == IF scheduledRaise(f) THEN f.pendingBps ELSE f.bps

\* A moment not before the reading.
rateAt(f, at) == IF scheduledRaise(f) /\ f.pendingAt <= at THEN f.pendingBps ELSE f.bps

\* Variation: the recipient is taken for in force when it is now.
settleBpsAt_RecipientNow(f, at) ==
    IF feeRecipientInForce(f, f.now) THEN Lesser(f.vault.locked, rateAt(f, at)) ELSE 0

settleBpsAt(f, at) ==
    IF feeRecipientInForce(f, at) THEN Lesser(f.vault.locked, rateAt(f, at)) ELSE 0

\* The first moment a pending claim can be settled: what its card quotes for.
first(f) == IF f.vault.finalizableAt > f.now THEN f.vault.finalizableAt ELSE f.now

\* The moments until which a lower fee lasts.
Rises(f, until) ==
    {at \in {f.pendingAt} : scheduledRaise(f) /\ at <= until}
    \cup {at \in {f.recipientActiveAt} :
             ~feeRecipientInForce(f, f.now) /\ f.recipient # NoOne /\ at <= until}

feeRiseAt(f, until) == CHOOSE m \in Rises(f, until) : \A n \in Rises(f, until) : m <= n

\* What a card and the create form say beside the rate.
feeNotes(f) ==
    {note \in {"raise"} : scheduledRaise(f)}
    \cup {note \in {"noRecipient"} : f.recipient = NoOne}
    \cup {note \in {"off"} : f.recipient # NoOne /\ ~feeRecipientInForce(f, f.now)}

\* The card tells the heir that only cancelling and filing again keeps a lower fee.
RefilingAdvised(f) ==
    /\ f.vault.state = "pending"
    /\ settleBpsAt(f, first(f)) > settleBpsAt(f, f.now)
    /\ lockNow(f) < settleBpsAt(f, first(f))
    /\ Rises(f, first(f)) # {}

-----------------------------------------------------------------------------
(* The contract's side of the claim. *)

FeeToLock(ceiling) == IF RecipientInForce THEN Lesser(ClaimFeeBps, ceiling) ELSE 0

\* What finalizeClaim charges now.
Charge == IF RecipientInForce THEN Lesser(claim.locked, ClaimFeeBps) ELSE 0

OnlyTheClaim ==
    /\ touched' = touched \cup {"claim"}
    /\ UNCHANGED <<feeVars, asked, fee, card>>

Open ==
    /\ claim.state = "none"
    /\ \E ceiling \in Ceilings : claim' = [NoVaultYet EXCEPT !.state = "active", !.ceiling = ceiling]
    /\ OnlyTheClaim

File ==
    /\ claim.state = "active"
    /\ claim' = [claim EXCEPT !.state = "pending", !.locked = FeeToLock(claim.ceiling),
                              !.finalizableAt = now + CHALLENGE]
    /\ OnlyTheClaim

Cancel ==
    /\ claim.state = "pending"
    /\ claim' = [claim EXCEPT !.state = "active", !.locked = 0, !.finalizableAt = 0]
    /\ OnlyTheClaim

Finalize ==
    /\ claim.state = "pending" /\ now >= claim.finalizableAt
    /\ claim' = [claim EXCEPT !.state = "settled"]
    /\ OnlyTheClaim

\* "fee": by the administrator.
AdminChangesFee ==
    /\ \/ \E newBps \in FeeInputs : SetClaimFee(newBps)
       \/ \E newRecipient \in AnyAddress : SetFeeRecipient(newRecipient)
    /\ touched' = touched \cup {"fee"}
    /\ UNCHANGED <<claim, asked, fee, card>>

RaiseIsRecorded == ApplyClaimFee /\ UNCHANGED <<claim, asked, fee, card, touched>>

-----------------------------------------------------------------------------
(* A refresh: loadFee, chainNow and the vault.  One is looked at (a bound): *)
(* the next draws a card of its own.                                        *)

Refresh ==
    /\ asked = {} /\ fee = NotRead
    /\ asked' = Requests
    /\ UNCHANGED <<feeVars, claim, fee, card, touched>>

Answer(request) ==
    CASE request = "bps" -> ClaimFeeBps
      [] request = "pendingBps" -> pendingClaimFeeBps
      [] request = "pendingAt" -> pendingClaimFeeAt
      [] request = "recipient" -> feeRecipient
      [] request = "recipientActiveAt" -> feeRecipientActiveAt
      [] request = "now" -> now
      [] request = "vault" -> claim

\* A card that stands for a vault, or the create form's line.
Cards(f) == {"create"} \cup {c \in {"vault"} : f.vault.state \in {"active", "pending"}}

\* One of them is drawn when the last answer is there.
Answered ==
    \E request \in asked :
        /\ fee' = [fee EXCEPT ![request] = Answer(request)]
        /\ asked' = asked \ {request}
        /\ card' \in IF asked' # {} THEN {"none"} ELSE Cards(fee')
        /\ touched' = IF asked = Requests THEN {} ELSE touched
        /\ UNCHANGED <<feeVars, claim>>

\* Some answers are there and others are not.
Reading == asked # {} /\ asked # Requests

\* Time passes, and a raise may come due while the answers come in.
QuoteTick ==
    /\ Tick
    /\ touched' = touched \cup {due \in {"due"} : Reading /\ pendingClaimFeeAt = now'}
    /\ UNCHANGED <<feeState, claim, asked, fee, card>>

QuoteInit ==
    /\ FeeInit
    /\ claim = NoVaultYet
    /\ asked = {}
    /\ fee = NotRead
    /\ card = "none"
    /\ touched = {}

QuoteNext ==
    \/ Open \/ File \/ Cancel \/ Finalize
    \/ AdminChangesFee \/ RaiseIsRecorded
    \/ Refresh \/ Answered
    \/ QuoteTick

QuoteSpec == QuoteInit /\ [][QuoteNext]_quoteVars

-----------------------------------------------------------------------------
(* Properties. *)

\* Types of the page's part of the state.
QuoteTypeOK ==
    /\ FeeTypeOK
    /\ claim.state \in {"none", "active", "pending", "settled"}
    /\ claim.locked <= claim.ceiling
    /\ asked \subseteq Requests
    /\ card \in {"none", "vault", "create"}
    /\ touched \subseteq {"fee", "claim", "due"}

\* The administrator has changed nothing since the first answer, and no raise
\* came due before the last one.  Everything else may have happened between two
\* answers: time, a recipient that came into force, a raise that was due
\* already and is recorded, the vault's claim filed, cancelled or settled.
FeeAsAnswered == {"fee", "due"} \cap touched = {}

\* "Counting every change already announced for that moment": if nothing is
\* changed after the first answer, a claim settled at the moment its card
\* quotes for is charged what the card says, whatever was announced before,
\* whichever blocks the answers came from and whether or not anyone records a
\* matured raise.
QuoteIsChargedStep ==
    (/\ Finalize /\ touched = {} /\ card = "vault" /\ fee.vault.state = "pending"
     /\ now = first(fee))
       => Charge = settleBpsAt(fee, first(fee))

\* A claim filed before anything that was announced takes effect locks what
\* the card of the active vault says.
LockIsAsQuotedStep ==
    (/\ File /\ touched = {} /\ card = "vault" /\ fee.vault.state = "active"
     /\ \A at \in Rises(fee, MaxTime) : now < at)
       => claim'.locked = lockNow(fee)

\* The advice to the heir is good: a claim filed again before the moment the
\* card names locks the rate the card names, and that is less than what the
\* standing claim would be charged when it can first be settled.
RefilingKeepsLowerFeeStep ==
    (/\ File /\ card = "vault" /\ FeeAsAnswered
     /\ RefilingAdvised(fee) /\ now < feeRiseAt(fee, first(fee)))
       => /\ claim'.locked = lockNow(fee)
          /\ claim'.locked < settleBpsAt(fee, first(fee))

\* "Everything announced is counted": from answers of as many blocks as there
\* are answers, the page works out the rate of every moment to come, unless the
\* administrator acted since the first or a raise came due before the last.
EveryAnnouncementCounts ==
    (card # "none" /\ FeeAsAnswered) => \A t \in now..MaxTime : rateAt(fee, t) = RateAt(t)

\* A page that adds no note to the rate leaves nothing out: unless the
\* administrator changes the fee, that rate stays in force and is charged, so a
\* vault created from the form gets the ceiling it quotes.
NothingUnsaid ==
    (card # "none" /\ FeeAsAnswered /\ feeNotes(fee) = {}) =>
        ClaimFeeBps = fee.bps /\ RecipientInForce

\* What the page takes for the rate, now and later, is the schedule's, and a
\* card without a note leaves nothing out (loadFee, rateAt, feeNotes).
QuotesAreReal ==
    /\ QuoteTypeOK
    /\ EveryAnnouncementCounts
    /\ NothingUnsaid

\* What a card quotes is what is locked and charged, and its advice to file again
\* is good (settleBpsAt, lockNow, feeRiseAt).
QuotesAreKept ==
    [][/\ QuoteIsChargedStep
       /\ LockIsAsQuotedStep
       /\ RefilingKeepsLowerFeeStep]_quoteVars
=============================================================================
