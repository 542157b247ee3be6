------------------------------ MODULE CreateForm ------------------------------
(***************************************************************************)
(* site/assets/app.js: the form that creates a vault.  A review reads for  *)
(* a while and shows a Sign button; signing approves a token if need be    *)
(* and then sends the create, whose result may come, or not come, or come  *)
(* when the page no longer waits for it.  Clicks on Review and Sign, edits *)
(* of the form and a second connection happen at any time.                 *)
(***************************************************************************)
EXTENDS Integers, FiniteSets

CONSTANT MaxGeneration    \* bound: reviews and edits

FormAssumption == MaxGeneration \in Nat \ {0}

VARIABLES
    generation,    \* createGeneration
    reviews,       \* the reviews that wait for their reads
    signs,         \* the Sign buttons on the page: their plan and whether they can be clicked
    creating,      \* from the signature until its transaction has a result
    sending,       \* what the handler of the signature awaits, and for which plan
    unsettled,     \* the plan whose create has an unknown result, -1 if it is
                   \* another transaction's that is unknown, or 0
    canReview,     \* the Review button can be clicked
    paused,        \* creation is paused, as this page load read it
    fates          \* of each plan: the creates sent for it that are not known to have failed

formVars == <<generation, reviews, signs, creating, sending, unsettled, canReview, paused, fates>>

Plans == 1..MaxGeneration
Idle == [stage |-> "idle", plan |-> 0]

-----------------------------------------------------------------------------
(* Reviews. *)

\* Each review and each edit starts a new generation, and what was shown goes.
Cleared == generation < MaxGeneration /\ generation' = generation + 1 /\ signs' = {}

Edit ==
    /\ Cleared
    /\ UNCHANGED <<reviews, creating, sending, unsettled, canReview, paused, fates>>

ClickReview ==
    /\ canReview /\ ~creating /\ unsettled = 0
    /\ Cleared
    /\ reviews' = IF paused THEN reviews ELSE reviews \cup {generation + 1}
    /\ UNCHANGED <<creating, sending, unsettled, canReview, paused, fates>>

current(r) == r = generation /\ ~creating

\* The reads are in and the entries pass.
ReviewShown(r) ==
    /\ r \in reviews
    /\ reviews' = reviews \ {r}
    /\ signs' = IF current(r) THEN signs \cup {[plan |-> r, enabled |-> TRUE]} ELSE signs
    /\ UNCHANGED <<generation, creating, sending, unsettled, canReview, paused, fates>>

\* A read fails or an entry does not pass.
ReviewStops(r) ==
    /\ r \in reviews
    /\ reviews' = reviews \ {r}
    /\ UNCHANGED <<generation, signs, creating, sending, unsettled, canReview, paused, fates>>

-----------------------------------------------------------------------------
(* Signing. *)

Disabled(plan) == {[s EXCEPT !.enabled = s.enabled /\ s.plan # plan] : s \in signs}
Enabled(plan) == {[s EXCEPT !.enabled = s.enabled \/ s.plan = plan] : s \in signs}

\* signCreate: in the coin, or in a token, whose allowance is read first.
Sign(plan) ==
    /\ [plan |-> plan, enabled |-> TRUE] \in signs
    /\ ~creating
    /\ creating' = TRUE
    /\ signs' = Disabled(plan)
    /\ canReview' = FALSE
    /\ \E stage \in {"allowance", "create"} : sending' = [stage |-> stage, plan |-> plan]
    /\ UNCHANGED <<generation, reviews, unsettled, paused, fates>>

\* The handler ends: Review is on again, unless a result is unknown.
HandlerEnds(held) ==
    /\ creating' = FALSE
    /\ sending' = Idle
    /\ unsettled' = held
    /\ canReview' = (~paused /\ held = 0)
    /\ UNCHANGED <<generation, reviews, paused>>

AllowanceEnough ==
    /\ sending.stage = "allowance"
    /\ sending' = [sending EXCEPT !.stage = "create"]
    /\ UNCHANGED <<generation, reviews, signs, creating, unsettled, canReview, paused, fates>>

\* The approval is declined or fails, or the allowance cannot be read; or the
\* approval's own result is unknown, which holds the page like any other.
AllowanceFails ==
    /\ sending.stage = "allowance"
    /\ HandlerEnds(unsettled)
    /\ signs' = Enabled(sending.plan)
    /\ UNCHANGED fates

ApprovalLost ==
    /\ sending.stage = "allowance" /\ unsettled = 0
    /\ HandlerEnds(-1)
    /\ UNCHANGED <<signs, fates>>

\* runTx refuses to send anything while a result is unknown.
RefusedToSend ==
    /\ sending.stage = "create" /\ unsettled # 0
    /\ HandlerEnds(unsettled)
    /\ signs' = Enabled(sending.plan)
    /\ UNCHANGED fates

Send ==
    /\ sending.stage = "create" /\ unsettled = 0
    /\ sending' = [sending EXCEPT !.stage = "sent"]
    /\ fates' = [fates EXCEPT ![sending.plan] = @ + 1]
    /\ UNCHANGED <<generation, reviews, signs, creating, unsettled, canReview, paused>>

\* Declined in the wallet, or reverted: nothing happened.
NothingHappened ==
    /\ sending.stage = "sent"
    /\ HandlerEnds(unsettled)
    /\ signs' = Enabled(sending.plan)
    /\ fates' = [fates EXCEPT ![sending.plan] = @ - 1]

\* onMined is clearCreateReview.
Mined ==
    /\ sending.stage = "sent"
    /\ creating' = FALSE /\ sending' = Idle
    /\ signs' = {}
    /\ generation' = IF generation < MaxGeneration THEN generation + 1 ELSE generation
    /\ canReview' = (~paused /\ unsettled = 0)
    /\ UNCHANGED <<reviews, unsettled, paused, fates>>

\* holdUnsettled.
ResultUnknown ==
    /\ sending.stage = "sent"
    /\ HandlerEnds(sending.plan)
    /\ UNCHANGED <<signs, fates>>

\* The receipt is read after all; a create that was mined clears the review.
ReceiptRead ==
    /\ unsettled # 0
    /\ unsettled' = 0
    /\ canReview' = ~paused
    /\ \/ /\ unsettled > 0
          /\ signs' = {}
          /\ generation' = IF generation < MaxGeneration THEN generation + 1 ELSE generation
          /\ UNCHANGED fates
       \/ /\ unsettled > 0
          /\ fates' = [fates EXCEPT ![unsettled] = @ - 1]
          /\ UNCHANGED <<signs, generation>>
       \/ unsettled < 0 /\ UNCHANGED <<signs, generation, fates>>
    /\ UNCHANGED <<reviews, creating, sending, paused>>

-----------------------------------------------------------------------------
\* A transaction of a card is lost before the create is sent.  (Two at a time
\* are in PageTx.)
ElsewhereLost ==
    /\ unsettled = 0 /\ sending.stage # "sent"
    /\ unsettled' = -1
    /\ canReview' = FALSE
    /\ UNCHANGED <<generation, reviews, signs, creating, sending, paused, fates>>

\* connect() once more: the settings are read again.
Reconnect ==
    /\ paused' \in BOOLEAN
    /\ canReview' = ~paused'
    /\ UNCHANGED <<generation, reviews, signs, creating, sending, unsettled, fates>>

Init ==
    /\ generation = 0
    /\ reviews = {} /\ signs = {}
    /\ creating = FALSE /\ sending = Idle
    /\ unsettled = 0
    /\ paused \in BOOLEAN
    /\ canReview = ~paused
    /\ fates = [p \in Plans |-> 0]

Next ==
    \/ Edit \/ ClickReview
    \/ \E r \in reviews : ReviewShown(r) \/ ReviewStops(r)
    \/ \E plan \in Plans : Sign(plan)
    \/ AllowanceEnough \/ AllowanceFails \/ ApprovalLost
    \/ RefusedToSend \/ Send \/ NothingHappened \/ Mined \/ ResultUnknown
    \/ ReceiptRead \/ ElsewhereLost \/ Reconnect

Spec == Init /\ [][Next]_formVars

-----------------------------------------------------------------------------
(* Properties. *)

\* Types; the handler and its flag go together.
FormTypeOK ==
    /\ generation \in 0..MaxGeneration
    /\ \A s \in signs : s.plan \in Plans
    /\ creating <=> (sending.stage # "idle")
    /\ \A p \in Plans : fates[p] \in 0..MaxGeneration

\* "Two quick clicks can never leave two Sign buttons".
OneSignButton == Cardinality(signs) <= 1

\* "A create that was mined, or whose result is unknown, never gets a second
\* signature from this review."
OneCreatePerReview == \A p \in Plans : fates[p] <= 1
=============================================================================
