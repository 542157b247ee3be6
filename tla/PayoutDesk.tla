------------------------------ MODULE PayoutDesk ------------------------------
(***************************************************************************)
(* site/assets/app.js: the payouts tab, for one asset.  The credit is read *)
(* when the list is drawn, when the panel opens and when the review runs,  *)
(* and not again at the signature; meanwhile settlements and withdrawals   *)
(* add to it, and the wallet's other devices and, once the push grace is   *)
(* over, anyone may pay it out.  How a payout is sent is PageTx.           *)
(***************************************************************************)
EXTENDS Integers, FiniteSets

CONSTANTS
    MaxCredit,      \* bound: units credited
    MaxGeneration,  \* bound: panels opened, reviews and edits
    MaxHandlers,    \* bound: payouts under way
    MaxOutflows     \* bound: payouts not of this page

PayoutAssumption ==
    MaxCredit \in Nat \ {0} /\ {MaxGeneration, MaxHandlers, MaxOutflows} \subseteq Nat

VARIABLES
    credit,       \* creditOf(token, wallet)
    outflows,     \* payouts so far, the page's own among them
    opening,      \* clicks on a card's buttons that wait for the credit
    panel,        \* "none", "all" or "part"
    generation,
    reviews,      \* reviews that wait for the credit: their generations
    signs         \* Sign buttons, and the handlers of those clicked

vars == <<credit, outflows, opening, panel, generation, reviews, signs>>
money == <<credit, outflows>>

Handlers == {s \in signs : s.stage = "prompt"}
Shown(sign) == sign.generation = generation /\ panel # "none"
NextGeneration == generation < MaxGeneration /\ generation' = generation + 1

-----------------------------------------------------------------------------
(* The panel. *)

Click(kind) ==
    /\ opening' = opening \cup {kind}
    /\ UNCHANGED <<money, panel, generation, reviews, signs>>

\* openPanel: in the place of the one that is open.
Opened(kind) ==
    /\ kind \in opening
    /\ opening' = opening \ {kind}
    /\ panel' = kind /\ NextGeneration
    /\ signs' = Handlers
    /\ UNCHANGED <<money, reviews>>

NotOpened(kind) ==
    /\ kind \in opening
    /\ opening' = opening \ {kind}
    /\ UNCHANGED <<money, panel, generation, reviews, signs>>

ClosePanel ==
    /\ panel # "none"
    /\ panel' = "none" /\ signs' = Handlers
    /\ UNCHANGED <<money, opening, generation, reviews>>

Edit ==
    /\ panel = "part" /\ NextGeneration
    /\ signs' = Handlers
    /\ UNCHANGED <<money, opening, panel, reviews>>

StartReview ==
    /\ panel # "none" /\ NextGeneration
    /\ reviews' = reviews \cup {generation + 1}
    /\ signs' = Handlers
    /\ UNCHANGED <<money, opening, panel>>

Current(r) == r = generation /\ panel # "none"

\* What a review shows: the units it will pay, and what it says stays.
ReviewShown(r) ==
    /\ Current(r) /\ credit > 0
    /\ \E units \in IF panel = "part" THEN 1..credit ELSE {credit} :
          signs' = signs \cup {[
              kind |-> panel, units |-> units, left |-> credit - units, outflows |-> outflows,
              generation |-> generation, stage |-> "offered"]}
    /\ reviews' = reviews \ {r}
    /\ UNCHANGED <<money, opening, panel, generation>>

\* Overtaken, failed, nothing credited any more, or less than was typed.
ReviewDropped(r) ==
    /\ reviews' = reviews \ {r}
    /\ UNCHANGED <<money, opening, panel, generation, signs>>

-----------------------------------------------------------------------------
(* The payout. *)

Sign(s) ==
    /\ s.stage = "offered" /\ Cardinality(Handlers) < MaxHandlers
    /\ signs' = (signs \ {s}) \cup {[s EXCEPT !.stage = "prompt"]}
    /\ UNCHANGED <<money, opening, panel, generation, reviews>>

Decline(s) ==
    /\ s.stage = "prompt"
    /\ signs' = (signs \ {s}) \cup IF Shown(s) THEN {[s EXCEPT !.stage = "offered"]} ELSE {}
    /\ UNCHANGED <<money, opening, panel, generation, reviews>>

\* withdrawCredit without an amount pays what is credited when it is mined.
Pays(s) == IF s.kind = "all" THEN credit ELSE s.units

\* Accepted or reverted, the list is drawn anew.
Mined(s) ==
    /\ s.stage = "prompt"
    /\ IF Pays(s) > 0 /\ Pays(s) <= credit
       THEN credit' = credit - Pays(s) /\ outflows' = outflows + 1
       ELSE UNCHANGED money
    /\ panel' = "none" /\ signs' = Handlers \ {s}
    /\ UNCHANGED <<opening, generation, reviews>>

Credited ==
    /\ credit < MaxCredit
    /\ credit' = credit + 1
    /\ UNCHANGED <<outflows, opening, panel, generation, reviews, signs>>

\* Another device withdraws, or anyone pushes.
PaidElsewhere ==
    /\ outflows < MaxOutflows
    /\ \E units \in 1..credit : credit' = credit - units
    /\ outflows' = outflows + 1
    /\ UNCHANGED <<opening, panel, generation, reviews, signs>>

Init ==
    /\ credit \in 0..MaxCredit /\ outflows = 0
    /\ opening = {} /\ panel = "none" /\ generation = 0
    /\ reviews = {} /\ signs = {}

Next ==
    \/ \E kind \in {"all", "part"} : Click(kind) \/ Opened(kind) \/ NotOpened(kind)
    \/ ClosePanel \/ Edit \/ StartReview
    \/ \E r \in reviews : ReviewShown(r) \/ ReviewDropped(r)
    \/ \E s \in signs : Sign(s) \/ Decline(s) \/ Mined(s)
    \/ Credited \/ PaidElsewhere

Spec == Init /\ [][Next]_vars

-----------------------------------------------------------------------------
(* Properties. *)

\* Types; the Sign button on the page is of the panel that is open.
PayoutTypeOK ==
    /\ credit \in 0..MaxCredit /\ panel \in {"none", "all", "part"}
    /\ reviews \subseteq 1..generation
    /\ \A s \in signs \ Handlers : Shown(s) /\ s.kind = panel

\* However its panel is opened and however the reads of its reviews return,
\* there is one Sign button: a second one would pay a part a second time.
OneSignButton == Cardinality(signs \ Handlers) <= 1

\* A payout does what its review said although the credit is not read again: a
\* part leaves at least what was to stay credited, and all of it is all there
\* is, unless something else was paid out between.
PaysAsToldStep ==
    \A s \in signs :
       (Mined(s) /\ outflows = s.outflows) =>
          /\ credit - credit' >= s.units
          /\ credit' >= s.left
          /\ s.kind = "all" => credit' = 0
=============================================================================
