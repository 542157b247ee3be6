-------------------------------- MODULE Money --------------------------------
(***************************************************************************)
(* The money modules on their own, in one run: the claim fee with a page   *)
(* that quotes it (FeeQuote), and the custody of the contract under any    *)
(* sequence of deposits and releases (CreditLane).  They share the clock   *)
(* and the addresses and nothing else; a behaviour follows one of them:    *)
(* the fee and the vault without a page, the page while the administrator  *)
(* changes the rate, the page while the recipient is changed, or the lane. *)
(***************************************************************************)
EXTENDS FeeQuote, CreditLane, Functions

CONSTANT PageTime   \* bound: the last timestamp a behaviour with the page reaches

VARIABLE part   \* which of them this behaviour follows

moneyVars == <<part, quoteVars, lanes>>

MoneyInit ==
    /\ part \in {"fee", "rate", "recipient", "lane"}
    /\ QuoteInit
    /\ LaneInit

\* Bounds: beside the page one of the two is changed, and time is shorter.
FeeMoves ==
    /\ part # "lane"
    /\ QuoteNext
    /\ IF part = "fee" THEN asked' = {} ELSE now' <= PageTime
    /\ part = "rate" => UNCHANGED recipient
    /\ part = "recipient" => UNCHANGED schedule
    /\ UNCHANGED <<part, lanes>>

LaneMoves ==
    /\ part = "lane"
    /\ LaneNext
    /\ UNCHANGED <<part, feeState, claim, asked, fee, card, touched>>

MoneyNext == FeeMoves \/ LaneMoves

MoneySpec == MoneyInit /\ [][MoneyNext]_moneyVars

\* The credited total of an asset is exactly the sum of what is owed in it:
\* a settlement that credits the heir and the fee recipient, who may be the
\* same account, and every payment keep the total and the entries together.
CreditsAddUp ==
    \A t \in Tokens : totalCredited[t] = SumFunction(credits[t])
=============================================================================
