------------------------------ MODULE TypedEntry ------------------------------
(***************************************************************************)
(* site/assets/app.js: from what the owner types in the create form to the *)
(* plan that is signed, and what the contract then does with it.  A date   *)
(* is a day of a calendar, an address has capitals that may be a checksum, *)
(* an amount is in the decimals of a token that the page knows from its    *)
(* table and reads on chain, and two clocks disagree.                      *)
(*                                                                         *)
(* The calendar is a short one (two months of two days and one, a leap day *)
(* in every other year), with what makes dates hard: a day that only some  *)
(* months have, and years of two lengths.                                  *)
(***************************************************************************)
EXTENDS Integers, FiniteSets

CONSTANTS
    Day,              \* seconds of a day
    HORIZON_MARGIN,   \* allowance for mining, and for the clock
    MAX_HORIZON,      \* the contract's: a horizon lies at most this far ahead
    Period,           \* the inactivity period that is typed
    Skews,            \* what the device's clock may add to the chain's
    MaxTime,          \* bound: chain time
    Years,            \* bound: the years a date is typed in
    Tokens,           \* addresses of token contracts
    Tabled,           \* those in the page's table
    Special,          \* other addresses that _checkPayee refuses
    Retired,          \* addresses of earlier contracts of the project
    Wallets,          \* ordinary addresses
    NoDate

EntryAssumption ==
    Skews \subseteq Nat /\ Years \subseteq Nat /\ Wallets # {}

VARIABLES
    now,        \* chain time
    skew,       \* the device's clock is this far off
    chainRead,  \* whether the page can read a block
    listed,     \* the tokens the contract lists
    reported,   \* the decimals each token reports, or Unread
    plan,       \* the reviewed plan, or NoPlan
    outcome,    \* what became of it: "none", "accepted", "tooSoon" or "tooFar"
    advised,    \* the earliest day the last refusal named, or NoDate
    change      \* the change of horizon an extension's review shows, or NoChange

entryVars == <<now, skew, chainRead, listed, reported, plan, outcome, advised, change>>
settings == <<skew, chainRead, listed, reported>>

Addresses == Tokens \cup Special \cup Retired \cup Wallets

-----------------------------------------------------------------------------
(* Dates. *)

DaysIn(year, month) == IF month = 1 THEN 2 ELSE 1 + (year % 2)

\* The days before a date; a day its month has not falls into the next one.
DayOf(date) == 3 * date.y + (date.y \div 2) + 2 * (date.m - 1) + (date.d - 1)

Dates == {[y |-> y, m |-> m, d |-> d] : y \in Years, m \in 1..2, d \in 1..2}

Real(date) == date.d <= DaysIn(date.y, date.m)

\* The date of an instant: a year of three days and one of four, in turn.
utcDay(t) ==
    LET day == (t \div Day) % 7
        long == day >= 3
        ofYear == IF long THEN day - 3 ELSE day
    IN  [y |-> 2 * (t \div (7 * Day)) + (IF long THEN 1 ELSE 0),
         m |-> 1 + (ofYear \div 2), d |-> 1 + (ofYear % 2)]

utcDayCeil(t) == utcDay(((t + Day - 1) \div Day) * Day)

\* The instant a typed date stands for, or -1.  The round trip refuses a day
\* that its month has not.
parseUtcDate(date) ==
    IF date = NoDate THEN -1
    ELSE IF utcDay(DayOf(date) * Day) # date THEN -1 ELSE DayOf(date) * Day

\* Whole years and days between two instants.
fmtSpan(from, to) ==
    LET start == utcDay(from)
        Anniversary(years) == DayOf([start EXCEPT !.y = @ + years]) * Day + (from % Day)
        apart == utcDay(to).y - start.y
        years == IF Anniversary(apart) > to THEN apart - 1 ELSE apart
    IN  [years |-> years, days |-> (to - Anniversary(years)) \div Day]

-----------------------------------------------------------------------------
(* Clocks. *)

deviceNow == IF now + skew < 0 THEN 0 ELSE now + skew

chainNow == IF chainRead THEN now ELSE deviceNow

floorNow == IF deviceNow > chainNow THEN deviceNow ELSE chainNow

Floor == floorNow + Period + HORIZON_MARGIN

Ceiling == chainNow + MAX_HORIZON - HORIZON_MARGIN

-----------------------------------------------------------------------------
(* Tokens. *)

Unread == 99

TableDecimals == 1

\* What the page makes of a listed token: verified only if it is in the table
\* and reports what the table says.
checkToken(token) == [
    verified |-> token \in Tabled /\ reported[token] = TableDecimals,
    decimals |-> IF token \in Tabled /\ reported[token] \in {TableDecimals, Unread}
                 THEN TableDecimals ELSE reported[token]]

\* The assets that can be chosen: the coin, and the verified tokens.
fillAssetOptions == {"coin"} \cup {t \in listed : checkToken(t).verified}

DecimalsOf(asset) == IF asset = "coin" THEN 2 ELSE checkToken(asset).decimals

\* The decimals an amount of the asset really has.
Real_Decimals(asset) == IF asset = "coin" THEN 2 ELSE reported[asset]

TenTo(n) == <<1, 10, 100>>[n + 1]

\* A typed amount has an integer part and a number of decimal places; the
\* value in base units, or 0 where parseAmount refuses it.
parseAmount(amount, decimals) ==
    IF amount.places > decimals THEN 0 ELSE amount.value * TenTo(decimals - amount.places)

-----------------------------------------------------------------------------
(* Addresses. *)

\* The capitals of a typed address: those of its checksum, others, or none.
Typed == [who : Addresses, capitals : {"checksum", "wrong", "none"}]

Parses(text) == text.capitals # "wrong"

readAddressPair(one, two) == Parses(one) /\ Parses(two) /\ one.who = two.who

Unchecked(one, two) == one.capitals = "none" \/ two.capitals = "none"

\* Addresses that can never be an heir, or be paid.
refusedPayee(a) == a \in listed \cup Tabled \cup Special \cup Retired

\* What the contract refuses as a payee.
CheckPayeeRefuses(a) == a \in listed \cup Special

-----------------------------------------------------------------------------
(* The form. *)

GoodText == [who |-> CHOOSE w \in Wallets : TRUE, capitals |-> "checksum"]

GoodAmount == [value |-> 1, places |-> 0]

NoPlan == [at |-> -1, date |-> NoDate, horizon |-> 0, asset |-> "coin", units |-> 0, amount |-> GoodAmount,
           one |-> GoodText, two |-> GoodText, warned |-> FALSE, unchecked |-> FALSE, clock |-> FALSE]

NoChange == [to |-> 0, span |-> [years |-> 0, days |-> 0]]

Amounts == [value : 1..2, places : 0..2]

\* Whether the page lets an entry through, in the order of its checks.
Passes(e) ==
    /\ e.asset \in fillAssetOptions
    /\ parseAmount(e.amount, DecimalsOf(e.asset)) > 0
    /\ readAddressPair(e.one, e.two) /\ ~refusedPayee(e.one.who)
    /\ parseUtcDate(e.date) >= Floor
    /\ parseUtcDate(e.date) <= Ceiling

\* Bound: one part of an entry strays from a good one at a time.
GoodEntry == [date |-> utcDayCeil(Floor), asset |-> "coin", amount |-> GoodAmount,
              one |-> GoodText, two |-> GoodText]

Entries(good) ==
    LET bare == [GoodText EXCEPT !.capitals = "none"]
        TwoTexts == (Typed \X {GoodText, bare}) \cup {<<x, x>> : x \in Typed}
    IN  {[good EXCEPT !.date = d] : d \in Dates \cup {NoDate}}
        \cup {[good EXCEPT !.asset = p[1], !.amount = p[2]] : p \in (Tokens \cup {"coin"}) \X Amounts}
        \cup {[good EXCEPT !.one = p[1], !.two = p[2]] : p \in TwoTexts}

\* reviewCreate shows the plan, with its warnings.
Review ==
    /\ outcome = "none" /\ plan = NoPlan
    /\ \E e \in Entries(GoodEntry) :
          /\ Passes(e)
          /\ plan' = [at |-> now, date |-> e.date, horizon |-> parseUtcDate(e.date), asset |-> e.asset,
                      units |-> parseAmount(e.amount, DecimalsOf(e.asset)), amount |-> e.amount,
                      one |-> e.one, two |-> e.two,
                      warned |-> parseUtcDate(e.date) < Floor + Period,
                      unchecked |-> Unchecked(e.one, e.two), clock |-> chainRead]
    /\ UNCHANGED <<now, settings, outcome, advised, change>>

\* A date below the floor: the refusal names the earliest day.
ReviewRefused ==
    /\ plan = NoPlan /\ \E date \in Dates : parseUtcDate(date) \in 0..(Floor - 1)
    /\ advised' = utcDayCeil(Floor)
    /\ UNCHANGED <<now, settings, plan, outcome, change>>

\* createVault is mined: its checks of the horizon.
Mined ==
    /\ outcome = "none" /\ plan # NoPlan
    /\ outcome' = IF plan.horizon < now + Period THEN "tooSoon"
                  ELSE IF plan.horizon > now + MAX_HORIZON THEN "tooFar" ELSE "accepted"
    /\ UNCHANGED <<now, settings, plan, advised, change>>

\* The review of a later horizon shows the change in years and days.
ReviewExtension ==
    /\ outcome = "accepted" /\ change = NoChange
    /\ \E date \in Dates :
          /\ parseUtcDate(date) > plan.horizon
          /\ change' = [to |-> parseUtcDate(date), span |-> fmtSpan(plan.horizon, parseUtcDate(date))]
    /\ UNCHANGED <<now, settings, plan, outcome, advised>>

Tick == now < MaxTime /\ now' = now + 1 /\ advised' = NoDate /\ UNCHANGED <<settings, plan, outcome, change>>

\* What a token that is not listed would report is never read.
EntryInit ==
    /\ now \in 0..(Day - 1) /\ skew \in Skews \cup {-s : s \in Skews} /\ chainRead \in BOOLEAN
    /\ listed \in SUBSET Tokens
    /\ reported \in [Tokens -> {TableDecimals, 2, Unread}]
    /\ \A t \in Tokens \ listed : reported[t] = Unread
    /\ plan = NoPlan /\ outcome = "none" /\ advised = NoDate /\ change = NoChange

EntryNext == Review \/ ReviewRefused \/ Mined \/ ReviewExtension \/ Tick

EntrySpec == EntryInit /\ [][EntryNext]_entryVars

-----------------------------------------------------------------------------
(* Properties. *)

\* Types: a plan is one the form let through.
EntryTypeOK ==
    /\ now \in 0..MaxTime /\ outcome \in {"none", "accepted", "tooSoon", "tooFar"}
    /\ plan # NoPlan => /\ plan.horizon \in Nat /\ plan.units > 0
                        /\ plan.one.who \in Addresses

\* A plan that was reviewed by chain time is accepted if it is mined within
\* the margin, however wrong the device's clock is; and one that carries no
\* warning leaves the first deadline short of the horizon.
ReviewedHorizonWorks ==
    (plan # NoPlan /\ plan.clock /\ now <= plan.at + HORIZON_MARGIN) =>
        /\ outcome \in {"none", "accepted"}
        /\ ~plan.warned => plan.horizon >= now + 2 * Period

\* The day a refusal names as the earliest is enough by either clock, and the
\* day before it is not.
EarliestDayPasses ==
    advised # NoDate =>
        LET clock == IF skew > 0 \/ ~chainRead THEN now + skew ELSE now
            least == (IF clock < 0 THEN 0 ELSE clock) + Period + HORIZON_MARGIN
        IN  /\ Real(advised) /\ DayOf(advised) * Day >= least
            /\ (DayOf(advised) - 1) * Day < least

\* What was typed is what is signed: the date, both addresses, and an amount
\* that in the asset's real decimals is the one typed.
TypedIsSigned ==
    plan # NoPlan =>
        /\ DayOf(plan.date) * Day = plan.horizon /\ Real(plan.date)
        /\ plan.one.who = plan.two.who
        /\ plan.units * TenTo(plan.amount.places) = plan.amount.value * TenTo(Real_Decimals(plan.asset))

\* An heir the form lets through can be paid: it is never an address the
\* contract refuses as a payee of the claim.
HeirCanBePaid == plan # NoPlan => ~CheckPayeeRefuses(plan.one.who)

\* The change an extension's review shows is whole years and the days left
\* over: so many anniversaries and days lead to the date, and a year more
\* overshoots it, leap days and all.
SpanIsExact ==
    change # NoChange =>
        LET Anniversary(years) == DayOf([plan.date EXCEPT !.y = @ + years]) * Day
        IN  /\ change.span.years >= 0 /\ change.span.days >= 0
            /\ change.to = Anniversary(change.span.years) + change.span.days * Day
            /\ Anniversary(change.span.years + 1) > change.to
=============================================================================
