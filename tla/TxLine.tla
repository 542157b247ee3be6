--------------------------------- MODULE TxLine ---------------------------------
(***************************************************************************)
(* site/assets/app.js, where a transaction's line is written: renderTx,    *)
(* liveLog, movedLogs, logNow, relocate, finishTx, unsettledLine,          *)
(* refuseUnsettled, txFailed, followUp and guarded, on one part of the     *)
(* page (an entry of VIEWS).                                               *)
(*                                                                         *)
(* A re-read draws every card anew, so the log element an action holds is  *)
(* soon not on the page any more: what is written to it is not seen.  An   *)
(* element is told by the draw that made it.  The re-reads of several      *)
(* transactions overlap, and may be drawn in another order than read.      *)
(***************************************************************************)
EXTENDS Integers, FiniteSets

CONSTANTS
    Txs,
    Cards,
    MaxDraws      \* bound: how often the part is drawn

Homes == {"list", "status"}

VARIABLES
    home,         \* VIEWS[..].home: a list that takes lines, or one status line
    card,         \* the card each transaction is signed on
    open,         \* the chain: the vaults (credits) that still have a card to draw
    shown,        \* the cards on the page
    drawn,        \* how often it was drawn: the cards on it are of this draw
    at,           \* the draw of the log element each transaction's runTx was given
    st,           \* where its runTx is
    read,         \* the cards its re-read found
    movedAt,      \* movedLogs: the draw at which its line went to the home, or 0
    text,         \* what the log of each shown card says
    homeText,     \* what stands at the home
    unsettled     \* S.unsettled, or none

lineVars == <<home, card, open, shown, drawn, at, st, read, movedAt, text, homeText, unsettled>>

Waiting == {"wallet", "sent", "confirmed", "reverted"}
Ended == {"done", "unknown", "failed"}
Blank == [tx |-> {}, what |-> "blank"]
Line(t, what) == [tx |-> {t}, what |-> what]
Whats == {"blank", "pending", "confirmed", "failed", "unknown", "refused", "stopped"}
Lines == [tx : SUBSET Txs, what : Whats]

LineInit ==
    /\ home \in Homes
    /\ card \in [Txs -> Cards]
    /\ open = Cards /\ shown = Cards
    /\ drawn = 1
    /\ at = [t \in Txs |-> 0]
    /\ st = [t \in Txs |-> "idle"]
    /\ read = [t \in Txs |-> {}]
    /\ movedAt = [t \in Txs |-> 0]
    /\ text = [c \in Cards |-> Blank]
    /\ homeText = {}
    /\ unsettled = {}

-----------------------------------------------------------------------------
(* Elements. *)

\* The element runTx was given is still on the page.
Connected(t) == at[t] = drawn /\ card[t] \in shown

\* The home's own line for a moved transaction is still there: a list is
\* emptied by the next draw, the status line of Payouts never goes.
MovedConnected(t) == movedAt[t] # 0 /\ (home = "list" => movedAt[t] = drawn)

\* logNow: where the line of a transaction is now.
logNow(t) ==
    IF MovedConnected(t) THEN "home"
    ELSE IF card[t] \in shown THEN "card"
    ELSE "detached"

\* renderTx on the element runTx was given.
Written(t, what) == IF Connected(t) THEN [text EXCEPT ![card[t]] = Line(t, what)] ELSE text

\* A line at the home: one more at the top of a list, or the only one.
AtHome(t, what) ==
    IF home = "status" THEN {Line(t, what)} ELSE {l \in homeText : l.tx # {t}} \cup {Line(t, what)}

-----------------------------------------------------------------------------
(* runTx up to its result. *)

\* refuseUnsettled: under the line in the unsettled transaction's own log.
Refuse(t) ==
    text' = IF logNow(CHOOSE u \in unsettled : TRUE) = "card"
                 /\ card[CHOOSE u \in unsettled : TRUE] = card[t]
            THEN text ELSE [text EXCEPT ![card[t]] = Line(t, "refused")]

\* The press of Sign on a card of this draw.
Press(t) ==
    /\ st[t] = "idle"
    /\ card[t] \in shown
    /\ IF unsettled # {}
       THEN Refuse(t) /\ UNCHANGED <<at, st>>
       ELSE /\ at' = [at EXCEPT ![t] = drawn]
            /\ st' = [st EXCEPT ![t] = "wallet"]
            /\ text' = [text EXCEPT ![card[t]] = Line(t, "pending")]
    /\ UNCHANGED <<home, card, open, shown, drawn, read, movedAt, homeText, unsettled>>

\* guarded: the action failed before it got to runTx.
CouldNotContinue(c) ==
    /\ c \in shown
    /\ text' = [text EXCEPT ![c] = [tx |-> {}, what |-> "stopped"]]
    /\ UNCHANGED <<home, card, open, shown, drawn, at, st, read, movedAt, homeText, unsettled>>

\* Declined in the wallet, or replaced there: no re-read.
Declined(t) ==
    /\ st[t] = "wallet"
    /\ st' = [st EXCEPT ![t] = "failed"]
    /\ text' = Written(t, "failed")
    /\ UNCHANGED <<home, card, open, shown, drawn, at, read, movedAt, homeText, unsettled>>

Sent(t) ==
    /\ st[t] = "wallet"
    /\ st' = [st EXCEPT ![t] = "sent"]
    /\ text' = Written(t, "pending")
    /\ UNCHANGED <<home, card, open, shown, drawn, at, read, movedAt, homeText, unsettled>>

\* The chain closes the vault of a transaction that is on its way.
CloseOnChain(t) ==
    /\ st[t] \in {"sent", "unknown"}
    /\ card[t] \in open
    /\ open' = open \ {card[t]}
    /\ UNCHANGED <<home, card, shown, drawn, at, st, read, movedAt, text, homeText, unsettled>>

\* finishTx (or a revert's txFailed) starts: the line, then the view's re-read.
Result(t, what) ==
    /\ st[t] = "sent" \/ unsettled = {t}
    /\ st' = [st EXCEPT ![t] = what]
    /\ text' = Written(t, IF what = "confirmed" THEN "confirmed" ELSE "failed")
    /\ read' = [read EXCEPT ![t] = open]
    /\ unsettled' = unsettled \ {t}
    /\ UNCHANGED <<home, card, open, shown, drawn, at, movedAt, homeText>>

\* unsettledLine: the connection failed, and the warning is written.
Lost(t) ==
    /\ st[t] = "sent"
    /\ st' = [st EXCEPT ![t] = "unknown"]
    /\ text' = Written(t, "unknown")
    /\ unsettled' = {t}
    /\ UNCHANGED <<home, card, open, shown, drawn, at, read, movedAt, homeText>>

-----------------------------------------------------------------------------
(* A draw. *)

\* vaultCard, creditCard: a new card repeats the unsettled transaction's line.
CardLog(c) ==
    IF \E u \in unsettled : card[u] = c
    THEN Line(CHOOSE u \in unsettled : TRUE, "unknown")
    ELSE Blank

NewLogs(cs) == [c \in Cards |-> IF c \in cs THEN CardLog(c) ELSE Blank]

\* Variation: the line stays with the element the transaction was given.
relocate_Stays(t, what, cs) ==
    /\ text' = NewLogs(cs)
    /\ homeText' = IF home = "list" THEN {} ELSE homeText
    /\ UNCHANGED movedAt

\* relocate, after the draw of `cs`: on the card's new log, or at the home when
\* the card is gone.  A line that was at the status home stays there.
relocate(t, what, cs) ==
    LET stays == home = "status" /\ movedAt[t] # 0
        toHome == stays \/ card[t] \notin cs
        kept == IF home = "list" THEN {} ELSE homeText
    IN /\ text' = IF toHome THEN NewLogs(cs) ELSE [NewLogs(cs) EXCEPT ![card[t]] = Line(t, what)]
       /\ homeText' = IF toHome THEN {Line(t, what)} ELSE kept
       /\ movedAt' = [movedAt EXCEPT ![t] = IF toHome THEN drawn + 1 ELSE 0]

\* The re-read of t is drawn, and its line follows.
Redrawn(t) ==
    /\ st[t] \in {"confirmed", "reverted"}
    /\ drawn < MaxDraws
    /\ drawn' = drawn + 1
    /\ shown' = read[t]
    /\ relocate(t, IF st[t] = "confirmed" THEN "confirmed" ELSE "failed", read[t])
    /\ st' = [st EXCEPT ![t] = IF @ = "confirmed" THEN "done" ELSE "failed"]
    /\ UNCHANGED <<home, card, open, at, read, unsettled>>

\* The re-read failed: nothing is drawn, and the line goes where its card's log
\* is now (with the warning that the page may be out of date).
NotRedrawn(t) ==
    /\ st[t] \in {"confirmed", "reverted"}
    /\ LET what == IF st[t] = "confirmed" THEN "confirmed" ELSE "failed"
       IN CASE logNow(t) = "card" ->
                 /\ text' = [text EXCEPT ![card[t]] = Line(t, what)]
                 /\ UNCHANGED <<homeText, movedAt>>
            [] logNow(t) = "home" ->
                 /\ homeText' = AtHome(t, what)
                 /\ UNCHANGED <<text, movedAt>>
            [] logNow(t) = "detached" ->
                 /\ homeText' = AtHome(t, what)
                 /\ movedAt' = [movedAt EXCEPT ![t] = drawn]
                 /\ UNCHANGED text
    /\ st' = [st EXCEPT ![t] = IF @ = "confirmed" THEN "done" ELSE "failed"]
    /\ UNCHANGED <<home, card, open, shown, drawn, at, read, unsettled>>

\* A look-up, or "Check my payouts".
LookUp ==
    /\ drawn < MaxDraws
    /\ drawn' = drawn + 1
    /\ shown' = open
    /\ text' = NewLogs(open)
    /\ homeText' = IF home = "list" THEN {} ELSE homeText
    /\ UNCHANGED <<home, card, open, at, st, read, movedAt, unsettled>>

LineNext ==
    \/ \E t \in Txs :
          \/ Press(t) \/ Declined(t) \/ Sent(t) \/ CloseOnChain(t) \/ Lost(t)
          \/ \E what \in {"confirmed", "reverted"} : Result(t, what)
          \/ Redrawn(t) \/ NotRedrawn(t)
    \/ \E c \in Cards : CouldNotContinue(c)
    \/ LookUp

LineSpec == LineInit /\ [][LineNext]_lineVars

-----------------------------------------------------------------------------
(* Properties. *)

\* Only cards on the page carry text, and the home of Payouts has one line.
LineTypeOK ==
    /\ home \in Homes /\ card \in [Txs -> Cards]
    /\ open \subseteq Cards /\ shown \subseteq Cards
    /\ drawn \in 1..MaxDraws
    /\ at \in [Txs -> 0..MaxDraws] /\ movedAt \in [Txs -> 0..MaxDraws]
    /\ st \in [Txs -> {"idle"} \cup Waiting \cup Ended]
    /\ read \in [Txs -> SUBSET Cards]
    /\ text \in [Cards -> Lines]
    /\ \A c \in Cards \ shown : text[c] = Blank
    /\ homeText \subseteq Lines
    /\ home = "status" => Cardinality(homeText) <= 1
    /\ Cardinality(unsettled) <= 1
    /\ unsettled \subseteq {t \in Txs : st[t] = "unknown"}

\* The line of t says `what` on the page.
Seen(t, what) == text[card[t]] = Line(t, what) \/ Line(t, what) \in homeText

\* A transaction whose end was read leaves its result on the page, on the new
\* log of its card or at the view's home, however often the card was drawn anew
\* or taken away while the transaction was on its way.
ResultIsShownStep ==
    \A t \in Txs :
        /\ st[t] = "confirmed" /\ st'[t] = "done" => Seen(t, "confirmed")'
        /\ st[t] = "reverted" /\ st'[t] = "failed" => Seen(t, "failed")'

\* While a transaction's result is unknown, neither a draw that keeps its card
\* nor a transaction refused because of it takes its warning off the card: only
\* an action that could not start, or a transaction that was already under way
\* on the same card, writes over it.
WarningStaysStep ==
    \A t \in unsettled \cap unsettled' :
        text[card[t]] = Line(t, "unknown") /\ card[t] \in shown' =>
            text'[card[t]] = Line(t, "unknown") \/ text'[card[t]].what \notin {"blank", "refused"}

\* A result at the home is of a transaction without a card of its own on the
\* page: the page never shows a line at the home beside a log that is empty.
HomeIsForTheGone ==
    home = "list" => \A l \in homeText : \A t \in l.tx : card[t] \notin shown

=============================================================================
