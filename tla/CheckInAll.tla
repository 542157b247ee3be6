------------------------------ MODULE CheckInAll ------------------------------
(***************************************************************************)
(* site/assets/app.js: "Check in on all vaults".  The page reads the open  *)
(* vaults and the chain's time, holds back the vaults it thinks the        *)
(* contract would skip, sends one checkInMany for the rest and reports     *)
(* what became of each.  Other devices, heirs and third parties act on     *)
(* every vault between the reads, until the call is mined and after it.    *)
(***************************************************************************)
EXTENDS BlockClock, SwitchRules

CONSTANT Vaults    \* the wallet's vaults that are open when the button is clicked

\* MAX_INACTIVITY is 3650 days and MAX_HORIZON 36500.
CheckInAssumption == MaxPeriod < MaxHorizon

VARIABLES
    vaults,    \* the vaults of the contract
    stage,     \* of the handler
    read,      \* the vaults as read, once they are
    clock,     \* the chain time as read, or 0
    sent,      \* the vaults of the batch
    moved,     \* what a mined batch logged: CheckedIn's new deadlines, 0 where there is none
    report     \* what the page says of each vault

pageVars == <<stage, read, clock, sent, moved, report>>
checkInVars == <<now, vaults, pageVars>>

Horizons == 0..(MaxTime + MaxHorizon)

\* What may be said of a vault: that its check-in is being sent, that it was
\* checked in, or for the last time, a SKIP code, or that nothing was mined.
Entries == {"nothing", "sending", "checkedIn", "lastCheckIn", "notSent", "repeated",
            "terminal", "claimPending", "horizonReached", "pinned", "claimPastHorizon"}

Nothing == [v \in Vaults |-> "nothing"]

-----------------------------------------------------------------------------
(* The contract: checkInMany on a vault s at t. *)

SkipReason(s, t) ==
    CASE s.phase = "claimed" -> IF AtHorizon(s, t) THEN "claimPastHorizon" ELSE "claimPending"
      [] s.phase \in {"settled", "closed"} -> "terminal"
      [] s.phase = "active" ->
            IF AtHorizon(s, t) THEN "horizonReached"
            ELSE IF s.deadline >= s.horizon THEN "pinned"
            ELSE IF Restarted(s, t).deadline <= s.deadline THEN "repeated"
            ELSE "nothing"

CheckedIn == {v \in sent : SkipReason(vaults[v], now) = "nothing"}

-----------------------------------------------------------------------------
(* The page. *)

\* Why the contract would skip s, read when its horizon was reached or not, by
\* the chain time t.
checkInBlocker(s, reached, t) ==
    LET past == reached \/ t >= s.horizon IN
    CASE s.phase = "claimed" -> IF past THEN "claimPastHorizon" ELSE "claimPending"
      [] s.phase \in {"settled", "closed"} -> "terminal"
      [] s.phase = "active" ->
            IF past THEN "horizonReached" ELSE IF s.deadline >= s.horizon THEN "pinned" ELSE "nothing"

Blocker(v) == checkInBlocker(read.of[v], read.reached[v], clock)

\* The buttons the report gives with a SKIP code.
Remedies(code) ==
    CASE code = "claimPending" -> {"veto"}
      [] code \in {"horizonReached", "pinned"} -> {"extend"}
      [] code = "claimPastHorizon" -> {"stop", "close"}
      [] OTHER -> {}

\* Whether the contract accepts what a button sends for s at t.
Helps(remedy, s, t) ==
    CASE remedy = "veto" -> CanVeto(s, t)
      [] remedy \in {"extend", "stop"} -> \E horizon \in Horizons : CanExtend(s, t, horizon)
      [] remedy = "close" -> IsLive(s)

\* The vaults the report raises the alarm for; a repeated check-in is none.
Alarmed(r) ==
    {v \in Vaults : r[v] \notin {"nothing", "sending", "checkedIn", "lastCheckIn", "repeated"}}

Unread == [done |-> FALSE, of |-> [v \in Vaults |-> Unarmed], reached |-> [v \in Vaults |-> FALSE]]

Click ==
    /\ stage = "idle"
    /\ stage' = "reading"
    /\ read' = Unread /\ clock' = 0
    /\ sent' = {} /\ report' = Nothing
    /\ moved' = [v \in Vaults |-> 0]
    /\ UNCHANGED <<now, vaults>>

\* The two reads may be answered in either order and in different blocks.
ReadVaults ==
    /\ stage = "reading" /\ ~read.done
    /\ read' = [done |-> TRUE, of |-> vaults, reached |-> [v \in Vaults |-> AtHorizon(vaults[v], now)]]
    /\ UNCHANGED <<now, vaults, stage, clock, sent, moved, report>>

ReadClock ==
    /\ stage = "reading" /\ clock = 0
    /\ clock' = now
    /\ UNCHANGED <<now, vaults, stage, read, sent, moved, report>>

\* A vault that the read no longer lists is not reported.
Prefilter ==
    /\ stage = "reading" /\ read.done /\ clock # 0
    /\ sent' = {v \in Vaults : Blocker(v) = "nothing"}
    /\ report' = [v \in Vaults |->
                    CASE ~IsLive(read.of[v]) -> "nothing"
                      [] IsLive(read.of[v]) /\ Blocker(v) = "nothing" -> "sending"
                      [] OTHER -> Blocker(v)]
    /\ stage' = IF sent' = {} THEN "reported" ELSE "sending"
    /\ UNCHANGED <<now, vaults, read, clock, moved>>

\* The report of a batch that is mined now, from its logs; whether a check-in
\* was the last that helps is told by the horizon as it was read.
Reported ==
    [v \in Vaults |->
        CASE v \in CheckedIn ->
                IF Restarted(vaults[v], now).deadline >= read.of[v].horizon THEN "lastCheckIn" ELSE "checkedIn"
          [] v \in sent \ CheckedIn -> SkipReason(vaults[v], now)
          [] OTHER -> report[v]]

\* The batch is mined; it is refused when it moves no deadline.
Mined ==
    /\ stage = "sending"
    /\ CheckedIn # {}
    /\ vaults' = [v \in Vaults |-> IF v \in CheckedIn THEN Restarted(vaults[v], now) ELSE vaults[v]]
    /\ moved' = [v \in Vaults |-> IF v \in CheckedIn THEN Restarted(vaults[v], now).deadline ELSE 0]
    /\ report' = Reported
    /\ stage' = "reported"
    /\ UNCHANGED <<now, read, clock, sent>>

\* Declined, or refused as a whole: the vaults of the batch are read once more,
\* one by one, by the time read first.
Refused ==
    /\ stage = "sending"
    /\ stage' = "rereading"
    /\ clock' = now
    /\ UNCHANGED <<now, vaults, read, sent, moved, report>>

Reread(v) ==
    /\ stage = "rereading" /\ v \in sent
    /\ sent' = sent \ {v}
    /\ LET b == checkInBlocker(vaults[v], AtHorizon(vaults[v], now), clock) IN
          report' = [report EXCEPT ![v] = IF b = "nothing" THEN "notSent" ELSE b]
    /\ stage' = IF sent' = {} THEN "reported" ELSE stage
    /\ UNCHANGED <<now, vaults, read, clock, moved>>

\* A read that fails leaves the first read to judge by.
RereadFails(v) ==
    /\ stage = "rereading" /\ v \in sent
    /\ sent' = sent \ {v}
    /\ report' = [report EXCEPT ![v] = IF Blocker(v) = "nothing" THEN "notSent" ELSE Blocker(v)]
    /\ stage' = IF sent' = {} THEN "reported" ELSE stage
    /\ UNCHANGED <<now, vaults, read, clock, moved>>

\* It is not known whether the batch was mined: the page says what it held back.
Unknown ==
    /\ stage = "sending"
    /\ report' = [v \in Vaults |-> IF v \in sent THEN "nothing" ELSE report[v]]
    /\ stage' = "reported"
    /\ UNCHANGED <<now, vaults, read, clock, sent, moved>>

\* The cards are read again: the report is taken off the page.
Retired ==
    /\ stage = "reported"
    /\ stage' = "idle"
    /\ report' = Nothing
    /\ read' = Unread /\ clock' = 0 /\ sent' = {} /\ moved' = [v \in Vaults |-> 0]
    /\ UNCHANGED <<now, vaults>>

-----------------------------------------------------------------------------
\* What else may happen to s at t.
Elsewhere(s, t) ==
    (IF CanShowLife(s, t) THEN {Restarted(s, t)} ELSE {})
    \cup (IF CanVeto(s, t) THEN {Acted(s, t)} ELSE {})
    \cup {Acted([s EXCEPT !.horizon = h], t) : h \in {x \in Horizons : CanExtend(s, t, x)}}
    \cup (IF IsLive(s) THEN {[Acted(s, t) EXCEPT !.phase = "closed"]} ELSE {})
    \cup (IF CanClaim(s, t) THEN {ClaimedBy(s, t, s.heir)} ELSE {})
    \cup (IF CanSettle(s, t) THEN {[s EXCEPT !.phase = "settled"]} ELSE {})

OthersAct ==
    /\ \/ \E v \in Vaults : \E s \in Elsewhere(vaults[v], now) :
             vaults' = [vaults EXCEPT ![v] = s] /\ UNCHANGED now
       \/ Tick /\ UNCHANGED vaults
    /\ UNCHANGED pageVars

\* A vault created in the first block, in any way the contract lets it be.
Terms == [heir : Persons, period : Periods, window : Windows,
          horizon : (1 + MinPeriod)..(1 + MaxHorizon)]

Armed ==
    {Restarted([Unarmed EXCEPT !.phase = "active", !.heir = of.heir, !.period = of.period,
                               !.horizon = of.horizon, !.window = of.window], 1) : of \in Terms}

Init ==
    /\ ClockInit
    /\ vaults \in [Vaults -> Armed]
    /\ stage = "idle"
    /\ read = Unread /\ clock = 0
    /\ sent = {} /\ report = Nothing
    /\ moved = [v \in Vaults |-> 0]

Next ==
    \/ Click \/ ReadVaults \/ ReadClock \/ Prefilter
    \/ Mined \/ Refused \/ Unknown \/ Retired
    \/ \E v \in Vaults : Reread(v) \/ RereadFails(v)
    \/ OthersAct

Spec == Init /\ [][Next]_checkInVars

-----------------------------------------------------------------------------
(* Properties. *)

\* Types; and a report leaves out only vaults that were not open any more or
\* whose batch may or may not be mined.
CheckInTypeOK ==
    /\ ClockTypeOK
    /\ vaults \in [Vaults -> Switches]
    /\ stage \in {"idle", "reading", "sending", "rereading", "reported"}
    /\ report \in [Vaults -> Entries]
    /\ stage = "reported" => \A v \in Vaults : report[v] # "sending"

\* The report of a mined batch is what the chain says: a vault is reported as
\* checked in exactly when the batch moved its deadline.
ReportIsTheReceipt ==
    (stage = "reported" /\ \E v \in Vaults : moved[v] > 0) =>
        \A v \in Vaults : report[v] \in {"checkedIn", "lastCheckIn"} <=> moved[v] > 0

\* A vault is held back only for the reason the contract would skip it for, if
\* it is still as it was read and the clock was read last: reading both at once
\* from different blocks withholds no check-in that would have counted.
HeldBackAsSkippedStep ==
    Prefilter =>
        \A v \in Vaults \ sent' :
            (vaults[v] = read.of[v] /\ clock = now) => SkipReason(vaults[v], now) = Blocker(v)

\* A button of the report is one the contract accepts: for a vault of a mined
\* batch in the block that mined it, for one held back or read again as long as
\* it is as it was read and the clock was read last.  And who is told nothing is
\* wrong has a deadline that was moved or stands where a check-in would put it.
RemediesHelpStep ==
    (Prefilter \/ Mined \/ \E v \in Vaults : Reread(v)) =>
        \A v \in Vaults :
            (\/ Mined /\ v \in sent
             \/ Prefilter /\ vaults[v] = read.of[v] /\ clock = now
             \/ Reread(v) /\ clock = now) =>
                /\ \A remedy \in Remedies(report'[v]) : Helps(remedy, vaults'[v], now)
                /\ (Mined /\ v \notin Alarmed(report')) =>
                      vaults'[v].deadline >= Restarted(vaults[v], now).deadline

\* Who is told "checked in" without more has a deadline that later check-ins
\* can move: nobody is left waiting at the horizon untold.
NoUntoldLastCheckInStep ==
    Mined => \A v \in Vaults :
        report'[v] = "checkedIn" => vaults'[v].deadline < vaults'[v].horizon

\* After a refusal, a vault that is read again and reported as merely not sent
\* is one that a check-in on its card would help: no claim pending on it and no
\* horizon reached since goes unmentioned.
NotSentCanBeSentStep ==
    \A v \in Vaults :
        (Reread(v) /\ report'[v] = "notSent") => CanShowLife(vaults[v], now)
=============================================================================
