-------------------------------- MODULE Watcher --------------------------------
(***************************************************************************)
(* notify/watcher.js: a program that is run again and again, reads a vault *)
(* and its ClaimInitiated logs, mails what ReminderRules calls for and has *)
(* not been mailed, and keeps what it mailed in a file.  The vault moves   *)
(* between two reads; a run may be killed at any point; a mail, a read and *)
(* the saving of the file may fail; a replica may lag a step behind.       *)
(*                                                                         *)
(* One watch of one vault.  The log has one block for a unit of time.      *)
(***************************************************************************)
EXTENDS ReminderRules, Functions

CONSTANTS
    LOG_PAGE, MAX_PAGES_PER_RUN, MAX_ATTEMPTS,
    Followed,     \* bound: the kinds of mails that are followed
    Fresh,        \* whether the state file may not exist yet when the claims begin
    LaggingLogs,  \* whether the vaults of the logs are read from a replica that may lag, too
    MaxFaults     \* bound: runs killed, and reads, mails and saves that fail

WatcherAssumption ==
    /\ {LOG_PAGE, MAX_PAGES_PER_RUN, MAX_ATTEMPTS} \subseteq Nat \ {0}
    /\ "terminal" \in Followed
    /\ Fresh \in BOOLEAN /\ LaggingLogs \in BOOLEAN /\ MaxFaults \in Nat

ASSUME WatcherConstants == SwitchAssumption /\ RemindersAssumption /\ WatcherAssumption

VARIABLES
    older,     \* what a lagging replica still answers
    logs,      \* the claims' ClaimInitiated logs: their times
    disk,      \* the state file
    run,       \* the run that is under way, with its copy of the state
    mailed,    \* the mails that were delivered, ever
    skipped,    \* history: settlements that the cursor passed without their being seen
    faults

vars == <<switchVars, older, logs, disk, run, mailed, skipped, faults>>
world == <<switchVars, older, logs>>

NoCursor == -1

EmptyState == [sent |-> {}, seen |-> FALSE, scan |-> NoCursor, fail |-> <<>>]

Off == [stage |-> "off", state |-> EmptyState, queue |-> {}, head |-> 0, keep |-> "none", cursor |-> NoCursor,
        missed |-> {}]

Faulty == faults < MaxFaults /\ faults' = faults + 1

-----------------------------------------------------------------------------
(* The queue. *)

Attempts(state, key) == IF key \in DOMAIN state.fail THEN state.fail[key] ELSE 0

\* alert(): what was sent, or given up, is not queued.
Wanted(keys) ==
    {k \in keys : k[1] \in Followed /\ k \notin run.state.sent /\ Attempts(run.state, k) < MAX_ATTEMPTS}

Queued(keys) == [run EXCEPT !.queue = @ \cup Wanted(keys)]

-----------------------------------------------------------------------------
(* A run. *)

\* The file is read, then the chain's head: the last block that is complete.
Start ==
    /\ run.stage = "off"
    /\ run' = [Off EXCEPT !.stage = "open", !.state = disk, !.head = now - 1]
    /\ UNCHANGED <<world, disk, mailed, skipped, faults>>

Sees(s) ==
    \E funded \in BOOLEAN :
        IF IsLive(s)
        THEN run' = [Queued(ownerAlerts(s, now, run.head, funded, run.state.sent)
                              \cup heirAlerts(s, now, run.head))
                       EXCEPT !.stage = "logs", !.keep = "seen"]
        ELSE run' = [run EXCEPT !.stage = IF run.state.seen THEN "gone" ELSE "logs",
                                !.keep = "unseen"]

ReadOpen ==
    /\ run.stage = "open"
    /\ Sees(switch) \/ Sees(older)
    /\ UNCHANGED <<world, disk, mailed, skipped, faults>>

\* The watch is given up for this run, and nothing of it is committed.
ReadOpenFails ==
    /\ run.stage = "open" /\ Faulty
    /\ run' = [run EXCEPT !.stage = "deliver"]
    /\ UNCHANGED <<world, disk, mailed, skipped>>

IsTerminal(s) == s.phase \in {"settled", "closed"}

TerminalKeys(s) ==
    {k \in {terminalKey} \cup (IF s.phase = "settled" THEN {heirTerminalKey} ELSE {}) : k[1] \in Followed}

\* Variation: the vault is forgotten when its last mail is queued.
Kept_TillQueued(s) == IF IsTerminal(s) THEN "unseen" ELSE "seen"

\* A vault that left the list is kept in mind until it is known to have ended
\* and the mails that say so have gone out.
Kept(s) == IF IsTerminal(s) /\ TerminalKeys(s) \subseteq run.state.sent THEN "unseen" ELSE "seen"

terminalAlerts ==
    /\ run.stage = "gone"
    /\ \E s \in {switch, older} :
          run' = [(IF IsTerminal(s) THEN Queued(TerminalKeys(s)) ELSE run)
                    EXCEPT !.stage = "logs", !.keep = Kept(s)]
    /\ UNCHANGED <<world, disk, mailed, skipped, faults>>

TerminalReadFails ==
    /\ run.stage = "gone" /\ Faulty
    /\ run' = [run EXCEPT !.stage = "logs", !.keep = "seen"]
    /\ UNCHANGED <<world, disk, mailed, skipped>>

Later(a, b) == IF a > b THEN a ELSE b

From == IF run.state.scan = NoCursor THEN Later(0, run.head - LOG_PAGE) ELSE run.state.scan
To == Sooner(From + LOG_PAGE * MAX_PAGES_PER_RUN - 1, run.head)

\* The claims in the scanned blocks that settled without a mail, of the vault as read.
Unreported(s) == {stamp \in logs : /\ stamp \in From..To
                                   /\ s.phase = "settled" /\ s.claimedAt = stamp
                                   /\ claimKey(stamp) \notin run.state.sent}

Unsent(s) == \E stamp \in Unreported(s) : unseenKey(stamp) \notin run.state.sent

\* Variation: the cursor moves on when the mails are queued.
CursorAfter_Queued(s) == Later(From, To + 1)

\* The cursor stays where it is while a mail about the scanned blocks is unsent.
\* Where there is no cursor yet, it is set after them all the same.
CursorAfter(s) ==
    IF Unsent(s) /\ run.state.scan # NoCursor THEN run.state.scan ELSE Later(From, To + 1)

\* A settlement the cursor passes in this run because there was none before, or
\* because the vault was read as it was before it settled.
Missed(s) ==
    {stamp \in logs : /\ switch.phase = "settled" /\ switch.claimedAt = stamp
                      /\ run.state.scan <= stamp /\ stamp < CursorAfter(s)
                      /\ run.state.scan = NoCursor \/ s # switch}

backfillClaims ==
    /\ run.stage = "logs"
    /\ \E s \in IF LaggingLogs THEN {switch, older} ELSE {switch} :
          run' = [Queued({unseenKey(stamp) : stamp \in Unreported(s)})
                    EXCEPT !.stage = "deliver", !.cursor = CursorAfter(s), !.missed = Missed(s)]
    /\ UNCHANGED <<world, disk, mailed, skipped, faults>>

BackfillFails ==
    /\ run.stage = "logs" /\ Faulty
    /\ run' = [run EXCEPT !.stage = "deliver"]
    /\ UNCHANGED <<world, disk, mailed, skipped>>

-----------------------------------------------------------------------------
(* Delivery, and the end of a run. *)

Deliver(key) ==
    /\ run.stage = "deliver"
    /\ run' = [run EXCEPT !.queue = @ \ {key}, !.state.sent = @ \cup {key},
                          !.state.fail = Restrict(@, DOMAIN @ \ {key})]
    /\ mailed' = mailed \cup {key}
    /\ UNCHANGED <<world, disk, skipped, faults>>

DeliveryFails(key) ==
    /\ run.stage = "deliver" /\ Faulty
    /\ run' = [run EXCEPT !.queue = @ \ {key},
                          !.state.fail = [k \in DOMAIN @ \cup {key} |->
                              IF k = key THEN Attempts(run.state, key) + 1 ELSE @[k]]]
    /\ UNCHANGED <<world, disk, mailed, skipped>>

TransportUnavailable ==
    /\ run.stage = "deliver" /\ run.queue # {} /\ Faulty
    /\ run' = [run EXCEPT !.queue = {}]
    /\ UNCHANGED <<world, disk, mailed, skipped>>

Committed ==
    [run.state EXCEPT
        !.seen = IF run.keep = "none" THEN @ ELSE run.keep = "seen",
        !.scan = IF run.cursor = NoCursor THEN @ ELSE run.cursor]

Save ==
    /\ run.stage = "deliver" /\ run.queue = {}
    /\ disk' = Committed
    /\ skipped' = skipped \cup run.missed
    /\ run' = Off
    /\ UNCHANGED <<world, mailed, faults>>

\* A save that fails, or a kill at any point: the file stays as it was.
Crash ==
    /\ run.stage # "off" /\ Faulty
    /\ run' = Off
    /\ UNCHANGED <<world, disk, mailed, skipped>>

-----------------------------------------------------------------------------
(* The vault. *)

ChangeHeirTo == ChangeHeir /\ switch'.heir # switch.heir

\* Some of what its owner, heir and third parties do.
VaultMoves ==
    /\ \/ Arm \/ ShowLife \/ ChangeHeirTo \/ Veto \/ Close \/ Claim \/ Settle
    /\ older' = switch
    /\ logs' = logs \cup (IF switch'.phase = "claimed" THEN {switch'.claimedAt} ELSE {})
    /\ UNCHANGED <<disk, run, mailed, skipped, faults>>

\* A lagging replica catches up, within a unit of time.
CatchUp ==
    /\ older # switch
    /\ older' = switch
    /\ UNCHANGED <<switchVars, logs, disk, run, mailed, skipped, faults>>

TimePasses ==
    /\ older = switch
    /\ Tick
    /\ UNCHANGED <<switch, older, logs, disk, run, mailed, skipped, faults>>

Init ==
    /\ SwitchInit
    /\ older = switch /\ logs = {}
    /\ \E scan \in {0} \cup (IF Fresh THEN {NoCursor} ELSE {}) : disk = [EmptyState EXCEPT !.scan = scan]
    /\ run = Off /\ mailed = {} /\ skipped = {} /\ faults = 0

RunSteps ==
    \/ ReadOpen \/ terminalAlerts \/ backfillClaims \/ (\E key \in run.queue : Deliver(key)) \/ Save

RunFaults ==
    \/ ReadOpenFails \/ TerminalReadFails \/ BackfillFails
    \/ (\E key \in run.queue : DeliveryFails(key)) \/ TransportUnavailable \/ Crash

Next == Start \/ RunSteps \/ RunFaults \/ VaultMoves \/ CatchUp \/ TimePasses

Spec == Init /\ [][Next]_vars

\* The program is started again and again, and a run goes on to its end; no
\* replica lags for ever.
FairSpec == Spec /\ WF_vars(Start) /\ WF_vars(RunSteps) /\ WF_vars(CatchUp)

-----------------------------------------------------------------------------
(* Properties. *)

\* Types of the state file and of the run.
WatcherTypeOK ==
    /\ SwitchTypeOK
    /\ disk.seen \in BOOLEAN /\ disk.scan \in NoCursor..(MaxTime + 1)
    /\ \A k \in DOMAIN disk.fail : disk.fail[k] \in 1..MAX_ATTEMPTS /\ k \notin disk.sent
    /\ disk.sent \subseteq mailed
    /\ run.queue \cap run.state.sent = {}
    /\ faults \in 0..MaxFaults

\* "A lagging RPC replica would otherwise tell an owner their estate had
\* settled": no mail says that a vault ended, or that a claim settled, unless
\* it is so; of several claims, it is the one that did settle.
EndsAreTrue ==
    /\ terminalKey \in mailed => switch.phase \in {"settled", "closed"}
    /\ heirTerminalKey \in mailed => switch.phase = "settled"
    /\ \A stamp \in logs : unseenKey(stamp) \in mailed =>
          switch.phase = "settled" /\ switch.claimedAt = stamp

\* The cursor leaves no settlement behind that it could have seen: between two runs,
\* when it is past the claim that settled, the owner was told of the claim, or of the
\* settlement, or the vault is kept in mind until the owner is, or the cursor was
\* set anew, or moved on what a lagging replica answered.
SettlementNotLeftBehind ==
    (switch.phase = "settled" /\ disk.scan > switch.claimedAt) =>
        \/ {claimKey(switch.claimedAt), unseenKey(switch.claimedAt), terminalKey} \cap disk.sent # {}
        \/ disk.seen
        \/ switch.claimedAt \in skipped

\* A reminder never follows a more urgent one for the same deadline, nor an
\* escalation of a claim a more urgent one, or comes before the claim's mail.
NeverStepsBackStep ==
    \A k \in mailed' \ mailed :
          /\ k[1] \in {"reminder", "claim-tier"} =>
                \A u \in ReminderTiers \cup VetoTiers : <<k[1], k[2], u>> \in mailed => u > k[3]
          /\ k[1] = "claim-tier" => claimKey(k[2]) \in mailed

Works(passed) ==
    \A action \in ownerRemedy(switch, passed) :
        /\ \/ RemedyOf(action, switch, now) # {}
           \/ (action = "extend" /\ switch.horizon + 1 > now + MaxHorizon)
        /\ \A s \in RemedyOf(action, switch, now) :
              s.phase = "closed" \/ (s.phase = "active" /\ s.deadline > now)

\* "Never assert something the contract will refuse": each action a mail names,
\* taken while the vault is still as it was read, is accepted, and the vault is
\* no longer claimable, or claimed, after it.
RemediesWork ==
    IsLive(switch) =>
        /\ AtHorizon(switch, now) => Works(TRUE)
        /\ (switch.phase = "claimed" \/ IsExpired(switch, now)) => Works(AtHorizon(switch, now))

\* Whatever the subscription, and however often a run is killed or a read, a
\* mail or a save fails, in the end the owner is told of a claim that settled.
SettlementTold ==
    switch.phase = "settled"
        ~> {claimKey(switch.claimedAt), unseenKey(switch.claimedAt), terminalKey} \cap mailed # {}

\* "FAIL OPEN, ALWAYS": the same while the claim can still be vetoed.
ClaimTold ==
    switch.phase = "claimed"
        ~> (claimKey(switch.claimedAt) \in mailed \/ switch.phase # "claimed")

\* "If the owner has re-pointed the vault, the configured contact is a stranger
\* to this estate": what goes to the heir's mail address is about a vault that
\* names that heir.
StrangersHearNothing == heirTerminalKey \in mailed => switch.heir = HeirOnFile

\* The two promises of the mails about a claim, which hold whatever fails less
\* often than an alert has attempts.
OwnersAreTold == SettlementTold /\ ClaimTold

\* What is mailed is so and helps, and what must be mailed is not passed over:
\* ends are real, no settlement is left behind, remedies work (watcher.js).
AlertsAreTrue ==
    /\ WatcherTypeOK
    /\ EndsAreTrue
    /\ SettlementNotLeftBehind
    /\ RemediesWork

\* No step of a run mails a less urgent reminder after a more urgent one
\* (ownerAlerts).
NeverStepsBack == [][NeverStepsBackStep]_vars

===============================================================================
