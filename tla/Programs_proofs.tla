---------------------------- MODULE Programs_proofs ----------------------------
(***************************************************************************)
(* The programs that run off the page.  The watcher, for every vault,      *)
(* ladder, page length and number of faults: ends are announced when they  *)
(* are so, a ladder is never climbed back, remedies work, and the cursor   *)
(* leaves no settlement behind.  The programs of Operations, for every     *)
(* number of runs and every value of their constants: control, fees,       *)
(* addresses and check-in values stay in hand, and no run undoes another's *)
(* work.                                                                   *)
(***************************************************************************)
EXTENDS Watcher, Operations

-----------------------------------------------------------------------------
(* The watcher.                                                             *)

(* The inductive invariant.                                                 *)

InClaim(s) == s.phase \in {"claimed", "settled"}

\* The vault, and the replica that is at most one move behind it.
WorldInv ==
    /\ SwitchSound
    /\ IsLive(switch) => switch.period \in Periods /\ switch.period <= MaxHorizon
    /\ InClaim(switch) => switch.claimedAt \in logs
    /\ older \in Switches
    /\ IsTerminal(older) => older = switch
    /\ older.phase = "none" => switch.phase \in {"none", "active"}
    /\ older.phase # "none" => /\ switch.phase # "none"
                              /\ older.period = switch.period /\ older.window = switch.window

RunFields == {"stage", "state", "queue", "head", "keep", "cursor", "missed"}
StateFields == {"sent", "seen", "scan", "fail"}

\* A state file, or a run's copy of it.
StateFits(state, delivered, t) ==
    /\ DOMAIN state = StateFields
    /\ state.sent \subseteq delivered
    /\ state.seen \in BOOLEAN
    /\ state.scan \in Int /\ NoCursor <= state.scan /\ state.scan <= t
    /\ \A k \in DOMAIN state.fail : state.fail[k] \in 1..MAX_ATTEMPTS /\ k \notin state.sent

\* The run works on the file as it read it, a head that is in the past, and mails
\* that were neither sent nor given up.
RunInv ==
    /\ StateFits(disk, mailed, now)
    /\ faults \in 0..MaxFaults
    /\ DOMAIN run = RunFields
    /\ run.stage \in {"off", "open", "gone", "logs", "deliver"}
    /\ StateFits(run.state, mailed, now)
    /\ run.stage # "off" =>
          /\ run.head \in Int /\ run.head < now
          /\ run.state.seen = disk.seen /\ run.state.scan = disk.scan
          /\ disk.sent \subseteq run.state.sent
    /\ run.stage \in {"off", "open"} => run.queue = {}
    /\ \A k \in run.queue : k \notin run.state.sent /\ Attempts(run.state, k) < MAX_ATTEMPTS
    /\ run.cursor \in Int /\ NoCursor <= run.cursor /\ run.cursor <= now
    /\ run.stage \in {"off", "open", "gone", "logs"} => run.cursor = NoCursor
    /\ run.keep \in {"none", "seen", "unseen"}

\* What was mailed, or is about to be.
Announced == mailed \cup run.queue

EndInv ==
    /\ terminalKey \in Announced => IsTerminal(switch)
    /\ heirTerminalKey \in Announced => switch.phase = "settled"
    /\ \A stamp : unseenKey(stamp) \in Announced => switch.phase = "settled" /\ switch.claimedAt = stamp

\* A tier of a ladder is due at head h when the end is no further away than it,
\* and is called for when no smaller one is due.
DueTier(tiers, span, end, t, h) == t \in tiers /\ t < span /\ end - h <= t

CalledFor(tiers, span, end, t, h) ==
    DueTier(tiers, span, end, t, h) /\ \A u \in tiers : DueTier(tiers, span, end, u, h) => t <= u

\* The last head a run has read, or could read.
LastHead == IF run.stage = "off" THEN now - 1 ELSE run.head

\* What is queued of a ladder is called for by the vault at the head of the run.
QueuedRightly(k, head) ==
    /\ k[1] = "reminder" =>
          /\ k = <<"reminder", k[2], k[3]>> /\ k[2] \in Nat
          /\ CalledFor(ReminderTiers, switch.period, k[2], k[3], head)
    /\ k[1] = "claim-tier" =>
          /\ k = <<"claim-tier", k[2], k[3]>> /\ k[2] \in Nat /\ claimKey(k[2]) \in mailed
          /\ CalledFor(VetoTiers, switch.window, k[2] + switch.window, k[3], head)

\* What is queued is called for now; what was mailed has been due since.
LadderInv ==
    /\ switch.phase = "none" => Announced = {}
    /\ \A k \in run.queue : QueuedRightly(k, run.head)
    /\ \A d, t : <<"reminder", d, t>> \in mailed =>
          d \in Nat /\ DueTier(ReminderTiers, switch.period, d, t, LastHead)
    /\ \A c, t : <<"claim-tier", c, t>> \in mailed =>
          c \in Nat /\ DueTier(VetoTiers, switch.window, c + switch.window, t, LastHead)

\* The owner was told of the claim that stands or was settled, or of the end.
Told(sent) == {claimKey(switch.claimedAt), unseenKey(switch.claimedAt), terminalKey} \cap sent # {}

\* A claim behind the cursor is told, kept in mind or skipped; a run that is about to
\* forget the vault knows that it ended, or that no claim it looks for is in the
\* blocks it reads.
CursorInv ==
    /\ run.keep = "none" => run.cursor = NoCursor /\ run.stage \notin {"gone", "logs"}
    /\ run.stage \in {"off", "open"} => run.keep = "none"
    /\ InClaim(switch) /\ disk.scan > switch.claimedAt => Told(disk.sent) \/ disk.seen \/ switch.claimedAt \in skipped
    /\ run.keep = "unseen" /\ run.stage \in {"logs", "deliver"} =>
          /\ ~disk.seen \/ terminalKey \in run.state.sent
          /\ InClaim(switch) => switch.phase = "settled" \/ switch.claimedAt > run.head
    /\ run.keep = "unseen" /\ InClaim(switch) /\ run.cursor > switch.claimedAt
          => Told(run.state.sent) \/ switch.claimedAt \in run.missed \cup skipped

-----------------------------------------------------------------------------
(* The vault under the watcher.                                             *)

\* A move of the vault: it is armed once, keeps its period and its window, stays
\* as it is when it has ended, and a claim is of the moment it is made.
LEMMA MoveIs ==
  ASSUME WorldInv, VaultMoves
  PROVE  /\ SwitchSound' /\ UNCHANGED <<now, disk, run, mailed, skipped, faults>> /\ older' = switch
         /\ logs \subseteq logs' /\ (switch'.phase = "claimed" => switch'.claimedAt \in logs')
         /\ ~IsTerminal(switch) /\ switch'.phase # "none"
         /\ switch.phase = "none" => switch'.phase = "active"
         /\ switch.phase # "none" =>
               IsLive(switch) /\ switch'.period = switch.period /\ switch'.window = switch.window
         /\ IsLive(switch') => switch'.period \in Periods /\ switch'.period <= MaxHorizon
         /\ InClaim(switch') =>
               \/ switch'.phase = "claimed" /\ switch'.claimedAt = now
               \/ /\ switch.phase = "claimed" /\ switch'.phase = "settled"
                  /\ switch'.claimedAt = switch.claimedAt
<1> USE DEF IsTerminal, IsLive, InClaim
<1>1. /\ now \in Nat /\ switch \in Switches
      /\ switch.phase \in {"none", "active", "claimed", "settled", "closed"}
  BY MaxTimeAssumption DEF WorldInv, SwitchSound, ClockTypeOK, Switches
<1>2. SwitchNext
  BY DEF VaultMoves, ChangeHeirTo, SwitchNext, OwnerActs, HeirActs
<1>3. SwitchSound'
  BY <1>2, SwitchGoesOn, WatcherConstants DEF WorldInv
<1>4. /\ UNCHANGED <<now, disk, run, mailed, skipped, faults>> /\ older' = switch
      /\ logs \subseteq logs' /\ (switch'.phase = "claimed" => switch'.claimedAt \in logs')
  BY DEF VaultMoves, Arm, ShowLife, ChangeHeirTo, ChangeHeir, Veto, Close, Claim, Settle, Becoming
<1>5. CASE Arm
  <2>1. PICK heir \in Persons, period \in Periods, window \in Windows, horizon \in Horizons :
          /\ horizon >= now + period /\ horizon <= now + MaxHorizon
          /\ switch' = Restarted([Unarmed EXCEPT !.phase = "active", !.heir = heir, !.period = period,
                                             !.horizon = horizon, !.window = window], now)
    BY <1>5 DEF Arm, Becoming
  <2>2. switch.phase = "none"
    BY <1>5 DEF Arm
  <2>3. period \in Nat /\ horizon \in Nat /\ MaxHorizon \in Nat
    BY MaxTimeAssumption, WatcherConstants DEF Periods, Horizons, SwitchAssumption
  <2>4. switch'.phase = "active" /\ switch'.period = period
    BY <2>1 DEF Restarted, Unarmed
  <2>5. period <= MaxHorizon
    BY <1>1, <2>1, <2>3
  <2> QED
    BY <1>3, <1>4, <2>2, <2>4, <2>5
\* The other moves are of an armed vault.
<1>6. ASSUME NEW s \in Switches, s.phase = switch.phase, s.period = switch.period,
             s.window = switch.window, s.claimedAt = switch.claimedAt, IsLive(switch),
             \/ switch' = Acted(s, now)
             \/ switch' = [Acted(s, now) EXCEPT !.phase = "closed"]
      PROVE  /\ switch'.phase \in {"active", "closed"}
             /\ switch'.period = switch.period /\ switch'.window = switch.window
  BY <1>1, <1>6, ActedIs DEF Switches
<1>7. CASE ShowLife
  <2>1. switch' = Restarted(switch, now) /\ switch.phase = "active"
    BY <1>7 DEF ShowLife, CanShowLife, Becoming
  <2> QED
    BY <1>1, <1>3, <1>4, <2>1 DEF WorldInv, Restarted, Switches
<1>8. CASE ChangeHeirTo \/ Veto \/ Close
  <2>1. PICK s \in Switches :
          /\ s.phase = switch.phase /\ s.period = switch.period /\ s.window = switch.window
          /\ s.claimedAt = switch.claimedAt /\ IsLive(switch)
          /\ switch' = Acted(s, now) \/ switch' = [Acted(s, now) EXCEPT !.phase = "closed"]
    <3>1. CASE ChangeHeirTo
      <4>1. PICK heir \in Persons : switch' = Acted([switch EXCEPT !.heir = heir], now)
        BY <3>1 DEF ChangeHeirTo, ChangeHeir, Becoming
      <4>2. [switch EXCEPT !.heir = heir] \in Switches
        BY <1>1 DEF Switches
      <4> QED
        BY <1>1, <3>1, <4>1, <4>2 DEF ChangeHeirTo, ChangeHeir, CanAct, Switches
    <3> QED
      BY <1>1, <1>8, <3>1 DEF Veto, CanVeto, Close, Becoming
  <2> QED
    BY <1>1, <1>3, <1>4, <1>6, <2>1 DEF WorldInv
<1>9. CASE Claim
  <2>1. /\ switch.phase = "active" /\ switch'.phase = "claimed" /\ switch'.claimedAt = now
        /\ switch'.period = switch.period /\ switch'.window = switch.window
    BY <1>1, <1>9 DEF Claim, CanClaim, ClaimedBy, Becoming, Switches
  <2> QED
    BY <1>1, <1>3, <1>4, <2>1 DEF WorldInv
<1>10. CASE Settle
  <2>1. /\ switch.phase = "claimed" /\ switch'.phase = "settled"
        /\ switch'.claimedAt = switch.claimedAt
        /\ switch'.period = switch.period /\ switch'.window = switch.window
    BY <1>1, <1>10 DEF Settle, CanSettle, Becoming, Switches
  <2> QED
    BY <1>1, <1>3, <1>4, <2>1 DEF WorldInv
<1> QED
  BY <1>5, <1>7, <1>8, <1>9, <1>10 DEF VaultMoves

\* A run does nothing to the vault; a replica catches up; time passes.
ProgramSteps == Start \/ RunSteps \/ RunFaults

LEMMA ProgramLeavesTheWorld == ProgramSteps => UNCHANGED world
BY DEF ProgramSteps, RunSteps, RunFaults, Start, ReadOpen, ReadOpenFails, terminalAlerts,
       TerminalReadFails, backfillClaims, BackfillFails, Deliver, DeliveryFails,
       TransportUnavailable, Save, Crash

\* What no step takes back: the period and the window of an armed vault, its end,
\* and the moment of its claim.
LEMMA WorldGoesOn ==
  ASSUME WorldInv, [Next]_vars
  PROVE  /\ WorldInv'
         /\ now' \in Nat /\ now' >= now
         /\ switch.phase # "none" =>
               switch'.phase # "none" /\ switch'.period = switch.period /\ switch'.window = switch.window
         /\ IsTerminal(switch) => switch' = switch
         /\ InClaim(switch') =>
               \/ switch'.claimedAt = now /\ VaultMoves
               \/ /\ InClaim(switch) /\ switch'.claimedAt = switch.claimedAt
                  /\ switch.phase = "settled" => switch'.phase = "settled"
<1>1. now \in Nat /\ switch \in Switches
  BY MaxTimeAssumption DEF WorldInv, SwitchSound, ClockTypeOK
<1>2. CASE UNCHANGED world
  BY <1>1, <1>2 DEF world, switchVars, WorldInv, SwitchSound, ClockTypeOK, InClaim
<1>3. CASE VaultMoves
  <2>1. /\ SwitchSound' /\ now' = now /\ older' = switch
        /\ logs \subseteq logs' /\ (switch'.phase = "claimed" => switch'.claimedAt \in logs')
        /\ ~IsTerminal(switch) /\ switch'.phase # "none"
        /\ switch.phase = "none" => switch'.phase = "active"
        /\ switch.phase # "none" =>
              IsLive(switch) /\ switch'.period = switch.period /\ switch'.window = switch.window
        /\ IsLive(switch') => switch'.period \in Periods /\ switch'.period <= MaxHorizon
        /\ InClaim(switch') =>
              \/ switch'.phase = "claimed" /\ switch'.claimedAt = now
              \/ /\ switch.phase = "claimed" /\ switch'.phase = "settled"
                 /\ switch'.claimedAt = switch.claimedAt
    BY <1>3, MoveIs
  <2>2. WorldInv'
    BY <1>1, <2>1 DEF WorldInv, InClaim, IsTerminal
  <2> QED
    BY <1>1, <1>3, <2>1, <2>2 DEF InClaim, IsTerminal
<1>4. CASE CatchUp
  BY <1>1, <1>4 DEF CatchUp, switchVars, WorldInv, SwitchSound, ClockTypeOK, InClaim, IsTerminal
<1>5. CASE TimePasses
  <2>1. SwitchSound'
    <3>1. SwitchNext
      BY <1>5 DEF TimePasses, SwitchNext
    <3> QED
      BY <3>1, SwitchGoesOn, WatcherConstants DEF WorldInv
  <2>2. now' = now + 1 /\ UNCHANGED <<switch, older, logs>>
    BY <1>5 DEF TimePasses, Tick
  <2> QED
    BY <1>1, <2>1, <2>2 DEF WorldInv, InClaim, IsTerminal
<1> QED
  BY <1>2, <1>3, <1>4, <1>5, ProgramLeavesTheWorld DEF Next, ProgramSteps, vars, world

-----------------------------------------------------------------------------
(* The run.                                                                 *)

\* A state file stays one as time passes and mails are delivered.
LEMMA StateFitsOn ==
  ASSUME NEW state, NEW sent, NEW more, NEW t \in Int, NEW u \in Int,
         StateFits(state, sent, t), sent \subseteq more, t <= u
  PROVE  StateFits(state, more, u)
BY DEF StateFits, NoCursor

\* The blocks that a run reads end at its head, and the cursor stays in the past.
LEMMA CursorBounds ==
  ASSUME RunInv, run.stage = "logs", now \in Nat, NEW s
  PROVE  /\ From \in Int /\ 0 <= From /\ From <= now
         /\ To \in Int /\ To <= run.head
         /\ CursorAfter(s) \in Int /\ 0 <= CursorAfter(s) /\ CursorAfter(s) <= now
<1>1. /\ run.head \in Int /\ run.head < now
      /\ run.state.scan \in Int /\ NoCursor <= run.state.scan /\ run.state.scan <= now
  BY DEF RunInv, StateFits
<1>2. LOG_PAGE \in Nat /\ LOG_PAGE * MAX_PAGES_PER_RUN \in Int
  BY WatcherConstants DEF WatcherAssumption
<1>3. From \in Int /\ 0 <= From /\ From <= now
  BY <1>1, <1>2 DEF From, Later, NoCursor
<1>4. To \in Int /\ To <= run.head
  BY <1>1, <1>2, <1>3 DEF To, Sooner
<1> QED
  BY <1>1, <1>3, <1>4 DEF CursorAfter, Later, NoCursor

\* What a run is about to mail was neither sent nor given up.
QueueFits(queue, state) ==
    \A k \in queue : k \notin state.sent /\ Attempts(state, k) < MAX_ATTEMPTS

LEMMA WantedFit == \A keys : QueueFits(Wanted(keys), run.state)
BY DEF QueueFits, Wanted

\* What the three reads of a run make of it.
LEMMA OpenRead ==
  ASSUME RunInv, ReadOpen
  PROVE  \E s \in {switch, older}, funded \in BOOLEAN :
            /\ UNCHANGED <<world, disk, mailed, skipped, faults>> /\ run.stage = "open"
            /\ DOMAIN run' = RunFields /\ run'.state = run.state /\ run'.head = run.head
            /\ run'.cursor = run.cursor
            /\ \/ /\ IsLive(s) /\ run'.stage = "logs" /\ run'.keep = "seen"
                  /\ run'.queue = Wanted(ownerAlerts(s, now, run.head, funded, run.state.sent)
                                           \cup heirAlerts(s, now, run.head))
               \/ /\ ~IsLive(s) /\ run'.keep = "unseen" /\ run'.queue = {}
                  /\ run'.stage = IF run.state.seen THEN "gone" ELSE "logs"
<1>1. PICK s \in {switch, older} : Sees(s)
  BY DEF ReadOpen
<1> DEFINE keys(funded) ==
             ownerAlerts(s, now, run.head, funded, run.state.sent) \cup heirAlerts(s, now, run.head)
<1>2. PICK funded \in BOOLEAN :
        IF IsLive(s)
        THEN run' = [Queued(keys(funded)) EXCEPT !.stage = "logs", !.keep = "seen"]
        ELSE run' = [run EXCEPT !.stage = IF run.state.seen THEN "gone" ELSE "logs", !.keep = "unseen"]
  BY <1>1 DEF Sees
<1> DEFINE queue == Wanted(keys(funded))
<1>3. /\ UNCHANGED <<world, disk, mailed, skipped, faults>> /\ run.stage = "open"
      /\ DOMAIN run = RunFields /\ run.queue = {}
  BY DEF ReadOpen, RunInv
<1>4. Queued(keys(funded)) = [run EXCEPT !.queue = queue]
  BY <1>3 DEF Queued
<1> HIDE DEF queue, keys
<1>5. CASE IsLive(s)
  <2>1. run' = [[run EXCEPT !.queue = queue] EXCEPT !.stage = "logs", !.keep = "seen"]
    BY <1>2, <1>4, <1>5
  <2>2. /\ DOMAIN run' = RunFields /\ run'.stage = "logs" /\ run'.keep = "seen"
        /\ run'.queue = queue
        /\ run'.state = run.state /\ run'.head = run.head /\ run'.cursor = run.cursor
    BY <1>3, <2>1 DEF RunFields
  <2> QED
    BY <1>3, <1>5, <2>2 DEF queue, keys
<1>6. CASE ~IsLive(s)
  <2>1. run' = [run EXCEPT !.stage = IF run.state.seen THEN "gone" ELSE "logs", !.keep = "unseen"]
    BY <1>2, <1>6
  <2>2. /\ DOMAIN run' = RunFields /\ run'.keep = "unseen" /\ run'.queue = {}
        /\ run'.stage = IF run.state.seen THEN "gone" ELSE "logs"
        /\ run'.state = run.state /\ run'.head = run.head /\ run'.cursor = run.cursor
    BY <1>3, <2>1 DEF RunFields
  <2> QED
    BY <1>3, <1>6, <2>2
<1> QED
  BY <1>5, <1>6

LEMMA TerminalRead ==
  ASSUME RunInv, terminalAlerts
  PROVE  \E s \in {switch, older} :
            /\ UNCHANGED <<world, disk, mailed, skipped, faults>> /\ run.stage = "gone"
            /\ DOMAIN run' = RunFields /\ run'.state = run.state /\ run'.head = run.head
            /\ run'.cursor = run.cursor /\ run'.stage = "logs" /\ run'.keep = Kept(s)
            /\ run'.queue = run.queue \cup (IF IsTerminal(s) THEN Wanted(TerminalKeys(s)) ELSE {})
<1>1. PICK s \in {switch, older} :
        run' = [(IF IsTerminal(s) THEN Queued(TerminalKeys(s)) ELSE run)
                  EXCEPT !.stage = "logs", !.keep = Kept(s)]
  BY DEF terminalAlerts
<1> DEFINE queue == run.queue \cup (IF IsTerminal(s) THEN Wanted(TerminalKeys(s)) ELSE {})
           keep == Kept(s)
<1>2. /\ UNCHANGED <<world, disk, mailed, skipped, faults>> /\ run.stage = "gone" /\ DOMAIN run = RunFields
  BY DEF terminalAlerts, RunInv
<1>3. run' = [[run EXCEPT !.queue = queue] EXCEPT !.stage = "logs", !.keep = keep]
         \/ (queue = run.queue /\ run' = [run EXCEPT !.stage = "logs", !.keep = keep])
  BY <1>1 DEF Queued
<1> HIDE DEF queue, keep
<1>4. /\ DOMAIN run' = RunFields /\ run'.state = run.state /\ run'.head = run.head
      /\ run'.cursor = run.cursor /\ run'.stage = "logs" /\ run'.keep = keep /\ run'.queue = queue
  BY <1>2, <1>3 DEF RunFields
<1> QED
  BY <1>2, <1>4 DEF queue, keep

LEMMA LogsRead ==
  ASSUME RunInv, backfillClaims
  PROVE  \E s \in {switch, older} :
            /\ UNCHANGED <<world, disk, mailed, skipped, faults>> /\ run.stage = "logs"
            /\ DOMAIN run' = RunFields /\ run'.state = run.state /\ run'.head = run.head
            /\ run'.cursor = CursorAfter(s) /\ run'.stage = "deliver" /\ run'.keep = run.keep
            /\ run'.queue = run.queue \cup Wanted({unseenKey(stamp) : stamp \in Unreported(s)})
            /\ run'.missed = Missed(s)
<1>1. PICK s \in IF LaggingLogs THEN {switch, older} ELSE {switch} :
        run' = [Queued({unseenKey(stamp) : stamp \in Unreported(s)})
                  EXCEPT !.stage = "deliver", !.cursor = CursorAfter(s), !.missed = Missed(s)]
  BY DEF backfillClaims
<1> DEFINE queue == run.queue \cup Wanted({unseenKey(stamp) : stamp \in Unreported(s)})
           cursor == CursorAfter(s)
           missed == Missed(s)
<1>2. /\ UNCHANGED <<world, disk, mailed, skipped, faults>> /\ run.stage = "logs" /\ DOMAIN run = RunFields
  BY DEF backfillClaims, RunInv
<1>3. run' = [[run EXCEPT !.queue = queue] EXCEPT !.stage = "deliver", !.cursor = cursor, !.missed = missed]
  BY <1>1 DEF Queued
<1> HIDE DEF queue, cursor, missed
<1>4. /\ DOMAIN run' = RunFields /\ run'.state = run.state /\ run'.head = run.head
      /\ run'.cursor = cursor /\ run'.stage = "deliver" /\ run'.keep = run.keep /\ run'.queue = queue
      /\ run'.missed = missed
  BY <1>2, <1>3 DEF RunFields
<1> QED
  BY <1>1, <1>2, <1>4 DEF queue, cursor, missed

\* A step of a run keeps the run, and the state file, in order.
LEMMA RunGoesOn ==
  ASSUME WorldInv, RunInv, [Next]_vars
  PROVE  RunInv'
<1>1. now \in Nat /\ now' \in Nat /\ now' >= now
  BY WorldGoesOn, MaxTimeAssumption DEF WorldInv, SwitchSound, ClockTypeOK
<1>2. /\ MAX_ATTEMPTS \in Nat /\ MAX_ATTEMPTS # 0 /\ MaxFaults \in Nat
  BY WatcherConstants DEF WatcherAssumption
<1>3. CASE UNCHANGED <<disk, run, mailed, skipped, faults>>
  BY <1>1, <1>3, StateFitsOn DEF RunInv
<1>4. CASE Start
  BY <1>1, <1>4, StateFitsOn DEF Start, world, switchVars, RunInv, Off, EmptyState, RunFields, NoCursor, StateFits
<1>5. CASE ReadOpen
  <2>1. PICK keys :
          /\ UNCHANGED <<world, disk, mailed, skipped, faults>> /\ run.stage = "open"
          /\ DOMAIN run' = RunFields /\ run'.state = run.state /\ run'.head = run.head
          /\ run'.cursor = run.cursor /\ run'.stage \in {"gone", "logs"}
          /\ run'.keep \in {"seen", "unseen"} /\ run'.queue \in {Wanted(keys), {}}
    BY <1>5, OpenRead
  <2>2. QueueFits(run'.queue, run.state)
    BY <2>1, WantedFit DEF QueueFits
  <2> QED
    BY <1>1, <2>1, <2>2 DEF RunInv, QueueFits, world, switchVars
<1>6. CASE ReadOpenFails \/ TerminalReadFails \/ BackfillFails
  <2>1. /\ UNCHANGED <<now, disk, mailed>> /\ Faulty /\ run.stage \in {"open", "gone", "logs"}
        /\ \/ run' = [run EXCEPT !.stage = "deliver"]
           \/ run' = [run EXCEPT !.stage = "logs", !.keep = "seen"]
    BY <1>6 DEF ReadOpenFails, TerminalReadFails, BackfillFails, world, switchVars
  <2>2. faults' \in 0..MaxFaults
    BY <1>2, <2>1 DEF Faulty, RunInv
  <2>3. /\ DOMAIN run' = DOMAIN run /\ run'.stage \in {"logs", "deliver"} /\ run'.keep \in {run.keep, "seen"}
        /\ run'.queue = run.queue /\ run'.state = run.state /\ run'.head = run.head /\ run'.cursor = run.cursor
    BY <2>1 DEF RunInv, RunFields
  <2> QED
    BY <1>1, <2>1, <2>2, <2>3 DEF RunInv
<1>7. CASE terminalAlerts
  <2>1. PICK s, keys :
          /\ UNCHANGED <<world, disk, mailed, skipped, faults>> /\ run.stage = "gone"
          /\ DOMAIN run' = RunFields /\ run'.state = run.state /\ run'.head = run.head
          /\ run'.cursor = run.cursor /\ run'.stage = "logs" /\ run'.keep = Kept(s)
          /\ run'.queue \in {run.queue \cup Wanted(keys), run.queue}
    BY <1>7, TerminalRead
  <2>2. QueueFits(run'.queue, run.state)
    BY <2>1, WantedFit DEF QueueFits, RunInv
  <2> QED
    BY <1>1, <2>1, <2>2 DEF RunInv, QueueFits, world, switchVars, Kept
<1>8. CASE backfillClaims
  <2>1. PICK s, keys :
          /\ UNCHANGED <<world, disk, mailed, skipped, faults>> /\ run.stage = "logs"
          /\ DOMAIN run' = RunFields /\ run'.state = run.state /\ run'.head = run.head
          /\ run'.cursor = CursorAfter(s) /\ run'.stage = "deliver" /\ run'.keep = run.keep
          /\ run'.queue = run.queue \cup Wanted(keys)
    BY <1>8, LogsRead
  <2>2. QueueFits(run'.queue, run.state)
    BY <2>1, WantedFit DEF QueueFits, RunInv
  <2>3. CursorAfter(s) \in Int /\ 0 <= CursorAfter(s) /\ CursorAfter(s) <= now
    BY <1>1, <2>1, CursorBounds
  <2> QED
    BY <1>1, <2>1, <2>2, <2>3 DEF RunInv, QueueFits, NoCursor, world, switchVars
<1>9. ASSUME NEW key \in run.queue, Deliver(key) PROVE RunInv'
  <2>1. /\ UNCHANGED <<now, disk, faults>> /\ run.stage = "deliver" /\ mailed' = mailed \cup {key}
        /\ run' = [run EXCEPT !.queue = @ \ {key}, !.state = run'.state]
        /\ run'.state = [run.state EXCEPT !.sent = @ \cup {key}, !.fail = Restrict(@, DOMAIN @ \ {key})]
    BY <1>9 DEF Deliver, world, switchVars, RunInv, RunFields, StateFits, StateFields
  <2>2. /\ run'.state.sent = run.state.sent \cup {key} /\ DOMAIN run'.state = StateFields
        /\ run'.state.seen = run.state.seen /\ run'.state.scan = run.state.scan
        /\ DOMAIN run'.state.fail = DOMAIN run.state.fail \ {key}
        /\ \A k \in DOMAIN run'.state.fail : run'.state.fail[k] = run.state.fail[k]
    BY <2>1 DEF RunInv, StateFits, StateFields, Restrict
  <2>3. StateFits(run'.state, mailed', now')
    BY <2>1, <2>2 DEF RunInv, StateFits
  <2>4. QueueFits(run'.queue, run'.state)
    <3>1. run'.queue = run.queue \ {key}
      BY <2>1 DEF RunInv, RunFields
    <3>2. \A k : k # key => Attempts(run'.state, k) = Attempts(run.state, k)
      BY <2>2 DEF Attempts
    <3> QED
      BY <2>2, <3>1, <3>2 DEF QueueFits, RunInv
  <2>5. StateFits(disk', mailed', now')
    BY <1>1, <2>1, StateFitsOn DEF RunInv
  <2> QED
    BY <1>1, <2>1, <2>2, <2>3, <2>4, <2>5 DEF RunInv, QueueFits, RunFields
<1>10. ASSUME NEW key \in run.queue, DeliveryFails(key) PROVE RunInv'
  <2>1. /\ UNCHANGED <<now, disk, mailed>> /\ run.stage = "deliver"
        /\ run' = [run EXCEPT !.queue = @ \ {key}, !.state = run'.state]
        /\ run'.state = [run.state EXCEPT !.fail = [k \in DOMAIN @ \cup {key} |->
                              IF k = key THEN Attempts(run.state, key) + 1 ELSE @[k]]]
    BY <1>10 DEF DeliveryFails, world, switchVars, RunInv, RunFields, StateFits, StateFields
  <2>2. /\ run'.state.sent = run.state.sent /\ DOMAIN run'.state = StateFields
        /\ run'.state.seen = run.state.seen /\ run'.state.scan = run.state.scan
        /\ run'.state.fail = [k \in DOMAIN run.state.fail \cup {key} |->
                              IF k = key THEN Attempts(run.state, key) + 1 ELSE run.state.fail[k]]
    BY <2>1 DEF RunInv, StateFits, StateFields
  <2>3. Attempts(run.state, key) \in 0..(MAX_ATTEMPTS - 1) /\ key \notin run.state.sent
    BY <1>2 DEF RunInv, StateFits, Attempts
  <2>4. StateFits(run'.state, mailed', now')
    BY <1>2, <2>1, <2>2, <2>3 DEF RunInv, StateFits
  <2>5. QueueFits(run'.queue, run'.state)
    <3>1. run'.queue = run.queue \ {key}
      BY <2>1 DEF RunInv, RunFields
    <3>2. \A k : k # key => Attempts(run'.state, k) = Attempts(run.state, k)
      BY <2>2 DEF Attempts
    <3> QED
      BY <2>2, <3>1, <3>2 DEF QueueFits, RunInv
  <2>6. faults' \in 0..MaxFaults
    BY <1>2, <1>10 DEF DeliveryFails, Faulty, RunInv
  <2> QED
    BY <1>1, <2>1, <2>2, <2>4, <2>5, <2>6 DEF RunInv, QueueFits, RunFields
<1>11. CASE TransportUnavailable
  BY <1>1, <1>2, <1>11 DEF TransportUnavailable, Faulty, world, switchVars, RunInv, RunFields
<1>12. Off.state = EmptyState /\ StateFits(EmptyState, mailed, now)
  BY <1>1 DEF Off, EmptyState, StateFits, StateFields, NoCursor
<1>13. CASE Save
  <2>1. StateFits(Committed, mailed, now)
    BY <1>13, <1>1 DEF Save, Committed, RunInv, StateFits, StateFields, NoCursor
  <2> QED
    BY <1>1, <1>12, <1>13, <2>1 DEF Save, world, switchVars, RunInv, Off, RunFields, NoCursor
<1>14. CASE Crash
  BY <1>1, <1>2, <1>12, <1>14 DEF Crash, Faulty, world, switchVars, RunInv, Off, RunFields, NoCursor
<1>15. CASE VaultMoves \/ CatchUp \/ TimePasses
  BY <1>3, <1>15 DEF VaultMoves, CatchUp, TimePasses
<1> QED
  BY <1>3, <1>4, <1>5, <1>6, <1>7, <1>8, <1>9, <1>10, <1>11, <1>13, <1>14, <1>15
     DEF Next, RunSteps, RunFaults, vars

-----------------------------------------------------------------------------
(* What is mailed.                                                          *)

\* The keys of the alerts of a vault s: none is of an end, and those of a ladder are
\* called for by s.
LEMMA AlertsAre ==
  ASSUME NEW s \in Switches, NEW t, NEW head, NEW funded, NEW sent,
         NEW k \in ownerAlerts(s, t, head, funded, sent) \cup heirAlerts(s, t, head)
  PROVE  /\ k[1] \notin {"terminal", "heir-terminal", "settled-unseen"}
         /\ k[1] = "reminder" =>
               /\ k = <<"reminder", s.deadline, k[3]>>
               /\ CalledFor(ReminderTiers, s.period, s.deadline, k[3], head)
         /\ k[1] = "claim-tier" =>
               /\ k = <<"claim-tier", s.claimedAt, k[3]>> /\ claimKey(s.claimedAt) \in sent
               /\ CalledFor(VetoTiers, s.window, s.claimedAt + s.window, k[3], head)
<1>1. CASE k \in Reminders(s, head, sent)
  <2>1. PICK u \in MostUrgent({v \in ReminderTiers : v < s.period /\ s.deadline - head <= v}) :
          k = <<"reminder", s.deadline, u>>
    BY <1>1 DEF Reminders
  <2>2. k[1] = "reminder" /\ k[2] = s.deadline /\ k[3] = u
    BY <2>1
  <2>3. CalledFor(ReminderTiers, s.period, s.deadline, u, head)
    BY DEF MostUrgent, CalledFor, DueTier
  <2> QED
    BY <2>1, <2>2, <2>3
<1>2. CASE k \in ClaimAlerts(s, head, sent)
  <2>1. CASE claimKey(s.claimedAt) \notin sent
    BY <1>2, <2>1 DEF ClaimAlerts, claimKey
  <2>2. CASE claimKey(s.claimedAt) \in sent
    <3>1. PICK u \in MostUrgent({v \in VetoTiers : v < s.window /\ FinalizableAt(s) - head <= v}) :
            k = <<"claim-tier", s.claimedAt, u>>
      BY <1>2, <2>2 DEF ClaimAlerts
    <3>2. k[1] = "claim-tier" /\ k[2] = s.claimedAt /\ k[3] = u
      BY <3>1
    <3>3. CalledFor(VetoTiers, s.window, s.claimedAt + s.window, u, head)
      BY DEF MostUrgent, CalledFor, DueTier, FinalizableAt
    <3> QED
      BY <2>2, <3>1, <3>2, <3>3
  <2> QED
    BY <2>1, <2>2
<1>3. CASE k \notin Reminders(s, head, sent) \cup ClaimAlerts(s, head, sent)
  <2>1. k[1] \in {"horizon", "expired", "heir-mismatch", "heir-claimable", "heir-finalizable"}
    BY <1>3 DEF ownerAlerts, HorizonAlerts, heirAlerts
  <2> QED
    BY <2>1
<1> QED
  BY <1>1, <1>2, <1>3

\* The other steps queue nothing, and mail at most what is queued.
LEMMA OnlyReadsQueue ==
  ASSUME RunInv, [Next]_vars, ~ReadOpen, ~terminalAlerts, ~backfillClaims
  PROVE  /\ run'.queue \subseteq run.queue /\ (run'.queue = {} \/ run'.head = run.head)
         /\ \/ mailed' = mailed
            \/ \E key \in run.queue : mailed' = mailed \cup {key} /\ run.stage = "deliver"
<1>1. DOMAIN run = RunFields
  BY DEF RunInv
<1>2. CASE Start \/ Save \/ Crash \/ TransportUnavailable
  <2>1. mailed' = mailed
    BY <1>2 DEF Start, Save, Crash, TransportUnavailable
  <2>2. run'.queue = {}
    <3>1. Off.queue = {} /\ DOMAIN Off = RunFields
      BY DEF Off, RunFields
    <3>2. run' = Off \/ (\E state, head : run' = [Off EXCEPT !.stage = "open", !.state = state, !.head = head])
            \/ run' = [run EXCEPT !.queue = {}]
      BY <1>2 DEF Start, Save, Crash, TransportUnavailable
    <3> QED
      BY <1>1, <3>1, <3>2 DEF RunFields
  <2> QED
    BY <2>1, <2>2
<1>3. CASE ReadOpenFails \/ TerminalReadFails \/ BackfillFails
  <2>1. /\ mailed' = mailed
        /\ \/ run' = [run EXCEPT !.stage = "deliver"]
           \/ run' = [run EXCEPT !.stage = "logs", !.keep = "seen"]
    BY <1>3 DEF ReadOpenFails, TerminalReadFails, BackfillFails
  <2> QED
    BY <1>1, <2>1 DEF RunFields
<1>4. ASSUME NEW key \in run.queue, Deliver(key) \/ DeliveryFails(key)
      PROVE  /\ run'.queue = run.queue \ {key} /\ run'.head = run.head
             /\ mailed' = mailed \/ (mailed' = mailed \cup {key} /\ run.stage = "deliver")
  <2>1. CASE Deliver(key)
    <3>1. PICK state : run' = [run EXCEPT !.queue = @ \ {key}, !.state = state]
      BY <1>1, <2>1 DEF Deliver, RunFields
    <3> QED
      BY <1>1, <2>1, <3>1 DEF Deliver, RunFields
  <2>2. CASE DeliveryFails(key)
    <3>1. PICK state : run' = [run EXCEPT !.queue = @ \ {key}, !.state = state]
      BY <1>1, <2>2 DEF DeliveryFails, RunFields
    <3> QED
      BY <1>1, <2>2, <3>1 DEF DeliveryFails, RunFields
  <2> QED
    BY <1>4, <2>1, <2>2
<1>5. CASE UNCHANGED <<run, mailed>>
  BY <1>5
<1> QED
  BY <1>2, <1>3, <1>4, <1>5 DEF Next, RunSteps, RunFaults, VaultMoves, CatchUp, TimePasses, vars

\* Only an end is announced as one.
LEMMA EndsGoOn ==
  ASSUME WorldInv, RunInv, EndInv, [Next]_vars
  PROVE  EndInv'
<1>1. IsTerminal(switch) => switch' = switch
  BY WorldGoesOn
<1>2. CASE Announced' \subseteq Announced
  BY <1>1, <1>2 DEF EndInv, IsTerminal
<1>3. ASSUME NEW s \in {switch, older}, IsTerminal(s) PROVE s = switch
  BY <1>3 DEF WorldInv
<1>4. CASE ReadOpen
  <2>1. PICK s \in {switch, older}, funded \in BOOLEAN :
          /\ UNCHANGED <<switch, mailed>>
          /\ run'.queue \subseteq ownerAlerts(s, now, run.head, funded, run.state.sent)
                                    \cup heirAlerts(s, now, run.head)
    BY <1>4, OpenRead DEF world, switchVars, Wanted
  <2>2. \A k \in run'.queue : k[1] \notin {"terminal", "heir-terminal", "settled-unseen"}
    <3>1. s \in Switches
      BY DEF WorldInv, SwitchSound
    <3> QED
      BY <2>1, <3>1, AlertsAre
  <2>3. /\ terminalKey \notin run'.queue /\ heirTerminalKey \notin run'.queue
        /\ \A stamp : unseenKey(stamp) \notin run'.queue
    BY <2>2 DEF terminalKey, heirTerminalKey, unseenKey
  <2> QED
    BY <2>1, <2>3 DEF EndInv, Announced, IsTerminal
<1>5. CASE terminalAlerts
  <2>1. PICK s \in {switch, older} :
          /\ UNCHANGED <<switch, mailed>>
          /\ run'.queue = run.queue \cup (IF IsTerminal(s) THEN Wanted(TerminalKeys(s)) ELSE {})
    BY <1>5, TerminalRead DEF world, switchVars
  <2>2. CASE IsTerminal(s)
    <3>1. s = switch
      BY <1>3, <2>2
    <3>2. \A k \in run'.queue \ run.queue :
            k = terminalKey \/ (k = heirTerminalKey /\ switch.phase = "settled")
      BY <2>1, <3>1 DEF Wanted, TerminalKeys
    <3> QED
      BY <2>1, <2>2, <3>1, <3>2 DEF EndInv, Announced, terminalKey, heirTerminalKey, unseenKey, IsTerminal
  <2> QED
    BY <1>2, <2>1, <2>2 DEF Announced
<1>6. CASE backfillClaims
  <2>1. PICK s \in {switch, older} :
          /\ UNCHANGED <<switch, mailed>>
          /\ run'.queue = run.queue \cup Wanted({unseenKey(stamp) : stamp \in Unreported(s)})
    BY <1>6, LogsRead DEF world, switchVars
  <2>2. \A k \in run'.queue \ run.queue :
          k = unseenKey(s.claimedAt) /\ s.phase = "settled"
    BY <2>1 DEF Wanted, Unreported
  <2>3. s.phase = "settled" => s = switch
    BY <1>3 DEF IsTerminal
  <2> QED
    BY <2>1, <2>2, <2>3 DEF EndInv, Announced, terminalKey, heirTerminalKey, unseenKey, IsTerminal
<1> QED
  BY <1>2, <1>4, <1>5, <1>6, OnlyReadsQueue DEF Announced

\* No head is read before an earlier one.
LEMMA HeadsGoOn ==
  ASSUME WorldInv, RunInv, [Next]_vars
  PROVE  LastHead \in Int /\ LastHead' \in Int /\ LastHead <= LastHead' /\ (run.stage # "off" => LastHead = run.head)
<1>1. now \in Nat /\ now' \in Nat /\ now' >= now
  BY WorldGoesOn, MaxTimeAssumption DEF WorldInv, SwitchSound, ClockTypeOK
<1>2. DOMAIN run = RunFields /\ RunInv'
  BY RunGoesOn DEF RunInv
<1>3. CASE run.stage = "off"
  <2>1. \/ run'.stage = "open" /\ run'.head = now - 1
        \/ run' = run
    BY <1>3 DEF Next, RunSteps, RunFaults, Start, ReadOpen, ReadOpenFails, terminalAlerts, TerminalReadFails,
         backfillClaims, BackfillFails, Deliver, DeliveryFails, TransportUnavailable, Save, Crash,
         VaultMoves, CatchUp, TimePasses, vars, Off
  <2> QED
    BY <1>1, <1>3, <2>1 DEF LastHead
<1>4. CASE run.stage # "off"
  <2>1. run.head \in Int /\ run.head < now /\ (run'.stage # "off" => run'.head \in Int)
    BY <1>2, <1>4 DEF RunInv
  <2>2. run'.stage = "off" \/ run'.head = run.head
    <3>1. CASE ReadOpen
      BY <3>1, OpenRead
    <3>2. CASE terminalAlerts
      BY <3>2, TerminalRead
    <3>3. CASE backfillClaims
      BY <3>3, LogsRead
    <3>4. CASE Save \/ Crash
      BY <3>4 DEF Save, Crash, Off
    <3>5. CASE ReadOpenFails \/ TerminalReadFails \/ BackfillFails
      <4>1. \/ run' = [run EXCEPT !.stage = "deliver"]
            \/ run' = [run EXCEPT !.stage = "logs", !.keep = "seen"]
        BY <3>5 DEF ReadOpenFails, TerminalReadFails, BackfillFails
      <4> QED
        BY <1>2, <4>1 DEF RunFields
    <3>6. ASSUME NEW key, Deliver(key) \/ DeliveryFails(key) PROVE run'.head = run.head
      <4>1. PICK state : run' = [run EXCEPT !.queue = @ \ {key}, !.state = state]
        <5>1. CASE Deliver(key)
          BY <1>2, <5>1 DEF Deliver, RunFields
        <5>2. CASE DeliveryFails(key)
          BY <1>2, <5>2 DEF DeliveryFails, RunFields
        <5> QED
          BY <3>6, <5>1, <5>2
      <4> QED
        BY <1>2, <4>1 DEF RunFields
    <3>7. CASE TransportUnavailable
      BY <1>2, <3>7 DEF TransportUnavailable, RunFields
    <3>8. CASE UNCHANGED run
      BY <3>8
    <3> QED
      BY <1>4, <3>1, <3>2, <3>3, <3>4, <3>5, <3>6, <3>7, <3>8
         DEF Next, Start, RunSteps, RunFaults, VaultMoves, CatchUp, TimePasses, vars
  <2> QED
    BY <1>1, <1>4, <2>1, <2>2 DEF LastHead
<1> QED
  BY <1>3, <1>4

\* What a step mails was queued, in a run whose head is the last one.
LEMMA MailedIsQueued ==
  ASSUME WorldInv, RunInv, [Next]_vars, NEW k \in mailed' \ mailed
  PROVE  k \in run.queue /\ run.stage = "deliver" /\ LastHead = run.head
<1>1. k \in run.queue /\ run.stage = "deliver"
  <2>1. CASE ReadOpen
    BY <2>1, OpenRead
  <2>2. CASE terminalAlerts
    BY <2>2, TerminalRead
  <2>3. CASE backfillClaims
    BY <2>3, LogsRead
  <2> QED
    BY <2>1, <2>2, <2>3, OnlyReadsQueue
<1> QED
  BY <1>1, HeadsGoOn

\* What a step queues is called for by the vault at the head of the run.
LEMMA ReadsQueueRightly ==
  ASSUME WorldInv, RunInv, [Next]_vars, NEW k \in run'.queue \ run.queue
  PROVE  /\ switch.phase # "none" /\ UNCHANGED <<switch, mailed>> /\ run'.head = run.head
         /\ QueuedRightly(k, run.head)
<1>1. /\ switch \in Switches /\ older \in Switches
      /\ older.phase # "none" => /\ switch.phase # "none"
                                 /\ older.period = switch.period /\ older.window = switch.window
  BY DEF WorldInv, SwitchSound
<1>2. CASE ReadOpen
  <2>1. PICK s \in {switch, older}, funded \in BOOLEAN :
          /\ UNCHANGED <<switch, mailed>> /\ run'.head = run.head /\ IsLive(s)
          /\ k \in ownerAlerts(s, now, run.head, funded, run.state.sent)
                   \cup heirAlerts(s, now, run.head)
    BY <1>2, OpenRead DEF world, switchVars, Wanted
  <2>2. /\ s \in Switches /\ switch.phase # "none"
        /\ s.period = switch.period /\ s.window = switch.window
    BY <1>1, <2>1 DEF IsLive
  <2>3. s.deadline \in Nat /\ s.claimedAt \in Nat
    BY <2>2 DEF Switches
  <2>4. run.state.sent \subseteq mailed
    BY DEF RunInv, StateFits
  <2>5. CASE k[1] = "reminder"
    <3>1. /\ k = <<"reminder", s.deadline, k[3]>>
          /\ CalledFor(ReminderTiers, s.period, s.deadline, k[3], run.head)
      BY <2>1, <2>2, <2>5, AlertsAre
    <3>2. k[2] = s.deadline
      BY <3>1
    <3> QED
      BY <2>1, <2>2, <2>3, <2>5, <3>1, <3>2 DEF QueuedRightly
  <2>6. CASE k[1] = "claim-tier"
    <3>1. /\ k = <<"claim-tier", s.claimedAt, k[3]>> /\ claimKey(s.claimedAt) \in run.state.sent
          /\ CalledFor(VetoTiers, s.window, s.claimedAt + s.window, k[3], run.head)
      BY <2>1, <2>2, <2>6, AlertsAre
    <3>2. k[2] = s.claimedAt
      BY <3>1
    <3> QED
      BY <2>1, <2>2, <2>3, <2>4, <2>6, <3>1, <3>2 DEF QueuedRightly
  <2> QED
    BY <2>1, <2>2, <2>5, <2>6 DEF QueuedRightly
<1>3. CASE terminalAlerts
  <2>1. PICK s \in {switch, older} :
          /\ UNCHANGED <<switch, mailed>> /\ run'.head = run.head
          /\ IsTerminal(s) /\ k \in TerminalKeys(s)
    BY <1>3, TerminalRead DEF world, switchVars, Wanted
  <2>2. k[1] \in {"terminal", "heir-terminal"}
    BY <2>1 DEF TerminalKeys, terminalKey, heirTerminalKey
  <2> QED
    BY <1>1, <2>1, <2>2 DEF IsTerminal, QueuedRightly
<1>4. CASE backfillClaims
  <2>1. PICK s, stamp :
          /\ s \in {switch, older} /\ UNCHANGED <<switch, mailed>> /\ run'.head = run.head
          /\ s.phase = "settled" /\ k = unseenKey(stamp)
    BY <1>4, LogsRead DEF world, switchVars, Wanted, Unreported
  <2>2. k[1] = "settled-unseen"
    BY <2>1 DEF unseenKey
  <2> QED
    BY <1>1, <2>1, <2>2 DEF QueuedRightly
<1> QED
  BY <1>2, <1>3, <1>4, OnlyReadsQueue

\* A tier that is due stays due.
LEMMA DueGoesOn ==
  ASSUME NEW tiers, tiers \subseteq Nat, NEW span, NEW end \in Int, NEW t, NEW h \in Int, NEW g \in Int,
         DueTier(tiers, span, end, t, h), h <= g
  PROVE  DueTier(tiers, span, end, t, g)
BY DEF DueTier

\* The ladders are climbed with the head of the runs.
LEMMA LaddersGoOn ==
  ASSUME WorldInv, RunInv, LadderInv, [Next]_vars
  PROVE  LadderInv'
<1>1. LastHead \in Int /\ LastHead' \in Int /\ LastHead <= LastHead'
  BY HeadsGoOn
<1>2. switch.phase # "none" =>
        switch'.phase # "none" /\ switch'.period = switch.period /\ switch'.window = switch.window
  BY WorldGoesOn
<1>3. ReminderTiers \subseteq Nat /\ VetoTiers \subseteq Nat
  BY WatcherConstants DEF RemindersAssumption
<1>4. switch \in Switches
  BY DEF WorldInv, SwitchSound
<1>5. \A k \in mailed' \ mailed : k \in run.queue /\ LastHead = run.head
  BY MailedIsQueued
<1>6. mailed \subseteq mailed'
  <2>1. CASE ReadOpen \/ terminalAlerts \/ backfillClaims
    BY <2>1 DEF ReadOpen, terminalAlerts, backfillClaims
  <2> QED
    BY <2>1, OnlyReadsQueue
<1>7. CASE switch.phase = "none"
  <2>1. mailed = {} /\ run.queue = {}
    BY <1>7 DEF LadderInv, Announced
  <2>2. mailed' = {} /\ run'.queue = {}
    BY <1>5, <1>7, <2>1, ReadsQueueRightly
  <2> QED
    BY <2>2 DEF LadderInv, Announced
<1>8. CASE switch.phase # "none"
  <2>1. ASSUME NEW k \in run'.queue PROVE QueuedRightly(k, run.head)'
    <3>1. QueuedRightly(k, run.head) /\ run'.head = run.head
      <4>1. CASE k \notin run.queue
        BY <2>1, <4>1, ReadsQueueRightly
      <4>2. CASE k \in run.queue
        <5>1. run'.head = run.head
          BY <2>1, OnlyReadsQueue, OpenRead, TerminalRead, LogsRead
        <5> QED
          BY <4>2, <5>1 DEF LadderInv
      <4> QED
        BY <4>1, <4>2
    <3> QED
      BY <1>2, <1>6, <1>8, <3>1 DEF QueuedRightly
  <2>2. ASSUME NEW d, NEW t, <<"reminder", d, t>> \in mailed'
        PROVE  d \in Nat /\ DueTier(ReminderTiers, switch.period, d, t, LastHead')
    <3>1. d \in Nat /\ DueTier(ReminderTiers, switch.period, d, t, LastHead)
      <4> DEFINE k == <<"reminder", d, t>>
      <4>1. k[1] = "reminder" /\ k[2] = d /\ k[3] = t
        OBVIOUS
      <4>2. CASE k \in mailed
        BY <4>2 DEF LadderInv
      <4>3. CASE k \in mailed' \ mailed
        <5>1. QueuedRightly(k, run.head) /\ LastHead = run.head
          BY <1>5, <4>3 DEF LadderInv
        <5> HIDE DEF k
        <5> QED
          BY <4>1, <5>1 DEF QueuedRightly, CalledFor
      <4> QED
        BY <2>2, <4>2, <4>3
    <3>2. d \in Int
      BY <3>1
    <3> QED
      BY <1>1, <1>3, <3>1, <3>2, DueGoesOn
  <2>3. ASSUME NEW c, NEW t, <<"claim-tier", c, t>> \in mailed'
        PROVE  c \in Nat /\ DueTier(VetoTiers, switch.window, c + switch.window, t, LastHead')
    <3>1. c \in Nat /\ DueTier(VetoTiers, switch.window, c + switch.window, t, LastHead)
      <4> DEFINE k == <<"claim-tier", c, t>>
      <4>1. k[1] = "claim-tier" /\ k[2] = c /\ k[3] = t
        OBVIOUS
      <4>2. CASE k \in mailed
        BY <4>2 DEF LadderInv
      <4>3. CASE k \in mailed' \ mailed
        <5>1. QueuedRightly(k, run.head) /\ LastHead = run.head
          BY <1>5, <4>3 DEF LadderInv
        <5> HIDE DEF k
        <5> QED
          BY <4>1, <5>1 DEF QueuedRightly, CalledFor
      <4> QED
        BY <2>3, <4>2, <4>3
    <3>2. c + switch.window \in Int
      BY <1>4, <3>1 DEF Switches
    <3> QED
      BY <1>1, <1>3, <3>1, <3>2, DueGoesOn
  <2> QED
    BY <1>2, <1>8, <2>1, <2>2, <2>3 DEF LadderInv
<1> QED
  BY <1>7, <1>8

\* A mail of a ladder comes before every more urgent one of the same ladder.
LEMMA StepsNeverBack ==
  ASSUME WorldInv, RunInv, LadderInv, [Next]_vars
  PROVE  NeverStepsBackStep
<1>1. /\ ReminderTiers \subseteq Nat /\ VetoTiers \subseteq Nat
  BY WatcherConstants DEF RemindersAssumption
<1> SUFFICES ASSUME NEW k \in mailed' \ mailed
             PROVE  /\ k[1] \in {"reminder", "claim-tier"} =>
                          \A u \in ReminderTiers \cup VetoTiers : <<k[1], k[2], u>> \in mailed => u > k[3]
                    /\ k[1] = "claim-tier" => claimKey(k[2]) \in mailed
  BY DEF NeverStepsBackStep
<1>2. QueuedRightly(k, LastHead)
  BY MailedIsQueued DEF LadderInv
<1>3. CASE k[1] = "reminder"
  <2>1. /\ k = <<"reminder", k[2], k[3]>> /\ k[3] \in Nat
        /\ \A u \in ReminderTiers : DueTier(ReminderTiers, switch.period, k[2], u, LastHead) => k[3] <= u
    BY <1>1, <1>2, <1>3 DEF QueuedRightly, CalledFor, DueTier
  <2>2. ASSUME NEW u \in ReminderTiers \cup VetoTiers, <<"reminder", k[2], u>> \in mailed PROVE u > k[3]
    <3>1. u \in ReminderTiers /\ k[3] <= u /\ u # k[3]
      BY <2>1, <2>2 DEF LadderInv, DueTier
    <3>2. u \in Nat /\ k[3] \in Nat
      BY <1>1, <2>1, <3>1
    <3> QED
      BY <3>1, <3>2
  <2> QED
    BY <1>3, <2>2
<1>4. CASE k[1] = "claim-tier"
  <2>1. /\ k = <<"claim-tier", k[2], k[3]>> /\ k[3] \in Nat /\ claimKey(k[2]) \in mailed
        /\ \A u \in VetoTiers :
              DueTier(VetoTiers, switch.window, k[2] + switch.window, u, LastHead) => k[3] <= u
    BY <1>1, <1>2, <1>4 DEF QueuedRightly, CalledFor, DueTier
  <2>2. ASSUME NEW u \in ReminderTiers \cup VetoTiers, <<"claim-tier", k[2], u>> \in mailed PROVE u > k[3]
    <3>1. u \in VetoTiers /\ k[3] <= u /\ u # k[3]
      BY <2>1, <2>2 DEF LadderInv, DueTier
    <3>2. u \in Nat /\ k[3] \in Nat
      BY <1>1, <2>1, <3>1
    <3> QED
      BY <3>1, <3>2
  <2> QED
    BY <1>4, <2>1, <2>2
<1> QED
  BY <1>3, <1>4

-----------------------------------------------------------------------------
(* The cursor.                                                              *)

\* What the steps that read nothing of the chain make of a run: it begins, it
\* is given up, or it goes on with what it knows.
LEMMA OtherStepsAre ==
  ASSUME RunInv, ProgramSteps, ~ReadOpen, ~terminalAlerts, ~backfillClaims, ~Save
  PROVE  /\ UNCHANGED <<disk, skipped>>
         /\ \/ run'.keep = "none" /\ run'.cursor = NoCursor /\ run'.stage \in {"off", "open"}
            \/ /\ run.stage = "open" /\ run'.stage = "deliver"
               /\ run'.keep = run.keep /\ run'.cursor = run.cursor
               /\ run'.head = run.head /\ run'.state = run.state /\ run'.missed = run.missed
            \/ /\ run.stage = "gone" /\ run'.stage = "logs" /\ run'.keep = "seen" /\ run'.cursor = run.cursor
               /\ run'.head = run.head /\ run'.state = run.state /\ run'.missed = run.missed
            \/ /\ run.stage \in {"logs", "deliver"} /\ run'.stage = "deliver"
               /\ run'.keep = run.keep /\ run'.cursor = run.cursor
               /\ run'.head = run.head /\ run.state.sent \subseteq run'.state.sent /\ run'.missed = run.missed
<1>1. DOMAIN run = RunFields /\ DOMAIN run.state = StateFields
  BY DEF RunInv, StateFits
<1>2. CASE Start \/ Crash
  <2>1. run' = Off \/ (\E state, head : run' = [Off EXCEPT !.stage = "open", !.state = state, !.head = head])
    BY <1>2 DEF Start, Crash
  <2>2. /\ run'.keep = "none" /\ run'.cursor = NoCursor /\ run'.stage \in {"off", "open"}
    <3>1. CASE run' = Off
      BY <3>1 DEF Off
    <3>2. ASSUME NEW state, NEW head, run' = [Off EXCEPT !.stage = "open", !.state = state, !.head = head]
          PROVE  run'.keep = "none" /\ run'.cursor = NoCursor /\ run'.stage = "open"
      BY <3>2 DEF Off
    <3> QED
      BY <2>1, <3>1, <3>2
  <2> QED
    BY <1>2, <2>2 DEF Start, Crash
<1>3. CASE ReadOpenFails
  BY <1>1, <1>3 DEF ReadOpenFails, RunFields
<1>4. CASE TerminalReadFails
  BY <1>1, <1>4 DEF TerminalReadFails, RunFields
<1>5. CASE BackfillFails
  BY <1>1, <1>5 DEF BackfillFails, RunFields
<1>6. CASE TransportUnavailable
  BY <1>1, <1>6 DEF TransportUnavailable, RunFields
<1>7. ASSUME NEW key, Deliver(key) \/ DeliveryFails(key)
      PROVE  /\ UNCHANGED <<disk, skipped>> /\ run.stage = "deliver" /\ run'.stage = "deliver"
             /\ run'.keep = run.keep /\ run'.cursor = run.cursor
             /\ run'.head = run.head /\ run.state.sent \subseteq run'.state.sent /\ run'.missed = run.missed
  <2>1. CASE Deliver(key)
    <3>1. PICK state : /\ run' = [run EXCEPT !.queue = @ \ {key}, !.state = state]
                       /\ state = [run.state EXCEPT !.sent = @ \cup {key},
                                                    !.fail = Restrict(@, DOMAIN @ \ {key})]
      BY <1>1, <2>1 DEF Deliver, RunFields
    <3>2. state.sent = run.state.sent \cup {key}
      BY <1>1, <3>1 DEF StateFields
    <3> QED
      BY <1>1, <2>1, <3>1, <3>2 DEF Deliver, RunFields
  <2>2. CASE DeliveryFails(key)
    <3>1. PICK state, fail : /\ run' = [run EXCEPT !.queue = @ \ {key}, !.state = state]
                       /\ state = [run.state EXCEPT !.fail = fail]
      BY <1>1, <2>2 DEF DeliveryFails, RunFields
    <3>2. state.sent = run.state.sent
      BY <1>1, <3>1 DEF StateFields
    <3> QED
      BY <1>1, <2>2, <3>1, <3>2 DEF DeliveryFails, RunFields
  <2> QED
    BY <1>7, <2>1, <2>2
<1> QED
  BY <1>2, <1>3, <1>4, <1>5, <1>6, <1>7 DEF ProgramSteps, RunSteps, RunFaults

\* Told once is told for good.
LEMMA ToldOn == ASSUME NEW sent, NEW more, sent \subseteq more, Told(sent) PROVE Told(more)
BY DEF Told

\* A run that is about to forget the vault and moves the cursor past its claim
\* finds that the owner was told, or skips the claim.
LEMMA PastMeansTold ==
  ASSUME WorldInv, RunInv, CursorInv, run.stage = "logs", run.keep = "unseen",
         NEW s \in {switch, older}, InClaim(switch), CursorAfter(s) > switch.claimedAt
  PROVE  Told(run.state.sent) \/ switch.claimedAt \in Missed(s) \cup skipped
<1>1. /\ now \in Nat /\ switch.claimedAt \in Nat /\ run.state.scan = disk.scan
      /\ disk.sent \subseteq run.state.sent /\ run.head \in Int
  BY MaxTimeAssumption DEF WorldInv, SwitchSound, ClockTypeOK, RunInv, Switches
<1>2. /\ run.state.scan \in Int /\ From \in Int /\ To \in Int /\ To <= run.head /\ 0 <= From
      /\ run.state.scan # NoCursor => From = run.state.scan
  BY <1>1, CursorBounds DEF RunInv, StateFits, From
<1>3. /\ ~disk.seen \/ terminalKey \in run.state.sent
      /\ switch.phase = "settled" \/ switch.claimedAt > run.head
  BY DEF CursorInv
<1>4. CASE disk.scan > switch.claimedAt
  <2>1. Told(disk.sent) \/ disk.seen \/ switch.claimedAt \in skipped
    BY <1>4 DEF CursorInv
  <2>2. terminalKey \in run.state.sent => Told(run.state.sent)
    BY DEF Told
  <2> QED
    BY <1>1, <1>3, <2>1, <2>2, ToldOn
<1>5. CASE ~(disk.scan > switch.claimedAt)
  <2>1. switch.phase = "settled"
    <3>1. SUFFICES ASSUME switch.claimedAt > run.head PROVE FALSE
      BY <1>3
    <3>2. CursorAfter(s) \in {Later(From, To + 1), run.state.scan}
      BY DEF CursorAfter
    <3>3. From > switch.claimedAt
      BY <1>1, <1>2, <1>5, <3>1, <3>2 DEF Later
    <3>4. run.state.scan = NoCursor /\ From = Later(0, run.head - LOG_PAGE)
      BY <1>1, <1>2, <1>5, <3>3 DEF From
    <3> QED
      BY <1>1, <3>1, <3>3, <3>4, WatcherConstants DEF Later, WatcherAssumption
  <2>2. switch.claimedAt \in logs
    BY DEF WorldInv
  <2>3. CASE run.state.scan = NoCursor \/ s # switch
    BY <1>1, <1>2, <1>5, <2>1, <2>2, <2>3 DEF Missed
  <2>4. CASE run.state.scan # NoCursor /\ s = switch
    <3>1. ~Unsent(switch) /\ To + 1 > switch.claimedAt
      BY <1>1, <1>2, <1>5, <2>4 DEF CursorAfter, Later
    <3>2. switch.claimedAt \in From..To
      BY <1>1, <1>2, <1>5, <2>4, <3>1
    <3>3. CASE claimKey(switch.claimedAt) \in run.state.sent
      BY <3>3 DEF Told
    <3>4. CASE claimKey(switch.claimedAt) \notin run.state.sent
      <4>1. switch.claimedAt \in Unreported(switch)
        BY <2>1, <2>2, <3>2, <3>4 DEF Unreported
      <4>2. unseenKey(switch.claimedAt) \in run.state.sent
        BY <3>1, <4>1 DEF Unsent
      <4> QED
        BY <4>2 DEF Told
    <3> QED
      BY <3>3, <3>4
  <2> QED
    BY <2>3, <2>4
<1> QED
  BY <1>4, <1>5

LEMMA CursorGoesOn ==
  ASSUME WorldInv, RunInv, CursorInv, [Next]_vars
  PROVE  CursorInv'
<1>1. /\ now \in Nat /\ now' \in Nat /\ switch \in Switches /\ switch.claimedAt \in Nat
  BY WorldGoesOn, MaxTimeAssumption DEF WorldInv, SwitchSound, ClockTypeOK, Switches
<1>2. /\ disk.scan \in Int /\ disk.scan <= now /\ run.cursor \in Int /\ run.cursor <= now
      /\ run.state.scan \in Int
  BY DEF RunInv, StateFits
<1>3. run.stage # "off" => /\ run.head \in Int /\ run.head < now
                          /\ run.state.seen = disk.seen /\ run.state.scan = disk.scan
                          /\ disk.sent \subseteq run.state.sent
  BY DEF RunInv
\* The vault moves, or nothing does.
<1>4. CASE UNCHANGED <<disk, run, skipped>>
  <2>1. InClaim(switch') =>
          \/ switch'.claimedAt = now
          \/ /\ InClaim(switch) /\ switch'.claimedAt = switch.claimedAt
             /\ switch.phase = "settled" => switch'.phase = "settled"
    BY WorldGoesOn
  <2>2. CASE ~InClaim(switch') \/ switch'.claimedAt = now
    BY <1>1, <1>2, <1>3, <1>4, <2>2 DEF CursorInv
  <2>3. CASE /\ InClaim(switch) /\ switch'.claimedAt = switch.claimedAt
             /\ switch.phase = "settled" => switch'.phase = "settled"
    <3>1. \A sent : Told(sent) => Told(sent)'
      BY <2>3 DEF Told
    <3>2. /\ Told(disk.sent) => Told(disk.sent)'
          /\ Told(run.state.sent) => Told(run.state.sent)'
      BY <1>4, <2>3 DEF Told
    <3> QED
      BY <1>4, <2>3, <3>2 DEF CursorInv
  <2> QED
    BY <2>1, <2>2, <2>3
\* A step of the program leaves the vault alone.
<1>5. ASSUME ProgramSteps PROVE UNCHANGED switch
  BY <1>5, ProgramLeavesTheWorld DEF world, switchVars
<1>6. CASE ReadOpen
  <2>1. PICK s \in {switch, older} :
          /\ UNCHANGED <<disk, switch, skipped>> /\ run.stage = "open"
          /\ run'.state = run.state /\ run'.head = run.head /\ run'.cursor = run.cursor
          /\ \/ /\ IsLive(s) /\ run'.stage = "logs" /\ run'.keep = "seen"
             \/ /\ ~IsLive(s) /\ run'.keep = "unseen"
                /\ run'.stage = IF run.state.seen THEN "gone" ELSE "logs"
    BY <1>6, OpenRead DEF world, switchVars
  <2>2. run.cursor = NoCursor
    BY <2>1 DEF RunInv
  <2>3. ~IsLive(s) /\ InClaim(switch) => switch.phase = "settled"
    <3>1. s \in Switches /\ (IsTerminal(s) => s = switch)
          /\ (s.phase = "none" => switch.phase \in {"none", "active"})
      BY DEF WorldInv, SwitchSound
    <3> QED
      BY <3>1 DEF IsLive, IsTerminal, InClaim, Switches
  <2> QED
    BY <1>1, <1>3, <2>1, <2>2, <2>3 DEF CursorInv, NoCursor, Told
<1>7. CASE terminalAlerts
  <2>1. PICK s \in {switch, older} :
          /\ UNCHANGED <<disk, switch, skipped>> /\ run.stage = "gone"
          /\ run'.state = run.state /\ run'.head = run.head
          /\ run'.cursor = run.cursor /\ run'.stage = "logs" /\ run'.keep = Kept(s)
    BY <1>7, TerminalRead DEF world, switchVars
  <2>2. run.cursor = NoCursor
    BY <2>1 DEF RunInv
  <2>3. run'.keep \in {"seen", "unseen"}
    BY <2>1 DEF Kept
  <2>4. ASSUME run'.keep = "unseen"
        PROVE  terminalKey \in run.state.sent /\ (InClaim(switch) => switch.phase = "settled")
    <3>1. IsTerminal(s) /\ TerminalKeys(s) \subseteq run.state.sent
      BY <2>1, <2>4 DEF Kept
    <3>2. s = switch
      BY <3>1 DEF WorldInv
    <3>3. terminalKey \in TerminalKeys(s)
      BY WatcherConstants DEF TerminalKeys, terminalKey, WatcherAssumption
    <3> QED
      BY <3>1, <3>2, <3>3 DEF IsTerminal, InClaim
  <2>5. run'.stage = "logs"
    BY <2>1
  <2>6. ~(run'.cursor > switch.claimedAt)
    BY <1>1, <2>1, <2>2 DEF NoCursor
  <2> QED
    BY <2>1, <2>3, <2>4, <2>5, <2>6 DEF CursorInv, Told
<1>8. CASE backfillClaims
  <2>1. PICK s \in {switch, older} :
          /\ UNCHANGED <<disk, switch, skipped>> /\ run.stage = "logs"
          /\ run'.state = run.state /\ run'.head = run.head
          /\ run'.cursor = CursorAfter(s) /\ run'.stage = "deliver" /\ run'.keep = run.keep
          /\ run'.missed = Missed(s)
    BY <1>8, LogsRead DEF world, switchVars
  <2>2. run.keep # "none"
    BY <2>1 DEF CursorInv
  <2>3. run.keep = "unseen" /\ InClaim(switch) /\ CursorAfter(s) > switch.claimedAt
          => Told(run.state.sent) \/ switch.claimedAt \in Missed(s) \cup skipped
    BY <2>1, PastMeansTold
  <2> QED
    BY <2>1, <2>2, <2>3 DEF CursorInv, Told
<1>9. CASE Save
  <2>1. /\ UNCHANGED switch /\ disk' = Committed /\ run' = Off /\ run.stage = "deliver"
        /\ skipped' = skipped \cup run.missed
    BY <1>9 DEF Save, world, switchVars
  <2>2. /\ disk'.sent = run.state.sent
        /\ disk'.seen = IF run.keep = "none" THEN run.state.seen ELSE run.keep = "seen"
        /\ disk'.scan = IF run.cursor = NoCursor THEN run.state.scan ELSE run.cursor
    BY <2>1 DEF Committed, RunInv, StateFits, StateFields
  <2>3. /\ run'.keep = "none" /\ run'.cursor = NoCursor /\ run'.stage = "off"
    BY <2>1 DEF Off
  <2>4. ASSUME InClaim(switch), disk'.scan > switch.claimedAt
        PROVE  Told(run.state.sent) \/ disk'.seen \/ switch.claimedAt \in skipped'
    <3>1. run.keep \in {"none", "seen", "unseen"}
      BY DEF RunInv
    <3>2. CASE run.keep = "seen"
      BY <2>2, <3>2
    <3>3. CASE run.keep # "seen" /\ run.cursor = NoCursor
      <4>1. Told(disk.sent) \/ disk.seen \/ switch.claimedAt \in skipped
        BY <1>3, <2>1, <2>2, <2>4, <3>3 DEF CursorInv
      <4>2. Told(disk.sent) => Told(run.state.sent)
        BY <1>3, <2>1, ToldOn
      <4>3. CASE run.keep = "none"
        BY <1>3, <2>1, <2>2, <4>1, <4>2, <4>3
      <4>4. CASE run.keep = "unseen"
        BY <2>1, <4>1, <4>2, <4>4 DEF CursorInv, Told
      <4> QED
        BY <3>1, <3>3, <4>3, <4>4
    <3>4. CASE run.keep # "seen" /\ run.cursor # NoCursor
      <4>1. run.keep = "unseen" /\ run.cursor > switch.claimedAt
        BY <2>2, <2>4, <3>1, <3>4 DEF CursorInv
      <4>2. Told(run.state.sent) \/ switch.claimedAt \in run.missed \cup skipped
        BY <2>4, <4>1 DEF CursorInv
      <4> QED
        BY <2>1, <4>2
    <3> QED
      BY <3>2, <3>3, <3>4
  <2> QED
    BY <2>1, <2>2, <2>3, <2>4 DEF CursorInv, Told
<1>10. CASE ProgramSteps /\ ~ReadOpen /\ ~terminalAlerts /\ ~backfillClaims /\ ~Save
  <2>1. UNCHANGED <<disk, switch, skipped>>
    BY <1>5, <1>10, OtherStepsAre
  <2>2. CASE run'.keep = "none" /\ run'.cursor = NoCursor /\ run'.stage \in {"off", "open"}
    BY <2>1, <2>2 DEF CursorInv, Told
  <2>3. CASE /\ run.stage = "open" /\ run'.stage = "deliver"
             /\ run'.keep = run.keep /\ run'.cursor = run.cursor
             /\ run'.head = run.head /\ run'.state = run.state /\ run'.missed = run.missed
    BY <2>1, <2>3 DEF CursorInv, Told
  <2>4. CASE /\ run.stage = "gone" /\ run'.stage = "logs" /\ run'.keep = "seen" /\ run'.cursor = run.cursor
             /\ run'.head = run.head /\ run'.state = run.state /\ run'.missed = run.missed
    BY <2>1, <2>4 DEF CursorInv, Told
  <2>5. CASE /\ run.stage \in {"logs", "deliver"} /\ run'.stage = "deliver"
             /\ run'.keep = run.keep /\ run'.cursor = run.cursor
             /\ run'.head = run.head /\ run.state.sent \subseteq run'.state.sent /\ run'.missed = run.missed
    <3>1. Told(run.state.sent) => Told(run'.state.sent)
      BY <2>5, ToldOn
    <3> QED
      BY <2>1, <2>5, <3>1 DEF CursorInv, Told
  <2> QED
    BY <1>10, <2>2, <2>3, <2>4, <2>5, OtherStepsAre
<1> QED
  BY <1>4, <1>6, <1>7, <1>8, <1>9, <1>10
     DEF Next, ProgramSteps, RunSteps, VaultMoves, CatchUp, TimePasses, vars

-----------------------------------------------------------------------------
(* What a mail tells the owner to do.                                       *)

\* An owner's act accepted before the horizon opens the switch for a while.
LEMMA ActHelps ==
  ASSUME NEW s \in Switches, NEW t \in Nat, IsLive(s), s.horizon > t, s.period > 0
  PROVE  /\ Acted(s, t).phase = "active" /\ Acted(s, t).deadline > t
         /\ s.phase = "active" => Restarted(s, t).phase = "active" /\ Restarted(s, t).deadline > t
<1>1. s.period \in Nat /\ s.horizon \in Nat /\ s.period > 0
  BY DEF Switches
<1>2. Sooner(t + s.period, s.horizon) > t
  BY <1>1 DEF Sooner
<1>3. Restarted(s, t).phase = s.phase /\ Restarted(s, t).deadline = Sooner(t + s.period, s.horizon)
  BY DEF Restarted, Switches
<1> QED
  BY <1>2, <1>3, ActedIs DEF IsLive

\* A later horizon helps, and there is one unless the horizon is as far ahead as
\* the contract takes it.
LEMMA ExtensionHelps ==
  ASSUME WorldInv, IsLive(switch)
  PROVE  /\ RemedyOf("extend", switch, now) # {} \/ switch.horizon + 1 > now + MaxHorizon
         /\ \A s \in RemedyOf("extend", switch, now) : s.phase = "active" /\ s.deadline > now
<1>1. /\ now \in Nat /\ now <= MaxTime /\ MaxTime \in Nat /\ MaxHorizon \in Nat /\ switch \in Switches
      /\ switch.horizon \in Nat /\ switch.period \in Nat /\ switch.period > 0 /\ switch.period <= MaxHorizon
  BY MaxTimeAssumption, WatcherConstants
     DEF WorldInv, SwitchSound, ClockTypeOK, Switches, Periods, SwitchAssumption
<1>2. RemedyOf("extend", switch, now) =
        {Acted([switch EXCEPT !.horizon = h], now) : h \in {h \in Horizons : CanExtend(switch, now, h)}}
  BY DEF RemedyOf
<1>3. ASSUME ~(switch.horizon + 1 > now + MaxHorizon)
      PROVE  RemedyOf("extend", switch, now) # {}
  <2> DEFINE h == now + MaxHorizon
  <2>1. h \in Horizons /\ CanExtend(switch, now, h)
    BY <1>1, <1>3 DEF Horizons, CanExtend
  <2>2. Acted([switch EXCEPT !.horizon = h], now) \in RemedyOf("extend", switch, now)
    BY <1>2, <2>1
  <2> QED
    BY <2>2
<1>4. ASSUME NEW s \in RemedyOf("extend", switch, now) PROVE s.phase = "active" /\ s.deadline > now
  <2>1. PICK h \in Horizons :
          CanExtend(switch, now, h) /\ s = Acted([switch EXCEPT !.horizon = h], now)
    BY <1>2, <1>4
  <2> DEFINE later == [switch EXCEPT !.horizon = h]
  <2>2. h \in Nat /\ h > now
    BY <1>1, <2>1 DEF Horizons, CanExtend
  <2>3. /\ later \in Switches /\ IsLive(later) /\ later.horizon > now /\ later.period > 0
    BY <1>1, <2>2 DEF Switches, IsLive
  <2> QED
    BY <1>1, <2>1, <2>3, ActHelps
<1> QED
  BY <1>3, <1>4

LEMMA RemediesDoWork == ASSUME WorldInv PROVE RemediesWork
<1> SUFFICES ASSUME IsLive(switch),
                    AtHorizon(switch, now) \/ switch.phase = "claimed" \/ IsExpired(switch, now)
             PROVE  Works(AtHorizon(switch, now))
  BY DEF RemediesWork, AtHorizon, ownerRemedy, Works
<1>1. /\ now \in Nat /\ switch \in Switches /\ switch.deadline \in Nat
      /\ switch.horizon \in Nat /\ switch.period \in Periods /\ switch.period > 0
      /\ \A p \in Periods : p \in Nat /\ p > 0
  BY MaxTimeAssumption, WatcherConstants
     DEF WorldInv, SwitchSound, ClockTypeOK, Switches, Periods, SwitchAssumption
<1> DEFINE Fine(action) ==
             /\ \/ RemedyOf(action, switch, now) # {}
                \/ (action = "extend" /\ switch.horizon + 1 > now + MaxHorizon)
             /\ \A s \in RemedyOf(action, switch, now) :
                   s.phase = "closed" \/ (s.phase = "active" /\ s.deadline > now)
<1>2. Fine("extend")
  BY ExtensionHelps
<1>3. Fine("everything")
  <2>1. RemedyOf("everything", switch, now) = {[Acted(switch, now) EXCEPT !.phase = "closed"]}
    BY DEF RemedyOf
  <2>2. [Acted(switch, now) EXCEPT !.phase = "closed"].phase = "closed"
    BY <1>1, ActedIs DEF Switches
  <2> QED
    BY <2>1, <2>2
<1>4. CASE AtHorizon(switch, now)
  BY <1>2, <1>3, <1>4 DEF Works, ownerRemedy
<1>5. CASE ~AtHorizon(switch, now)
  <2>1. switch.horizon > now
    BY <1>1, <1>5 DEF AtHorizon
  <2>2. Acted(switch, now).phase = "active" /\ Acted(switch, now).deadline > now
    BY <1>1, <2>1, ActHelps
  <2>3. CASE switch.phase = "claimed"
    <3>1. Fine("veto")
      <4>1. RemedyOf("veto", switch, now) = {Acted(switch, now)}
        BY <1>5, <2>3 DEF RemedyOf, CanVeto
      <4> QED
        BY <2>2, <4>1
    <3>2. Fine("chain")
      <4>1. RemedyOf("chain", switch, now) = {Acted(switch, now)}
        BY <1>5 DEF RemedyOf
      <4> QED
        BY <2>2, <4>1
    <3>3. Fine("part")
      <4>1. RemedyOf("part", switch, now) = {Acted(switch, now)}
        BY <1>5 DEF RemedyOf, PartWithdrawn
      <4> QED
        BY <2>2, <4>1
    <3>4. Fine("heir")
      <4>1. RemedyOf("heir", switch, now) = {Acted([switch EXCEPT !.heir = p], now) : p \in Persons}
        BY <1>5 DEF RemedyOf, CanAct
      <4>2. ASSUME NEW p \in Persons
            PROVE  /\ Acted([switch EXCEPT !.heir = p], now).phase = "active"
                   /\ Acted([switch EXCEPT !.heir = p], now).deadline > now
        <5> DEFINE other == [switch EXCEPT !.heir = p]
        <5>1. other \in Switches /\ IsLive(other) /\ other.horizon > now /\ other.period > 0
          BY <1>1, <2>1 DEF Switches, IsLive
        <5> QED
          BY <1>1, <5>1, ActHelps
      <4>3. HeirOnFile \in Persons
        BY WatcherConstants DEF RemindersAssumption
      <4> QED
        BY <4>1, <4>2, <4>3
    <3>5. Fine("period")
      <4>1. RemedyOf("period", switch, now) = {Acted([switch EXCEPT !.period = p], now) : p \in Periods}
        BY <1>5 DEF RemedyOf, CanAct
      <4>2. ASSUME NEW p \in Periods
            PROVE  /\ Acted([switch EXCEPT !.period = p], now).phase = "active"
                   /\ Acted([switch EXCEPT !.period = p], now).deadline > now
        <5> DEFINE other == [switch EXCEPT !.period = p]
        <5>1. other \in Switches /\ IsLive(other) /\ other.horizon > now /\ other.period > 0
          BY <1>1, <2>1 DEF Switches, IsLive
        <5> QED
          BY <1>1, <5>1, ActHelps
      <4> QED
        BY <1>1, <4>1, <4>2
    <3> QED
      BY <1>2, <1>3, <1>5, <2>3, <3>1, <3>2, <3>3, <3>4, <3>5 DEF Works, ownerRemedy
  <2>4. CASE switch.phase # "claimed"
    <3>1. switch.phase = "active" /\ CanShowLife(switch, now)
      BY <1>1, <1>5, <2>1, <2>4 DEF IsLive, IsExpired, AtHorizon, CanShowLife
    <3>2. RemedyOf("checkIn", switch, now) = {Restarted(switch, now)}
      BY <3>1 DEF RemedyOf
    <3>3. Fine("checkIn")
      BY <1>1, <2>1, <3>1, <3>2, ActHelps
    <3> QED
      BY <1>5, <2>4, <3>3 DEF Works, ownerRemedy
  <2> QED
    BY <2>3, <2>4
<1> QED
  BY <1>4, <1>5

-----------------------------------------------------------------------------
(* The theorems.                                                            *)

WatcherInv == WorldInv /\ RunInv /\ EndInv /\ LadderInv

LEMMA WatcherStarts == Init => WatcherInv
<1> SUFFICES ASSUME Init PROVE WatcherInv
  OBVIOUS
<1>1. /\ SwitchInit /\ SwitchSound /\ older = switch /\ switch = Unarmed /\ now \in Nat
      /\ MaxFaults \in Nat
  BY SwitchStarts, WatcherConstants, MaxTimeAssumption
     DEF Init, SwitchInit, SwitchSound, ClockTypeOK, WatcherAssumption
<1>2. WorldInv
  BY <1>1 DEF WorldInv, SwitchSound, Unarmed, IsLive, InClaim, IsTerminal
<1>3. RunInv
  <2>1. StateFits(EmptyState, mailed, now) /\ StateFits(disk, mailed, now)
    BY <1>1 DEF Init, EmptyState, StateFits, StateFields, NoCursor
  <2>2. Off.state = EmptyState /\ DOMAIN Off = RunFields
    BY DEF Off, RunFields
  <2> QED
    BY <1>1, <2>1, <2>2 DEF Init, RunInv, Off, NoCursor
<1>4. mailed = {} /\ run.queue = {}
  BY DEF Init, Off
<1> QED
  BY <1>2, <1>3, <1>4 DEF WatcherInv, EndInv, LadderInv, Announced

LEMMA WatcherGoesOn == WatcherInv /\ [Next]_vars => WatcherInv'
BY WorldGoesOn, RunGoesOn, EndsGoOn, LaddersGoOn DEF WatcherInv

LEMMA WatcherStaysSound == Spec => []WatcherInv
BY WatcherStarts, WatcherGoesOn, PTL DEF Spec

LEMMA TypesFollow == WatcherInv => WatcherTypeOK
<1> SUFFICES ASSUME WatcherInv PROVE WatcherTypeOK
  OBVIOUS
<1>1. SwitchTypeOK
  BY DEF WatcherInv, WorldInv, SwitchSound, SwitchTypeOK, ClaimFieldsFit
<1>2. disk.scan \in NoCursor..(MaxTime + 1)
  BY MaxTimeAssumption DEF WatcherInv, WorldInv, SwitchSound, ClockTypeOK, RunInv, StateFits, NoCursor
<1> QED
  BY <1>1, <1>2 DEF WatcherTypeOK, WatcherInv, RunInv, StateFits

\* Whatever fails, lags or is killed, and however the state file begins: no mail says
\* that a vault ended or a claim settled unless it is so, and what a mail tells the
\* owner to do the contract accepts, and it helps (terminalAlerts, backfillClaims,
\* ownerRemedy).
THEOREM EndsStayTrue == Spec => [](WatcherTypeOK /\ EndsAreTrue /\ RemediesWork)
<1>1. WatcherInv => EndsAreTrue
  BY DEF WatcherInv, EndInv, EndsAreTrue, Announced, IsTerminal
<1>2. WatcherInv => RemediesWork
  BY RemediesDoWork DEF WatcherInv
<1> QED
  BY <1>1, <1>2, TypesFollow, WatcherStaysSound, PTL

\* A reminder never follows a more urgent one of the same deadline, nor an escalation
\* a more urgent one, or comes before the claim's own mail, over all the runs of the
\* program (ownerAlerts).
THEOREM LaddersNeverStepBack == Spec => NeverStepsBack
<1>1. WatcherInv /\ [Next]_vars => [NeverStepsBackStep]_vars
  BY StepsNeverBack DEF WatcherInv
<1> QED
  BY <1>1, WatcherStaysSound, PTL DEF Spec, NeverStepsBack

\* Whatever fails, lags or is killed: the cursor leaves behind no settlement that it
\* could have seen, so all that the alerts promise holds.  It is set anew where there
\* is no state file, and trusts what the logs' vaults are read as (backfillClaims,
\* terminalAlerts, save).
THEOREM AlertsStayTrue == Spec => []AlertsAreTrue
<1>1. Init => CursorInv
  BY DEF Init, SwitchInit, Unarmed, Off, EmptyState, NoCursor, CursorInv, InClaim
<1>2. WatcherInv /\ CursorInv /\ [Next]_vars => CursorInv'
  BY CursorGoesOn DEF WatcherInv
<1>3. CursorInv => SettlementNotLeftBehind
  BY DEF CursorInv, SettlementNotLeftBehind, InClaim, Told
<1>4. Spec => []CursorInv
  BY <1>1, <1>2, WatcherStaysSound, PTL DEF Spec
<1>5. WatcherTypeOK /\ EndsAreTrue /\ RemediesWork /\ SettlementNotLeftBehind => AlertsAreTrue
  BY DEF AlertsAreTrue
<1> QED
  BY <1>3, <1>4, <1>5, EndsStayTrue, PTL

-----------------------------------------------------------------------------
(* The hand-over of the administration (AdminHandover): a run moves the fee *)
(* before it offers the vault, so an address is offered the vault only once *)
(* the key is not paid, whatever other runs have sent and is still pending. *)
(* The slots: s1 is owner, s2 is pendingOwner, s3 is feeRecipient, s4 is    *)
(* handover, s5 is pool, s6 is mined, s7 is offered, s8 is runs.            *)

LEMMA AdminStarts == ASSUME Admin!AdminAssumption PROVE Admin!AdminInit => Admin!AdminInv
BY DEF Admin!AdminAssumption, Admin!AdminInit, Admin!AdminInv, Admin!AdminTypeOK,
   Admin!ControlIsNeverLost, Admin!NotRunning, Admin!NoTx, Admin!Steps

AdminSteps == Admin!AdminInv' /\ Admin!FeesOnlyFollowTheKeyStep

\* What one run does beside the chain: it begins, reads, sends or ends.
LEMMA HandoverMoves ==
  ASSUME Admin!AdminAssumption, Admin!AdminInv, NEW r \in Handovers,
         NEW h \in [stage : AdminContracts \cup {"off", "read", "fee"},
                    cold : ColdWallets \cup {"nobody"}, awaits : Admin!Steps],
         s4' = [s4 EXCEPT ![r] = h],
         UNCHANGED <<s1, s2, s3, s6>>,
         s5' \subseteq Admin!Steps,
         \A tx \in s5' : tx \in s5 \/ (tx.what = h.stage /\ tx.to = h.cold),
         s7 \subseteq s7', s7' \subseteq ColdWallets, "hot" \notin s7',
         s8' \in 0..HandoverRuns,
         h.cold # "hot", h.stage # "off" => h.cold \in s7',
         h.stage = "fee" => s3 \in {"hot"} \cup s7,
         h.stage \in AdminContracts => s3 # "hot",
         \A tx \in s5' : tx \in s5 \/ h.stage \in AdminContracts \cup {"fee"}
  PROVE  AdminSteps
<1>1. /\ s4' \in [Handovers -> [stage : AdminContracts \cup {"off", "read", "fee"},
                                 cold : ColdWallets \cup {"nobody"}, awaits : Admin!Steps]]
      /\ s4'[r] = h /\ \A q \in Handovers \ {r} : s4'[q] = s4[q]
  BY DEF Admin!AdminInv
<1>2. \A q \in Handovers :
        /\ s4'[q].stage \in AdminContracts \cup {"off", "read", "fee"} /\ s4'[q].cold # "hot"
        /\ s4'[q].stage # "off" => s4'[q].cold \in s7'
  BY <1>1 DEF Admin!AdminInv, Admin!AdminTypeOK
<1>3. \A tx \in s5' : tx.what \in AdminContracts \cup {"fee"} /\ tx.to \in s7'
  BY DEF Admin!AdminInv, Admin!AdminTypeOK, Admin!AdminAssumption
<1>4. (\E q \in Handovers : s4'[q].stage = "fee") \/ (\E tx \in s5' : tx.what = "fee")
        => s3' \in {"hot"} \cup s7'
  BY <1>1 DEF Admin!AdminInv
<1>5. s3' = "hot" =>
        /\ \A q \in Handovers : s4'[q].stage \in {"off", "read", "fee"}
        /\ \A tx \in s5' : tx.what = "fee"
  BY <1>1 DEF Admin!AdminInv
<1>6. /\ Admin!AdminTypeOK' /\ Admin!ControlIsNeverLost'
      /\ \A c \in AdminContracts : s2'[c] \in s7' \cup {"nobody"}
  BY <1>2, <1>3 DEF Admin!AdminInv, Admin!AdminTypeOK, Admin!ControlIsNeverLost
<1> QED
  BY <1>1, <1>2, <1>4, <1>5, <1>6 DEF AdminSteps, Admin!AdminInv, Admin!FeesOnlyFollowTheKeyStep, Admin!Steps

\* A transaction that fails changes nothing but the run that waits for it.  One
\* that does not has moved the fee away from the key, or offered a contract.
LEMMA MineStepKeeps ==
  ASSUME Admin!AdminAssumption, Admin!AdminInv, NEW tx \in s5, Admin!MineStep(tx)
  PROVE  AdminSteps
<1>1. /\ tx \in Admin!Steps /\ tx.what \in AdminContracts \cup {"fee"}
      /\ tx.to \in s7 /\ tx.to # "hot" /\ tx.to \in ColdWallets
      /\ s5' \subseteq s5 /\ UNCHANGED <<s1, s7, s8>> /\ s6' \in Nat
  BY DEF Admin!MineStep, Admin!AdminInv, Admin!AdminTypeOK
<1>2. /\ s3' = s3 \/ (tx.what = "fee" /\ s3' = tx.to /\ s1["vault"] = "hot")
      /\ tx.what = "fee" /\ Admin!Obeys(tx.what) => s3' = tx.to
  BY DEF Admin!MineStep, Admin!Obeys
<1>3. Admin!FeesOnlyFollowTheKeyStep
  BY <1>1, <1>2 DEF Admin!AdminInv, Admin!FeesOnlyFollowTheKeyStep
<1>4. /\ s2' \in [AdminContracts -> ColdWallets \cup {"hot", "nobody"}]
      /\ \A c \in AdminContracts : s2'[c] \in s7 \cup {"nobody"}
      /\ \A c \in AdminContracts : s2'[c] = s2[c] \/ tx.what = c
  BY <1>1 DEF Admin!MineStep, Admin!AdminInv, Admin!AdminTypeOK
<1>5. ASSUME NEW q \in Handovers
      PROVE  /\ s4'[q] \in [stage : AdminContracts \cup {"off", "read", "fee"},
                            cold : ColdWallets \cup {"nobody"}, awaits : Admin!Steps]
             /\ s4'[q].cold # "hot"
             /\ s4'[q].stage # "off" => s4'[q].cold \in s7
             /\ s4'[q].stage = "fee" => s4[q].stage = "fee"
             /\ s3' = "hot" => s4'[q].stage \in {"off", "read", "fee"}
  <2>1. /\ s4[q] \in [stage : AdminContracts \cup {"off", "read", "fee"},
                      cold : ColdWallets \cup {"nobody"}, awaits : Admin!Steps]
        /\ s4[q].cold # "hot" /\ (s4[q].stage # "off" => s4[q].cold \in s7)
        /\ s3 = "hot" => s4[q].stage \in {"off", "read", "fee"}
    BY DEF Admin!AdminInv, Admin!AdminTypeOK
  <2>2. CASE s4'[q] = s4[q]
    BY <1>1, <1>2, <2>1, <2>2
  <2>3. CASE s4'[q] = Admin!NotRunning
    BY <2>3 DEF Admin!NotRunning, Admin!NoTx, Admin!Steps, Admin!AdminAssumption
  <2>4. CASE s4[q].awaits = tx /\ Admin!Obeys(tx.what) /\ s4'[q] = Admin!Proceeds(s4[q])
    <3>1. s3' # "hot" \/ s4'[q].stage = "off"
      <4>1. CASE s3 # "hot"
        BY <1>1, <1>2, <4>1
      <4>2. CASE s3 = "hot"
        <5>1. tx.what = "fee"
          BY <4>2 DEF Admin!AdminInv
        <5> QED
          BY <1>1, <1>2, <2>4, <5>1
      <4> QED
        BY <4>1, <4>2
    <3>2. Admin!Proceeds(s4[q]) = Admin!NotRunning \/
             \E c \in AdminContracts : Admin!Proceeds(s4[q]) = [s4[q] EXCEPT !.stage = c, !.awaits = Admin!NoTx]
      BY DEF Admin!Proceeds, Admin!AdminAssumption
    <3>3. Admin!NoTx \in Admin!Steps
      BY DEF Admin!NoTx, Admin!Steps
    <3>4. ASSUME NEW c \in AdminContracts,
                 Admin!Proceeds(s4[q]) = [s4[q] EXCEPT !.stage = c, !.awaits = Admin!NoTx], s4[q].stage # "off"
          PROVE  /\ s4'[q] \in [stage : AdminContracts \cup {"off", "read", "fee"},
                                cold : ColdWallets \cup {"nobody"}, awaits : Admin!Steps]
                 /\ s4'[q].stage = c /\ s4'[q].cold = s4[q].cold
                 /\ s4'[q].stage # "fee"
      BY <2>1, <2>4, <3>3, <3>4 DEF Admin!AdminAssumption
    <3>5. CASE s4[q].stage = "off"
      BY <2>3, <2>4, <3>5 DEF Admin!Proceeds
    <3> QED
      BY <2>1, <2>3, <2>4, <3>1, <3>2, <3>4, <3>5
  <2> QED
    BY <2>2, <2>3, <2>4 DEF Admin!MineStep
<1>6. s3' = "hot" =>
        /\ s1'["vault"] = "hot" /\ s2'["vault"] = "nobody"
        /\ \A t \in s5' : t.what = "fee"
  BY <1>1, <1>2, <1>4 DEF Admin!AdminInv, Admin!AdminAssumption
<1>7. (\E q \in Handovers : s4'[q].stage = "fee") \/ (\E t \in s5' : t.what = "fee")
        => s3' \in {"hot"} \cup s7
  BY <1>1, <1>2, <1>5 DEF Admin!AdminInv
<1>8. s4' \in [Handovers -> [stage : AdminContracts \cup {"off", "read", "fee"},
                             cold : ColdWallets \cup {"nobody"}, awaits : Admin!Steps]]
  BY <1>5 DEF Admin!MineStep
<1>9. Admin!AdminTypeOK' /\ Admin!ControlIsNeverLost'
  BY <1>1, <1>2, <1>4, <1>5 DEF Admin!AdminInv, Admin!AdminTypeOK, Admin!ControlIsNeverLost
<1> QED
  BY <1>1, <1>3, <1>4, <1>5, <1>6, <1>7, <1>8, <1>9 DEF AdminSteps, Admin!AdminInv, Admin!Steps

\* A step keeps the invariant, and moves the fee from the key or among those a run
\* named.
LEMMA AdminGoesOn ==
  ASSUME Admin!AdminAssumption, Admin!AdminInv, [Admin!AdminNext]_(Admin!adminVars)
  PROVE  AdminSteps
<1>1. Admin!NotRunning \in [stage : AdminContracts \cup {"off", "read", "fee"},
                            cold : ColdWallets \cup {"nobody"}, awaits : Admin!Steps]
  BY DEF Admin!NotRunning, Admin!NoTx, Admin!Steps
<1>2. ASSUME NEW r \in Handovers, NEW cold \in ColdWallets, Admin!StartHandover(r, cold)
      PROVE  AdminSteps
  <2> DEFINE h == [Admin!NotRunning EXCEPT !.stage = "read", !.cold = cold]
  <2>1. /\ h \in [stage : AdminContracts \cup {"off", "read", "fee"},
                  cold : ColdWallets \cup {"nobody"}, awaits : Admin!Steps]
        /\ h.stage = "read" /\ h.cold = cold
    BY <1>1 DEF Admin!NotRunning
  <2>2. /\ cold # "hot" /\ s4' = [s4 EXCEPT ![r] = h]
        /\ s7' = s7 \cup {cold} /\ s8' \in 0..HandoverRuns
        /\ UNCHANGED <<s1, s2, s3, s5, s6>>
    BY <1>2 DEF Admin!StartHandover, Admin!Refused, Admin!AdminInv, Admin!AdminTypeOK, Admin!AdminAssumption
  <2> HIDE DEF h
  <2> QED
    BY <2>1, <2>2, HandoverMoves DEF Admin!AdminInv, Admin!AdminTypeOK, Admin!AdminAssumption
<1>3. ASSUME NEW r \in Handovers, Admin!ReadRecipient(r)
      PROVE  AdminSteps
  <2> DEFINE h == [s4[r] EXCEPT !.stage = IF s3 = "hot" THEN "fee" ELSE "vault"]
  <2>1. /\ h \in [stage : AdminContracts \cup {"off", "read", "fee"},
                  cold : ColdWallets \cup {"nobody"}, awaits : Admin!Steps]
        /\ h.stage = (IF s3 = "hot" THEN "fee" ELSE "vault") /\ h.cold = s4[r].cold
    BY DEF Admin!AdminInv, Admin!AdminAssumption
  <2>2. /\ s4' = [s4 EXCEPT ![r] = h] /\ s4[r].stage = "read" /\ UNCHANGED <<s1, s2, s3, s5, s6, s7, s8>>
    BY <1>3 DEF Admin!ReadRecipient, Admin!AdminInv
  <2> HIDE DEF h
  <2> QED
    BY <2>1, <2>2, HandoverMoves DEF Admin!AdminInv, Admin!AdminTypeOK, Admin!AdminAssumption
<1>4. ASSUME NEW r \in Handovers, Admin!SendStep(r)
      PROVE  AdminSteps
  <2>1. PICK n \in {s6 + 1} \cup {t.nonce + 1 : t \in s5} :
          /\ s5' = s5 \cup {[nonce |-> n, what |-> s4[r].stage, to |-> s4[r].cold]}
          /\ s4' = [s4 EXCEPT ![r].awaits = [nonce |-> n, what |-> s4[r].stage, to |-> s4[r].cold]]
    BY <1>4 DEF Admin!SendStep
  <2>5. /\ s4[r].stage \in AdminContracts \cup {"fee"}
        /\ s4[r].cold \in ColdWallets \cup {"nobody"}
    BY <1>4 DEF Admin!SendStep, Admin!AdminInv
  <2>6. n \in Nat
    BY <2>1 DEF Admin!AdminInv, Admin!Steps
  <2> DEFINE tx == [nonce |-> n, what |-> s4[r].stage, to |-> s4[r].cold]
             h == [s4[r] EXCEPT !.awaits = tx]
  <2>2. tx \in Admin!Steps /\ tx.what = s4[r].stage /\ tx.to = s4[r].cold
    BY <2>5, <2>6 DEF Admin!Steps
  <2>3. /\ s5' = s5 \cup {tx} /\ s4' = [s4 EXCEPT ![r] = h] /\ UNCHANGED <<s1, s2, s3, s6, s7, s8>>
        /\ s4[r].stage \in AdminContracts \cup {"fee"}
    BY <1>4, <2>1 DEF Admin!SendStep, Admin!AdminInv
  <2>4. /\ h \in [stage : AdminContracts \cup {"off", "read", "fee"},
                  cold : ColdWallets \cup {"nobody"}, awaits : Admin!Steps]
        /\ h.stage = s4[r].stage /\ h.cold = s4[r].cold
    BY <2>2 DEF Admin!AdminInv
  <2> HIDE DEF h, tx
  <2>7. /\ h.cold # "hot" /\ h.stage # "off" /\ h.cold \in s7
        /\ h.stage = "fee" => s3 \in {"hot"} \cup s7
        /\ h.stage \in AdminContracts => s3 # "hot"
    BY <2>3, <2>4 DEF Admin!AdminInv, Admin!AdminTypeOK, Admin!AdminAssumption
  <2>8. /\ s5' \subseteq Admin!Steps
        /\ \A t \in s5' : t \in s5 \/ (t.what = h.stage /\ t.to = h.cold)
        /\ \A t \in s5' : t \in s5 \/ h.stage \in AdminContracts \cup {"fee"}
        /\ s7' = s7 /\ s7 \subseteq ColdWallets /\ "hot" \notin s7 /\ s8' \in 0..HandoverRuns
    BY <2>2, <2>3, <2>4 DEF Admin!AdminInv, Admin!AdminTypeOK
  <2> QED
    BY <2>3, <2>4, <2>7, <2>8, HandoverMoves
<1>5. ASSUME NEW r \in Handovers, Admin!StopHandover(r)
      PROVE  AdminSteps
  <2>1. Admin!NotRunning.stage = "off" /\ Admin!NotRunning.cold # "hot"
    BY DEF Admin!NotRunning, Admin!AdminAssumption
  <2>2. /\ s4' = [s4 EXCEPT ![r] = Admin!NotRunning] /\ UNCHANGED <<s1, s2, s3, s5, s6, s7, s8>>
    BY <1>5 DEF Admin!StopHandover
  <2> QED
    BY <1>1, <2>1, <2>2, HandoverMoves DEF Admin!AdminInv, Admin!AdminTypeOK, Admin!AdminAssumption
<1>6. ASSUME NEW tx \in s5, Admin!DropStep(tx)
      PROVE  AdminSteps
  BY <1>6 DEF AdminSteps, Admin!DropStep, Admin!AdminInv, Admin!AdminTypeOK, Admin!ControlIsNeverLost,
     Admin!FeesOnlyFollowTheKeyStep, Admin!Steps
<1>7. ASSUME NEW c \in AdminContracts, Admin!AcceptOwnership(c)
      PROVE  AdminSteps
  BY <1>7 DEF AdminSteps, Admin!AcceptOwnership, Admin!AdminInv, Admin!AdminTypeOK, Admin!ControlIsNeverLost,
     Admin!FeesOnlyFollowTheKeyStep, Admin!Steps, Admin!AdminAssumption
<1>8. CASE UNCHANGED Admin!adminVars
  BY <1>8 DEF AdminSteps, Admin!adminVars, Admin!AdminInv, Admin!AdminTypeOK, Admin!ControlIsNeverLost,
     Admin!FeesOnlyFollowTheKeyStep, Admin!Steps
<1> QED
  BY <1>2, <1>3, <1>4, <1>5, <1>6, <1>7, <1>8, MineStepKeeps DEF Admin!AdminNext

LEMMA AdminKeeps ==
  ASSUME Admin!AdminAssumption, Admin!AdminInv
  PROVE  Admin!AdminTypeOK /\ Admin!NoFeesForTheRetiredKey /\ Admin!ControlIsNeverLost
BY DEF Admin!AdminInv, Admin!NoFeesForTheRetiredKey

-----------------------------------------------------------------------------
(* The deployment (Deployment): what is mined is what was sent, what was sent*)
(* is recorded by the run that waits for it, and a prediction that is not   *)
(* outdated is of the next transaction.                                     *)
(* The slots: s1 is sent, s2 is minedUpTo, s3 is contracts, s4 is record,   *)
(* s5 is run, s6 is lost, s7 is overlapped, s8 is held, s9 is look, s10 is  *)
(* shaken.                                                                  *)

DeploySteps == Deploy!RecordsStayStep /\ Deploy!GoodStaysGoodStep

\* A record that is left alone keeps its address and its verdict.
LEMMA RecordLeft ==
  ASSUME UNCHANGED s4
  PROVE  DeploySteps
BY DEF DeploySteps, Deploy!RecordsStayStep, Deploy!GoodStaysGoodStep

LEMMA LookStarts == ASSUME Deploy!DeployInit PROVE Deploy!LookInv
BY DEF Deploy!DeployInit, Deploy!LookInv, Deploy!LookKept, Deploy!NoLook, Deploy!Views, Deploy!Places

LEMMA DeployStarts == ASSUME Deploy!DeployAssumption PROVE Deploy!DeployInit => Deploy!DeployInv
<1> SUFFICES ASSUME Deploy!DeployInit PROVE Deploy!DeployInv
  OBVIOUS
<1>1. s1 \in Seq(Deploy!Txs) /\ Len(s1) = 0 /\ Deploy!MaxNonce \in Nat
  BY DEF Deploy!DeployInit, Deploy!DeployAssumption, Deploy!MaxNonce
<1>2. s5 \in [DeployRuns -> Deploy!Runs]
  BY DEF Deploy!DeployInit, Deploy!Runs, Deploy!NoRun
<1>3. \A r \in DeployRuns : ~Deploy!Active(r) /\ Deploy!RunKept(r)
  BY DEF Deploy!DeployInit, Deploy!NoRun, Deploy!Active, Deploy!RunKept
<1> QED
  BY <1>1, <1>2, <1>3 DEF Deploy!DeployInit, Deploy!DeployInv, Deploy!SentKept, Deploy!MadeOfSent,
     Deploy!RecordsAreReal, Deploy!SeenToOverlap,
     Deploy!NoRecord, Deploy!Entries, Deploy!Places

\* A run that is admitted, predicts, or ends.
LEMMA OneRunMoves ==
  ASSUME Deploy!DeployAssumption, Deploy!DeployInv, NEW r \in DeployRuns, NEW x \in Deploy!Runs,
         s5' = [s5 EXCEPT ![r] = x],
         UNCHANGED <<s1, s2, s3, s4>>,
         s6 \subseteq s6', s7 \subseteq s7',
         x.stage \in {"off", "admitted", "ready"},
         x.stage # "off" => x.s \in Settings,
         x.stage = "ready" /\ ~x.stale =>
            x.nonce = Deploy!NextNonce /\ Deploy!RoleOf(x.s.admin) # CreationAddresses[x.nonce],
         s5[r].stage = "waiting" =>
            CreationAddresses[s5[r].nonce] \in s6' \/ s5[r].s.path \in s7,
         x.stage # "off" =>
            \/ Deploy!Active(r) /\ s5[r].stage # "recorded" /\ x.s = s5[r].s
            \/ s4[x.s.path] = Deploy!NoRecord /\ (Deploy!Overlaps(r, x.s.path) => x.s.path \in s7')
  PROVE  Deploy!DeployInv' /\ DeploySteps
<1>1. /\ s5' \in [DeployRuns -> Deploy!Runs] /\ s5'[r] = x
      /\ \A q \in DeployRuns : q # r => s5'[q] = s5[q]
  BY DEF Deploy!DeployInv
<1>2. Deploy!NextNonce' = Deploy!NextNonce
  BY DEF Deploy!NextNonce
<1>3. ASSUME NEW q \in DeployRuns
      PROVE  Deploy!RunKept(q)'
  <2>1. CASE q = r
    BY <1>1, <1>2, <2>1 DEF Deploy!RunKept, Deploy!Active, Deploy!RoleOf
  <2>2. CASE q # r
    <3>1. Deploy!RunKept(q)
      BY DEF Deploy!DeployInv
    <3> QED
      BY <1>1, <1>2, <2>2, <3>1 DEF Deploy!RunKept, Deploy!Active, Deploy!RoleOf, Deploy!NoRecord
  <2> QED
    BY <2>1, <2>2
<1>4. ASSUME NEW i \in 1..Len(s1)
      PROVE  Deploy!SentKept(i)'
  <2>1. Deploy!SentKept(i)
    BY DEF Deploy!DeployInv
  <2>2. ASSUME s1[i].deploys
        PROVE  Deploy!Accounted(i)'
    <3>1. Deploy!Accounted(i)
      BY <2>1, <2>2 DEF Deploy!SentKept
    <3>2. CASE \E q \in DeployRuns : s5[q].stage = "waiting" /\ s5[q].nonce = i
      <4>1. PICK q \in DeployRuns : s5[q].stage = "waiting" /\ s5[q].nonce = i
        BY <3>2
      <4>2. CASE q = r
        <5>1. s5[r].s = s1[i].s
          BY <4>1, <4>2 DEF Deploy!DeployInv, Deploy!RunKept
        <5> QED
          BY <4>1, <4>2, <5>1 DEF Deploy!Accounted
      <4>3. CASE q # r
        BY <1>1, <4>1, <4>3 DEF Deploy!Accounted
      <4> QED
        BY <4>2, <4>3
    <3> QED
      BY <3>1, <3>2 DEF Deploy!Accounted
  <2> QED
    BY <2>1, <2>2 DEF Deploy!SentKept, Deploy!RoleOf
<1>5. \A c \in s3 : Deploy!MadeOfSent(c)'
  BY DEF Deploy!DeployInv, Deploy!MadeOfSent
<1>6. Deploy!SeenToOverlap'
  <2> SUFFICES ASSUME NEW a \in DeployRuns, Deploy!Active(a)'
               PROVE  /\ \A b \in DeployRuns \ {a} : Deploy!Active(b)' /\ s5'[b].s.path = s5'[a].s.path =>
                                                  s5'[a].s.path \in s7'
                      /\ s5'[a].stage # "recorded" /\ s4[s5'[a].s.path] # Deploy!NoRecord =>
                                                  s5'[a].s.path \in s7'
    BY DEF Deploy!SeenToOverlap, Deploy!Active, Deploy!NoRecord
  <2>1. CASE a # r
    <3>1. Deploy!Active(a) /\ s5'[a] = s5[a]
      BY <1>1, <2>1 DEF Deploy!Active
    <3>2. s5[a].stage # "recorded" /\ s4[s5[a].s.path] # Deploy!NoRecord => s5[a].s.path \in s7'
      BY <3>1 DEF Deploy!DeployInv, Deploy!SeenToOverlap
    <3>3. ASSUME NEW b \in DeployRuns \ {a}, Deploy!Active(b)', s5'[b].s.path = s5'[a].s.path
          PROVE  s5'[a].s.path \in s7'
      <4>1. CASE b # r
        BY <1>1, <3>1, <3>3, <4>1 DEF Deploy!DeployInv, Deploy!SeenToOverlap, Deploy!Active
      <4>2. CASE b = r
        BY <1>1, <2>1, <3>1, <3>3, <4>2 DEF Deploy!DeployInv, Deploy!SeenToOverlap, Deploy!Active,
           Deploy!Overlaps
      <4> QED
        BY <4>1, <4>2
    <3> QED
      BY <3>1, <3>2, <3>3
  <2>2. CASE a = r
    <3>1. x.stage # "off"
      BY <1>1, <2>2 DEF Deploy!Active
    <3>2. \A b \in DeployRuns \ {r} : Deploy!Active(b)' <=> Deploy!Active(b)
      BY <1>1 DEF Deploy!Active
    <3> QED
      BY <1>1, <2>2, <3>1, <3>2 DEF Deploy!DeployInv, Deploy!SeenToOverlap, Deploy!Overlaps
  <2> QED
    BY <2>1, <2>2
<1>7. Deploy!RecordsAreReal'
  BY DEF Deploy!DeployInv, Deploy!RecordsAreReal, Deploy!NoRecord
<1> QED
  BY <1>1, <1>3, <1>4, <1>5, <1>6, <1>7, RecordLeft DEF Deploy!DeployInv

LEMMA RunOff ==
  Deploy!NoRun \in Deploy!Runs /\ Deploy!NoRun.stage = "off"
BY DEF Deploy!NoRun, Deploy!Runs

\* A run that ends before it has sent, or where another has written its file.
LEMMA EndsKeeps ==
  ASSUME Deploy!DeployAssumption, Deploy!DeployInv, NEW r \in DeployRuns, Deploy!Ends(r),
         UNCHANGED <<s1, s2, s3, s4>>,
         s6 \subseteq s6', s7 \subseteq s7',
         s5[r].stage = "waiting" =>
            CreationAddresses[s5[r].nonce] \in s6' \/ s5[r].s.path \in s7
  PROVE  Deploy!DeployInv' /\ DeploySteps
<1>1. s5' = [s5 EXCEPT ![r] = Deploy!NoRun]
  BY DEF Deploy!Ends
<1> HIDE DEF Deploy!Ends
<1> QED
  BY <1>1, RunOff, OneRunMoves

LEMMA AdmitKeeps ==
  ASSUME Deploy!DeployAssumption, Deploy!DeployInv, NEW r \in DeployRuns, NEW s \in Settings,
         Deploy!Admit(r, s)
  PROVE  Deploy!DeployInv' /\ DeploySteps
<1> DEFINE x == [Deploy!NoRun EXCEPT !.stage = "admitted", !.s = s]
<1>1. x \in Deploy!Runs /\ x.stage = "admitted" /\ x.s = s
  BY DEF Deploy!NoRun, Deploy!Runs
<1>2. s5' = [s5 EXCEPT ![r] = x] /\ UNCHANGED <<s1, s2, s3, s4, s6>>
  BY DEF Deploy!Admit
<1>3. s5[r].stage = "off" /\ s4[s.path] = Deploy!NoRecord
  BY DEF Deploy!Admit, Deploy!Active
<1>4. s7 \subseteq s7' /\ (Deploy!Overlaps(r, s.path) => s.path \in s7')
  BY DEF Deploy!Admit
<1> HIDE DEF x
<1> QED
  BY <1>1, <1>2, <1>3, <1>4, OneRunMoves

LEMMA PredictKeeps ==
  ASSUME Deploy!DeployAssumption, Deploy!DeployInv, NEW r \in DeployRuns, Deploy!Predict(r)
  PROVE  Deploy!DeployInv' /\ DeploySteps
<1>1. /\ s5[r].stage = "admitted" /\ s5[r] \in Deploy!Runs
      /\ UNCHANGED <<s1, s2, s3, s4, s6, s7>>
  BY DEF Deploy!Predict, Deploy!DeployInv
<1>2. s5[r].s \in Settings /\ Deploy!Active(r)
  BY <1>1 DEF Deploy!DeployInv, Deploy!RunKept, Deploy!Active
<1> DEFINE refused == Deploy!NonceRefused(s5[r].s, Deploy!NextNonce) \/ Deploy!TokenProblems(s5[r].s)
                      \/ ~s5[r].s.funded \/ s5[r].s.dryRun
<1>3. CASE refused
  BY <1>1, <1>3, EndsKeeps DEF Deploy!Predict
<1>4. CASE ~refused
  <2> DEFINE n == Deploy!NextNonce
             x == [s5[r] EXCEPT !.stage = "ready", !.nonce = n]
  <2>1. n \in Nat
    BY DEF Deploy!NextNonce, Deploy!DeployInv
  <2>2. Deploy!RoleOf(s5[r].s.admin) # CreationAddresses[n]
    BY <1>4 DEF Deploy!NonceRefused
  <2>3. s5' = [s5 EXCEPT ![r] = x]
    BY <1>4 DEF Deploy!Predict
  <2> HIDE DEF n
  <2>4. x \in Deploy!Runs /\ x.stage = "ready" /\ x.nonce = n /\ x.s = s5[r].s
    BY <1>1, <2>1 DEF Deploy!Runs
  <2> HIDE DEF x
  <2>5. x.nonce = Deploy!NextNonce
    BY <2>4 DEF n
  <2> QED
    BY <1>1, <1>2, <2>2, <2>3, <2>4, <2>5, OneRunMoves
<1> QED
  BY <1>3, <1>4

LEMMA StopRunKeeps ==
  ASSUME Deploy!DeployAssumption, Deploy!DeployInv, NEW r \in DeployRuns, Deploy!StopRun(r)
  PROVE  Deploy!DeployInv' /\ DeploySteps
BY EndsKeeps DEF Deploy!StopRun

\* Whatever is sent next, no prediction is of a later nonce.
LEMMA SendingKeeps ==
  ASSUME Deploy!DeployAssumption, Deploy!DeployInv, NEW tx \in Deploy!Txs,
         Deploy!NextNonce <= Deploy!MaxNonce,
         s1' = Append(s1, tx), s5' \in [DeployRuns -> Deploy!Runs],
         UNCHANGED <<s2, s3, s4, s6, s7>>,
         \A q \in DeployRuns :
            \/ /\ s5'[q].stage = s5[q].stage /\ s5'[q].s = s5[q].s /\ s5'[q].nonce = s5[q].nonce
               /\ s5[q].stage = "ready" => s5'[q].stale
            \/ /\ s5[q].stage = "ready" /\ s5'[q].stage = "waiting" /\ s5'[q].s = s5[q].s
               /\ s5'[q].nonce = Deploy!NextNonce /\ tx.deploys /\ tx.s = s5[q].s,
         tx.deploys => /\ tx.s \in Settings
                       /\ ~tx.stale => Deploy!RoleOf(tx.s.admin) # CreationAddresses[Deploy!NextNonce]
                       /\ \E q \in DeployRuns : s5'[q].stage = "waiting" /\ s5'[q].nonce = Deploy!NextNonce
  PROVE  Deploy!DeployInv' /\ DeploySteps
<1>1. /\ Len(s1) \in Nat /\ Deploy!NextNonce = Len(s1) + 1 /\ Len(s1') = Deploy!NextNonce
      /\ s1' \in Seq(Deploy!Txs) /\ s1'[Deploy!NextNonce] = tx
      /\ \A i \in 1..Len(s1) : s1'[i] = s1[i]
  BY DEF Deploy!DeployInv, Deploy!NextNonce
<1>2. s2' \in 0..Len(s1') /\ Len(s1') <= Deploy!MaxNonce /\ s2 < Deploy!NextNonce
  BY <1>1 DEF Deploy!DeployInv
<1>3. \A q \in DeployRuns : Deploy!Active(q)' <=> Deploy!Active(q)
  BY DEF Deploy!Active
<1>4. ASSUME NEW q \in DeployRuns
      PROVE  Deploy!RunKept(q)'
  <2>1. Deploy!RunKept(q) /\ s5[q] \in Deploy!Runs /\ s5'[q] \in Deploy!Runs
    BY DEF Deploy!DeployInv
  <2>2. Deploy!Active(q)' => s5'[q].s \in Settings
    BY <1>3, <2>1 DEF Deploy!RunKept
  <2>3. s5'[q].stage = "ready" => s5'[q].stale
    OBVIOUS
  <2>4. s5'[q].stage = "waiting" =>
          /\ s5'[q].nonce \in 1..Len(s1')
          /\ s1'[s5'[q].nonce].deploys /\ s1'[s5'[q].nonce].s = s5'[q].s
    <3>1. CASE s5[q].stage = "waiting"
      BY <1>1, <2>1, <3>1 DEF Deploy!RunKept
    <3>2. CASE s5[q].stage # "waiting"
      BY <1>1, <2>1, <3>2
    <3> QED
      BY <3>1, <3>2
  <2>5. s5'[q].stage = "recorded" => s4[s5'[q].s.path] # Deploy!NoRecord
    BY <2>1 DEF Deploy!RunKept
  <2> QED
    BY <2>2, <2>3, <2>4, <2>5 DEF Deploy!RunKept, Deploy!NoRecord
<1>5. ASSUME NEW i \in 1..Len(s1')
      PROVE  Deploy!SentKept(i)'
  <2>1. CASE i = Deploy!NextNonce
    <3>1. Deploy!Accounted(i)' \/ ~tx.deploys
      BY <2>1 DEF Deploy!Accounted
    <3> QED
      BY <1>1, <1>2, <2>1, <3>1 DEF Deploy!SentKept, Deploy!RoleOf
  <2>2. CASE i # Deploy!NextNonce
    <3>1. i \in 1..Len(s1) /\ s1'[i] = s1[i] /\ Deploy!SentKept(i)
      BY <1>1, <2>2 DEF Deploy!DeployInv
    <3>2. Deploy!Accounted(i) => Deploy!Accounted(i)'
      BY <3>1 DEF Deploy!Accounted
    <3> QED
      BY <3>1, <3>2 DEF Deploy!SentKept, Deploy!RoleOf
  <2> QED
    BY <2>1, <2>2
<1>6. ASSUME NEW c \in s3
      PROVE  Deploy!MadeOfSent(c)'
  <2>1. PICK i \in 1..s2 :
          s1[i].deploys /\ c.at = CreationAddresses[i] /\ c.s = s1[i].s /\ c.stale = s1[i].stale
    BY DEF Deploy!DeployInv, Deploy!MadeOfSent
  <2>2. i \in 1..Len(s1)
    BY <1>1 DEF Deploy!DeployInv
  <2> QED
    BY <1>1, <2>1, <2>2 DEF Deploy!MadeOfSent
<1>7. Deploy!SeenToOverlap'
  BY <1>3 DEF Deploy!DeployInv, Deploy!SeenToOverlap, Deploy!NoRecord
<1>8. Deploy!RecordsAreReal'
  BY DEF Deploy!DeployInv, Deploy!RecordsAreReal, Deploy!NoRecord
<1> QED
  BY <1>1, <1>2, <1>4, <1>5, <1>6, <1>7, <1>8, RecordLeft DEF Deploy!DeployInv

LEMMA OutdatedIs ==
  ASSUME Deploy!DeployInv
  PROVE  /\ Deploy!Outdated \in [DeployRuns -> Deploy!Runs]
         /\ \A q \in DeployRuns :
              /\ Deploy!Outdated[q].stage = s5[q].stage /\ Deploy!Outdated[q].s = s5[q].s
              /\ Deploy!Outdated[q].nonce = s5[q].nonce
              /\ s5[q].stage = "ready" => Deploy!Outdated[q].stale
<1>1. \A q \in DeployRuns : s5[q] \in Deploy!Runs
  BY DEF Deploy!DeployInv
<1>2. ASSUME NEW q \in DeployRuns
      PROVE  /\ Deploy!Outdated[q] \in Deploy!Runs
             /\ Deploy!Outdated[q].stage = s5[q].stage /\ Deploy!Outdated[q].s = s5[q].s
             /\ Deploy!Outdated[q].nonce = s5[q].nonce
             /\ s5[q].stage = "ready" => Deploy!Outdated[q].stale
  <2>1. CASE s5[q].stage = "ready"
    <3>1. Deploy!Outdated[q] = [s5[q] EXCEPT !.stale = TRUE]
      BY <2>1 DEF Deploy!Outdated
    <3> QED
      BY <1>1, <3>1 DEF Deploy!Runs
  <2>2. CASE s5[q].stage # "ready"
    BY <1>1, <2>2 DEF Deploy!Outdated
  <2> QED
    BY <2>1, <2>2
<1>3. Deploy!Outdated = [q \in DeployRuns |-> Deploy!Outdated[q]]
  BY DEF Deploy!Outdated
<1> QED
  BY <1>2, <1>3

LEMMA SendOtherKeeps ==
  ASSUME Deploy!DeployAssumption, Deploy!DeployInv, Deploy!SendOther
  PROVE  Deploy!DeployInv' /\ DeploySteps
<1> DEFINE tx == [deploys |-> FALSE, s |-> <<>>, stale |-> FALSE]
<1>1. tx \in Deploy!Txs /\ ~tx.deploys
  BY DEF Deploy!Txs
<1>2. s1' = Append(s1, tx) /\ s5' = Deploy!Outdated
  BY DEF Deploy!SendOther
<1> HIDE DEF tx
<1> QED
  BY <1>1, <1>2, OutdatedIs, SendingKeeps DEF Deploy!SendOther

LEMMA SendKeeps ==
  ASSUME Deploy!DeployAssumption, Deploy!DeployInv, NEW r \in DeployRuns, Deploy!Send(r)
  PROVE  Deploy!DeployInv' /\ DeploySteps
<1>1. /\ s5[r].stage = "ready" /\ s5[r] \in Deploy!Runs /\ Deploy!RunKept(r)
      /\ Deploy!NextNonce <= Deploy!MaxNonce
  BY DEF Deploy!Send, Deploy!DeployInv
<1>2. CASE Deploy!ConstructorRefuses(s5[r].s, CreationAddresses[Deploy!NextNonce])
  BY <1>1, <1>2, EndsKeeps DEF Deploy!Send
<1>3. CASE ~Deploy!ConstructorRefuses(s5[r].s, CreationAddresses[Deploy!NextNonce])
  <2> DEFINE tx == [deploys |-> TRUE, s |-> s5[r].s, stale |-> s5[r].stale]
             n == Deploy!NextNonce
             x == [s5[r] EXCEPT !.stage = "waiting", !.nonce = n]
  <2>1. s5[r].s \in Settings
    BY <1>1 DEF Deploy!RunKept, Deploy!Active
  <2>2. tx \in Deploy!Txs /\ tx.deploys /\ tx.s = s5[r].s /\ tx.stale = s5[r].stale
    BY <1>1, <2>1 DEF Deploy!Txs, Deploy!Runs
  <2>3. n \in Nat
    BY DEF Deploy!NextNonce, Deploy!DeployInv
  <2>4. s1' = Append(s1, tx) /\ s5' = [Deploy!Outdated EXCEPT ![r] = x]
    BY <1>3 DEF Deploy!Send
  <2>5. ~tx.stale => Deploy!RoleOf(tx.s.admin) # CreationAddresses[Deploy!NextNonce]
    BY <1>1, <2>2 DEF Deploy!RunKept
  <2> HIDE DEF tx, n
  <2>6. x \in Deploy!Runs /\ x.stage = "waiting" /\ x.nonce = n /\ x.s = s5[r].s
    BY <1>1, <2>3 DEF Deploy!Runs
  <2> HIDE DEF x
  <2>7. x.nonce = Deploy!NextNonce
    BY <2>6 DEF n
  <2>8. /\ s5' \in [DeployRuns -> Deploy!Runs] /\ s5'[r] = x
        /\ \A q \in DeployRuns : q # r => s5'[q] = Deploy!Outdated[q]
    BY <2>4, <2>6, OutdatedIs
  <2> QED
    BY <1>1, <2>1, <2>2, <2>4, <2>5, <2>6, <2>7, <2>8, OutdatedIs, SendingKeeps DEF Deploy!Send
<1> QED
  BY <1>2, <1>3

LEMMA MineKeeps ==
  ASSUME Deploy!DeployAssumption, Deploy!DeployInv, Deploy!Mine
  PROVE  Deploy!DeployInv' /\ DeploySteps
<1> DEFINE n == s2 + 1
           tx == s1[n]
           new == [at |-> CreationAddresses[n], s |-> tx.s, stale |-> tx.stale, used |-> FALSE]
<1>1. s2 \in Nat /\ n \in 1..Len(s1) /\ s2' = n /\ s2' \in 0..Len(s1')
  BY DEF Deploy!Mine, Deploy!DeployInv
<1>2. s3' = (IF tx.deploys THEN s3 \cup {new} ELSE s3)
      /\ UNCHANGED <<s1, s4, s5, s6, s7>>
  BY DEF Deploy!Mine
<1>3. s3 \subseteq s3' /\ (tx.deploys => new \in s3')
  BY <1>2
<1>4. \A i \in 1..s2 : i \in 1..n
  BY <1>1
<1>5. ASSUME NEW c \in s3'
      PROVE  /\ Deploy!MadeOfSent(c)'
             /\ c \in [at : Deploy!Places, s : Settings, stale : BOOLEAN, used : BOOLEAN]
  <2>1. CASE c \in s3
    BY <1>1, <1>2, <1>4, <2>1 DEF Deploy!DeployInv, Deploy!MadeOfSent
  <2>2. CASE c \notin s3
    <3>1. c = new /\ tx.deploys
      BY <1>2, <2>2
    <3>2. n \in 1..s2'
      BY <1>1
    <3>3. Deploy!SentKept(n) /\ tx \in Deploy!Txs /\ n \in 1..Deploy!MaxNonce
      BY <1>1 DEF Deploy!DeployInv, Deploy!DeployAssumption, Deploy!MaxNonce
    <3>4. tx.s \in Settings /\ tx.stale \in BOOLEAN /\ CreationAddresses[n] \in Deploy!Places
      BY <3>1, <3>3 DEF Deploy!SentKept, Deploy!Txs, Deploy!Places
    <3> QED
      BY <1>2, <3>1, <3>2, <3>4 DEF Deploy!MadeOfSent
  <2> QED
    BY <2>1, <2>2
<1>6. ASSUME NEW i \in 1..Len(s1')
      PROVE  Deploy!SentKept(i)'
  <2>1. Deploy!SentKept(i)
    BY <1>2 DEF Deploy!DeployInv
  <2>2. s1[i].deploys /\ i <= n => \E c \in s3' : c.at = CreationAddresses[i] /\ c.s = s1[i].s
    <3>1. CASE i = n
      BY <1>3, <3>1
    <3>2. CASE i # n
      BY <1>1, <1>2, <1>3, <2>1, <3>2 DEF Deploy!SentKept
    <3> QED
      BY <3>1, <3>2
  <2>3. Deploy!Accounted(i) => Deploy!Accounted(i)'
    BY <1>2 DEF Deploy!Accounted
  <2> QED
    BY <1>1, <1>2, <2>1, <2>2, <2>3 DEF Deploy!SentKept, Deploy!RoleOf
<1>7. \A r \in DeployRuns : Deploy!RunKept(r)'
  BY <1>2 DEF Deploy!DeployInv, Deploy!RunKept, Deploy!Active, Deploy!NextNonce, Deploy!RoleOf,
     Deploy!NoRecord
<1>8. Deploy!SeenToOverlap'
  BY <1>2 DEF Deploy!DeployInv, Deploy!SeenToOverlap, Deploy!Active, Deploy!NoRecord
<1>9. Deploy!RecordsAreReal'
  BY <1>2, <1>3 DEF Deploy!DeployInv, Deploy!RecordsAreReal, Deploy!NoRecord
<1> QED
  BY <1>1, <1>2, <1>5, <1>6, <1>7, <1>8, <1>9, RecordLeft DEF Deploy!DeployInv

LEMMA WriteRecordKeeps ==
  ASSUME Deploy!DeployAssumption, Deploy!DeployInv, NEW r \in DeployRuns, Deploy!WriteRecord(r)
  PROVE  Deploy!DeployInv' /\ DeploySteps
<1>1. /\ s5[r].stage = "waiting" /\ s5[r] \in Deploy!Runs /\ s2 >= s5[r].nonce /\ Deploy!RunKept(r)
      /\ UNCHANGED <<s1, s2, s3, s6, s7>>
  BY DEF Deploy!WriteRecord, Deploy!DeployInv
<1> DEFINE p == s5[r].s.path
           n == s5[r].nonce
<1>2. /\ s5[r].s \in Settings /\ p \in RecordPaths /\ Deploy!Active(r) /\ n \in 1..Len(s1)
      /\ s1[n].deploys /\ s1[n].s = s5[r].s
  BY <1>1 DEF Deploy!RunKept, Deploy!Active, Deploy!DeployAssumption
<1>3. CASE s4[p] # Deploy!NoRecord
  <2>1. p \in s7
    BY <1>1, <1>2, <1>3 DEF Deploy!DeployInv, Deploy!SeenToOverlap
  <2> QED
    BY <1>1, <1>3, <2>1, EndsKeeps DEF Deploy!WriteRecord
<1>4. CASE s4[p] = Deploy!NoRecord
  <2> DEFINE e == [at |-> CreationAddresses[n], readBack |-> "pending"]
             x == [s5[r] EXCEPT !.stage = "recorded"]
  <2>1. s4' = [s4 EXCEPT ![p] = e] /\ s5' = [s5 EXCEPT ![r] = x]
    BY <1>4 DEF Deploy!WriteRecord, Deploy!Stage, Deploy!Records, Deploy!DeployInv
  <2>2. x \in Deploy!Runs /\ x.stage = "recorded" /\ x.s = s5[r].s /\ x.nonce = n /\ x.stale = s5[r].stale
    BY <1>1 DEF Deploy!Runs
  <2>3. n \in 1..Deploy!MaxNonce /\ CreationAddresses[n] # "nobody"
    BY <1>2 DEF Deploy!DeployInv, Deploy!DeployAssumption, Deploy!MaxNonce
  <2>4. e \in Deploy!Entries /\ e # Deploy!NoRecord /\ e.at = CreationAddresses[n]
    BY <2>3 DEF Deploy!Entries, Deploy!Places, Deploy!NoRecord
  <2> HIDE DEF e, x
  <2>5. /\ s4' \in [RecordPaths -> Deploy!Entries] /\ s4'[p] = e
        /\ \A q \in RecordPaths : q # p => s4'[q] = s4[q]
        /\ \A q : q # p => s4'[q] = s4[q]
    BY <1>2, <2>1, <2>4 DEF Deploy!DeployInv, Deploy!Entries, Deploy!Places
  <2>6. /\ s5' \in [DeployRuns -> Deploy!Runs] /\ s5'[r] = x
        /\ \A q \in DeployRuns : q # r => s5'[q] = s5[q]
        /\ \A q \in DeployRuns : s5'[q].s = s5[q].s
        /\ \A q \in DeployRuns : Deploy!Active(q)' <=> Deploy!Active(q)
    BY <1>2, <2>1, <2>2 DEF Deploy!DeployInv, Deploy!Active
  <2>7. ASSUME NEW q \in DeployRuns
        PROVE  Deploy!RunKept(q)'
    <3>1. Deploy!RunKept(q)
      BY DEF Deploy!DeployInv
    <3>2. Deploy!Active(q)' => s5'[q].s \in Settings
      BY <2>6, <3>1 DEF Deploy!RunKept
    <3>3. s5'[q].stage = "recorded" => s4'[s5'[q].s.path] # Deploy!NoRecord
      BY <2>2, <2>4, <2>5, <2>6, <3>1 DEF Deploy!RunKept
    <3>4. CASE q = r
      BY <2>2, <2>6, <3>2, <3>3, <3>4 DEF Deploy!RunKept, Deploy!NoRecord
    <3>5. CASE q # r
      BY <1>1, <2>6, <3>1, <3>2, <3>3, <3>5 DEF Deploy!RunKept, Deploy!NoRecord, Deploy!NextNonce,
         Deploy!RoleOf
    <3> QED
      BY <3>4, <3>5
  <2>8. ASSUME NEW i \in 1..Len(s1)
        PROVE  Deploy!SentKept(i)'
    <3>1. Deploy!SentKept(i)
      BY DEF Deploy!DeployInv
    <3>2. ASSUME s1[i].deploys
          PROVE  Deploy!Accounted(i)'
      <4>1. CASE i = n
        BY <1>1, <1>2, <2>4, <2>5, <4>1 DEF Deploy!Accounted
      <4>2. CASE i # n /\ s4[s1[i].s.path].at = CreationAddresses[i]
        <5>1. i \in 1..Deploy!MaxNonce /\ CreationAddresses[i] # "nobody"
          BY DEF Deploy!DeployInv, Deploy!DeployAssumption, Deploy!MaxNonce
        <5>2. s1[i].s.path # p
          BY <1>4, <4>2, <5>1 DEF Deploy!NoRecord
        <5> QED
          BY <1>1, <2>5, <4>2, <5>2 DEF Deploy!Accounted
      <4>3. CASE i # n /\ \E q \in DeployRuns : s5[q].stage = "waiting" /\ s5[q].nonce = i
        BY <1>1, <2>6, <4>3 DEF Deploy!Accounted
      <4>4. CASE CreationAddresses[i] \in s6 \/ s1[i].s.path \in s7
        BY <1>1, <4>4 DEF Deploy!Accounted
      <4> QED
        BY <3>1, <3>2, <4>1, <4>2, <4>3, <4>4 DEF Deploy!SentKept, Deploy!Accounted
    <3> QED
      BY <1>1, <3>1, <3>2 DEF Deploy!SentKept, Deploy!RoleOf
  <2>9. Deploy!SeenToOverlap'
    <3> SUFFICES ASSUME NEW a \in DeployRuns, Deploy!Active(a)
                 PROVE  /\ \A b \in DeployRuns \ {a} : Deploy!Active(b) /\ s5[b].s.path = s5[a].s.path =>
                                                    s5[a].s.path \in s7
                        /\ s5'[a].stage # "recorded" /\ s4'[s5[a].s.path] # Deploy!NoRecord =>
                                                    s5[a].s.path \in s7
      BY <1>1, <2>6 DEF Deploy!SeenToOverlap, Deploy!NoRecord
    <3>1. \A b \in DeployRuns \ {a} : Deploy!Active(b) /\ s5[b].s.path = s5[a].s.path => s5[a].s.path \in s7
      BY DEF Deploy!DeployInv, Deploy!SeenToOverlap
    <3>2. CASE a = r
      BY <2>2, <2>6, <3>1, <3>2
    <3>3. CASE a # r /\ s5[a].s.path = p
      BY <1>2, <3>1, <3>3
    <3>4. CASE a # r /\ s5[a].s.path # p
      BY <2>5, <2>6, <3>1, <3>4 DEF Deploy!DeployInv, Deploy!SeenToOverlap
    <3> QED
      BY <3>2, <3>3, <3>4
  <2>10. Deploy!RecordsAreReal'
    <3>1. \E c \in s3 : c.at = CreationAddresses[n] /\ c.s.path = p
      <4>1. Deploy!SentKept(n) /\ n <= s2
        BY <1>1, <1>2 DEF Deploy!DeployInv
      <4> QED
        BY <1>2, <4>1 DEF Deploy!SentKept
    <3> QED
      BY <1>1, <2>4, <2>5, <3>1 DEF Deploy!DeployInv, Deploy!RecordsAreReal, Deploy!NoRecord
  <2>11. \A c \in s3 : Deploy!MadeOfSent(c)'
    BY <1>1 DEF Deploy!DeployInv, Deploy!MadeOfSent
  <2>12. DeploySteps
    BY <1>4, <2>4, <2>5, <2>1, <1>2 DEF DeploySteps, Deploy!RecordsStayStep, Deploy!GoodStaysGoodStep,
       Deploy!NoRecord, e
  <2> QED
    BY <1>1, <2>5, <2>6, <2>7, <2>8, <2>9, <2>10, <2>11, <2>12
       DEF Deploy!DeployInv, Deploy!Entries, Deploy!Places
<1> QED
  BY <1>3, <1>4

\* A verdict that is written leaves the address, and "failed" has a reason.
LEMMA VerdictKeeps ==
  ASSUME Deploy!DeployInv, NEW p \in RecordPaths, NEW v \in {"ok", "failed", "incomplete"},
         s4[p] # Deploy!NoRecord, v = "failed" => Deploy!Doubtful(s4[p].at),
         s4' = [s4 EXCEPT ![p].readBack = v],
         s5' \in [DeployRuns -> Deploy!Runs],
         \A q \in DeployRuns : s5'[q] = s5[q] \/ (s5'[q] = Deploy!NoRun /\ s5[q].stage = "recorded"),
         UNCHANGED <<s1, s2, s3, s6, s7>>
  PROVE  Deploy!DeployInv' /\ DeploySteps
<1> DEFINE e == [s4[p] EXCEPT !.readBack = v]
<1>1. e \in Deploy!Entries /\ e.at = s4[p].at /\ e.readBack = v
  BY DEF Deploy!DeployInv, Deploy!Entries
<1>2. e # Deploy!NoRecord
  BY <1>1 DEF Deploy!NoRecord
<1>3. s4' = [s4 EXCEPT ![p] = e]
  BY DEF Deploy!DeployInv
<1> HIDE DEF e
<1>4. /\ s4' \in [RecordPaths -> Deploy!Entries] /\ s4'[p] = e
      /\ \A q : q # p => s4'[q] = s4[q]
      /\ \A q : s4'[q].at = s4[q].at
      /\ \A q : s4'[q] = Deploy!NoRecord <=> s4[q] = Deploy!NoRecord
  BY <1>1, <1>2, <1>3 DEF Deploy!DeployInv
<1>5. ASSUME NEW r \in DeployRuns
      PROVE  Deploy!RunKept(r)'
  <2>1. CASE s5'[r] = s5[r]
    BY <1>4, <2>1 DEF Deploy!DeployInv, Deploy!RunKept, Deploy!Active, Deploy!NextNonce, Deploy!RoleOf,
       Deploy!NoRecord
  <2>2. CASE s5'[r] = Deploy!NoRun
    BY <2>2, RunOff DEF Deploy!RunKept, Deploy!Active
  <2> QED
    BY <2>1, <2>2
<1>6. ASSUME NEW i \in 1..Len(s1)
      PROVE  Deploy!SentKept(i)'
  <2>1. \A q \in DeployRuns : s5[q].stage = "waiting" => s5'[q] = s5[q]
    OBVIOUS
  <2>2. Deploy!SentKept(i) /\ (Deploy!Accounted(i) => Deploy!Accounted(i)')
    BY <1>4, <2>1 DEF Deploy!DeployInv, Deploy!Accounted
  <2> QED
    BY <2>2 DEF Deploy!SentKept, Deploy!RoleOf
<1>7. Deploy!SeenToOverlap'
  <2>1. \A q \in DeployRuns : Deploy!Active(q)' => Deploy!Active(q) /\ s5'[q] = s5[q]
    BY RunOff DEF Deploy!Active
  <2> QED
    BY <1>4, <2>1 DEF Deploy!DeployInv, Deploy!SeenToOverlap, Deploy!NoRecord
<1>8. Deploy!RecordsAreReal'
  BY <1>4 DEF Deploy!DeployInv, Deploy!RecordsAreReal, Deploy!NoRecord
<1>9. \A c \in s3 : Deploy!MadeOfSent(c)'
  BY DEF Deploy!DeployInv, Deploy!MadeOfSent
<1>10. DeploySteps
  BY <1>1, <1>4 DEF DeploySteps, Deploy!RecordsStayStep, Deploy!GoodStaysGoodStep
<1> QED
  BY <1>4, <1>5, <1>6, <1>7, <1>8, <1>9, <1>10 DEF Deploy!DeployInv, Deploy!Entries, Deploy!Places

LEMMA ReadBackKeeps ==
  ASSUME Deploy!DeployAssumption, Deploy!DeployInv, Deploy!LookInv,
         NEW k \in DeployRuns \cup RecordPaths, NEW v \in {"ok", "failed", "incomplete"},
         Deploy!Writes(k, v),
         k \in DeployRuns => s5[k].stage = "recorded",
         k \in RecordPaths => s4[k] # Deploy!NoRecord,
         v = "failed" => Deploy!Doubtful(s4[Deploy!PathOf(k)].at)
  PROVE  Deploy!DeployInv' /\ DeploySteps
<1> DEFINE p == Deploy!PathOf(k)
<1>1. p \in RecordPaths /\ s4[p] # Deploy!NoRecord
  BY DEF Deploy!PathOf, Deploy!DeployInv, Deploy!RunKept, Deploy!Active, Deploy!DeployAssumption
<1>2. s4' = [s4 EXCEPT ![p].readBack = v] /\ UNCHANGED <<s1, s2, s3, s6, s7>>
  BY DEF Deploy!Writes
<1>3. /\ s5' \in [DeployRuns -> Deploy!Runs]
      /\ \A q \in DeployRuns : s5'[q] = s5[q] \/ (s5'[q] = Deploy!NoRun /\ s5[q].stage = "recorded")
  BY RunOff DEF Deploy!Writes, Deploy!Ends, Deploy!DeployInv
<1>4. v = "failed" => Deploy!Doubtful(s4[p].at)
  OBVIOUS
<1> HIDE DEF p
<1> QED
  BY <1>1, <1>2, <1>3, <1>4, VerdictKeeps

LEMMA UseContractKeeps ==
  ASSUME Deploy!DeployInv, NEW c \in s3, Deploy!UseContract(c)
  PROVE  Deploy!DeployInv' /\ DeploySteps
<1> DEFINE new == [c EXCEPT !.used = TRUE]
<1>1. c \in [at : Deploy!Places, s : Settings, stale : BOOLEAN, used : BOOLEAN]
  BY DEF Deploy!DeployInv
<1>2. /\ new.at = c.at /\ new.s = c.s /\ new.stale = c.stale
      /\ new \in [at : Deploy!Places, s : Settings, stale : BOOLEAN, used : BOOLEAN]
  BY <1>1
<1>3. /\ s3' = (s3 \ {c}) \cup {new}
      /\ UNCHANGED <<s1, s2, s4, s5, s6, s7>>
  BY DEF Deploy!UseContract
<1> HIDE DEF new
<1>4. \A d \in s3 : \E e \in s3' : e.at = d.at /\ e.s = d.s
  BY <1>2, <1>3
<1>5. \A e \in s3' : \E d \in s3 : e.at = d.at /\ e.s = d.s /\ e.stale = d.stale
  BY <1>2, <1>3
<1>6. s3' \subseteq [at : Deploy!Places, s : Settings, stale : BOOLEAN, used : BOOLEAN]
  BY <1>2, <1>3 DEF Deploy!DeployInv
<1>7. \A r \in DeployRuns : Deploy!RunKept(r)'
  BY <1>3 DEF Deploy!DeployInv, Deploy!RunKept, Deploy!Active, Deploy!NextNonce, Deploy!RoleOf,
     Deploy!NoRecord
<1>8. ASSUME NEW i \in 1..Len(s1)
      PROVE  Deploy!SentKept(i)'
  <2>1. Deploy!SentKept(i) /\ (Deploy!Accounted(i) => Deploy!Accounted(i)')
    BY <1>3 DEF Deploy!DeployInv, Deploy!Accounted
  <2>2. s1[i].deploys /\ i <= s2 => \E e \in s3' : e.at = CreationAddresses[i] /\ e.s = s1[i].s
    BY <1>4, <2>1 DEF Deploy!SentKept
  <2> QED
    BY <1>3, <2>1, <2>2 DEF Deploy!SentKept, Deploy!RoleOf
<1>9. Deploy!SeenToOverlap'
  BY <1>3 DEF Deploy!DeployInv, Deploy!SeenToOverlap, Deploy!Active, Deploy!NoRecord
<1>10. Deploy!RecordsAreReal'
  <2>1. ASSUME NEW p \in RecordPaths, s4[p] # Deploy!NoRecord
        PROVE  \E e \in s3' : e.at = s4[p].at /\ e.s.path = p
    <3>1. PICK d \in s3 : d.at = s4[p].at /\ d.s.path = p
      BY <2>1 DEF Deploy!DeployInv, Deploy!RecordsAreReal
    <3> QED
      BY <1>4, <3>1
  <2> QED
    BY <1>3, <2>1 DEF Deploy!RecordsAreReal, Deploy!NoRecord
<1>11. ASSUME NEW e \in s3'
       PROVE  Deploy!MadeOfSent(e)'
  <2>1. PICK d \in s3 : e.at = d.at /\ e.s = d.s /\ e.stale = d.stale
    BY <1>5
  <2>2. Deploy!MadeOfSent(d)
    BY DEF Deploy!DeployInv
  <2> QED
    BY <1>3, <2>1, <2>2 DEF Deploy!MadeOfSent
<1> QED
  BY <1>3, <1>6, <1>7, <1>8, <1>9, <1>10, <1>11, RecordLeft DEF Deploy!DeployInv

\* A step that leaves what was given, and takes away no contract, record or doubt,
\* leaves the read-backs as they were.
LEMMA LooksKeep ==
  ASSUME Deploy!LookInv, s8' = s8, s10' = s10,
         s9' \in [DeployRuns \cup RecordPaths -> Deploy!Views],
         \A c \in s3 : \E e \in s3' : e.at = c.at /\ e.s = c.s /\ (c.used => e.used),
         \A p \in RecordPaths : s4[p] # Deploy!NoRecord => s4'[p] # Deploy!NoRecord /\ s4'[p].at = s4[p].at,
         \A r \in DeployRuns : s5[r].stage = "recorded" =>
             s9'[r].stage = "off" \/ (s5'[r] = s5[r] /\ s4[s5[r].s.path] # Deploy!NoRecord
                                                    /\ s5[r].s.path \in RecordPaths),
         \A k \in DeployRuns \cup RecordPaths :
             s9'[k] = s9[k] \/ s9'[k].stage = "off" \/ Deploy!LookKept(k)'
  PROVE  Deploy!LookInv'
<1>1. ASSUME NEW k \in DeployRuns \cup RecordPaths, s9'[k] = s9[k]
      PROVE  Deploy!LookKept(k)'
  <2>1. CASE s9[k].stage = "off"
    BY <1>1, <2>1 DEF Deploy!LookKept
  <2>2. CASE s9[k].stage # "off"
    <3>1. /\ Deploy!LookKept(k) /\ s9'[k].stage # "off"
      BY <1>1, <2>2 DEF Deploy!LookInv
    <3>2. /\ k \in DeployRuns => s5[k].stage = "recorded"
          /\ k \in RecordPaths => s4[k] # Deploy!NoRecord
          /\ s9[k].at = s4[Deploy!PathOf(k)].at
          /\ s9[k].bad => Deploy!Doubtful(s9[k].at)
          /\ s9[k].stage = "counted" /\ s8[s9[k].at] # s9[k].counted => s9[k].at \in s10
      BY <2>2, <3>1 DEF Deploy!LookKept
    <3>3. /\ k \in DeployRuns => s5'[k] = s5[k]
          /\ k \in RecordPaths => s4'[k] # Deploy!NoRecord
          /\ Deploy!PathOf(k)' = Deploy!PathOf(k)
          /\ s4'[Deploy!PathOf(k)].at = s4[Deploy!PathOf(k)].at
      BY <3>1, <3>2 DEF Deploy!PathOf
    <3>4. s9[k].bad => Deploy!Doubtful(s9[k].at)'
      BY <1>1, <3>2 DEF Deploy!Doubtful, Deploy!DeployersOwn, Deploy!RoleOf
    <3> QED
      BY <1>1, <3>2, <3>3, <3>4 DEF Deploy!LookKept, Deploy!Doubtful
  <2> QED
    BY <2>1, <2>2
<1>2. \A k \in DeployRuns \cup RecordPaths : s9'[k].stage = "off" => Deploy!LookKept(k)'
  BY DEF Deploy!LookKept
<1> QED
  BY <1>1, <1>2 DEF Deploy!LookInv, Deploy!Places, Deploy!Views, Deploy!MaxNonce

\* Where the contracts, records and runs stay, one read-back may take its next step.
LEMMA LookMoves ==
  ASSUME Deploy!DeployAssumption, Deploy!DeployInv, Deploy!LookInv,
         NEW k \in DeployRuns \cup RecordPaths, NEW l \in Deploy!Views, Deploy!Looks(k, l),
         UNCHANGED <<s3, s4, s5, s8, s10>>,
         l.stage # "off" =>
             /\ k \in DeployRuns => s5[k].stage = "recorded"
             /\ k \in RecordPaths => s4[k] # Deploy!NoRecord
             /\ l.at = s4[Deploy!PathOf(k)].at
             /\ l.bad => Deploy!Doubtful(l.at)
             /\ l.stage = "counted" /\ s8[l.at] # l.counted => l.at \in s10
  PROVE  Deploy!LookInv'
<1>1. /\ s9' \in [DeployRuns \cup RecordPaths -> Deploy!Views]
      /\ s9'[k] = l /\ \A q \in DeployRuns \cup RecordPaths : q # k => s9'[q] = s9[q]
  BY DEF Deploy!Looks, Deploy!LookInv
<1>2. Deploy!LookKept(k)'
  <2>1. Deploy!Doubtful(l.at)' = Deploy!Doubtful(l.at)
    BY DEF Deploy!Doubtful, Deploy!DeployersOwn, Deploy!RoleOf
  <2>2. Deploy!PathOf(k)' = Deploy!PathOf(k)
    BY DEF Deploy!PathOf
  <2>3. l.stage # "off" /\ l.bad => Deploy!Doubtful(l.at)'
    BY <2>1
  <2> QED
    BY <1>1, <2>2, <2>3 DEF Deploy!LookKept, Deploy!Doubtful
<1>3. \A r \in DeployRuns : s5[r].stage = "recorded" =>
         s5'[r] = s5[r] /\ s4[s5[r].s.path] # Deploy!NoRecord /\ s5[r].s.path \in RecordPaths
  BY DEF Deploy!DeployInv, Deploy!RunKept, Deploy!Active, Deploy!DeployAssumption
<1>4. \A c \in s3 : \E e \in s3' : e.at = c.at /\ e.s = c.s /\ (c.used => e.used)
  OBVIOUS
<1> QED
  BY <1>1, <1>2, <1>3, <1>4, LooksKeep

\* A step that is none of a read-back's: the contracts stay or become more or used, a
\* record that is there stays, and so does a run that has recorded its contract.
LEMMA OthersLeaveLooks ==
  ASSUME Deploy!DeployAssumption, Deploy!DeployInv, Deploy!LookInv, UNCHANGED <<s8, s9, s10>>,
         \A c \in s3 : \E e \in s3' : e.at = c.at /\ e.s = c.s /\ (c.used => e.used),
         \A p \in RecordPaths : s4[p] # Deploy!NoRecord => s4'[p] = s4[p],
         \A r \in DeployRuns : s5[r].stage = "recorded" => s5'[r] = s5[r]
  PROVE  Deploy!LookInv'
<1>1. \A r \in DeployRuns : s5[r].stage = "recorded" =>
         s5'[r] = s5[r] /\ s4[s5[r].s.path] # Deploy!NoRecord /\ s5[r].s.path \in RecordPaths
  BY DEF Deploy!DeployInv, Deploy!RunKept, Deploy!Active, Deploy!DeployAssumption
<1>2. s9' \in [DeployRuns \cup RecordPaths -> Deploy!Views]
  BY DEF Deploy!LookInv
<1> QED
  BY <1>1, <1>2, LooksKeep

LEMMA GiftKeeps ==
  ASSUME Deploy!DeployAssumption, Deploy!LookInv, NEW a \in GiftedAddresses, Deploy!Gift(a)
  PROVE  Deploy!LookInv'
<1>1. a \in Deploy!Places
  BY DEF Deploy!DeployAssumption
<1>2. /\ s8' \in [Deploy!Places -> Nat]
      /\ \A b \in Deploy!Places : b # a => s8'[b] = s8[b]
      /\ s10 \subseteq s10' /\ UNCHANGED <<s3, s4, s5, s9>>
  BY <1>1 DEF Deploy!Gift, Deploy!LookInv
<1>3. ASSUME NEW k \in DeployRuns \cup RecordPaths
      PROVE  Deploy!LookKept(k)'
  <2>1. Deploy!LookKept(k) /\ s9[k] \in Deploy!Views /\ DOMAIN s9 = DeployRuns \cup RecordPaths
    BY DEF Deploy!LookInv
  <2>2. Deploy!PathOf(k)' = Deploy!PathOf(k)
    BY <1>2 DEF Deploy!PathOf
  <2>3. Deploy!Doubtful(s9[k].at) => Deploy!Doubtful(s9[k].at)'
    BY <1>2 DEF Deploy!Doubtful, Deploy!DeployersOwn, Deploy!RoleOf
  <2>4. s9[k].stage = "counted" /\ s9[k].at = a => a \in s10'
    BY <2>1 DEF Deploy!Gift
  <2>5. s9[k].stage = "counted" /\ s8'[s9[k].at] # s9[k].counted => s9[k].at \in s10'
    BY <1>2, <2>1, <2>4 DEF Deploy!LookKept, Deploy!Views
  <2>6. s9[k].stage # "off" /\ s9[k].bad => Deploy!Doubtful(s9[k].at)'
    BY <2>1, <2>3 DEF Deploy!LookKept
  <2> QED
    BY <1>2, <2>1, <2>2, <2>5, <2>6 DEF Deploy!LookKept, Deploy!Doubtful
<1> QED
  BY <1>2, <1>3 DEF Deploy!LookInv, Deploy!Places, Deploy!Views, Deploy!MaxNonce

LEMMA WritesKeepsLooks ==
  ASSUME Deploy!DeployAssumption, Deploy!DeployInv, Deploy!LookInv,
         NEW k \in DeployRuns \cup RecordPaths, NEW v \in {"ok", "failed", "incomplete"},
         Deploy!Writes(k, v), k \in DeployRuns => s5[k].stage = "recorded"
  PROVE  Deploy!LookInv'
<1>1. Deploy!NoLook \in Deploy!Views /\ Deploy!NoLook.stage = "off"
  BY DEF Deploy!NoLook, Deploy!Views, Deploy!Places
<1>2. /\ s9' \in [DeployRuns \cup RecordPaths -> Deploy!Views]
      /\ s9'[k].stage = "off" /\ \A q \in DeployRuns \cup RecordPaths : q # k => s9'[q] = s9[q]
  BY <1>1 DEF Deploy!Writes, Deploy!Looks, Deploy!LookInv
<1>3. \A r \in DeployRuns : r # k => s5'[r] = s5[r]
  BY DEF Deploy!Writes, Deploy!Ends, Deploy!DeployInv
<1>4. \A r \in DeployRuns : s5[r].stage = "recorded" =>
         s4[s5[r].s.path] # Deploy!NoRecord /\ s5[r].s.path \in RecordPaths
  BY DEF Deploy!DeployInv, Deploy!RunKept, Deploy!Active, Deploy!DeployAssumption
<1>5. \A p \in RecordPaths : s4[p] # Deploy!NoRecord => s4'[p] # Deploy!NoRecord /\ s4'[p].at = s4[p].at
  BY DEF Deploy!Writes, Deploy!DeployInv, Deploy!Entries, Deploy!NoRecord
<1>6. \A c \in s3 : \E e \in s3' : e.at = c.at /\ e.s = c.s /\ (c.used => e.used)
  BY DEF Deploy!Writes
<1>7. s8' = s8 /\ s10' = s10
  BY DEF Deploy!Writes
<1>8. \A r \in DeployRuns : s5[r].stage = "recorded" =>
         s9'[r].stage = "off" \/ (s5'[r] = s5[r] /\ s4[s5[r].s.path] # Deploy!NoRecord
                                                /\ s5[r].s.path \in RecordPaths)
  BY <1>2, <1>3, <1>4
<1>9. \A q \in DeployRuns \cup RecordPaths :
         s9'[q] = s9[q] \/ s9'[q].stage = "off" \/ Deploy!LookKept(q)'
  BY <1>2
<1> QED
  BY <1>2, <1>5, <1>6, <1>7, <1>8, <1>9, LooksKeep

\* The steps of a read-back.
LEMMA LookStepKeeps ==
  ASSUME Deploy!DeployAssumption, Deploy!DeployInv, Deploy!LookInv, NEW k \in DeployRuns \cup RecordPaths,
         \/ \E allowRoles \in BOOLEAN : Deploy!BeginLook(k, allowRoles)
         \/ Deploy!Count(k) \/ Deploy!Compare(k)
         \/ k \in RecordPaths /\ Deploy!StopLook(k)
  PROVE  Deploy!LookInv' /\ UNCHANGED <<s1, s2, s3, s4, s5, s6, s7>>
<1>1. /\ s9[k] \in Deploy!Views /\ Deploy!LookKept(k)
      /\ s9[k].stage # "off" => s8[s9[k].at] \in Nat
  BY DEF Deploy!LookInv, Deploy!Views
<1>2. ASSUME NEW allowRoles \in BOOLEAN, Deploy!BeginLook(k, allowRoles)
      PROVE  Deploy!LookInv' /\ UNCHANGED <<s1, s2, s3, s4, s5, s6, s7>>
  <2> DEFINE at == s4[Deploy!PathOf(k)].at
             bad == Deploy!Used(at) \/ Deploy!FailsByRoles(at, allowRoles)
             l == [stage |-> "state", at |-> at, bad |-> bad, counted |-> 0]
  <2>1. Deploy!PathOf(k) \in RecordPaths
    BY <1>2 DEF Deploy!BeginLook, Deploy!PathOf, Deploy!DeployInv, Deploy!RunKept, Deploy!Active,
       Deploy!DeployAssumption
  <2>2. at \in Deploy!Places
    BY <2>1 DEF Deploy!DeployInv, Deploy!Entries
  <2>3. bad \in BOOLEAN /\ (bad => Deploy!Doubtful(at))
    BY DEF Deploy!Used, Deploy!FailsByRoles, Deploy!Doubtful
  <2>4. /\ Deploy!Looks(k, l) /\ UNCHANGED <<s1, s2, s3, s4, s5, s6, s7, s8, s10>>
        /\ k \in DeployRuns => s5[k].stage = "recorded"
        /\ k \in RecordPaths => s4[k] # Deploy!NoRecord
    BY <1>2 DEF Deploy!BeginLook
  <2>5. at = s4[Deploy!PathOf(k)].at
    OBVIOUS
  <2> HIDE DEF at, bad
  <2>6. /\ l \in Deploy!Views /\ l.stage = "state" /\ l.at = at /\ l.bad = bad
    BY <2>2, <2>3 DEF Deploy!Views
  <2> HIDE DEF l
  <2> QED
    BY <2>3, <2>4, <2>5, <2>6, LookMoves
<1>3. ASSUME Deploy!Count(k)
      PROVE  Deploy!LookInv' /\ UNCHANGED <<s1, s2, s3, s4, s5, s6, s7>>
  <2> DEFINE l == [s9[k] EXCEPT !.stage = "counted", !.counted = s8[s9[k].at]]
  <2>1. /\ Deploy!Looks(k, l) /\ UNCHANGED <<s1, s2, s3, s4, s5, s6, s7, s8, s10>> /\ s9[k].stage = "state"
    BY <1>3 DEF Deploy!Count
  <2>2. /\ l \in Deploy!Views /\ l.stage = "counted" /\ l.at = s9[k].at /\ l.bad = s9[k].bad
        /\ l.counted = s8[s9[k].at]
    BY <1>1, <2>1 DEF Deploy!Views
  <2> HIDE DEF l
  <2> QED
    BY <1>1, <2>1, <2>2, LookMoves DEF Deploy!LookKept
<1>4. ASSUME Deploy!Compare(k)
      PROVE  Deploy!LookInv' /\ UNCHANGED <<s1, s2, s3, s4, s5, s6, s7>>
  <2>1. PICK deposit \in {FALSE, Deploy!Used(s9[k].at)} :
          Deploy!Looks(k, [s9[k] EXCEPT !.stage = "done", !.counted = 0,
                             !.bad = s9[k].bad \/ deposit \/ s8[s9[k].at] # s9[k].counted])
    BY <1>4 DEF Deploy!Compare
  <2> DEFINE bad == s9[k].bad \/ deposit \/ s8[s9[k].at] # s9[k].counted
             l == [s9[k] EXCEPT !.stage = "done", !.counted = 0, !.bad = bad]
  <2>2. UNCHANGED <<s1, s2, s3, s4, s5, s6, s7, s8, s10>> /\ s9[k].stage = "counted" /\ Deploy!Looks(k, l)
    BY <1>4, <2>1 DEF Deploy!Compare
  <2>3. s9[k].at \in s10 => Deploy!Doubtful(s9[k].at)
    BY DEF Deploy!Doubtful
  <2>4. deposit => Deploy!Doubtful(s9[k].at)
    BY DEF Deploy!Used, Deploy!Doubtful
  <2>5. bad \in BOOLEAN /\ (bad => Deploy!Doubtful(s9[k].at))
    BY <1>1, <2>2, <2>3, <2>4 DEF Deploy!LookKept
  <2> HIDE DEF bad
  <2>6. l \in Deploy!Views /\ l.stage = "done" /\ l.at = s9[k].at /\ l.bad = bad
    BY <1>1, <2>5 DEF Deploy!Views
  <2> HIDE DEF l
  <2> QED
    BY <1>1, <2>2, <2>5, <2>6, LookMoves DEF Deploy!LookKept
<1>5. ASSUME k \in RecordPaths, Deploy!StopLook(k)
      PROVE  Deploy!LookInv' /\ UNCHANGED <<s1, s2, s3, s4, s5, s6, s7>>
  <2>1. Deploy!NoLook \in Deploy!Views /\ Deploy!NoLook.stage = "off"
    BY DEF Deploy!NoLook, Deploy!Views, Deploy!Places
  <2>2. Deploy!Looks(k, Deploy!NoLook) /\ UNCHANGED <<s1, s2, s3, s4, s5, s6, s7, s8, s10>>
    BY <1>5 DEF Deploy!StopLook
  <2> QED
    BY <2>1, <2>2, LookMoves
<1> QED
  BY <1>2, <1>3, <1>4, <1>5

\* Every other step.
LEMMA LooksStay ==
  ASSUME Deploy!DeployAssumption, Deploy!DeployInv, Deploy!LookInv,
         \/ \E r \in DeployRuns :
               \/ \E s \in Settings : Deploy!Admit(r, s)
               \/ Deploy!Predict(r) \/ Deploy!Send(r) \/ Deploy!WriteRecord(r) \/ Deploy!StopRun(r)
         \/ Deploy!SendOther \/ Deploy!Mine
         \/ \E c \in s3 : Deploy!UseContract(c)
  PROVE  Deploy!LookInv'
<1>1. s5 \in [DeployRuns -> Deploy!Runs] /\ s4 \in [RecordPaths -> Deploy!Entries]
  BY DEF Deploy!DeployInv
<1>2. s3' = s3 => \A c \in s3 : \E e \in s3' : e.at = c.at /\ e.s = c.s /\ (c.used => e.used)
  OBVIOUS
<1>3. ASSUME NEW r \in DeployRuns, NEW s \in Settings, Deploy!Admit(r, s)
      PROVE  Deploy!LookInv'
  <2>1. \A q \in DeployRuns : s5[q].stage = "recorded" => s5'[q] = s5[q]
    BY <1>1, <1>3 DEF Deploy!Admit, Deploy!Active
  <2> QED
    BY <1>2, <1>3, <2>1, OthersLeaveLooks DEF Deploy!Admit, Deploy!lookVars
<1>4. ASSUME NEW r \in DeployRuns, Deploy!Predict(r)
      PROVE  Deploy!LookInv'
  <2>1. s5[r].stage = "admitted" /\ \A q \in DeployRuns : q # r => s5'[q] = s5[q]
    BY <1>1, <1>4 DEF Deploy!Predict, Deploy!Ends
  <2>2. \A q \in DeployRuns : s5[q].stage = "recorded" => s5'[q] = s5[q]
    BY <2>1
  <2> QED
    BY <1>2, <1>4, <2>2, OthersLeaveLooks DEF Deploy!Predict, Deploy!lookVars
<1>5. ASSUME NEW r \in DeployRuns, Deploy!Send(r)
      PROVE  Deploy!LookInv'
  <2>1. s5[r].stage = "ready" /\ \A q \in DeployRuns : q # r => s5'[q] = s5[q] \/ s5[q].stage = "ready"
    BY <1>1, <1>5 DEF Deploy!Send, Deploy!Ends, Deploy!Outdated
  <2>2. \A q \in DeployRuns : s5[q].stage = "recorded" => s5'[q] = s5[q]
    BY <2>1
  <2> QED
    BY <1>2, <1>5, <2>2, OthersLeaveLooks DEF Deploy!Send, Deploy!lookVars
<1>6. ASSUME NEW r \in DeployRuns, Deploy!WriteRecord(r)
      PROVE  Deploy!LookInv'
  <2>1. /\ s5[r].stage = "waiting"
        /\ \A q \in DeployRuns : q # r => s5'[q] = s5[q]
        /\ \A p \in RecordPaths : s4[p] # Deploy!NoRecord => s4'[p] = s4[p]
    BY <1>1, <1>6 DEF Deploy!WriteRecord, Deploy!Stage, Deploy!Ends
  <2>2. \A q \in DeployRuns : s5[q].stage = "recorded" => s5'[q] = s5[q]
    BY <2>1
  <2> QED
    BY <1>2, <1>6, <2>1, <2>2, OthersLeaveLooks DEF Deploy!WriteRecord, Deploy!lookVars
<1>7. ASSUME NEW r \in DeployRuns, Deploy!StopRun(r)
      PROVE  Deploy!LookInv'
  <2>1. Deploy!NoLook \in Deploy!Views /\ Deploy!NoLook.stage = "off"
    BY DEF Deploy!NoLook, Deploy!Views, Deploy!Places
  <2>2. /\ s9' \in [DeployRuns \cup RecordPaths -> Deploy!Views]
        /\ s9'[r].stage = "off" /\ \A q \in DeployRuns \cup RecordPaths : q # r => s9'[q] = s9[q]
        /\ \A q \in DeployRuns : q # r => s5'[q] = s5[q]
        /\ UNCHANGED <<s3, s4, s8, s10>>
    BY <1>7, <2>1 DEF Deploy!StopRun, Deploy!Ends, Deploy!LookInv
  <2>3. \A q \in DeployRuns : s5[q].stage = "recorded" =>
           s9'[q].stage = "off" \/ (s5'[q] = s5[q] /\ s4[s5[q].s.path] # Deploy!NoRecord
                                                  /\ s5[q].s.path \in RecordPaths)
    BY <2>2 DEF Deploy!DeployInv, Deploy!RunKept, Deploy!Active, Deploy!DeployAssumption
  <2>4. \A q \in DeployRuns \cup RecordPaths :
           s9'[q] = s9[q] \/ s9'[q].stage = "off" \/ Deploy!LookKept(q)'
    BY <2>2
  <2>5. \A p \in RecordPaths : s4[p] # Deploy!NoRecord => s4'[p] # Deploy!NoRecord /\ s4'[p].at = s4[p].at
    BY <2>2
  <2> QED
    BY <1>2, <2>2, <2>3, <2>4, <2>5, LooksKeep
<1>8. CASE Deploy!SendOther
  <2>1. \A q \in DeployRuns : s5[q].stage = "recorded" => s5'[q] = s5[q]
    BY <1>1, <1>8 DEF Deploy!SendOther, Deploy!Outdated
  <2> QED
    BY <1>2, <1>8, <2>1, OthersLeaveLooks DEF Deploy!SendOther, Deploy!lookVars
<1>9. CASE Deploy!Mine
  <2>1. s3 \subseteq s3' /\ UNCHANGED <<s4, s5, s8, s9, s10>>
    BY <1>9 DEF Deploy!Mine, Deploy!lookVars
  <2> QED
    BY <2>1, OthersLeaveLooks
<1>10. ASSUME NEW c \in s3, Deploy!UseContract(c)
       PROVE  Deploy!LookInv'
  <2> DEFINE new == [c EXCEPT !.used = TRUE]
  <2>1. new.at = c.at /\ new.s = c.s /\ new.used
    BY DEF Deploy!DeployInv
  <2>2. s3' = (s3 \ {c}) \cup {new} /\ UNCHANGED <<s4, s5, s8, s9, s10>>
    BY <1>10 DEF Deploy!UseContract, Deploy!lookVars
  <2> HIDE DEF new
  <2>3. \A d \in s3 : \E e \in s3' : e.at = d.at /\ e.s = d.s /\ (d.used => e.used)
    BY <2>1, <2>2
  <2> QED
    BY <2>2, <2>3, OthersLeaveLooks
<1> QED
  BY <1>3, <1>4, <1>5, <1>6, <1>7, <1>8, <1>9, <1>10

LEMMA DeployGoesOn ==
  ASSUME Deploy!DeployAssumption, Deploy!DeployInv, Deploy!LookInv, [Deploy!DeployNext]_(Deploy!deployVars)
  PROVE  Deploy!DeployInv' /\ Deploy!LookInv' /\ DeploySteps
<1>1. ASSUME UNCHANGED <<s1, s2, s3, s4, s5, s6, s7>>
      PROVE  Deploy!DeployInv' /\ DeploySteps
  <2>1. \A r \in DeployRuns : Deploy!RunKept(r)'
    BY <1>1 DEF Deploy!DeployInv, Deploy!RunKept, Deploy!Active, Deploy!NextNonce, Deploy!RoleOf,
       Deploy!NoRecord
  <2>2. \A i \in 1..Len(s1) : Deploy!SentKept(i)'
    BY <1>1 DEF Deploy!DeployInv, Deploy!SentKept, Deploy!Accounted, Deploy!RoleOf
  <2>3. Deploy!SeenToOverlap' /\ Deploy!RecordsAreReal' /\ \A c \in s3 : Deploy!MadeOfSent(c)'
    BY <1>1 DEF Deploy!DeployInv, Deploy!SeenToOverlap, Deploy!RecordsAreReal, Deploy!MadeOfSent,
       Deploy!Active, Deploy!NoRecord
  <2> QED
    BY <1>1, <2>1, <2>2, <2>3, RecordLeft DEF Deploy!DeployInv
<1>2. CASE UNCHANGED Deploy!deployVars
  <2>1. UNCHANGED <<s1, s2, s3, s4, s5, s6, s7, s8, s9, s10>>
    BY <1>2 DEF Deploy!deployVars
  <2>2. \A c \in s3 : \E e \in s3' : e.at = c.at /\ e.s = c.s /\ (c.used => e.used)
    BY <2>1
  <2>3. Deploy!LookInv'
    BY <2>1, <2>2, OthersLeaveLooks
  <2> QED
    BY <1>1, <2>1, <2>3
<1>3. ASSUME NEW k \in DeployRuns \cup RecordPaths,
             \/ \E allowRoles \in BOOLEAN : Deploy!BeginLook(k, allowRoles)
             \/ Deploy!Count(k) \/ Deploy!Compare(k)
             \/ k \in RecordPaths /\ Deploy!StopLook(k)
      PROVE  Deploy!DeployInv' /\ Deploy!LookInv' /\ DeploySteps
  BY <1>1, <1>3, LookStepKeeps
<1>4. ASSUME NEW a \in GiftedAddresses, Deploy!Gift(a)
      PROVE  Deploy!DeployInv' /\ Deploy!LookInv' /\ DeploySteps
  <2>1. UNCHANGED <<s1, s2, s3, s4, s5, s6, s7>>
    BY <1>4 DEF Deploy!Gift
  <2> QED
    BY <1>1, <1>4, <2>1, GiftKeeps
<1>5. ASSUME NEW k \in DeployRuns \cup RecordPaths, Deploy!ReadBack(k)
      PROVE  Deploy!DeployInv' /\ Deploy!LookInv' /\ DeploySteps
  <2>1. /\ k \in DeployRuns => s5[k].stage = "recorded"
        /\ k \in RecordPaths => s4[k] # Deploy!NoRecord
        /\ s9[k].bad => Deploy!Doubtful(s4[Deploy!PathOf(k)].at)
    BY <1>5 DEF Deploy!ReadBack, Deploy!LookInv, Deploy!LookKept
  <2>2. CASE s9[k].bad
    BY <1>5, <2>1, <2>2, ReadBackKeeps, WritesKeepsLooks DEF Deploy!ReadBack
  <2>3. CASE ~s9[k].bad
    <3>1. Deploy!Writes(k, "ok")
      BY <1>5, <2>3 DEF Deploy!ReadBack
    <3> QED
      BY <2>1, <3>1, ReadBackKeeps, WritesKeepsLooks
  <2> QED
    BY <2>2, <2>3
<1>6. ASSUME NEW r \in DeployRuns, Deploy!ReadBackFails(r)
      PROVE  Deploy!DeployInv' /\ Deploy!LookInv' /\ DeploySteps
  <2>1. s5[r].stage = "recorded" /\ Deploy!Writes(r, "incomplete") /\ r \notin RecordPaths
    BY <1>6 DEF Deploy!ReadBackFails, Deploy!DeployAssumption
  <2> QED
    BY <2>1, ReadBackKeeps, WritesKeepsLooks
<1>7. ASSUME \/ \E r \in DeployRuns :
                   \/ \E s \in Settings : Deploy!Admit(r, s)
                   \/ Deploy!Predict(r) \/ Deploy!Send(r) \/ Deploy!WriteRecord(r) \/ Deploy!StopRun(r)
             \/ Deploy!SendOther \/ Deploy!Mine
             \/ \E c \in s3 : Deploy!UseContract(c)
      PROVE  Deploy!DeployInv' /\ Deploy!LookInv' /\ DeploySteps
  BY <1>7, LooksStay, AdmitKeeps, PredictKeeps, SendKeeps, WriteRecordKeeps, StopRunKeeps, SendOtherKeeps,
     MineKeeps, UseContractKeeps
<1> QED
  BY <1>2, <1>3, <1>4, <1>5, <1>6, <1>7 DEF Deploy!DeployNext

LEMMA DeployKeeps ==
  ASSUME Deploy!DeployInv
  PROVE  Deploy!NeverOwnsItself /\ Deploy!RecordsAreReal /\ Deploy!NothingGoesUnrecorded
<1>1. ASSUME NEW c \in s3
      PROVE  /\ Deploy!RoleOf(c.s.admin) = c.at => c.stale
             /\ \/ s4[c.s.path].at = c.at
                \/ \E r \in DeployRuns : s5[r].stage = "waiting" /\ CreationAddresses[s5[r].nonce] = c.at
                \/ c.at \in s6 \/ c.s.path \in s7
  <2>1. PICK i \in 1..s2 :
          s1[i].deploys /\ c.at = CreationAddresses[i] /\ c.s = s1[i].s /\ c.stale = s1[i].stale
    BY DEF Deploy!DeployInv, Deploy!MadeOfSent
  <2>2. Deploy!SentKept(i)
    BY DEF Deploy!DeployInv
  <2> QED
    BY <2>1, <2>2 DEF Deploy!SentKept, Deploy!Accounted
<1> QED
  BY <1>1 DEF Deploy!NeverOwnsItself, Deploy!NothingGoesUnrecorded, Deploy!DeployInv

-----------------------------------------------------------------------------
(* The generator of check-in chains (ChainKeeper): what is armed is a chain of*)
(* a seed and of the epoch that is armed, and what was accepted belongs to the*)
(* installation it was accepted in.                                         *)
(* The slots: s1 is mode, s2 is armed, s3 is before, s4 is call, s5 is      *)
(* accepted, s6 is installs, s7 is reused.                                  *)

\* A value as many steps from its tip.
LEMMA LinkIs ==
  ASSUME NEW seed \in Seeds, NEW vault \in ChainVaults, NEW epoch \in Nat, NEW k \in Nat
  PROVE  /\ Keeper!Link(seed, vault, epoch, k) = [seed |-> seed, vault |-> vault, epoch |-> epoch, i |-> k]
         /\ Keeper!Link(seed, vault, epoch, k) \in Keeper!Terms
BY DEF Keeper!Link, Keeper!Tip, Keeper!Terms

\* Only the value below the anchor leads to it.
LEMMA OneStepBelow ==
  ASSUME Keeper!KeeperAssumption, s1 \in {"v1", "v2"},
         NEW seed \in Seeds, NEW v \in ChainVaults, NEW epoch \in Nat, NEW left \in Nat \ {0},
         NEW x \in Keeper!Terms
  PROVE  Keeper!Step(v, epoch, x) = Keeper!Link(seed, v, epoch, left) <=>
            x = Keeper!Link(seed, v, epoch, left - 1)
<1>1. /\ Keeper!Link(seed, v, epoch, left) = [seed |-> seed, vault |-> v, epoch |-> epoch, i |-> left]
      /\ Keeper!Link(seed, v, epoch, left - 1) = [seed |-> seed, vault |-> v, epoch |-> epoch, i |-> left - 1]
  BY LinkIs
<1>2. seed # "none"
  BY DEF Keeper!KeeperAssumption
<1>3. CASE s1 = "v1" \/ (x.vault = v /\ x.epoch = epoch)
  <2>1. Keeper!Step(v, epoch, x) = [x EXCEPT !.i = @ + 1]
    BY <1>3 DEF Keeper!Step
  <2> QED
    BY <1>1, <2>1 DEF Keeper!Terms
<1>4. CASE ~(s1 = "v1" \/ (x.vault = v /\ x.epoch = epoch))
  <2>1. Keeper!Step(v, epoch, x) = [x EXCEPT !.seed = "none", !.i = @ + 1]
    BY <1>4 DEF Keeper!Step
  <2>2. Keeper!Step(v, epoch, x).seed = "none"
    BY <2>1 DEF Keeper!Terms
  <2>3. x # Keeper!Link(seed, v, epoch, left - 1)
    BY <1>1, <1>4
  <2> QED
    BY <1>1, <1>2, <2>2, <2>3
<1> QED
  BY <1>3, <1>4

\* What is kept of a vault is about that vault alone.
LEMMA KeptIfSame ==
  ASSUME NEW v, Keeper!VaultKept(v), s1' = s1, s2'[v] = s2[v], s5'[v] = s5[v],
         s6'[v] = s6[v], v \in s7' <=> v \in s7
  PROVE  Keeper!VaultKept(v)'
BY DEF Keeper!VaultKept, Keeper!Link, Keeper!Tip

\* The same of a vault that changes, from what its new values are.
LEMMA KeptFrom ==
  ASSUME NEW v, s1' = s1, NEW new, NEW was, NEW n,
         s2'[v] = new, s5'[v] = was, s6'[v] = n,
         new.left > 0 => /\ new.epoch \in new.used
                         /\ \E s \in Seeds : new.anchor = Keeper!Link(s, v, new.epoch, new.left),
         \A e \in new.used : s1 = "v2" => e <= new.epoch,
         \A a \in was :
            /\ a.value.vault = v /\ a.value.epoch \in new.used /\ a.install <= n
            /\ (v \notin s7' /\ new.left > 0) => (a.value.epoch = new.epoch <=> a.install = n),
         v \notin s7' => \A a, b \in was : a.value.epoch = b.value.epoch => a.install = b.install
  PROVE  Keeper!VaultKept(v)'
<1>1. (s2[v].left > 0 =>
          /\ s2[v].epoch \in s2[v].used
          /\ \E seed \in Seeds : s2[v].anchor = Keeper!Link(seed, v, s2[v].epoch, s2[v].left))'
  BY DEF Keeper!Link, Keeper!Tip
<1>2. (\A e \in s2[v].used : s1 = "v2" => e <= s2[v].epoch)'
  OBVIOUS
<1>3. (\A a \in s5[v] :
          /\ a.value.vault = v /\ a.value.epoch \in s2[v].used
          /\ a.install <= s6[v]
          /\ (v \notin s7 /\ s2[v].left > 0) =>
                (a.value.epoch = s2[v].epoch <=> a.install = s6[v]))'
  OBVIOUS
<1>4. (v \notin s7 =>
          \A a, b \in s5[v] : a.value.epoch = b.value.epoch => a.install = b.install)'
  OBVIOUS
<1> QED
  BY <1>1, <1>2, <1>3, <1>4 DEF Keeper!VaultKept

LEMMA PaperIs ==
  ASSUME Keeper!KeeperAssumption
  PROVE  Keeper!Paper \subseteq Keeper!Terms
<1> SUFFICES ASSUME NEW seed \in Seeds, NEW vault \in ChainVaults, NEW epoch \in 1..ChainEpochs,
                    NEW k \in 0..(ChainLength - 1)
             PROVE  Keeper!Link(seed, vault, epoch, k) \in Keeper!Terms
  BY DEF Keeper!Paper, Keeper!RevealOrder
<1> QED
  BY LinkIs DEF Keeper!KeeperAssumption

LEMMA KeeperStarts == ASSUME Keeper!KeeperAssumption PROVE Keeper!ChainInit => Keeper!ChainInv
BY DEF Keeper!KeeperAssumption, Keeper!ChainInit, Keeper!ChainInv, Keeper!VaultKept, Keeper!Armings,
   Keeper!Zero, Keeper!Terms

\* Installing: an epoch that was not used yet, or the vault is one that reuses.
LEMMA InstallKeeps ==
  ASSUME Keeper!KeeperAssumption, Keeper!ChainInv, Keeper!Install
  PROVE  Keeper!ChainInv'
<1>1. PICK seed \in Seeds, w \in ChainVaults, epoch \in 1..ChainEpochs, count \in 1..ChainLength :
          s4 = Keeper!BuildChain(seed, w, epoch, count)
  BY DEF Keeper!ChainInv, Keeper!Install
<1>2. /\ s4.vault = w /\ s4.count = count /\ s4.epoch = epoch
      /\ s4.anchor = Keeper!Link(seed, w, epoch, count) /\ s4.anchor \in Keeper!Terms
  BY <1>1, LinkIs DEF Keeper!BuildChain, Keeper!KeeperAssumption
<1> DEFINE new == [anchor |-> s4.anchor, left |-> count, epoch |-> epoch,
                   used |-> s2[w].used \cup {epoch}]
<1>3. /\ s6[w] < ChainInstalls /\ Keeper!TakesEpoch(w, epoch)
      /\ s3' = [s3 EXCEPT ![w] = s2[w]]
      /\ s2' = [s2 EXCEPT ![w] = new]
      /\ s6' = [s6 EXCEPT ![w] = @ + 1]
      /\ s7' = IF epoch \in s2[w].used THEN s7 \cup {w} ELSE s7
      /\ UNCHANGED <<s1, s4, s5>>
  BY <1>2 DEF Keeper!Install
<1>4. new \in Keeper!Armings /\ s2[w] \in Keeper!Armings /\ s6[w] \in 0..ChainInstalls
  BY <1>2 DEF Keeper!Armings, Keeper!ChainInv, Keeper!KeeperAssumption
<1> HIDE DEF new
<1>5. /\ s2' \in [ChainVaults -> Keeper!Armings] /\ s3' \in [ChainVaults -> Keeper!Armings]
      /\ s6' \in [ChainVaults -> 0..ChainInstalls] /\ s7' \subseteq ChainVaults
  BY <1>3, <1>4 DEF Keeper!ChainInv, Keeper!Armings, Keeper!KeeperAssumption
<1>6. s1 = "v2" => epoch \notin s2[w].used /\ epoch = s2[w].epoch + 1
  <2>1. s1 = "v2" => epoch = s2[w].epoch + 1 /\ \A e \in s2[w].used : e <= s2[w].epoch
    BY <1>3 DEF Keeper!TakesEpoch, Keeper!ChainInv, Keeper!VaultKept
  <2> QED
    BY <1>4, <2>1 DEF Keeper!Armings
<1>7. ASSUME NEW v \in ChainVaults
      PROVE  Keeper!VaultKept(v)'
  <2>1. CASE v # w
    BY <1>3, <2>1, KeptIfSame DEF Keeper!ChainInv
  <2>2. CASE v = w
    <3>1. /\ s2'[w] = new /\ s6'[w] = s6[w] + 1 /\ s5'[w] = s5[w]
          /\ new.epoch = epoch /\ new.left = count /\ new.used = s2[w].used \cup {epoch}
          /\ new.anchor = s4.anchor
      BY <1>3 DEF Keeper!ChainInv, new
    <3>2. Keeper!VaultKept(w)
      BY DEF Keeper!ChainInv
    <3>3. /\ epoch \in new.used
          /\ \E s \in Seeds : new.anchor = Keeper!Link(s, w, new.epoch, new.left)
      BY <1>2, <3>1
    <3>4. \A e \in new.used : s1 = "v2" => e <= new.epoch
      BY <1>4, <1>6, <3>1, <3>2 DEF Keeper!VaultKept, Keeper!Armings
    <3>5. ASSUME NEW a \in s5[w]
          PROVE  /\ a.value.vault = w /\ a.value.epoch \in new.used
                 /\ a.install <= s6[w] + 1
                 /\ w \notin s7' => (a.value.epoch = new.epoch <=> a.install = s6[w] + 1)
      <4>1. a.value.vault = w /\ a.value.epoch \in s2[w].used /\ a.install <= s6[w] /\ a.install \in Nat
        BY <3>2 DEF Keeper!VaultKept, Keeper!ChainInv
      <4> QED
        BY <1>3, <1>4, <3>1, <4>1
    <3>6. w \notin s7' => w \notin s7
      BY <1>3
    <3>7. w \notin s7' => \A a, b \in s5[w] : a.value.epoch = b.value.epoch => a.install = b.install
      BY <3>2, <3>6 DEF Keeper!VaultKept
    <3>8. s1' = s1 /\ s5'[w] = s5[w]
      BY <1>3
    <3> QED
      BY <2>2, <3>1, <3>3, <3>4, <3>5, <3>6, <3>7, <3>8, KeptFrom
  <2> QED
    BY <2>1, <2>2
<1>8. s1' = "v2" => s7' = {}
  BY <1>3, <1>6 DEF Keeper!ChainInv
<1> QED
  BY <1>1, <1>3, <1>5, <1>7, <1>8 DEF Keeper!ChainInv, Keeper!Armings, Keeper!BuildChain, Keeper!Link,
     Keeper!Tip

LEMMA DisarmKeeps ==
  ASSUME Keeper!KeeperAssumption, Keeper!ChainInv, NEW w \in ChainVaults, Keeper!Disarm(w)
  PROVE  Keeper!ChainInv'
<1> DEFINE new == [s2[w] EXCEPT !.anchor = Keeper!Zero, !.left = 0,
                                   !.epoch = IF s1 = "v2" THEN @ + 1 ELSE @]
<1>1. /\ s3' = [s3 EXCEPT ![w] = s2[w]]
      /\ s2' = [s2 EXCEPT ![w] = new]
      /\ UNCHANGED <<s1, s4, s5, s6, s7>>
  BY DEF Keeper!Disarm, Keeper!ChainInv
<1>2. s2[w] \in Keeper!Armings
  BY DEF Keeper!ChainInv, Keeper!Armings
<1>3. Keeper!Zero \in Keeper!Terms /\ 0 \in 0..ChainLength
  BY DEF Keeper!Zero, Keeper!Terms, Keeper!KeeperAssumption
<1>4. s2[w].epoch \in Nat
  BY <1>2 DEF Keeper!Armings
<1> DEFINE epoch == IF s1 = "v2" THEN s2[w].epoch + 1 ELSE s2[w].epoch
<1>5. epoch \in Nat /\ epoch >= s2[w].epoch
  BY <1>4
<1>6. new \in Keeper!Armings /\ new.left = 0 /\ new.used = s2[w].used /\ new.epoch = epoch
  <2> DEFINE same == [s2[w] EXCEPT !.anchor = Keeper!Zero, !.left = 0, !.epoch = epoch]
  <2>1. new = same
    OBVIOUS
  <2> HIDE DEF epoch
  <2>2. same \in Keeper!Armings /\ same.left = 0 /\ same.used = s2[w].used /\ same.epoch = epoch
    BY <1>2, <1>3, <1>5 DEF Keeper!Armings
  <2> HIDE DEF same, new
  <2> QED
    BY <2>1, <2>2
<1> HIDE DEF epoch
<1> HIDE DEF new
<1>7. s2' \in [ChainVaults -> Keeper!Armings] /\ s3' \in [ChainVaults -> Keeper!Armings]
  BY <1>1, <1>2, <1>6 DEF Keeper!ChainInv, Keeper!Armings
<1>8. ASSUME NEW v \in ChainVaults
      PROVE  Keeper!VaultKept(v)'
  <2>1. CASE v # w
    BY <1>1, <2>1, KeptIfSame DEF Keeper!ChainInv
  <2>2. CASE v = w
    <3>1. s2'[w] = new
      BY <1>1 DEF Keeper!ChainInv
    <3>2. Keeper!VaultKept(w)
      BY DEF Keeper!ChainInv
    <3>3. \A x \in new.used : s1 = "v2" => x <= new.epoch
      <4>1. \A x \in s2[w].used : x \in Nat
        BY <1>2 DEF Keeper!Armings
      <4>2. \A x \in s2[w].used : s1 = "v2" => x <= s2[w].epoch
        BY <3>2 DEF Keeper!VaultKept
      <4>3. s2[w].epoch \in Nat
        BY <1>2 DEF Keeper!Armings
      <4> QED
        BY <1>5, <1>6, <4>1, <4>2, <4>3
    <3>4. /\ s1' = s1 /\ s5'[w] = s5[w] /\ s6'[w] = s6[w]
          /\ s7' = s7 /\ ~(new.left > 0)
          /\ \A a \in s5[w] : /\ a.value.vault = w /\ a.value.epoch \in new.used
                                    /\ a.install <= s6[w]
          /\ w \notin s7 => \A a, b \in s5[w] : a.value.epoch = b.value.epoch => a.install = b.install
      BY <1>1, <1>6, <3>2 DEF Keeper!VaultKept
    <3> QED
      BY <1>1, <1>2, <1>5, <1>6, <2>2, <3>1, <3>2, <3>3, <3>4, KeptFrom
  <2> QED
    BY <2>1, <2>2
<1> QED
  BY <1>1, <1>7, <1>8 DEF Keeper!ChainInv, Keeper!Armings, Keeper!BuildChain, Keeper!Link, Keeper!Tip

\* Checking in: the value below the anchor, of the epoch that is armed.
LEMMA ChainCheckInKeeps ==
  ASSUME Keeper!KeeperAssumption, Keeper!ChainInv, NEW w \in ChainVaults, NEW x \in Keeper!Paper,
         Keeper!CheckInByChain(w, x)
  PROVE  Keeper!ChainInv'
<1> DEFINE new == [s2[w] EXCEPT !.anchor = x, !.left = @ - 1]
           mark == [value |-> x, install |-> s6[w]]
<1>1. /\ s2[w].left > 0 /\ Keeper!Step(w, s2[w].epoch, x) = s2[w].anchor
      /\ s3' = [s3 EXCEPT ![w] = s2[w]]
      /\ s2' = [s2 EXCEPT ![w] = new]
      /\ s5' = [s5 EXCEPT ![w] = @ \cup {mark}]
      /\ UNCHANGED <<s1, s4, s6, s7>>
  BY DEF Keeper!CheckInByChain, Keeper!Accepts, Keeper!ChainInv
<1>2. s2[w] \in Keeper!Armings /\ Keeper!VaultKept(w) /\ x \in Keeper!Terms /\ s6[w] \in Nat
  BY PaperIs DEF Keeper!ChainInv, Keeper!Armings
<1>3. PICK seed \in Seeds : s2[w].anchor = Keeper!Link(seed, w, s2[w].epoch, s2[w].left)
  BY <1>1, <1>2 DEF Keeper!VaultKept
<1>4. x = Keeper!Link(seed, w, s2[w].epoch, s2[w].left - 1)
  BY <1>1, <1>2, <1>3, OneStepBelow DEF Keeper!ChainInv, Keeper!Armings
<1>5. x.vault = w /\ x.epoch = s2[w].epoch /\ x.epoch \in s2[w].used
  <2>1. s2[w].epoch \in Nat /\ s2[w].left - 1 \in Nat
    BY <1>1, <1>2 DEF Keeper!Armings
  <2>2. x = [seed |-> seed, vault |-> w, epoch |-> s2[w].epoch, i |-> s2[w].left - 1]
    BY <1>4, <2>1, LinkIs
  <2> QED
    BY <1>1, <1>2, <2>2 DEF Keeper!VaultKept
<1>6. /\ new \in Keeper!Armings /\ new.anchor = x /\ new.left = s2[w].left - 1
      /\ new.epoch = s2[w].epoch /\ new.used = s2[w].used
  <2>1. s2[w].left \in 0..ChainLength /\ s2[w].epoch \in Nat
    BY <1>2 DEF Keeper!Armings
  <2>2. s2[w].left - 1 \in 0..ChainLength
    BY <1>1, <2>1 DEF Keeper!KeeperAssumption
  <2> DEFINE left == s2[w].left - 1
             same == [s2[w] EXCEPT !.anchor = x, !.left = left]
  <2>3. new = same
    OBVIOUS
  <2> HIDE DEF left
  <2>4. same \in Keeper!Armings /\ same.anchor = x /\ same.left = left /\ same.epoch = s2[w].epoch
        /\ same.used = s2[w].used
    BY <1>2, <2>2 DEF Keeper!Armings, left
  <2> HIDE DEF same, new
  <2> QED
    BY <2>3, <2>4 DEF left
<1>7. mark \in [value : Keeper!Terms, install : Nat] /\ mark.value = x /\ mark.install = s6[w]
  BY <1>2
<1> HIDE DEF new, mark
<1>8. /\ s2' \in [ChainVaults -> Keeper!Armings] /\ s3' \in [ChainVaults -> Keeper!Armings]
      /\ s5' \in [ChainVaults -> SUBSET [value : Keeper!Terms, install : Nat]]
  BY <1>1, <1>2, <1>6, <1>7 DEF Keeper!ChainInv, Keeper!Armings
<1>9. ASSUME NEW v \in ChainVaults
      PROVE  Keeper!VaultKept(v)'
  <2>1. CASE v # w
    BY <1>1, <2>1, KeptIfSame DEF Keeper!ChainInv
  <2>2. CASE v = w
    <3>1. s2'[w] = new /\ s5'[w] = s5[w] \cup {mark} /\ s6'[w] = s6[w]
      BY <1>1 DEF Keeper!ChainInv
    <3>2. new.left > 0 => \E s \in Seeds : new.anchor = Keeper!Link(s, w, new.epoch, new.left)
      BY <1>4, <1>6
    <3>3. ASSUME NEW a \in s5[w] \cup {mark}
          PROVE  /\ a.value.vault = w /\ a.value.epoch \in new.used /\ a.install <= s6[w]
                 /\ w \notin s7 => (a.value.epoch = new.epoch <=> a.install = s6[w])
      BY <1>1, <1>2, <1>5, <1>6, <1>7 DEF Keeper!VaultKept
    <3>4. w \notin s7 =>
            \A a, b \in s5[w] \cup {mark} : a.value.epoch = b.value.epoch => a.install = b.install
      BY <1>2, <1>5, <1>6, <1>7, <3>3 DEF Keeper!VaultKept
    <3>5. s1' = s1 /\ s7' = s7 /\ \A e \in new.used : s1 = "v2" => e <= new.epoch
      BY <1>1, <1>2, <1>6 DEF Keeper!VaultKept
    <3>6. s5'[w] = s5[w] \cup {mark} /\ s2'[w] = new /\ s6'[w] = s6[w]
      BY <3>1
    <3>7. new.epoch \in new.used
      BY <1>5, <1>6
    <3> HIDE DEF new, mark
    <3> QED
      BY <2>2, <3>2, <3>3, <3>4, <3>5, <3>6, <3>7, KeptFrom
  <2> QED
    BY <2>1, <2>2
<1> QED
  BY <1>1, <1>8, <1>9 DEF Keeper!ChainInv, Keeper!Armings, Keeper!BuildChain, Keeper!Link, Keeper!Tip

LEMMA KeeperGoesOn ==
  ASSUME Keeper!KeeperAssumption, Keeper!ChainInv, [Keeper!ChainNext]_(Keeper!chainVars)
  PROVE  Keeper!ChainInv'
<1>1. ASSUME NEW seed \in Seeds, NEW vault \in ChainVaults, NEW given \in 1..ChainEpochs,
             NEW count \in 1..ChainLength, Keeper!PrintAnchor(seed, vault, count, given)
      PROVE  Keeper!ChainInv'
  <2>1. PICK epoch \in 1..ChainEpochs : s4' = Keeper!BuildChain(seed, vault, epoch, count)
    BY <1>1 DEF Keeper!PrintAnchor
  <2>2. UNCHANGED <<s1, s2, s3, s5, s6, s7>>
    BY <1>1 DEF Keeper!PrintAnchor
  <2>3. \A v \in ChainVaults : Keeper!VaultKept(v)'
    BY <2>2, KeptIfSame DEF Keeper!ChainInv
  <2> QED
    BY <2>1, <2>2, <2>3 DEF Keeper!ChainInv, Keeper!BuildChain, Keeper!Link, Keeper!Tip
<1>2. CASE UNCHANGED Keeper!chainVars
  <2>1. \A v \in ChainVaults : Keeper!VaultKept(v)'
    BY <1>2, KeptIfSame DEF Keeper!chainVars, Keeper!ChainInv
  <2> QED
    BY <1>2, <2>1 DEF Keeper!chainVars, Keeper!ChainInv, Keeper!BuildChain, Keeper!Link, Keeper!Tip
<1> QED
  BY <1>1, <1>2, InstallKeeps, DisarmKeeps, ChainCheckInKeeps DEF Keeper!ChainNext

LEMMA NextValueFound ==
  ASSUME Keeper!KeeperAssumption, Keeper!ChainInv
  PROVE  Keeper!NextValueWorks
<1> SUFFICES ASSUME NEW v \in ChainVaults, s2[v].left > 0
             PROVE  LET anchor == s2[v].anchor
                        printed == Keeper!PrintedNext(anchor.seed, v, anchor.epoch, s2[v])
                    IN  printed # {} /\ \A x \in Keeper!Paper : Keeper!Accepts(v, x) <=> x \in printed
  BY DEF Keeper!NextValueWorks
<1>1. s2[v] \in Keeper!Armings /\ Keeper!VaultKept(v)
  BY DEF Keeper!ChainInv, Keeper!Armings
<1>2. PICK seed \in Seeds : s2[v].anchor = Keeper!Link(seed, v, s2[v].epoch, s2[v].left)
  BY <1>1 DEF Keeper!VaultKept
<1> DEFINE value == Keeper!Link(seed, v, s2[v].epoch, s2[v].left - 1)
<1>3. /\ s2[v].anchor.seed = seed /\ s2[v].anchor.epoch = s2[v].epoch
      /\ s2[v].anchor # Keeper!Zero /\ value \in Keeper!Terms
  BY <1>1, <1>2, LinkIs DEF Keeper!Armings, Keeper!Zero, Keeper!KeeperAssumption
<1>4. \A x \in Keeper!Terms : Keeper!Step(v, s2[v].epoch, x) = s2[v].anchor <=> x = value
  BY <1>1, <1>2, OneStepBelow DEF Keeper!ChainInv, Keeper!Armings
<1>5. Keeper!PrintedNext(seed, v, s2[v].epoch, s2[v]) = {value}
  BY <1>3, <1>4 DEF Keeper!PrintedNext, Keeper!NextValue
<1>6. \A x \in Keeper!Paper : Keeper!Accepts(v, x) <=> x = value
  BY <1>4, PaperIs DEF Keeper!Accepts
<1> QED
  BY <1>3, <1>5, <1>6

LEMMA KeeperKeeps ==
  ASSUME Keeper!KeeperAssumption, Keeper!ChainInv
  PROVE  /\ Keeper!ChainTypeOK /\ Keeper!SpentStaysSpent /\ Keeper!EpochsAreNew
         /\ Keeper!ValuesDoNotCross /\ Keeper!NextValueWorks
<1>1. Keeper!ChainTypeOK
  <2>1. ASSUME NEW v \in ChainVaults, s2[v].left > 0
        PROVE  s2[v].anchor.i = s2[v].left
    <3>1. s2[v] \in Keeper!Armings /\ Keeper!VaultKept(v)
      BY DEF Keeper!ChainInv
    <3>2. s2[v].left \in Nat /\ s2[v].epoch \in Nat
      BY <3>1 DEF Keeper!Armings
    <3>3. PICK seed \in Seeds : s2[v].anchor = Keeper!Link(seed, v, s2[v].epoch, s2[v].left)
      BY <2>1, <3>1 DEF Keeper!VaultKept
    <3> QED
      BY <3>2, <3>3, LinkIs
  <2>2. \A v \in ChainVaults : s2[v].left \in 0..ChainLength /\ s6[v] \in 0..ChainInstalls
    BY DEF Keeper!ChainInv, Keeper!Armings
  <2>3. s1 \in {"v1", "v2"} /\ s7 \subseteq ChainVaults
    BY DEF Keeper!ChainInv
  <2> QED
    BY <2>1, <2>2, <2>3 DEF Keeper!ChainTypeOK
<1>2. Keeper!SpentStaysSpent
  <2> SUFFICES ASSUME NEW v \in ChainVaults, v \notin s7, NEW a \in s5[v], NEW b \in s5[v],
                      a.value = b.value
               PROVE  a = b
    BY DEF Keeper!SpentStaysSpent
  <2>1. a.install = b.install
    BY DEF Keeper!ChainInv, Keeper!VaultKept
  <2>2. a \in [value : Keeper!Terms, install : Nat] /\ b \in [value : Keeper!Terms, install : Nat]
    BY DEF Keeper!ChainInv
  <2> QED
    BY <2>1, <2>2
<1>3. Keeper!EpochsAreNew
  BY DEF Keeper!EpochsAreNew, Keeper!ChainInv
<1>4. Keeper!ValuesDoNotCross
  BY DEF Keeper!ValuesDoNotCross, Keeper!ChainInv, Keeper!VaultKept
<1> QED
  BY <1>1, <1>2, <1>3, <1>4, NextValueFound

-----------------------------------------------------------------------------
(* The beginning of the lifecycle program (LifecycleSetup): what is known of a*)
(* run grows from stage to stage, and of the file it works on.              *)
(* The slots: s1 is code, s2 is funds, s3 is file, s4 is old, s5 is run,    *)
(* s6 is runs.                                                              *)

SetupSteps == Setup!StatusOnlyReadsStep /\ Setup!RecordsAreKeptStep

\* A run that has a stage of its own is under way.
LEMMA UnderWay ==
  ASSUME Setup!SetupInv, NEW s, s # "idle", Setup!At(s)
  PROVE  s5 # Setup!Idle /\ s5 \in Setup!Runs /\ s5.stage = s /\ Setup!Fits(s, s5.opts, s3)
BY DEF Setup!At, Setup!Idle, Setup!SetupInv, Setup!Runs

\* A run that goes on to another stage.
LEMMA GoesIs ==
  ASSUME NEW s \in Setup!Stages, s5 \in Setup!Runs, Setup!Goes(s)
  PROVE  s5' \in Setup!Runs /\ s5'.stage = s /\ s5'.opts = s5.opts
BY DEF Setup!Goes, Setup!Runs

\* A file that is left alone is kept.
LEMMA FileLeft ==
  ASSUME Setup!SetupInv, UNCHANGED s3
  PROVE  Setup!RecordsAreKeptStep
<1>1. ASSUME NEW f \in s3
      PROVE  \E g \in s3' : [g EXCEPT !.begun = f.begun] = f
  <2>1. f \in Setup!Files
    BY DEF Setup!SetupInv
  <2>2. [f EXCEPT !.begun = f.begun] = f
    BY <2>1 DEF Setup!Files
  <2> QED
    BY <2>2
<1> QED
  BY <1>1 DEF Setup!RecordsAreKeptStep

\* The steps in which a run neither ends nor changes anything but itself.
LEMMA RunAlone ==
  ASSUME Setup!SetupInv, UNCHANGED <<s1, s2, s3, s4>>,
         s5' # Setup!Idle => s5' \in Setup!Runs /\ Setup!Fits(s5'.stage, s5'.opts, s3)
  PROVE  Setup!SetupInv' /\ SetupSteps
<1>1. Setup!SetupInv'
  BY DEF Setup!SetupInv, Setup!Fits, Setup!Runs, Setup!RefusedChain
<1> QED
  BY <1>1, FileLeft DEF SetupSteps, Setup!StatusOnlyReadsStep

LEMMA SetupStarts == Setup!SetupInit => Setup!SetupInv
BY DEF Setup!SetupInit, Setup!SetupInv, Setup!Chains, Setup!Roles

LEMMA SetupBeginKeeps ==
  ASSUME Setup!SetupInv, NEW o \in Setup!Options, Setup!Begin(o)
  PROVE  Setup!SetupInv' /\ SetupSteps
<1>1. s5' \in Setup!Runs /\ s5'.stage = "open" /\ s5'.opts = o
  BY DEF Setup!Begin, Setup!Runs, Setup!Stages
<1>2. Setup!Fits(s5'.stage, s5'.opts, s3)
  BY <1>1 DEF Setup!Fits
<1> QED
  BY <1>1, <1>2, RunAlone DEF Setup!Begin

LEMMA SetupOpenKeeps ==
  ASSUME Setup!SetupInv, Setup!Open
  PROVE  Setup!SetupInv' /\ SetupSteps
<1>1. s5 \in Setup!Runs /\ s5.stage = "open"
  BY UnderWay DEF Setup!Open
<1>2. CASE Setup!RefusedChain(s5.opts)
  BY <1>2, RunAlone DEF Setup!Open, Setup!Stops
<1>3. CASE ~Setup!RefusedChain(s5.opts)
  <2>1. Setup!Goes("file") /\ UNCHANGED <<s1, s2, s3, s4>>
    BY <1>3 DEF Setup!Open
  <2>2. s5' \in Setup!Runs /\ s5'.stage = "file" /\ s5'.opts = s5.opts
    BY <1>1, <2>1, GoesIs DEF Setup!Stages
  <2>3. Setup!Fits(s5'.stage, s5'.opts, s3)
    BY <1>3, <2>2 DEF Setup!Fits
  <2> QED
    BY <2>1, <2>2, <2>3, RunAlone
<1> QED
  BY <1>2, <1>3

LEMMA ReadFileKeeps ==
  ASSUME Setup!SetupInv, Setup!ReadFile
  PROVE  Setup!SetupInv' /\ SetupSteps
<1>1. s5 # Setup!Idle /\ s5 \in Setup!Runs /\ s5.stage = "file" /\ Setup!Fits("file", s5.opts, s3)
  BY UnderWay DEF Setup!ReadFile
<1>2. CASE Setup!Stops /\ UNCHANGED <<s3, s4>>
  BY <1>2, RunAlone DEF Setup!ReadFile, Setup!Stops
<1>3. CASE Setup!PutAside /\ s3' = {} /\ Setup!Goes("deploy") /\ ~Setup!ReadOnly
  <2>1. s5' \in Setup!Runs /\ s5'.stage = "deploy" /\ s5'.opts = s5.opts
    BY <1>1, <1>3, GoesIs DEF Setup!Stages
  <2>2. Setup!Fits("deploy", s5.opts, {})
    BY <1>1, <1>3 DEF Setup!Fits, Setup!ReadOnly
  <2>3. s4' = s4 \cup s3 /\ UNCHANGED <<s1, s2>>
    BY <1>3 DEF Setup!PutAside, Setup!ReadFile
  <2>4. Setup!SetupInv'
    BY <1>3, <2>1, <2>2, <2>3 DEF Setup!SetupInv, Setup!Runs, Setup!Fits, Setup!RefusedChain
  <2> QED
    BY <1>3, <2>3, <2>4 DEF SetupSteps, Setup!StatusOnlyReadsStep, Setup!RecordsAreKeptStep, Setup!ReadOnly
<1>4. CASE /\ \A f \in s3 : f.chain = s5.opts.chain /\ ~Setup!Gone(f)
           /\ Setup!ReadOnly => s3 # {}
           /\ Setup!Goes("deploy") /\ UNCHANGED <<s3, s4>>
  <2>1. s5' \in Setup!Runs /\ s5'.stage = "deploy" /\ s5'.opts = s5.opts
    BY <1>1, <1>4, GoesIs DEF Setup!Stages
  <2>2. Setup!Fits(s5'.stage, s5'.opts, s3)
    BY <1>1, <1>4, <2>1 DEF Setup!Fits, Setup!ReadOnly
  <2> QED
    BY <1>4, <2>1, <2>2, RunAlone DEF Setup!ReadFile
<1> QED
  BY <1>2, <1>3, <1>4 DEF Setup!ReadFile

LEMMA LocalDeployKeeps ==
  ASSUME Setup!SetupInv, Setup!Deploy
  PROVE  Setup!SetupInv' /\ SetupSteps
<1>1. s5 # Setup!Idle /\ s5 \in Setup!Runs /\ s5.stage = "deploy" /\ Setup!Fits("deploy", s5.opts, s3)
  BY UnderWay DEF Setup!Deploy
<1>2. CASE s3 = {} /\ s5.opts.local /\ s5.opts.vault = "no vault"
  <2>1. PICK v \in SetupVaults :
            /\ s1' = [s1 EXCEPT ![Setup!Hardhat][v] = "same"]
            /\ s5' = [s5 EXCEPT !.stage = "vault", !.opts.vault = v]
    BY <1>2 DEF Setup!Deploy
  <2>2. UNCHANGED <<s2, s3, s4>>
    BY DEF Setup!Deploy
  <2>3. s1' \in [Setup!Chains -> [SetupVaults -> {"none", "same", "other"}]]
    BY <2>1 DEF Setup!SetupInv, Setup!Chains
  <2>4. s5' \in Setup!Runs /\ s5'.stage = "vault" /\ s5'.opts = [s5.opts EXCEPT !.vault = v]
    BY <1>1, <2>1 DEF Setup!Runs, Setup!Stages, Setup!Options
  <2>5. s5'.opts.chain = s5.opts.chain /\ s5'.opts.local = s5.opts.local
    BY <1>1, <2>4 DEF Setup!Runs, Setup!Options
  <2>6. Setup!Fits(s5'.stage, s5'.opts, s3)
    BY <1>1, <1>2, <2>4, <2>5 DEF Setup!Fits, Setup!RefusedChain
  <2>7. Setup!SetupInv'
    BY <2>2, <2>3, <2>4, <2>6 DEF Setup!SetupInv, Setup!Runs, Setup!Fits, Setup!RefusedChain
  <2>8. ~s5.opts.status
    BY <1>1, <1>2 DEF Setup!Fits
  <2> QED
    BY <1>1, <2>2, <2>7, <2>8, FileLeft DEF SetupSteps, Setup!StatusOnlyReadsStep
<1>3. CASE ~(s3 = {} /\ s5.opts.local /\ s5.opts.vault = "no vault")
  <2>1. Setup!Goes("vault") /\ UNCHANGED <<s1, s2, s3, s4>>
    BY <1>3 DEF Setup!Deploy
  <2>2. s5' \in Setup!Runs /\ s5'.stage = "vault" /\ s5'.opts = s5.opts
    BY <1>1, <2>1, GoesIs DEF Setup!Stages
  <2>3. Setup!Fits(s5'.stage, s5'.opts, s3)
    BY <1>1, <2>2 DEF Setup!Fits
  <2> QED
    BY <2>1, <2>2, <2>3, RunAlone
<1> QED
  BY <1>2, <1>3

LEMMA ChooseVaultKeeps ==
  ASSUME Setup!SetupAssumption, Setup!SetupInv, NEW recorded \in SetupVaults \cup {"no vault"},
         Setup!ChooseVault(recorded)
  PROVE  Setup!SetupInv' /\ SetupSteps
<1>1. s5 # Setup!Idle /\ s5 \in Setup!Runs /\ s5.stage = "vault" /\ Setup!Fits("vault", s5.opts, s3)
  BY UnderWay DEF Setup!ChooseVault
<1> DEFINE v == Setup!Chosen(recorded)
<1>2. UNCHANGED <<s1, s2, s3, s4>>
  BY DEF Setup!ChooseVault
<1>3. CASE Setup!RefusedVault(v) \/ Setup!RefusedCode(v)
  BY <1>2, <1>3, RunAlone DEF Setup!ChooseVault, Setup!Stops
<1>4. CASE ~(Setup!RefusedVault(v) \/ Setup!RefusedCode(v))
  <2> DEFINE stage == IF Setup!ReadOnly THEN "report" ELSE "keys"
  <2>1. s5' = [s5 EXCEPT !.stage = stage, !.opts.vault = v]
    BY <1>4 DEF Setup!ChooseVault
  <2>2. v # "no vault" /\ \A f \in s3 : f.vault = v
    BY <1>4 DEF Setup!RefusedVault
  <2>3. v \in SetupVaults
    <3>1. CASE s5.opts.vault # "no vault"
      BY <1>1, <3>1 DEF Setup!Chosen, Setup!Runs, Setup!Options
    <3>2. CASE s5.opts.vault = "no vault" /\ s3 # {}
      <4>1. (CHOOSE f \in s3 : TRUE) \in Setup!Files
        BY <3>2 DEF Setup!SetupInv
      <4> QED
        BY <3>2, <4>1 DEF Setup!Chosen, Setup!Files
    <3>3. CASE s5.opts.vault = "no vault" /\ s3 = {}
      BY <2>2, <3>3 DEF Setup!Chosen
    <3> QED
      BY <3>1, <3>2, <3>3
  <2> HIDE DEF v
  <2>4. stage \in {"report", "keys"} /\ (stage = "keys" => ~s5.opts.status)
    BY DEF Setup!ReadOnly
  <2> HIDE DEF stage
  <2>5. s5' \in Setup!Runs /\ s5'.stage = stage /\ s5'.opts = [s5.opts EXCEPT !.vault = v]
    BY <1>1, <2>1, <2>3, <2>4 DEF Setup!Runs, Setup!Stages, Setup!Options
  <2>6. /\ s5'.opts.chain = s5.opts.chain /\ s5'.opts.local = s5.opts.local
        /\ s5'.opts.status = s5.opts.status /\ s5'.opts.vault = v
    BY <1>1, <2>5 DEF Setup!Runs, Setup!Options
  <2>7. Setup!Fits(s5'.stage, s5'.opts, s3)
    BY <1>1, <2>2, <2>3, <2>4, <2>5, <2>6 DEF Setup!Fits, Setup!RefusedChain
  <2> QED
    BY <1>2, <2>5, <2>7, RunAlone
<1> QED
  BY <1>3, <1>4

LEMMA LoadKeysKeeps ==
  ASSUME Setup!SetupInv, Setup!LoadKeys
  PROVE  Setup!SetupInv' /\ SetupSteps
<1>1. s5 # Setup!Idle /\ s5 \in Setup!Runs /\ s5.stage = "keys" /\ Setup!Fits("keys", s5.opts, s3)
  BY UnderWay DEF Setup!LoadKeys
<1>2. UNCHANGED <<s1, s2, s3, s4>>
  BY DEF Setup!LoadKeys
<1>3. CASE Setup!RefusedKeys
  BY <1>2, <1>3, RunAlone DEF Setup!LoadKeys, Setup!Stops
<1>4. CASE ~Setup!RefusedKeys
  <2> DEFINE k == Setup!Loaded
  <2>1. s5' = [s5 EXCEPT !.stage = "fund", !.opts.keys = k]
    BY <1>4 DEF Setup!LoadKeys
  <2>2. k \in Setup!Secret \cup (IF s5.opts.local THEN {Setup!Public} ELSE {}) /\ \A f \in s3 : f.keys = k
    BY <1>4 DEF Setup!RefusedKeys
  <2>3. k \in Setup!Keys
    BY <2>2 DEF Setup!Keys
  <2> HIDE DEF k
  <2>4. s5' \in Setup!Runs /\ s5'.stage = "fund" /\ s5'.opts = [s5.opts EXCEPT !.keys = k]
    BY <1>1, <2>1, <2>3 DEF Setup!Runs, Setup!Stages, Setup!Options
  <2>5. /\ s5'.opts.chain = s5.opts.chain /\ s5'.opts.local = s5.opts.local
        /\ s5'.opts.status = s5.opts.status /\ s5'.opts.vault = s5.opts.vault /\ s5'.opts.keys = k
    BY <1>1, <2>4 DEF Setup!Runs, Setup!Options
  <2>6. Setup!Fits(s5'.stage, s5'.opts, s3)
    BY <1>1, <2>2, <2>4, <2>5 DEF Setup!Fits, Setup!RefusedChain
  <2> QED
    BY <1>2, <2>4, <2>6, RunAlone
<1> QED
  BY <1>3, <1>4

LEMMA LocalFundKeeps ==
  ASSUME Setup!SetupInv, Setup!LocalFund
  PROVE  Setup!SetupInv' /\ SetupSteps
<1>1. s5 # Setup!Idle /\ s5 \in Setup!Runs /\ s5.stage = "fund" /\ Setup!Fits("fund", s5.opts, s3)
  BY UnderWay DEF Setup!LocalFund
<1>2. Setup!Goes("check") /\ UNCHANGED <<s1, s3, s4>>
  BY DEF Setup!LocalFund
<1>3. s5' \in Setup!Runs /\ s5'.stage = "check" /\ s5'.opts = s5.opts
  BY <1>1, <1>2, GoesIs DEF Setup!Stages
<1>4. Setup!Fits(s5'.stage, s5'.opts, s3)
  BY <1>1, <1>3 DEF Setup!Fits
<1>5. s2' \in [Setup!Roles -> 0..2]
  BY DEF Setup!LocalFund, Setup!SetupInv
<1>6. Setup!SetupInv'
  BY <1>2, <1>3, <1>4, <1>5 DEF Setup!SetupInv, Setup!Runs, Setup!Fits, Setup!RefusedChain
<1> QED
  BY <1>1, <1>2, <1>6, FileLeft DEF SetupSteps, Setup!StatusOnlyReadsStep, Setup!Fits

LEMMA CheckFundingKeeps ==
  ASSUME Setup!SetupInv, Setup!CheckFunding
  PROVE  Setup!SetupInv' /\ SetupSteps
<1>1. s5 # Setup!Idle /\ s5 \in Setup!Runs /\ s5.stage = "check" /\ Setup!Fits("check", s5.opts, s3)
  BY UnderWay DEF Setup!CheckFunding
<1>2. CASE Setup!Short
  BY <1>2, RunAlone DEF Setup!CheckFunding, Setup!Stops
<1>3. CASE ~Setup!Short
  <2>1. Setup!Goes("ready") /\ s3' = Setup!Recorded /\ UNCHANGED <<s1, s2, s4>>
    BY <1>3 DEF Setup!CheckFunding
  <2>2. s5' \in Setup!Runs /\ s5'.stage = "ready" /\ s5'.opts = s5.opts
    BY <1>1, <2>1, GoesIs DEF Setup!Stages
  <2> DEFINE new == [chain |-> s5.opts.chain, vault |-> s5.opts.vault, keys |-> s5.opts.keys,
                     begun |-> FALSE]
  <2>3. new \in Setup!Files
    BY <1>1 DEF Setup!Fits, Setup!Files, Setup!Runs, Setup!Options
  <2>4. \A r \in Setup!Roles : s2[r] >= Setup!Need(r)
    BY <1>3 DEF Setup!Short, Setup!SetupInv, Setup!Need
  <2>5. CASE s3 = {}
    <3>1. s3' = {new}
      BY <2>1, <2>5 DEF Setup!Recorded
    <3>2. Setup!Fits(s5'.stage, s5'.opts, s3')
      BY <1>1, <2>2, <3>1 DEF Setup!Fits
    <3>3. Setup!SetupInv'
      BY <2>1, <2>2, <2>3, <3>1, <3>2 DEF Setup!SetupInv, Setup!Runs, Setup!Fits, Setup!RefusedChain
    <3> QED
      BY <1>1, <2>4, <2>5, <3>3 DEF SetupSteps, Setup!StatusOnlyReadsStep, Setup!RecordsAreKeptStep,
         Setup!Fits
  <2>6. CASE s3 # {}
    <3>1. UNCHANGED <<s1, s2, s3, s4>>
      BY <2>1, <2>6 DEF Setup!Recorded
    <3>2. Setup!Fits(s5'.stage, s5'.opts, s3)
      BY <1>1, <2>2, <2>6 DEF Setup!Fits
    <3> QED
      BY <2>2, <3>1, <3>2, RunAlone
  <2> QED
    BY <2>5, <2>6
<1> QED
  BY <1>2, <1>3

LEMMA AdvanceKeeps ==
  ASSUME Setup!SetupInv, Setup!Advance
  PROVE  Setup!SetupInv' /\ SetupSteps
<1>1. s5 # Setup!Idle /\ s5 \in Setup!Runs /\ s5.stage = "ready" /\ Setup!Fits("ready", s5.opts, s3)
  BY UnderWay DEF Setup!Advance
<1>2. /\ s3' = {[f EXCEPT !.begun = TRUE] : f \in s3} /\ s2' = [r \in Setup!Roles |-> 1]
      /\ s5' = Setup!Idle /\ UNCHANGED <<s1, s4>>
  BY DEF Setup!Advance, Setup!Stops
<1>3. ASSUME NEW f \in s3
      PROVE  /\ [f EXCEPT !.begun = TRUE] \in Setup!Files
             /\ [[f EXCEPT !.begun = TRUE] EXCEPT !.begun = f.begun] = f
  <2>1. f \in Setup!Files
    BY DEF Setup!SetupInv
  <2> QED
    BY <2>1 DEF Setup!Files
<1>4. s3' \subseteq Setup!Files
  BY <1>2, <1>3
<1>5. \A f \in s3 : \E g \in s3' : [g EXCEPT !.begun = f.begun] = f
  BY <1>2, <1>3
<1>6. Setup!SetupInv'
  BY <1>2, <1>4 DEF Setup!SetupInv
<1>7. ~s5.opts.status /\ s3 # {}
  BY <1>1 DEF Setup!Fits
<1> QED
  BY <1>5, <1>6, <1>7 DEF SetupSteps, Setup!StatusOnlyReadsStep, Setup!RecordsAreKeptStep

LEMMA SetupGoesOn ==
  ASSUME Setup!SetupAssumption, Setup!SetupInv, [Setup!SetupNext]_(Setup!setupVars)
  PROVE  Setup!SetupInv' /\ SetupSteps
<1>1. CASE Setup!Report \/ Setup!Killed
  BY <1>1, RunAlone DEF Setup!Report, Setup!Killed, Setup!Stops
<1>2. CASE Setup!Funded \/ Setup!NodeRestarts
  <2>1. s5 = Setup!Idle /\ s5' = Setup!Idle /\ UNCHANGED <<s3, s4>>
    BY <1>2 DEF Setup!Funded, Setup!NodeRestarts
  <2>2. s2' \in [Setup!Roles -> 0..2] /\ s1' \in [Setup!Chains -> [SetupVaults -> {"none", "same",
     "other"}]]
    BY <1>2 DEF Setup!Funded, Setup!NodeRestarts, Setup!SetupInv, Setup!Chains
  <2>3. Setup!SetupInv'
    BY <2>1, <2>2 DEF Setup!SetupInv
  <2> QED
    BY <2>1, <2>3, FileLeft DEF SetupSteps, Setup!StatusOnlyReadsStep
<1>3. CASE UNCHANGED Setup!setupVars
  <2>1. UNCHANGED <<s1, s2, s3, s4, s5>>
    BY <1>3 DEF Setup!setupVars
  <2> QED
    BY <2>1, RunAlone DEF Setup!SetupInv, Setup!Runs
<1> QED
  BY <1>1, <1>2, <1>3, SetupBeginKeeps, SetupOpenKeeps, ReadFileKeeps, LocalDeployKeeps, LoadKeysKeeps,
     LocalFundKeeps,
     CheckFundingKeeps, AdvanceKeeps, ChooseVaultKeeps DEF Setup!SetupNext

LEMMA SetupKeeps ==
  ASSUME Setup!SetupInv
  PROVE  Setup!KeysStayOnTestChains /\ Setup!ContinuesWhatIsOnFile
<1>1. Setup!KeysStayOnTestChains
  BY DEF Setup!KeysStayOnTestChains, Setup!SetupInv, Setup!Fits, Setup!RefusedChain, Setup!Hardhat,
     Setup!Sepolia
<1>2. Setup!ContinuesWhatIsOnFile
  BY UnderWay DEF Setup!ContinuesWhatIsOnFile, Setup!At, Setup!Fits
<1> QED
  BY <1>1, <1>2

-----------------------------------------------------------------------------
(* The end-to-end test (EndToEnd): there is one snapshot, of the world.     *)
(* The slots: s1 is stage, s2 is alive, s3 is cleanup, s4 is broken, s5 is  *)
(* exitCode, s6 is left, s7 is snapshots, s8 is snapshot, s9 is session,    *)
(* s10 is wallet, s11 is log, s12 is results.                               *)

LEMMA StepsAre ==
  /\ Len(Tests!Steps) = 7
  /\ {Tests!Steps[i] : i \in 1..7} = {"compile", "node", "world", "copy", "serve", "browser", "ready"}
  /\ DOMAIN Tests!Steps = 1..7
<1>1. Len(Tests!Steps) = 7 /\ DOMAIN Tests!Steps = 1..7
  BY DEF Tests!Steps
<1>2. /\ Tests!Steps[1] = "compile" /\ Tests!Steps[2] = "node" /\ Tests!Steps[3] = "world"
      /\ Tests!Steps[4] = "copy"
      /\ Tests!Steps[5] = "serve" /\ Tests!Steps[6] = "browser" /\ Tests!Steps[7] = "ready"
  BY DEF Tests!Steps
<1>3. 1..7 = {1, 2, 3, 4, 5, 6, 7}
  OBVIOUS
<1> QED
  BY <1>1, <1>2, <1>3

LEMMA TestsStart == Tests!EndInit => Tests!WorldInv
BY StepsAre DEF Tests!EndInit, Tests!WorldInv, Tests!BeforeTheWorld

\* Where the world is saved a scenario begins from it.
LEMMA ScenarioBeginKeeps ==
  ASSUME Tests!WorldInv, Tests!Begin
  PROVE  Tests!WorldInv' /\ Tests!EachFromTheWorldStep
<1>1. s7 = << <<>> >> /\ s8 = 1
  BY DEF Tests!Begin, Tests!WorldInv, Tests!TheWorldIsSaved
<1>2. CASE "node" \in s2 /\ s8 <= Len(s7)
  <2>1. s11' = <<>> /\ s7' = Append(SubSeq(s7, 1, s8 - 1), s11')
    BY <1>1, <1>2 DEF Tests!Begin
  <2>2. SubSeq(s7, 1, s8 - 1) = <<>>
    BY <1>1
  <2>3. s7' = << <<>> >> /\ s8' = 1 /\ s1' = "scenario"
    <3>1. s7' = Append(<<>>, <<>>)
      BY <2>1, <2>2
    <3>2. Append(<<>>, <<>>) = << <<>> >>
      OBVIOUS
    <3> QED
      BY <1>1, <1>2, <3>1, <3>2 DEF Tests!Begin
  <2>4. s10' = Tests!NewWallet
    BY <1>2 DEF Tests!Begin
  <2> QED
    BY <2>1, <2>3, <2>4, StepsAre DEF Tests!WorldInv, Tests!BeforeTheWorld, Tests!TheWorldIsSaved,
       Tests!EachFromTheWorldStep, Tests!NewWallet
<1>3. CASE ~("node" \in s2 /\ s8 <= Len(s7))
  BY <1>1, <1>3, StepsAre DEF Tests!Begin, Tests!Fails, Tests!WorldInv, Tests!BeforeTheWorld,
     Tests!TheWorldIsSaved, Tests!EachFromTheWorldStep
<1> QED
  BY <1>2, <1>3

LEMMA WorldStepKeeps ==
  ASSUME Tests!WorldInv, NEW i \in 1..(Len(Tests!Steps) - 1), Tests!Step(Tests!Steps[i])
  PROVE  Tests!WorldInv' /\ Tests!EachFromTheWorldStep
<1> DEFINE j == CHOOSE k \in DOMAIN Tests!Steps : k > 1 /\ Tests!Steps[k - 1] = Tests!Steps[i]
<1>1. j \in DOMAIN Tests!Steps
  <2>1. i + 1 \in DOMAIN Tests!Steps /\ i + 1 > 1 /\ Tests!Steps[(i + 1) - 1] = Tests!Steps[i]
    BY StepsAre
  <2> QED
    BY <2>1
<1> HIDE DEF j
<1>2. s1' = Tests!Steps[j] \/ s1' = "cleanup"
  BY DEF Tests!Step, j
<1>3. /\ s1 = Tests!Steps[i] /\ Tests!Steps[i] \in {Tests!Steps[k] : k \in 1..Len(Tests!Steps)}
      /\ UNCHANGED <<s7, s8, s11, s9, s10>>
  BY StepsAre DEF Tests!Step
<1>4. s1' \in {Tests!Steps[k] : k \in 1..Len(Tests!Steps)} \cup {"cleanup"}
  BY <1>1, <1>2, StepsAre
<1> QED
  BY <1>3, <1>4, StepsAre DEF Tests!WorldInv, Tests!BeforeTheWorld, Tests!TheWorldIsSaved,
     Tests!EachFromTheWorldStep

LEMMA WorldReadyKeeps ==
  ASSUME Tests!WorldInv, Tests!Ready
  PROVE  Tests!WorldInv' /\ Tests!EachFromTheWorldStep
<1>1. s7 = <<>> /\ s8 = 0 /\ s11 = <<>>
  BY StepsAre DEF Tests!Ready, Tests!WorldInv, Tests!BeforeTheWorld
<1>2. CASE "node" \in s2
  <2>1. s7' = << <<>> >> /\ s8' = 1 /\ s1' = "between"
    BY <1>1, <1>2 DEF Tests!Ready, Tests!Taken
  <2> QED
    BY <2>1, StepsAre DEF Tests!WorldInv, Tests!BeforeTheWorld, Tests!TheWorldIsSaved,
       Tests!EachFromTheWorldStep, Tests!Ready
<1>3. CASE "node" \notin s2
  BY <1>1, <1>3, StepsAre DEF Tests!Ready, Tests!Fails, Tests!WorldInv, Tests!BeforeTheWorld,
     Tests!TheWorldIsSaved, Tests!EachFromTheWorldStep
<1> QED
  BY <1>2, <1>3

\* In a scenario only the log, the session and the wallet change, and a session
\* that is open stays so.
LEMMA ScenarioKeeps ==
  ASSUME Tests!WorldInv, Tests!InScenario, Tests!Unmoved
  PROVE  Tests!WorldInv' /\ Tests!EachFromTheWorldStep
BY StepsAre DEF Tests!InScenario, Tests!Unmoved, Tests!WorldInv, Tests!BeforeTheWorld,
   Tests!TheWorldIsSaved, Tests!EachFromTheWorldStep

LEMMA TestsGoOn ==
  ASSUME Tests!WorldInv, [Tests!EndNext]_(Tests!endVars)
  PROVE  Tests!WorldInv' /\ Tests!EachFromTheWorldStep
<1>1. CASE Tests!NodeDies \/ Tests!AllRun \/ Tests!Release \/ Tests!Exit \/ UNCHANGED Tests!endVars
  BY <1>1, StepsAre DEF Tests!NodeDies, Tests!AllRun, Tests!Release, Tests!Exit, Tests!endVars,
     Tests!WorldInv, Tests!BeforeTheWorld, Tests!TheWorldIsSaved,
     Tests!EachFromTheWorldStep
<1>2. CASE Tests!End
  BY <1>2, StepsAre DEF Tests!End, Tests!InScenario, Tests!NoSession, Tests!WorldInv,
     Tests!BeforeTheWorld, Tests!TheWorldIsSaved, Tests!EachFromTheWorldStep
<1>3. ASSUME NEW what, Tests!GoesWrong(what)
      PROVE  Tests!WorldInv' /\ Tests!EachFromTheWorldStep
  BY <1>3, ScenarioKeeps DEF Tests!GoesWrong
<1>4. ASSUME NEW fn, Tests!Request(fn)
      PROVE  Tests!WorldInv' /\ Tests!EachFromTheWorldStep
  BY <1>4, ScenarioKeeps DEF Tests!Request
<1>5. CASE Tests!Sets \/ Tests!Connect \/ Tests!Forward \/ Tests!Receipt \/ Tests!OtherActs
  BY <1>5, ScenarioKeeps DEF Tests!Sets, Tests!Connect, Tests!Forward, Tests!Receipt, Tests!OtherActs
<1> QED
  BY <1>1, <1>2, <1>3, <1>4, <1>5, ScenarioBeginKeeps, WorldStepKeeps, WorldReadyKeeps DEF Tests!EndNext

-----------------------------------------------------------------------------
(* The programs of a run.                                                   *)

\* A behaviour keeps to its part, and a step of the run is a step of its part.
LEMMA StepOfItsProgram ==
  ASSUME [OperationsNext]_operationsVars
  PROVE  /\ part' = part
         /\ part = "admin" => [Admin!AdminNext]_(Admin!adminVars)
         /\ part = "deploy" => [Deploy!DeployNext]_(Deploy!deployVars)
         /\ part = "keeper" => [Keeper!ChainNext]_(Keeper!chainVars)
         /\ part = "setup" => [Setup!SetupNext]_(Setup!setupVars)
         /\ part = "tests" => [Tests!EndNext]_(Tests!endVars)
<1>1. CASE OperationsNext
  BY <1>1 DEF OperationsNext
<1>2. CASE UNCHANGED operationsVars
  BY <1>2 DEF operationsVars, Admin!adminVars, Deploy!deployVars, Keeper!chainVars, Setup!setupVars,
     Tests!endVars
<1> QED
  BY <1>1, <1>2

ProgramsInv ==
    /\ part = "admin" => Admin!AdminInv
    /\ part = "deploy" => Deploy!DeployInv /\ Deploy!LookInv
    /\ part = "keeper" => Keeper!ChainInv
    /\ part = "setup" => Setup!SetupInv
    /\ part = "tests" => Tests!WorldInv

LEMMA ProgramsStart == OperationsInit => ProgramsInv
BY OperationsAssumption, AdminStarts, DeployStarts, LookStarts, KeeperStarts, SetupStarts, TestsStart
   DEF OperationsInit, ProgramsInv

LEMMA ProgramsGoOn ==
  ASSUME ProgramsInv, [OperationsNext]_operationsVars
  PROVE  /\ ProgramsInv'
         /\ part = "admin" => Admin!FeesOnlyFollowTheKeyStep
         /\ part = "deploy" => DeploySteps
         /\ part = "setup" => SetupSteps
         /\ part = "tests" => Tests!EachFromTheWorldStep
BY OperationsAssumption, StepOfItsProgram, AdminGoesOn, DeployGoesOn, KeeperGoesOn, SetupGoesOn, TestsGoOn
   DEF ProgramsInv, AdminSteps

LEMMA ProgramsStaySound == OperationsSpec => []ProgramsInv
BY ProgramsStart, ProgramsGoOn, PTL DEF OperationsSpec

\* Whatever stops a run half-way, whoever runs at the same time and whatever an owner
\* reuses: no retired key is paid, no address nobody signs for is given control, a
\* contract does not own itself, a public key signs for nothing of value, and the next
\* value of a chain, and no spent one, opens its vault and no other (transfer-admin.ts,
\* deploy.ts, lifecycle.ts, checkin-chain.ts).
THEOREM KeysStay == OperationsSpec => []KeysStayInHand
<1>1. ProgramsInv => KeysStayInHand
  BY OperationsAssumption, AdminKeeps, DeployKeeps, KeeperKeeps, SetupKeeps
     DEF ProgramsInv, KeysStayInHand, NoFeesForTheRetiredKey, ControlIsNeverLost, NeverOwnsItself,
         KeysStayOnTestChains, SpentStaysSpent, EpochsAreNew, ValuesDoNotCross, NextValueWorks
<1> QED
  BY <1>1, ProgramsStaySound, PTL

\* Records stay, and a good verdict does unless the contract was used, has the
\* deployer's roles, or got something between two reads of one read-back; fees go from
\* the key, and among the addresses that runs were confirmed for, to such an address;
\* --status only reads, a lifecycle's file is never lost and each scenario begins from
\* the world that was built (deploy.ts, transfer-admin.ts, lifecycle.ts, e2e/run.js).
THEOREM NothingUndone == OperationsSpec => NothingIsUndone
<1>1. ProgramsInv /\ [OperationsNext]_operationsVars =>
        [/\ FeesOnlyFollowTheKeyStep
         /\ RecordsStayStep
         /\ GoodStaysGoodStep
         /\ StatusOnlyReadsStep
         /\ RecordsAreKeptStep
         /\ EachFromTheWorldStep]_operationsVars
  BY ProgramsGoOn
     DEF FeesOnlyFollowTheKeyStep, RecordsStayStep, GoodStaysGoodStep, StatusOnlyReadsStep,
         RecordsAreKeptStep, EachFromTheWorldStep, DeploySteps, SetupSteps
<1> QED
  BY <1>1, ProgramsStaySound, PTL DEF OperationsSpec, NothingIsUndone

\* Every deployment that was mined is on record, or about to be, unless its run
\* stopped or overlapped another; and what is on record was made for its file
\* (deploy.ts).
THEOREM DeploymentsAreOnRecord == OperationsSpec => [](RecordsAreReal /\ NothingGoesUnrecorded)
<1>1. ProgramsInv => RecordsAreReal /\ NothingGoesUnrecorded
  BY DeployKeeps DEF ProgramsInv, RecordsAreReal, NothingGoesUnrecorded
<1> QED
  BY <1>1, ProgramsStaySound, PTL

\* A run of the lifecycle program that gets to its steps goes on with the chain, the
\* vault and the accounts on file (prepare, vaultAddress, loadKeys).
THEOREM RunsContinue == OperationsSpec => []ContinuesWhatIsOnFile
<1>1. ProgramsInv => ContinuesWhatIsOnFile
  BY SetupKeeps DEF ProgramsInv, ContinuesWhatIsOnFile
<1> QED
  BY <1>1, ProgramsStaySound, PTL
=============================================================================
