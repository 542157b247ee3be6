---------------------------- MODULE LifecycleRunner ----------------------------
(***************************************************************************)
(* scripts/lifecycle.ts: the runner.  It does the steps that are due, one  *)
(* transaction each, and keeps what it did in a state file, which is saved *)
(* between the signature of a transaction and its broadcast.  It may be    *)
(* killed at any point; an answer of the network may be lost; somebody may *)
(* use a key elsewhere.  Nobody else acts on the runner's vaults.          *)
(*                                                                         *)
(* Memory and state file differ at no point where the runner can be        *)
(* killed: each change is saved before the next await.                     *)
(***************************************************************************)
EXTENDS LifecycleScenario

CONSTANTS
    MaxFaults,               \* bound: kills, lost answers, failed reads, keys used elsewhere
    MaxDelays, LateBy,       \* bound: how often, and by how much, time passes with a step due
    MayAccept                \* the steps for which --accept-failed may be given: no creation

VARIABLES
    now,      \* the time of the last block
    world,
    nonces,   \* of each role's account
    mempool,  \* transactions: their step and nonce
    mined,    \* those that were mined, and whether they succeeded
    file,     \* the state file
    run,      \* the run that is under way
    lock,     \* the lock file exists
    faults, delays

\* Bound: what the owner holds in USDC (nothing, more than the vault takes, all
\* it takes), and the fee of the deployment (none, in force, about to fall).
NoFee == [bps |-> 0, pending |-> 0, pendingAt |-> 0, recipient |-> FALSE, activeAt |-> 0]

Starts == {
    [usdc |-> 0, fee |-> NoFee],
    [usdc |-> 10, fee |-> [NoFee EXCEPT !.bps = 1, !.recipient = TRUE]],
    [usdc |-> 5, fee |-> [NoFee EXCEPT !.bps = 3, !.pending = 2, !.pendingAt = 25,
                                       !.recipient = TRUE, !.activeAt = 30]]}

vars == <<now, world, nonces, mempool, mined, file, run, lock, faults, delays>>
chain == <<now, world, nonces, mempool, mined, delays>>

Ids == {STEPS[i].id : i \in DOMAIN STEPS}
StepOf(id) == STEPS[CHOOSE i \in DOMAIN STEPS : STEPS[i].id = id]
Roles == {"owner", "heir", "keeper"}

NoTx == [step |-> "none", nonce |-> 0]

Off == [stage |-> "off", accept |-> FALSE]

Faulty == faults < MaxFaults /\ faults' = faults + 1

Settles(id) == file.status[id] \in {"done", "skipped"}

Complete == \A id \in Ids : Settles(id)

\* The step that the runner is at.
Current == STEPS[CHOOSE i \in DOMAIN STEPS :
                    ~Settles(STEPS[i].id) /\ \A j \in 1..(i - 1) : Settles(STEPS[j].id)]

Fresh == [status |-> [id \in Ids |-> "todo"], why |-> "", pending |-> NoTx, before |-> <<>>,
          verified |-> {}, ids |-> {}, accepted |-> {}]

Role(tx) == StepOf(tx.step).role

IsMined(tx) == \E m \in mined : m.tx = tx

-----------------------------------------------------------------------------
(* A run, and the choice of a step. *)

Start(accept) ==
    /\ run.stage = "off" /\ ~lock
    /\ ~Complete
    /\ accept => Current.id \in MayAccept /\ file.status[Current.id] = "failed"
    /\ lock' = TRUE
    /\ run' = [stage |-> "pick", accept |-> accept]
    /\ UNCHANGED <<chain, file, faults>>

Stops == run' = [run EXCEPT !.stage = "end"]

Fails(why) ==
    /\ file' = [file EXCEPT !.status[Current.id] = "failed", !.why = why]
    /\ Stops
    /\ UNCHANGED <<chain, lock>>

Goes(stage) == run' = [run EXCEPT !.stage = stage]

AtStep == run.stage = "pick" /\ ~Complete

Accepts == run.accept /\ file.status[Current.id] = "failed"

\* --accept-failed: the step counts as done, and its transaction is forgotten.
Accept ==
    /\ AtStep /\ Accepts
    /\ file' = [file EXCEPT !.status[Current.id] = "done", !.pending = NoTx, !.before = <<>>,
                            !.why = "", !.accepted = @ \cup {Current.id}]
    /\ UNCHANGED <<chain, run, lock, faults>>

\* A step whose transaction is under way is not scheduled again.
Scheduled == file.pending = NoTx

SkipNow ==
    Scheduled /\ Skipped(Current, world, file.ids, {id \in Ids : file.status[id] = "skipped"})

ThrowsNow == Scheduled /\ ~SkipNow /\ DueThrows(Current, world)

DueNow == ~Scheduled \/ Due(Current, world) <= now

Skip ==
    /\ AtStep /\ ~Accepts /\ SkipNow
    /\ file' = [file EXCEPT !.status[Current.id] = "skipped", !.why = "", !.verified = @ \ {Current.id}]
    /\ UNCHANGED <<chain, run, lock, faults>>

CannotSchedule == AtStep /\ ~Accepts /\ ThrowsNow /\ Fails("schedule") /\ UNCHANGED faults

ScheduleReadFails == AtStep /\ ~Accepts /\ Scheduled /\ Faulty /\ Fails("read")

NotDue ==
    /\ AtStep /\ ~Accepts /\ ~SkipNow /\ ~ThrowsNow /\ ~DueNow
    /\ Stops
    /\ UNCHANGED <<chain, file, lock, faults>>

RunStep ==
    /\ AtStep /\ ~Accepts /\ ~SkipNow /\ ~ThrowsNow /\ DueNow
    /\ Goes("tx")
    /\ UNCHANGED <<chain, file, lock, faults>>

Finished ==
    /\ run.stage = "pick" /\ Complete
    /\ Stops
    /\ UNCHANGED <<chain, file, lock, faults>>

Stop ==
    /\ run.stage = "end"
    /\ run' = Off /\ lock' = FALSE
    /\ UNCHANGED <<chain, file, faults>>

-----------------------------------------------------------------------------
(* The transaction of a step. *)

\* A transaction that was verified is not sent again, and one that is on file
\* is looked for before anything else.
Resume ==
    /\ run.stage = "tx"
    /\ file.pending # NoTx \/ Current.id \in file.verified \/ Current.call = "none"
    /\ Goes(IF file.pending # NoTx THEN "receipt" ELSE "checks")
    /\ UNCHANGED <<chain, file, lock, faults>>

Signs == run.stage = "tx" /\ file.pending = NoTx /\ Current.id \notin file.verified /\ Current.call # "none"

\* A transaction is simulated, signed and put on file, and only then broadcast.
Sign ==
    /\ Signs /\ Takes(Current, world, now) # {}
    /\ file' = [file EXCEPT
            !.pending = [step |-> Current.id,
                         nonce |-> nonces[Current.role]
                                   + Cardinality({tx \in mempool : Role(tx) = Current.role})],
            !.before = <<world>>]
    /\ Goes("broadcast")
    /\ UNCHANGED <<chain, lock, faults>>

WouldRevert == Signs /\ Takes(Current, world, now) = {} /\ Fails("revert") /\ UNCHANGED faults

SnapshotFails == Signs /\ Faulty /\ Fails("read")

IsDead(tx) == tx.nonce < nonces[Role(tx)] /\ ~IsMined(tx)

Broadcast ==
    /\ run.stage = "broadcast" /\ ~IsDead(file.pending)
    /\ mempool' = mempool \cup {file.pending}
    /\ Goes("receipt")
    /\ UNCHANGED <<now, world, nonces, mined, delays, file, lock, faults>>

NonceTooLow == run.stage = "broadcast" /\ IsDead(file.pending) /\ Fails("read") /\ UNCHANGED faults

\* The answer is an error, whether the transaction got through or not.
\* Variation: a transaction whose broadcast failed is taken off the file.
BroadcastFails_Forgets ==
    /\ run.stage = "broadcast" /\ ~IsDead(file.pending) /\ Faulty
    /\ mempool' \in {mempool, mempool \cup {file.pending}}
    /\ file' = [file EXCEPT !.status[Current.id] = "failed", !.why = "read",
                            !.pending = NoTx, !.before = <<>>]
    /\ Stops
    /\ UNCHANGED <<now, world, nonces, mined, delays, lock>>

BroadcastFails ==
    /\ run.stage = "broadcast" /\ ~IsDead(file.pending) /\ Faulty
    /\ mempool' \in {mempool, mempool \cup {file.pending}}
    /\ file' = [file EXCEPT !.status[Current.id] = "failed", !.why = "read"]
    /\ Stops
    /\ UNCHANGED <<now, world, nonces, mined, delays, lock>>

\* The same bytes again, where neither the network nor a block has them.
Rebroadcast ==
    /\ run.stage = "receipt"
    /\ file.pending \notin mempool /\ ~IsMined(file.pending) /\ ~IsDead(file.pending)
    /\ mempool' = mempool \cup {file.pending}
    /\ UNCHANGED <<now, world, nonces, mined, delays, file, run, lock, faults>>

Receipt ==
    /\ run.stage = "receipt"
    /\ \E m \in mined :
          /\ m.tx = file.pending
          /\ IF m.ok THEN Goes("verify") /\ UNCHANGED <<chain, file, lock>> ELSE Fails("revert")
    /\ UNCHANGED faults

NeverMined == run.stage = "receipt" /\ IsDead(file.pending) /\ Fails("dead") /\ UNCHANGED faults

NotMinedYet == run.stage = "receipt" /\ ~IsMined(file.pending) /\ Faulty /\ Fails("read")

-----------------------------------------------------------------------------
(* Verification, and the assertions of a step. *)

\* Nobody else acts: the world is still what the transaction made of it.
AsModelled ==
    \E m \in mined : m.tx = file.pending /\ Model(Current, file.before[1], m.at) = world

VerifyReadFails == run.stage = "verify" /\ Faulty /\ Fails("read")

Verify ==
    /\ run.stage = "verify"
    /\ IF AsModelled
       THEN /\ file' = [file EXCEPT
                    !.pending = NoTx, !.before = <<>>, !.verified = @ \cup {Current.id},
                    !.ids = IF Current.call = "createVault" THEN @ \cup {Current.x} ELSE @]
            /\ Goes("checks")
            /\ UNCHANGED <<chain, lock>>
       ELSE Fails("model")
    /\ UNCHANGED faults

Check ==
    /\ run.stage = "checks"
    /\ IF Asserted(Current, world, now)
       THEN /\ file' = [file EXCEPT !.status[Current.id] = "done", !.why = ""]
            /\ Goes("pick")
            /\ UNCHANGED <<chain, lock>>
       ELSE Fails("assertion")
    /\ UNCHANGED faults

CheckReadFails == run.stage = "checks" /\ Faulty /\ Fails("read")

-----------------------------------------------------------------------------
(* The network, the operator, and time. *)

Mine(tx) ==
    /\ tx \in mempool /\ tx.nonce = nonces[Role(tx)]
    /\ now' = now + 1
    /\ nonces' = [nonces EXCEPT ![Role(tx)] = @ + 1]
    /\ mempool' = mempool \ {tx}
    /\ LET after == Takes(StepOf(tx.step), world, now + 1)
       IN  /\ mined' = mined \cup {[tx |-> tx, ok |-> after # {}, at |-> now + 1]}
           /\ IF after = {} THEN world' = world ELSE world' \in after
    /\ UNCHANGED <<delays, file, run, lock, faults>>

Dropped(tx) ==
    /\ tx \in mempool /\ Faulty
    /\ mempool' = mempool \ {tx}
    /\ UNCHANGED <<now, world, nonces, mined, delays, file, run, lock>>

\* The owner of a key uses it elsewhere: what waits with that nonce is dead.
KeyUsedElsewhere(role) ==
    /\ Faulty
    /\ file.pending # NoTx /\ Role(file.pending) = role /\ ~IsMined(file.pending) /\ ~IsDead(file.pending)
    /\ now' = now + 1
    /\ nonces' = [nonces EXCEPT ![role] = @ + 1]
    /\ mempool' = {tx \in mempool : Role(tx) = role => tx.nonce # nonces[role]}
    /\ UNCHANGED <<world, mined, delays, file, run, lock>>

\* A signal lets the runner unlock, and so does a read of the time that fails;
\* a kill leaves the lock file.
Kill ==
    /\ run.stage # "off" /\ Faulty
    /\ run' = Off
    /\ lock' \in BOOLEAN
    /\ UNCHANGED <<chain, file>>

DeleteLock ==
    /\ run.stage = "off" /\ lock
    /\ lock' = FALSE
    /\ UNCHANGED <<chain, file, run, faults>>

\* As the message of NeverMined asks for.
DeletePending ==
    /\ run.stage = "off" /\ file.why = "dead" /\ file.pending # NoTx
    /\ file' = [file EXCEPT !.pending = NoTx, !.before = <<>>, !.why = "read"]
    /\ UNCHANGED <<chain, run, lock, faults>>

\* The operator runs it again when the next step is due.
WaitTillDue ==
    /\ run.stage = "off" /\ ~Complete /\ ~SkipNow /\ ~ThrowsNow /\ ~DueNow
    /\ now' = Due(Current, world)
    /\ UNCHANGED <<world, nonces, mempool, mined, delays, file, run, lock, faults>>

Late ==
    /\ delays < MaxDelays /\ ~Complete
    /\ now' = now + LateBy /\ delays' = delays + 1
    /\ UNCHANGED <<world, nonces, mempool, mined, file, run, lock, faults>>

-----------------------------------------------------------------------------

Init ==
    /\ now = 1
    /\ \E start \in Starts :
          world = [vault |-> [x \in Letters |->
                                [s |-> Unarmed, units |-> 0, ceiling |-> 0, locked |-> 0]],
                   credit |-> [c \in Coins |-> [a \in Accounts |-> 0]],
                   since |-> [c \in Coins |-> [a \in Accounts |-> 0]],
                   usdc |-> start.usdc, allowance |-> 0, fee |-> start.fee]
    /\ nonces = [r \in Roles |-> 0] /\ mempool = {} /\ mined = {}
    /\ file = Fresh /\ run = Off /\ lock = FALSE
    /\ faults = 0 /\ delays = 0

RunnerSteps ==
    \/ Accept \/ Skip \/ CannotSchedule \/ NotDue \/ RunStep \/ Finished \/ Stop
    \/ Resume \/ Sign \/ WouldRevert \/ Broadcast \/ NonceTooLow \/ Rebroadcast
    \/ Receipt \/ NeverMined \/ Verify \/ Check

Faults ==
    \/ ScheduleReadFails \/ SnapshotFails \/ BroadcastFails \/ NotMinedYet \/ VerifyReadFails
    \/ CheckReadFails \/ Kill
    \/ \E tx \in mempool : Dropped(tx)
    \/ \E role \in Roles : KeyUsedElsewhere(role)

MineOne == \E tx \in mempool : Mine(tx)

Next ==
    \/ \E accept \in BOOLEAN : Start(accept)
    \/ RunnerSteps \/ Faults \/ MineOne
    \/ DeleteLock \/ DeletePending \/ WaitTillDue \/ Late

Spec == Init /\ [][Next]_vars

\* The operator starts the runner again and, between two runs, sooner or later
\* does what its message asks for; a run goes on to its end; a transaction that
\* the network has is mined.
FairSpec ==
    /\ Spec
    /\ WF_vars(Start(FALSE)) /\ WF_vars(RunnerSteps) /\ WF_vars(MineOne)
    /\ WF_vars(DeleteLock) /\ SF_vars(DeletePending) /\ SF_vars(WaitTillDue)

-----------------------------------------------------------------------------
(* Properties. *)

\* A step was accepted that the runner had not verified.
WavedThrough == file.accepted \ file.verified # {}

\* The shape of the state; a step with a transaction under way is the step
\* the runner is at, and the world before it is on file with it.
RunnerTypeOK ==
    /\ now \in Nat /\ faults \in 0..MaxFaults /\ delays \in 0..MaxDelays /\ lock \in BOOLEAN
    /\ run.stage \in {"off", "pick", "tx", "broadcast", "receipt", "verify", "checks", "end"}
    /\ \A id \in Ids : file.status[id] \in {"todo", "done", "skipped", "failed"}
    /\ (file.pending = NoTx) <=> (file.before = <<>>)
    /\ file.pending # NoTx => ~Complete /\ file.pending.step = Current.id

\* No step's transaction takes effect twice, whatever is lost and wherever the
\* runner is killed: lifecycle.ts signs and saves before it broadcasts, and
\* only ever sends the same bytes again.
SentOnce ==
    LET landed == {m \in mined : m.ok}
    IN  Cardinality({m.tx.step : m \in landed}) = Cardinality(landed)

\* The file tells what happened: a step that is done, and was not waved
\* through, had its transaction mined; a vault that exists is on file, or the
\* transaction that made it is.
FileTellsTheChain ==
    /\ \A id \in {i \in Ids : file.status[i] = "done"} \ file.accepted :
          StepOf(id).call # "none" => \E m \in mined : m.ok /\ m.tx.step = id
    /\ \A x \in file.ids : world.vault[x].s.phase # "none"
    /\ \A x \in Letters \ file.ids : world.vault[x].s.phase # "none" =>
          file.pending # NoTx /\ StepOf(file.pending.step).x = x

\* The runner's model agrees with the contract on every step, and so do its
\* assertions, as long as the operator is not later than the windows allow.
AgreesWithContract ==
    ~WavedThrough => file.why \notin {"model", "assertion", "revert"}

\* A step that cannot be scheduled is one whose transaction was verified
\* already: a transaction that is under way is always resumed.
PendingIsResumed ==
    ~WavedThrough /\ file.why = "schedule" => Current.id \in file.verified

\* What the head of the script says: a run killed at any point resumes, and a
\* read that fails heals on the next run.
Completes == <>Complete
=============================================================================
