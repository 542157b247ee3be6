------------------------------ MODULE OwnerScripts ------------------------------
(***************************************************************************)
(* scripts/smoke.ts, which creates a vault with a dust deposit on a live   *)
(* deployment, checks in, withdraws everything and pulls the credit, and   *)
(* scripts/close-vault.ts, which does the last two for a vault that a      *)
(* smoke test left behind.  Each call is mined before the next is made.    *)
(*                                                                         *)
(* Meanwhile the same account may create vaults elsewhere, anybody may top *)
(* one up, a standing credit may be pushed, and a script may be killed.    *)
(* Time and check-ins are left out: the heir's key is nobody's.            *)
(***************************************************************************)
EXTENDS Integers, Sequences

CONSTANTS
    DUST,         \* the deposit of the smoke test
    Others,       \* amounts that somebody else moves: deposits and top-ups
    MaxVaults,    \* bound: vaults of the account
    MaxMoves      \* bound: what happens beside the scripts

VARIABLES
    vaults,       \* the account's vaults: what each holds, 0 when it is closed
    credit,       \* what is credited to it
    wallet,       \* what came back to it
    script,       \* the script that runs, where it is, and what it has read
    left,         \* the vaults smoke runs created and may have left behind
    moves

scriptVars == <<vaults, credit, wallet, script, left, moves>>

None == [name |-> "none", pc |-> "none", id |-> 0, read |-> 0, meddled |-> FALSE]

ScriptsInit ==
    /\ vaults = <<>> /\ credit = 0 /\ wallet = 0
    /\ script = None /\ left = {} /\ moves = 0

On(name, pc) == script.name = name /\ script.pc = pc

Goes(pc) == script' = [script EXCEPT !.pc = pc]

\* A check that throws ends the script where it is.
Requires(ok, pc) == IF ok THEN Goes(pc) ELSE Goes("failed")

-----------------------------------------------------------------------------
(* smoke.ts *)

\* vaultCount, read before the creation.
NextId == Len(vaults) + 1

SmokeCounts ==
    /\ script = None /\ Len(vaults) < MaxVaults
    /\ script' = [None EXCEPT !.name = "smoke", !.pc = "create", !.id = NextId]
    /\ UNCHANGED <<vaults, credit, wallet, left, moves>>

SmokeCreates ==
    /\ On("smoke", "create") /\ Len(vaults) < MaxVaults
    /\ vaults' = Append(vaults, DUST)
    /\ left' = left \cup {Len(vaults) + 1}
    /\ Goes("read")
    /\ UNCHANGED <<credit, wallet, moves>>

RecordedWell(id) == vaults[id] = DUST

SmokeReads ==
    /\ On("smoke", "read")
    /\ Requires(RecordedWell(script.id), "withdraw")
    /\ UNCHANGED <<vaults, credit, wallet, left, moves>>

\* Of `amount`, what the vault holds: all of it closes the vault.
Withdraw(id, amount) ==
    /\ vaults' = [vaults EXCEPT ![id] = @ - amount]
    /\ credit' = credit + amount

SmokeWithdraws ==
    /\ On("smoke", "withdraw")
    /\ IF vaults[script.id] >= DUST
       THEN Withdraw(script.id, DUST) /\ Goes("closed")
       ELSE Goes("failed") /\ UNCHANGED <<vaults, credit>>
    /\ UNCHANGED <<wallet, left, moves>>

FullyClosed(id) == vaults[id] = 0

SmokeSeesClosed ==
    /\ On("smoke", "closed")
    /\ Requires(FullyClosed(script.id), "credit")
    /\ UNCHANGED <<vaults, credit, wallet, left, moves>>

SmokeSeesCredit ==
    /\ On("smoke", "credit")
    /\ Requires(credit = DUST, "pull")
    /\ UNCHANGED <<vaults, credit, wallet, left, moves>>

-----------------------------------------------------------------------------
(* close-vault.ts *)

CloseReads(id) ==
    /\ script = None /\ id \in DOMAIN vaults
    /\ script' = [None EXCEPT !.name = "close", !.id = id, !.read = vaults[id],
                              !.pc = IF vaults[id] = 0 THEN "credit" ELSE "withdraw"]
    /\ UNCHANGED <<vaults, credit, wallet, left, moves>>

\* What the vault held when it was read.
Asked(s) == s.read

CloseWithdraws ==
    /\ On("close", "withdraw")
    /\ IF vaults[script.id] >= Asked(script)
       THEN Withdraw(script.id, Asked(script)) /\ Goes("credit")
       ELSE Goes("failed") /\ UNCHANGED <<vaults, credit>>
    /\ UNCHANGED <<wallet, left, moves>>

CloseSeesCredit ==
    /\ On("close", "credit")
    /\ Goes(IF credit = 0 THEN "done" ELSE "pull")
    /\ UNCHANGED <<vaults, credit, wallet, left, moves>>

-----------------------------------------------------------------------------
(* Both. *)

Paid == wallet' = wallet + credit /\ credit' = 0

\* withdrawCredit, which is refused when nothing is owed.
Pull ==
    /\ script.pc = "pull"
    /\ IF credit > 0 THEN Paid /\ Goes("done") ELSE Goes("failed") /\ UNCHANGED <<credit, wallet>>
    /\ UNCHANGED <<vaults, left, moves>>

Ends ==
    /\ script.pc \in {"done", "failed"}
    /\ script' = None
    /\ UNCHANGED <<vaults, credit, wallet, left, moves>>

Killed ==
    /\ script.name # "none" /\ script.pc \notin {"done", "failed"}
    /\ script' = None
    /\ UNCHANGED <<vaults, credit, wallet, left, moves>>

Moves ==
    /\ moves < MaxMoves
    /\ moves' = moves + 1
    /\ script' = IF script = None THEN None ELSE [script EXCEPT !.meddled = TRUE]
    /\ UNCHANGED left

CreateElsewhere(x) ==
    /\ Moves /\ Len(vaults) < MaxVaults
    /\ vaults' = Append(vaults, x)
    /\ UNCHANGED <<credit, wallet>>

TopUp(id, x) ==
    /\ Moves /\ id \in DOMAIN vaults /\ vaults[id] > 0
    /\ vaults' = [vaults EXCEPT ![id] = @ + x]
    /\ UNCHANGED <<credit, wallet>>

\* Anybody, once a credit has stood for a while.
PushCredit ==
    /\ Moves /\ credit > 0
    /\ wallet' = wallet + credit /\ credit' = 0
    /\ UNCHANGED vaults

ScriptsNext ==
    \/ SmokeCounts \/ SmokeCreates \/ SmokeReads \/ SmokeWithdraws \/ SmokeSeesClosed \/ SmokeSeesCredit
    \/ \E id \in 1..MaxVaults : CloseReads(id) \/ \E x \in Others : TopUp(id, x)
    \/ CloseWithdraws \/ CloseSeesCredit \/ Pull \/ Ends \/ Killed
    \/ \E x \in Others : CreateElsewhere(x)
    \/ PushCredit

ScriptsSpec == ScriptsInit /\ [][ScriptsNext]_scriptVars

-----------------------------------------------------------------------------
(* Properties. *)

\* A script that runs has a vault to work on.
ScriptsTypeOK ==
    /\ \A id \in DOMAIN vaults : vaults[id] \in Nat
    /\ credit \in Nat /\ wallet \in Nat
    /\ script.name \in {"none", "smoke", "close"}
    /\ script.name # "none" => script.id \in 1..MaxVaults
    /\ left \subseteq DOMAIN vaults
    /\ moves \in 0..MaxMoves

\* "SMOKE TEST PASSED - deposit returned in full": its vault holds nothing and
\* the account is owed nothing that the script had seen, whatever was created,
\* topped up or pushed meanwhile.
PassedIsReturned ==
    On("smoke", "done") =>
        vaults[script.id] = 0 /\ (~script.meddled => credit = 0 /\ script.id \in left)

\* "Done. Funds are back in your wallet.": so it is for the vault that was
\* named, unless somebody tops it up between the read and the withdrawal.
DoneIsBack ==
    On("close", "done") /\ ~script.meddled => vaults[script.id] = 0 /\ credit = 0
=============================================================================
