------------------------------- MODULE EndToEnd -------------------------------
(***************************************************************************)
(* e2e/: the run of the browser suite.  run.js builds a world step by step,*)
(* each step releasing what it holds when the run ends, and runs the       *)
(* selected scenarios one after another, each from the chain of the world  *)
(* and in a session of its own (lib/chain.js, lib/site.js, lib/browser.js),*)
(* whose wallet (lib/wallet.js) lets other parties act just before the     *)
(* page's own transaction and loses its connection on demand.              *)
(***************************************************************************)
EXTENDS Integers, Sequences, SequencesExt

CONSTANTS
    Scenarios,    \* bound: scenarios selected at most
    Functions,    \* what the page's transactions call
    MaxLog        \* bound: transactions of a scenario

EndToEndAssumption == Scenarios \in Nat \ {0} /\ MaxLog \in Nat

VARIABLES
    stage,      \* of main()
    alive,      \* what the run has started or made and not released
    cleanup,    \* what it will release
    broken,     \* the stage main() left by an error, or "no"
    exitCode,   \* 2 until it exits
    left,       \* scenarios not begun
    snapshots,  \* the node's snapshots: the transactions since the world, by number
    snapshot,   \* the last one taken
    session,    \* the scenario's session and its checks
    wallet,     \* its wallet
    log,        \* the transactions mined since the world
    results     \* per scenario: whether it failed, and what went wrong unprovoked

endVars == <<stage, alive, cleanup, broken, exitCode, left, snapshots, snapshot,
             session, wallet, log, results>>

Steps == <<"compile", "node", "world", "copy", "serve", "browser", "ready">>

\* What a step holds when it is done.
Holds == [s \in {"node", "copy", "serve", "browser"} |-> s]

\* A node that does not answer in time is killed; a copy whose launch values
\* are refused may stay, and so may a server that is not heard of.
Leftover(s) == IF s \in {"copy", "serve"} THEN {s} ELSE {}

NoSession == [open |-> FALSE, wrong |-> {}, expectPublic |-> FALSE]
NewWallet == [authorized |-> FALSE, rejectNext |-> 0, hooks |-> <<>>, pending |-> "none",
              armed |-> FALSE, failCalls |-> FALSE, own |-> FALSE, held |-> FALSE]

InScenario == stage = "scenario" /\ session.open

-----------------------------------------------------------------------------
(* The world. *)

Step(s) ==
    /\ stage = s
    /\ \/ /\ s \in {"world", "copy"} => "node" \in alive
          /\ alive' = IF s \in DOMAIN Holds THEN alive \cup {s} ELSE alive
          /\ cleanup' = IF s \in DOMAIN Holds THEN Append(cleanup, s) ELSE cleanup
          /\ stage' = Steps[CHOOSE i \in DOMAIN Steps : i > 1 /\ Steps[i - 1] = s]
          /\ UNCHANGED broken
       \/ /\ \E rest \in SUBSET Leftover(s) : alive' = alive \cup rest
          /\ stage' = "cleanup" /\ broken' = s
          /\ UNCHANGED cleanup
    /\ UNCHANGED <<exitCode, left, snapshots, snapshot, session, wallet, log, results>>

\* The node may end at any time.
NodeDies ==
    /\ stage \notin {"exited", "cleanup"} /\ "node" \in alive
    /\ alive' = alive \ {"node"}
    /\ UNCHANGED <<stage, cleanup, broken, exitCode, left, snapshots, snapshot, session, wallet, log, results>>

Fails == stage' = "cleanup" /\ broken' = stage

\* evm_snapshot and evm_revert: a snapshot is spent by returning to it, with
\* those taken after it.
Taken(saved) == Append(saved, log)

Ready ==
    /\ stage = "ready"
    /\ IF "node" \in alive
       THEN /\ snapshots' = Taken(snapshots) /\ snapshot' = Len(snapshots) + 1
            /\ stage' = "between" /\ UNCHANGED broken
       ELSE Fails /\ UNCHANGED <<snapshots, snapshot>>
    /\ UNCHANGED <<alive, cleanup, exitCode, left, session, wallet, log, results>>

Begin ==
    /\ stage = "between" /\ left > 0
    /\ IF "node" \in alive /\ snapshot <= Len(snapshots)
       THEN /\ log' = snapshots[snapshot]
            /\ snapshots' = Append(SubSeq(snapshots, 1, snapshot - 1), log')
            /\ left' = left - 1
            /\ session' = [NoSession EXCEPT !.open = TRUE]
            /\ wallet' = NewWallet
            /\ stage' = "scenario" /\ UNCHANGED broken
       ELSE Fails /\ UNCHANGED <<snapshots, left, session, wallet, log>>
    /\ UNCHANGED <<alive, cleanup, exitCode, snapshot, results>>

-----------------------------------------------------------------------------
(* A scenario. *)

Unmoved == UNCHANGED <<stage, alive, cleanup, broken, exitCode, left, snapshots, snapshot, results>>

\* The page: an error, a request to a host it should not know, a call to the
\* public endpoint; or a soft check of the scenario fails.  One thing goes wrong
\* in a scenario (a bound).
GoesWrong(what) ==
    /\ InScenario /\ session.wrong = {}
    /\ session' = [session EXCEPT !.wrong = {what}]
    /\ UNCHANGED <<wallet, log>> /\ Unmoved

\* The scenario provokes calls to the public endpoint; it sets up the wallet.
Sets ==
    /\ InScenario
    /\ \/ session' = [session EXCEPT !.expectPublic = TRUE] /\ UNCHANGED wallet
       \/ /\ wallet.rejectNext = 0 /\ wallet' = [wallet EXCEPT !.rejectNext = 1]
          /\ UNCHANGED session
       \/ /\ wallet.hooks = <<>>
          /\ \E fn \in Functions : wallet' = [wallet EXCEPT !.hooks = <<fn>>]
          /\ UNCHANGED session
       \/ /\ ~wallet.failCalls /\ wallet' = [wallet EXCEPT !.armed = TRUE]
          /\ UNCHANGED session
    /\ UNCHANGED log /\ Unmoved

Connect ==
    /\ InScenario /\ ~wallet.authorized
    /\ wallet' = [wallet EXCEPT !.authorized = TRUE]
    /\ UNCHANGED <<session, log>> /\ Unmoved

\* The page's transaction: declined, or passed on once the hook that waits for
\* it has run, and that hook is spent; a hook that fails keeps it from the node.
Request(fn) ==
    /\ InScenario /\ wallet.authorized /\ wallet.pending = "none" /\ Len(log) + 2 <= MaxLog
    /\ IF wallet.rejectNext > 0
       THEN wallet' = [wallet EXCEPT !.rejectNext = @ - 1] /\ UNCHANGED log
       ELSE LET hooked == fn \in ToSet(wallet.hooks)
                runs == hooked /\ "node" \in alive IN
            /\ log' = IF runs THEN Append(log, <<"other", fn>>) ELSE log
            /\ wallet' = [wallet EXCEPT !.hooks = IF hooked THEN <<>> ELSE @,
                                        !.pending = IF hooked => runs THEN fn ELSE "none"]
    /\ UNCHANGED session /\ Unmoved

Forward ==
    /\ InScenario /\ wallet.pending # "none"
    /\ IF "node" \in alive
       THEN /\ log' = Append(log, <<"page", wallet.pending>>)
            /\ wallet' = [wallet EXCEPT !.pending = "none", !.own = TRUE]
       ELSE wallet' = [wallet EXCEPT !.pending = "none"] /\ UNCHANGED log
    /\ UNCHANGED session /\ Unmoved

\* The page gets the receipts of its transactions; a connection that is to be
\* lost after one is lost now.
Receipt ==
    /\ InScenario /\ "node" \in alive /\ wallet.own /\ ~wallet.held
    /\ wallet' = [wallet EXCEPT !.held = TRUE,
                                !.failCalls = @ \/ wallet.armed, !.armed = FALSE]
    /\ UNCHANGED <<session, log>> /\ Unmoved

\* Another party acts outside the page.
OtherActs ==
    /\ InScenario /\ "node" \in alive /\ Len(log) < MaxLog
    /\ log' = Append(log, <<"aside", "any">>)
    /\ UNCHANGED <<session, wallet>> /\ Unmoved

\* What checkClean and the soft checks let pass.
Clean == session.wrong \subseteq IF session.expectPublic THEN {"public"} ELSE {}

\* The script ends, or an assertion of it stops it; the session is closed.
End ==
    /\ InScenario
    /\ \E thrown \in BOOLEAN :
          results' = Append(results, [error |-> thrown \/ ~Clean,
                                      unprovoked |-> session.wrong \ {what \in {"public"} : session.expectPublic}])
    /\ session' = NoSession /\ wallet' = NewWallet
    /\ stage' = "between"
    /\ UNCHANGED <<alive, cleanup, broken, exitCode, left, snapshots, snapshot, log>>

AllRun ==
    /\ stage = "between" /\ left = 0
    /\ stage' = "cleanup"
    /\ UNCHANGED <<alive, cleanup, broken, exitCode, left, snapshots, snapshot, session, wallet, log, results>>

\* The last made is the first released.
Next2Release == Last(cleanup)

\* What cannot be released is passed over: it is gone already.
Release ==
    /\ stage = "cleanup" /\ cleanup # <<>>
    /\ alive' = alive \ {Next2Release}
    /\ cleanup' = Remove(cleanup, Next2Release)
    /\ UNCHANGED <<stage, broken, exitCode, left, snapshots, snapshot, session, wallet, log, results>>

Code == IF broken # "no" \/ \E i \in DOMAIN results : results[i].error THEN 1 ELSE 0

Exit ==
    /\ stage = "cleanup" /\ cleanup = <<>>
    /\ stage' = "exited"
    /\ exitCode' = Code
    /\ UNCHANGED <<alive, cleanup, broken, left, snapshots, snapshot, session, wallet, log, results>>

EndInit ==
    /\ stage = "compile"
    /\ alive = {} /\ cleanup = <<>>
    /\ broken = "no" /\ exitCode = 2
    /\ left \in 1..Scenarios
    /\ snapshots = <<>> /\ snapshot = 0
    /\ session = NoSession /\ wallet = NewWallet
    /\ log = <<>> /\ results = <<>>

EndNext ==
    \/ \E i \in 1..(Len(Steps) - 1) : Step(Steps[i])
    \/ NodeDies \/ Ready \/ Begin
    \/ \E what \in {"page", "host", "public", "soft"} : GoesWrong(what)
    \/ Sets \/ Connect
    \/ \E fn \in Functions : Request(fn)
    \/ Forward \/ Receipt \/ OtherActs
    \/ End \/ AllRun \/ Release \/ Exit

EndSpec == EndInit /\ [][EndNext]_endVars

-----------------------------------------------------------------------------
(* Properties. *)

\* Types; and a run with a node that lives is never stopped by a snapshot that
\* is spent.
EndTypeOK ==
    /\ alive \subseteq DOMAIN Holds
    /\ exitCode \in 0..2
    /\ left \in 0..Scenarios
    /\ snapshot \in 0..(Len(snapshots) + 1)
    /\ wallet.rejectNext \in 0..1
    /\ (broken \in {"between", "ready"} /\ stage = "cleanup") => "node" \notin alive

\* "Each in a fresh browser context, from a chain snapshot of step 3": no
\* scenario sees what an earlier one did to the chain or to the wallet.
EachFromTheWorldStep ==
    (session' # session /\ session'.open /\ ~session.open) =>
        /\ log' = <<>>
        /\ wallet'.hooks = <<>> /\ ~wallet'.failCalls /\ wallet'.rejectNext = 0

\* A run leaves nothing behind but what a step that failed did not register,
\* and never serves a copy of the site that it has taken away.
NothingLeftBehind ==
    /\ stage = "exited" =>
          alive \subseteq IF broken \in {"copy", "serve"} THEN {broken} ELSE {}
    /\ ("serve" \in alive /\ broken # "serve") => "copy" \in alive

\* "Exit code: 0 when every selected scenario passed, 1 otherwise": and a pass
\* means that nothing went wrong that the scenario had not provoked.
ExitTellsAll ==
    exitCode = 0 =>
        /\ left = 0 /\ results # <<>>
        /\ \A i \in DOMAIN results : results[i].unprovoked = {}

\* "Runs once, just before the next transaction calling fn is forwarded": what
\* another party is made to do between the page's last read and its transaction
\* is followed by that transaction, and by nothing else of the page.
InterposedBeforeItsOwn ==
    \A i \in DOMAIN log : log[i][1] = "other" =>
        \A j \in DOMAIN log :
            (/\ j > i /\ log[j][1] # "aside"
             /\ \A k \in (i + 1)..(j - 1) : log[k][1] = "aside") => log[j] = <<"page", log[i][2]>>

\* The connection is lost only once the page holds a receipt of its own: what a
\* scenario tests is a page that knows it is mined and cannot read the chain.
LostAfterTheReceipt == wallet.failCalls => wallet.own /\ wallet.held

\* What keeps the first of these true: until the node's snapshot of the world is
\* taken nothing is logged, and from then on it is the only one.
BeforeTheWorld == snapshots = <<>> /\ snapshot = 0 /\ log = <<>>

TheWorldIsSaved == snapshots = << <<>> >> /\ snapshot = 1

WorldInv ==
    /\ BeforeTheWorld \/ TheWorldIsSaved
    /\ stage \in {Steps[i] : i \in 1..Len(Steps)} => BeforeTheWorld
    /\ stage \in {"between", "scenario"} => TheWorldIsSaved
    /\ stage \in {Steps[i] : i \in 1..Len(Steps)} \cup {"between", "scenario", "cleanup", "exited"}
=============================================================================
