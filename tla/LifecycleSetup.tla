----------------------------- MODULE LifecycleSetup -----------------------------
(***************************************************************************)
(* scripts/lifecycle.ts, what a run does before its first step: parseArgs, *)
(* open and prepare (loadState, vaultAddress, localDeploy, sameCode,       *)
(* loadKeys, localFund, checkFunding, save).  A run is refused, killed     *)
(* between two awaits, or gets to advance (LifecycleRunner); the next one  *)
(* may be given other options, keys and endpoint.  A local node may be     *)
(* restarted, which empties its chain.                                     *)
(*                                                                         *)
(* One state file; --state may name it to a run on any chain.              *)
(***************************************************************************)
EXTENDS Integers, FiniteSets

CONSTANTS
    Vaults,       \* addresses
    NoVault,
    MaxRuns       \* bound

SetupAssumption == NoVault \notin Vaults

Hardhat == "hardhat"          \* a local node, chain 31337
Sepolia == "sepolia"          \* Base Sepolia
Chains == {Hardhat, Sepolia, "mainnet"}
Roles == {"owner", "heir", "keeper"}

\* What the three key variables hold: secrets (of this lifecycle's accounts or
\* of others), a set with one of hardhat's development keys, which everybody
\* knows, the same key twice, or nothing.
Secret == {"own", "others"}
Public == "public"
Keys == Secret \cup {Public, "shared", "unset"}

VARIABLES
    code,         \* what stands at each address of each chain: "none", "same" or "other" code
    funds,        \* what each role holds: 0, enough to go on (1), or to begin (2)
    file,         \* the state file, as a set of at most one record
    old,          \* files that were put aside
    run,          \* the run under way
    runs

setupVars == <<code, funds, file, old, run, runs>>

\* parseArgs and the environment of a run.  A vault that --vault does not name
\* may be on file, or in the deploy record of Base Sepolia.
Options == [chain : Chains, local : BOOLEAN, status : BOOLEAN, vault : Vaults \cup {NoVault},
            keys : Keys, anyCode : BOOLEAN]

Idle == [stage |-> "idle"]

SetupInit ==
    /\ code \in [Chains -> [Vaults -> {"none", "same", "other"}]]
    /\ \A v \in Vaults : code[Hardhat][v] = "none" /\ code["mainnet"][v] = "same"
    /\ funds = [r \in Roles |-> 0]
    /\ file = {} /\ old = {} /\ run = Idle /\ runs = 0

At(stage) == run.stage = stage

Stops == run' = Idle

Goes(stage) == run' = [run EXCEPT !.stage = stage]

Begin(o) ==
    /\ run = Idle /\ runs < MaxRuns
    /\ runs' = runs + 1
    /\ run' = [stage |-> "open", opts |-> o]
    /\ UNCHANGED <<code, funds, file, old>>

ReadOnly == run.opts.status

\* Only the testnet, or a local chain with --local.
RefusedChain(o) == o.chain # (IF o.local THEN Hardhat ELSE Sepolia)

Open ==
    /\ At("open")
    /\ IF RefusedChain(run.opts) THEN Stops ELSE Goes("file")
    /\ UNCHANGED <<code, funds, file, old, runs>>

-----------------------------------------------------------------------------
(* prepare. *)

\* A local node that has nothing at the recorded vault was restarted.
Gone(f) == run.opts.local /\ code[run.opts.chain][f.vault] = "none"

PutAside == old' = old \cup file

ReadFile ==
    /\ At("file")
    /\ \/ /\ \/ \E f \in file : f.chain # run.opts.chain
             \/ ReadOnly /\ \A f \in file : Gone(f)
          /\ Stops /\ UNCHANGED <<file, old>>
       \/ /\ \E f \in file : f.chain = run.opts.chain /\ Gone(f) /\ ~ReadOnly
          /\ PutAside /\ file' = {}
          /\ Goes("deploy")
       \/ /\ \A f \in file : f.chain = run.opts.chain /\ ~Gone(f)
          /\ ReadOnly => file # {}
          /\ Goes("deploy") /\ UNCHANGED <<file, old>>
    /\ UNCHANGED <<code, funds, runs>>

\* --local without a vault: one is deployed, at an address of its own.
Deploy ==
    /\ At("deploy")
    /\ IF file = {} /\ run.opts.local /\ run.opts.vault = NoVault
       THEN \E v \in Vaults :
               /\ code[Hardhat][v] = "none"
               /\ code' = [code EXCEPT ![Hardhat][v] = "same"]
               /\ run' = [run EXCEPT !.stage = "vault", !.opts.vault = v]
       ELSE Goes("vault") /\ UNCHANGED code
    /\ UNCHANGED <<funds, file, old, runs>>

\* vaultAddress.  `recorded` is what the deploy record names, if there is one.
Chosen(recorded) ==
    IF run.opts.vault # NoVault THEN run.opts.vault
    ELSE IF file # {} THEN (CHOOSE f \in file : TRUE).vault
    ELSE IF run.opts.local THEN NoVault ELSE recorded

RefusedVault(v) == v = NoVault \/ \E f \in file : f.vault # v

\* sameCode: what is not this checkout's code is used only knowingly.
RefusedCode(v) ==
    \/ code[run.opts.chain][v] = "none"
    \/ code[run.opts.chain][v] = "other" /\ ~run.opts.anyCode

ChooseVault(recorded) ==
    /\ At("vault")
    /\ LET v == Chosen(recorded)
       IN IF RefusedVault(v) \/ RefusedCode(v) THEN Stops
          ELSE run' = [run EXCEPT !.stage = IF ReadOnly THEN "report" ELSE "keys", !.opts.vault = v]
    /\ UNCHANGED <<code, funds, file, old, runs>>

\* status: what each step of the file has come to, and when the next is due.
Report ==
    /\ At("report")
    /\ Stops
    /\ UNCHANGED <<code, funds, file, old, runs>>

\* loadKeys: a local run without keys takes hardhat's.
Loaded == IF run.opts.local /\ run.opts.keys = "unset" THEN Public ELSE run.opts.keys

RefusedKeys ==
    \/ Loaded \notin Secret \cup (IF run.opts.local THEN {Public} ELSE {})
    \/ \E f \in file : f.keys # Loaded

LoadKeys ==
    /\ At("keys")
    /\ IF RefusedKeys THEN Stops
       ELSE run' = [run EXCEPT !.stage = "fund", !.opts.keys = Loaded]
    /\ UNCHANGED <<code, funds, file, old, runs>>

\* localFund: from the node's first account.
LocalFund ==
    /\ At("fund")
    /\ funds' = IF run.opts.local THEN [r \in Roles |-> 2] ELSE funds
    /\ Goes("check")
    /\ UNCHANGED <<code, file, old, runs>>

\* checkFunding: gas, and for the owner and the keeper what their steps send.
Need(r) ==
    IF r # "heir" /\ \A f \in file : ~f.begun THEN 2 ELSE 1

Short == \E r \in Roles : funds[r] < Need(r)

Recorded ==
    IF file # {} THEN file
    ELSE {[chain |-> run.opts.chain, vault |-> run.opts.vault, keys |-> run.opts.keys, begun |-> FALSE]}

\* A new lifecycle is on file only once the accounts can pay for it.
CheckFunding ==
    /\ At("check")
    /\ IF Short THEN Stops /\ UNCHANGED file
       ELSE Goes("ready") /\ file' = Recorded
    /\ UNCHANGED <<code, funds, old, runs>>

\* advance: its steps pay for themselves, and use up what was there to begin.
Advance ==
    /\ At("ready")
    /\ file' = {[f EXCEPT !.begun = TRUE] : f \in file}
    /\ funds' = [r \in Roles |-> 1]
    /\ Stops
    /\ UNCHANGED <<code, old, runs>>

-----------------------------------------------------------------------------
(* Around a run. *)

Killed == run # Idle /\ Stops /\ UNCHANGED <<code, funds, file, old, runs>>

Funded == run = Idle /\ funds' = [r \in Roles |-> 2] /\ UNCHANGED <<code, file, old, run, runs>>

NodeRestarts ==
    /\ run = Idle
    /\ code' = [code EXCEPT ![Hardhat] = [v \in Vaults |-> "none"]]
    /\ UNCHANGED <<funds, file, old, run, runs>>

SetupNext ==
    \/ \E o \in Options : Begin(o)
    \/ Open \/ ReadFile \/ Deploy \/ Report \/ LoadKeys \/ LocalFund \/ CheckFunding \/ Advance
    \/ \E recorded \in Vaults \cup {NoVault} : ChooseVault(recorded)
    \/ Killed \/ Funded \/ NodeRestarts

SetupSpec == SetupInit /\ [][SetupNext]_setupVars

-----------------------------------------------------------------------------
(* Properties. *)

Files == [chain : Chains, vault : Vaults, keys : Secret \cup {Public}, begun : BOOLEAN]

\* What is on file has a vault, and three different keys.
SetupTypeOK ==
    /\ code \in [Chains -> [Vaults -> {"none", "same", "other"}]]
    /\ funds \in [Roles -> 0..2]
    /\ file \in SUBSET Files /\ Cardinality(file) <= 1 /\ old \in SUBSET Files
    /\ run # Idle => run.stage \in {"open", "file", "deploy", "vault", "report", "keys", "fund", "check", "ready"}

\* A key that can hold real money is never used but on a test chain, and a key
\* everybody knows never but on a local node.
KeysStayOnTestChains ==
    run # Idle /\ run.stage \in {"fund", "check", "ready"} =>
        /\ run.opts.chain # "mainnet"
        /\ run.opts.chain # Hardhat => run.opts.keys \in Secret

\* A run that gets to the steps continues the lifecycle on file: on its chain,
\* its vault and with its keys, whatever the run was given.
ContinuesWhatIsOnFile ==
    At("ready") =>
        \E f \in file : f.chain = run.opts.chain /\ f.vault = run.opts.vault /\ f.keys = run.opts.keys

\* --status changes nothing: no file, no chain, no account.
StatusOnlyReadsStep ==
    run # Idle /\ run.opts.status => UNCHANGED <<code, funds, file, old>>

\* A lifecycle leaves the state file only for a copy that is kept, when its
\* chain is gone; and a new one is recorded only when its accounts can pay.
RecordsAreKeptStep ==
    /\ \A f \in file : f \in old' \/ \E g \in file' : [g EXCEPT !.begun = f.begun] = f
    /\ file = {} /\ file' # {} => \A r \in Roles : funds[r] >= Need(r)

Stages == {"open", "file", "deploy", "vault", "report", "keys", "fund", "check", "ready"}

Runs == [stage : Stages, opts : Options]

\* What keeps these true: what is known of a run with options o at a stage, and
\* of the file f it works on.
Fits(stage, o, f) ==
    /\ stage # "open" => ~RefusedChain(o)
    /\ stage \notin {"open", "file"} => \A x \in f : x.chain = o.chain
    /\ stage = "deploy" /\ o.status => f # {}
    /\ stage \in {"keys", "fund", "check", "ready"} =>
          ~o.status /\ o.vault \in Vaults /\ \A x \in f : x.vault = o.vault
    /\ stage \in {"fund", "check", "ready"} =>
          /\ o.keys \in Secret \cup (IF o.local THEN {Public} ELSE {})
          /\ \A x \in f : x.keys = o.keys
    /\ stage = "ready" => f # {}

SetupInv ==
    /\ code \in [Chains -> [Vaults -> {"none", "same", "other"}]]
    /\ funds \in [Roles -> 0..2]
    /\ file \subseteq Files /\ old \subseteq Files
    /\ run # Idle => run \in Runs /\ Fits(run.stage, run.opts, file)
=============================================================================
