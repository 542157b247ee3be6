------------------------------ MODULE ChainKeeper ------------------------------
(***************************************************************************)
(* scripts/checkin-chain.ts: the generator prints the call that installs a *)
(* chain of check-in values, and the next value to reveal; the owner sends *)
(* them, at once or late, to the vault they are for or another; the        *)
(* contract, of either version, accepts what its own step leads to.        *)
(*                                                                         *)
(* A value is a term: so many steps from the tip of a seed in a context.   *)
(* Hashes are taken to be injective.                                       *)
(***************************************************************************)
EXTENDS Naturals, FiniteSets

CONSTANTS
    Seeds, Vaults,
    MaxCount,       \* bound: values of a chain
    MaxInstalls,    \* bound: installations of a vault
    MaxEpoch        \* bound: epochs, or install indices, of a vault

KeeperAssumption ==
    /\ "none" \notin Seeds \cup Vaults
    /\ MaxCount \in Nat /\ MaxInstalls \in Nat /\ MaxEpoch \in Nat

VARIABLES
    mode,           \* the version of the contract, and of the generator
    armed,          \* of each vault: its anchor, values left, and epoch
    before,         \* the same before the last change: a lagging node answers with it
    call,           \* the installation that was printed last
    accepted,       \* the values each vault has accepted, with the installation they were for
    installs, reused    \* history: installations of each vault, and the indices used twice

chainVars == <<mode, armed, before, call, accepted, installs, reused>>

Zero == [seed |-> "none", vault |-> "none", epoch |-> 0, i |-> 0]
NoCall == [vault |-> "none", anchor |-> Zero, count |-> 0, epoch |-> 0]

\* Variation: the tip binds no epoch, and no install index.
Tip_AnyEpoch(seed, vault, epoch) == [seed |-> seed, vault |-> vault, epoch |-> 1, i |-> 0]

Tip(seed, vault, epoch) == [seed |-> seed, vault |-> vault, epoch |-> epoch, i |-> 0]

\* A step of v1 is a hash of the value; a step of v2 binds the context again,
\* and leads a value of another context to no term of any chain.
Step(vault, epoch, x) ==
    IF mode = "v1" \/ (x.vault = vault /\ x.epoch = epoch) THEN [x EXCEPT !.i = @ + 1]
    ELSE [x EXCEPT !.seed = "none", !.i = @ + 1]

Link(seed, vault, epoch, k) == [Tip(seed, vault, epoch) EXCEPT !.i = k]

BuildChain(seed, vault, epoch, count) ==
    [vault |-> vault, anchor |-> Link(seed, vault, epoch, count), count |-> count, epoch |-> epoch]

RevealOrder(seed, vault, epoch, count) == {Link(seed, vault, epoch, k) : k \in 0..(count - 1)}

NextValue(seed, vault, epoch, left) == Link(seed, vault, epoch, left - 1)

-----------------------------------------------------------------------------
(* The generator, with a node that may lag. *)

Answers(vault) == {armed[vault], before[vault]}

\* Installing moves a v2 vault to its next epoch; in v1 the owner counts.
InstallEpoch(view, given) == IF mode = "v2" THEN view.epoch + 1 ELSE given

PrintAnchor(seed, vault, count, given) ==
    /\ \E view \in Answers(vault) :
          LET epoch == InstallEpoch(view, given)
          IN  /\ epoch \in 1..MaxEpoch
              /\ call' = BuildChain(seed, vault, epoch, count)
    /\ UNCHANGED <<mode, armed, before, accepted, installs, reused>>

\* What `next` prints: nothing when no chain is armed, when it is used up, or
\* when the seed and epoch do not lead to the anchor.
PrintedNext(seed, vault, given, view) ==
    LET epoch == IF mode = "v2" THEN view.epoch ELSE given
        value == NextValue(seed, vault, epoch, view.left)
    IN  IF view.anchor # Zero /\ view.left > 0 /\ Step(vault, epoch, value) = view.anchor
        THEN {value} ELSE {}

\* Every value that may be on somebody's paper.
Paper == UNION {RevealOrder(seed, vault, epoch, MaxCount) :
                    seed \in Seeds, vault \in Vaults, epoch \in 1..MaxEpoch}

-----------------------------------------------------------------------------
(* The contract. *)

TakesEpoch(vault, epoch) == mode = "v1" \/ epoch = armed[vault].epoch + 1

Install ==
    /\ call # NoCall
    /\ installs[call.vault] < MaxInstalls
    /\ TakesEpoch(call.vault, call.epoch)
    /\ before' = [before EXCEPT ![call.vault] = armed[call.vault]]
    /\ armed' = [armed EXCEPT ![call.vault] =
            [anchor |-> call.anchor, left |-> call.count, epoch |-> call.epoch,
             used |-> armed[call.vault].used \cup {call.epoch}]]
    /\ installs' = [installs EXCEPT ![call.vault] = @ + 1]
    /\ reused' = IF call.epoch \in armed[call.vault].used THEN reused \cup {call.vault} ELSE reused
    /\ UNCHANGED <<mode, call, accepted>>

\* In v2 a disarm is an epoch of its own.
Disarm(vault) ==
    /\ armed[vault].left > 0
    /\ before' = [before EXCEPT ![vault] = armed[vault]]
    /\ armed' = [armed EXCEPT ![vault].anchor = Zero, ![vault].left = 0,
                             ![vault].epoch = IF mode = "v2" THEN @ + 1 ELSE @]
    /\ UNCHANGED <<mode, call, accepted, installs, reused>>

Accepts(vault, x) ==
    armed[vault].left > 0 /\ Step(vault, armed[vault].epoch, x) = armed[vault].anchor

CheckInByChain(vault, x) ==
    /\ Accepts(vault, x)
    /\ before' = [before EXCEPT ![vault] = armed[vault]]
    /\ armed' = [armed EXCEPT ![vault].anchor = x, ![vault].left = @ - 1]
    /\ accepted' = [accepted EXCEPT ![vault] = @ \cup {[value |-> x, install |-> installs[vault]]}]
    /\ UNCHANGED <<mode, call, installs, reused>>

ChainInit ==
    /\ mode \in {"v1", "v2"}
    /\ armed = [v \in Vaults |-> [anchor |-> Zero, left |-> 0, epoch |-> 0, used |-> {}]]
    /\ before = armed
    /\ call = NoCall
    /\ accepted = [v \in Vaults |-> {}]
    /\ installs = [v \in Vaults |-> 0] /\ reused = {}

ChainNext ==
    \/ \E seed \in Seeds, vault \in Vaults, given \in 1..MaxEpoch :
          \E count \in 1..MaxCount : PrintAnchor(seed, vault, count, given)
    \/ Install
    \/ \E vault \in Vaults : Disarm(vault) \/ (\E x \in Paper : CheckInByChain(vault, x))

ChainSpec == ChainInit /\ [][ChainNext]_chainVars

-----------------------------------------------------------------------------

\* The shape of the state; a chain that is armed has its anchor as many steps
\* from its tip as it has values left.
ChainTypeOK ==
    /\ mode \in {"v1", "v2"}
    /\ \A v \in Vaults :
          /\ armed[v].left \in 0..MaxCount /\ installs[v] \in 0..MaxInstalls
          /\ armed[v].left > 0 => armed[v].anchor.i = armed[v].left
    /\ reused \subseteq Vaults

\* A value that was accepted is not accepted again in a later installation,
\* even of the same seed: in v2 the contract's epoch sees to it, in v1 only
\* an owner who never uses an install index twice.
SpentStaysSpent ==
    \A v \in Vaults : v \notin reused =>
        \A a, b \in accepted[v] : a.value = b.value => a = b

\* No v2 vault ever has an installation with an epoch it has had.
EpochsAreNew == mode = "v2" => reused = {}

\* Values are of no use on another vault: not even with one seed for both.
ValuesDoNotCross ==
    \A v, w \in Vaults : v # w =>
        {a.value : a \in accepted[v]} \cap {a.value : a \in accepted[w]} = {}

\* An armed chain is never stuck: with its seed and epoch the generator prints
\* the one value that the contract accepts.
NextValueWorks ==
    \A v \in Vaults : armed[v].left > 0 =>
        LET anchor == armed[v].anchor
            printed == PrintedNext(anchor.seed, v, anchor.epoch, armed[v])
        IN  printed # {} /\ \A x \in Paper : Accepts(v, x) <=> x \in printed

\* What keeps these true.  An armed chain is one of the generator's, of a seed and
\* of this vault's epoch; what a vault accepted was its own, of an epoch it has
\* used, and of the epoch that is armed exactly when it was accepted since.
Terms == [seed : Seeds \cup {"none"}, vault : Vaults \cup {"none"}, epoch : Nat, i : Nat]

Armings == [anchor : Terms, left : 0..MaxCount, epoch : Nat, used : SUBSET Nat]

VaultKept(v) ==
    /\ armed[v].left > 0 =>
          /\ armed[v].epoch \in armed[v].used
          /\ \E seed \in Seeds : armed[v].anchor = Link(seed, v, armed[v].epoch, armed[v].left)
    /\ \A e \in armed[v].used : mode = "v2" => e <= armed[v].epoch
    /\ \A a \in accepted[v] :
          /\ a.value.vault = v /\ a.value.epoch \in armed[v].used
          /\ a.install <= installs[v]
          /\ (v \notin reused /\ armed[v].left > 0) =>
                (a.value.epoch = armed[v].epoch <=> a.install = installs[v])
    /\ v \notin reused =>
          \A a, b \in accepted[v] : a.value.epoch = b.value.epoch => a.install = b.install

ChainInv ==
    /\ mode \in {"v1", "v2"}
    /\ armed \in [Vaults -> Armings]
    /\ before \in [Vaults -> Armings]
    /\ accepted \in [Vaults -> SUBSET [value : Terms, install : Nat]]
    /\ installs \in [Vaults -> 0..MaxInstalls] /\ reused \subseteq Vaults
    /\ call = NoCall \/ \E seed \in Seeds, vault \in Vaults, epoch \in 1..MaxEpoch, count \in 1..MaxCount :
                            call = BuildChain(seed, vault, epoch, count)
    /\ mode = "v2" => reused = {}
    /\ \A v \in Vaults : VaultKept(v)
=============================================================================
