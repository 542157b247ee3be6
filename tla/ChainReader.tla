------------------------------ MODULE ChainReader ------------------------------
(***************************************************************************)
(* scripts/lifecycle.ts: how the runner reads the chain through a public   *)
(* RPC endpoint whose calls are answered by backends of different ages:    *)
(* retry, pool, snapshot, the lanes check, expectRevert and latestTs.      *)
(*                                                                         *)
(* A backend that has not seen the block a call is pinned to fails the     *)
(* call; retry asks again, a bounded number of times, and gives up with an *)
(* error of its own.  Other accounts act on the chain meanwhile.           *)
(***************************************************************************)
EXTENDS Integers, FiniteSets

CONSTANTS
    Backends,
    Fields,       \* what a snapshot reads, one call each
    Width,        \* of the pool: calls under way at once
    Attempts,     \* of retry
    MaxHead       \* bound: blocks

\* What the wrong turn gives at a block: the revert looked for, another, or
\* none; and what the runner gets when nobody answers.
Want == "asked"
Contents == {Want, "another", "passes"}
Silence == "silence"

VARIABLES
    head,         \* the chain: its last block
    gives,        \* what the wrong turn gives at each block
    sees,         \* the last block each backend has
    lastBlock,    \* the newest block the runner has seen its own work in
    pc,           \* "idle", "number", "block", "reads", "probe", "call"
    at,           \* the block the reads are pinned to
    floor,        \* lastBlock when the reading began
    tries,        \* failed attempts of each call
    inFlight,     \* fields whose calls are under way
    got,          \* the block each field was answered from, or 0
    picture,      \* the last complete snapshot: the block, and what each field came from
    verdict       \* of the last expectRevert: its block, and whether it passed

readerVars == <<head, gives, sees, lastBlock, pc, at, floor, tries, inFlight, got, picture, verdict>>

chainVars == <<head, gives, sees>>

Blocks == 1..MaxHead
Calls == Fields \cup {"block", "call"}
NoPicture == [block |-> 0, from |-> [f \in Fields |-> 0], floor |-> 0]
NoVerdict == [block |-> 0, passed |-> FALSE]

ReaderInit ==
    /\ head = 1
    /\ gives \in [{1} -> Contents]
    /\ sees = [b \in Backends |-> 1]
    /\ lastBlock = 0 /\ pc = "idle" /\ at = 0 /\ floor = 0
    /\ tries = [c \in Calls |-> 0]
    /\ inFlight = {}
    /\ got = [f \in Fields |-> 0]
    /\ picture = NoPicture /\ verdict = NoVerdict

-----------------------------------------------------------------------------
(* The chain and its backends. *)

Grows(c) ==
    /\ head < MaxHead
    /\ head' = head + 1
    /\ gives' = [n \in 1..(head + 1) |-> IF n <= head THEN gives[n] ELSE c]

MineOther(c) ==
    /\ Grows(c)
    /\ UNCHANGED <<sees, lastBlock, pc, at, floor, tries, inFlight, got, picture, verdict>>

Sync(b) ==
    /\ sees[b] < head
    /\ sees' = [sees EXCEPT ![b] = @ + 1]
    /\ UNCHANGED <<head, gives, lastBlock, pc, at, floor, tries, inFlight, got, picture, verdict>>

\* The receipt of the runner's own transaction: some backend has its block.
OwnReceipt(b) ==
    /\ pc = "idle" /\ lastBlock < sees[b]
    /\ lastBlock' = sees[b]
    /\ UNCHANGED <<chainVars, pc, at, floor, tries, inFlight, got, picture, verdict>>

-----------------------------------------------------------------------------
(* retry. *)

\* A reading leaves nothing behind: what its other calls answer is dropped.
Leave ==
    /\ pc' = "idle" /\ at' = 0 /\ floor' = 0
    /\ tries' = [c \in Calls |-> 0]
    /\ inFlight' = {}
    /\ got' = [f \in Fields |-> 0]

\* A failed attempt; the last of them throws, which ends the reading.
Fails(c) ==
    IF tries[c] + 1 < Attempts
    THEN tries' = [tries EXCEPT ![c] = @ + 1] /\ UNCHANGED <<pc, at, floor, inFlight, got>>
    ELSE Leave

Max2(a, b) == IF a > b THEN a ELSE b

\* Never behind a block the runner has seen its own work in.
Newest(b) == Max2(sees[b], lastBlock)

Begin(next) ==
    /\ pc = "idle"
    /\ pc' = next
    /\ floor' = lastBlock
    /\ UNCHANGED <<chainVars, lastBlock, at, tries, inFlight, got, picture, verdict>>

-----------------------------------------------------------------------------
(* snapshot. *)

BlockNumber(b) ==
    /\ pc = "number"
    /\ at' = Newest(b)
    /\ pc' = "block"
    /\ UNCHANGED <<chainVars, lastBlock, floor, tries, inFlight, got, picture, verdict>>

GetBlock(b) ==
    /\ pc = "block"
    /\ IF sees[b] >= at
       THEN pc' = "reads" /\ UNCHANGED <<at, floor, tries, inFlight, got>>
       ELSE Fails("block")
    /\ UNCHANGED <<chainVars, lastBlock, picture, verdict>>

\* pool: another call is begun while fewer than Width are under way.
BeginRead(f) ==
    /\ pc = "reads" /\ got[f] = 0
    /\ f \notin inFlight /\ Cardinality(inFlight) < Width
    /\ inFlight' = inFlight \cup {f}
    /\ UNCHANGED <<chainVars, lastBlock, pc, at, floor, tries, got, picture, verdict>>

\* Variation: the calls ask for the latest state.
AnsweredFrom_Latest(b) == sees[b]

\* Every call of a snapshot is pinned to its block.
AnsweredFrom(b) == IF sees[b] >= at THEN at ELSE 0

Read(f, b) ==
    /\ pc = "reads" /\ f \in inFlight
    /\ IF AnsweredFrom(b) # 0
       THEN /\ got' = [got EXCEPT ![f] = AnsweredFrom(b)]
            /\ inFlight' = inFlight \ {f}
            /\ UNCHANGED <<pc, at, floor, tries>>
       ELSE Fails(f)
    /\ UNCHANGED <<chainVars, lastBlock, picture, verdict>>

Complete == \A f \in Fields : got[f] # 0

Snapshot ==
    /\ pc = "reads" /\ Complete
    /\ picture' = [block |-> at, from |-> got, floor |-> floor]
    /\ Leave
    /\ UNCHANGED <<chainVars, lastBlock, verdict>>

-----------------------------------------------------------------------------
(* expectRevert: a wrong turn that must revert with one error. *)

ProbeNumber(b) ==
    /\ pc = "probe"
    /\ at' = Newest(b)
    /\ pc' = "call"
    /\ UNCHANGED <<chainVars, lastBlock, floor, tries, inFlight, got, picture, verdict>>

\* decodeRevert, and the comparison with the error by name.
Passes(answer) == answer = Want

Judged(answer) == verdict' = [block |-> at, passed |-> Passes(answer)] /\ Leave

\* A revert ends the attempts at once, a missing block does not.
ProbeCall(b) ==
    /\ pc = "call"
    /\ \/ sees[b] >= at /\ Judged(gives[at])
       \/ sees[b] < at /\ tries["call"] + 1 < Attempts /\ Fails("call") /\ UNCHANGED verdict
       \/ sees[b] < at /\ tries["call"] + 1 = Attempts /\ Judged(Silence)
    /\ UNCHANGED <<chainVars, lastBlock, picture>>

ReaderNext ==
    \/ \E c \in Contents : MineOther(c)
    \/ \E b \in Backends : Sync(b) \/ OwnReceipt(b)
    \/ \E next \in {"number", "probe"} : Begin(next)
    \/ \E b \in Backends : BlockNumber(b) \/ GetBlock(b) \/ ProbeNumber(b) \/ ProbeCall(b)
    \/ \E f \in Fields : BeginRead(f) \/ \E b \in Backends : Read(f, b)
    \/ Snapshot

ReaderSpec == ReaderInit /\ [][ReaderNext]_readerVars

-----------------------------------------------------------------------------
(* Properties. *)

\* A call under way belongs to the reading, which never runs more than Width.
ReaderTypeOK ==
    /\ head \in Blocks /\ gives \in [1..head -> Contents]
    /\ sees \in [Backends -> 1..head]
    /\ lastBlock \in 0..head /\ at \in 0..head /\ floor \in 0..head
    /\ pc \in {"idle", "number", "block", "reads", "probe", "call"}
    /\ tries \in [Calls -> 0..(Attempts - 1)]
    /\ inFlight \subseteq {f \in Fields : got[f] = 0} /\ Cardinality(inFlight) <= Width
    /\ inFlight # {} => pc = "reads"
    /\ got \in [Fields -> 0..head]
    /\ picture \in [block : 0..head, from : [Fields -> 0..head], floor : 0..head]
    /\ verdict \in [block : 0..head, passed : BOOLEAN]

\* A snapshot is one state of the chain: every field comes from its block,
\* whichever backends answered and however far the chain moved meanwhile.
SnapshotIsOneBlock == \A f \in Fields : picture.from[f] = picture.block

\* And it is never older than a block the runner had seen its own work in.
SnapshotSeesOwnWork == picture.block >= picture.floor

\* A wrong turn passes only if the call does revert with that error, in the
\* block it was tried in: silence of the endpoint never passes for a revert.
PassedIsReverted == verdict.passed => gives[verdict.block] = Want
=============================================================================
