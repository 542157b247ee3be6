------------------------------ MODULE HeirSearch ------------------------------
(***************************************************************************)
(* site/assets/app.js, the heir's tab: the search for vaults that name the *)
(* wallet, over the logs of the wallet's own connection and then of the    *)
(* public endpoint, and the lookup by owner, which draw the same list.     *)
(*                                                                         *)
(* A handler runs to its next await.  A source refuses a range wider than  *)
(* its limit, may not keep old blocks, may lag, fail or be rate-limited.   *)
(***************************************************************************)
EXTENDS Integers, Sequences, FiniteSets

CONSTANTS
    Vaults,
    Sources,          \* the sources in the order they are tried
    SpanOf,           \* the range each is asked for first
    Limits,           \* what a source may accept
    MIN_LOG_SPAN,
    Shrink,           \* a refused range is divided by this (8 in the code)
    RateWaits,        \* how often a rate-limited call is tried again
    MaxBlock,         \* bound: blocks mined
    MaxPending        \* bound: lookups and re-reads under way

SearchAssumption ==
    /\ Sources \in Seq({Sources[i] : i \in DOMAIN Sources}) /\ Len(Sources) > 0
    /\ MIN_LOG_SPAN \in Nat \ {0} /\ Shrink \in Nat \ {0, 1}
    /\ MaxBlock \in Nat \ {0, 1} /\ Limits \subseteq Nat
    /\ \A i \in DOMAIN Sources :
          SpanOf[Sources[i]] \in Nat /\ SpanOf[Sources[i]] >= MIN_LOG_SPAN

Deploy == 1
Blocks == Deploy..MaxBlock
SourceSet == {Sources[i] : i \in DOMAIN Sources}

VARIABLES
    head,         \* the chain's latest block
    records,      \* the logs that name the wallet: block and vault
    keeps,        \* the oldest block each source still serves logs of
    limit,        \* the widest range it accepts
    scan,         \* S.heirScan
    at,           \* where the search's handler waits
    list,         \* what the list shows
    heirView,     \* what a re-read would draw
    pending,      \* lookups and re-reads that wait for their answers
    faulty        \* sources that failed or lagged in this search

vars == <<head, records, keeps, limit, scan, at, list, heirView, pending, faulty>>
chain == <<head, records, keeps, limit>>
page == <<list, heirView, pending>>

NoSummary == [searchedTo |-> 0, target |-> 0, stopped |-> FALSE]
Idle == [stage |-> "idle", src |-> 0, span |-> 0, until |-> 0, cursor |-> 0, target |-> 0, waits |-> 0]

Least(a, b) == IF a < b THEN a ELSE b
Most(a, b) == IF a > b THEN a ELSE b

source == Sources[at.src]
end == Least(at.cursor + at.span - 1, at.until)

Logs(s, from, to) == {r \in records : r[1] \in from..to /\ r[1] >= keeps[s]}

-----------------------------------------------------------------------------
(* The search. *)

Starts ==
    /\ ~scan.running
    /\ scan' = [scan EXCEPT !.running = TRUE, !.stop = FALSE,
                            !.next = IF @ = 0 THEN Deploy ELSE @]
    /\ at' = [Idle EXCEPT !.stage = "target"]
    /\ UNCHANGED <<chain, page, faulty>>

Stop ==
    /\ scan.running /\ at.stage # "show"
    /\ scan' = [scan EXCEPT !.stop = TRUE]
    /\ UNCHANGED <<chain, page, at, faulty>>

\* The pass is over: its summary stands, and the results are confirmed next.
Finish(target, next, candidates) ==
    /\ scan' = [scan EXCEPT !.next = next, !.candidates = candidates,
          !.summary = [searchedTo |-> next - 1, stopped |-> scan.stop,
                       target |-> IF target = 0 THEN 0 ELSE Most(target, next - 1)]]
    /\ at' = [Idle EXCEPT !.stage = "show", !.target = target]
    /\ heirView' = "found"
    /\ UNCHANGED <<chain, list, pending>>

\* The turn of source i comes, unless there is nothing left to read.
Turn(i, target, next, candidates) ==
    IF i > Len(Sources) \/ next > target \/ scan.stop
    THEN Finish(target, next, candidates)
    ELSE /\ at' = [Idle EXCEPT !.stage = "probe", !.src = i, !.target = target]
         /\ scan' = [scan EXCEPT !.next = next, !.candidates = candidates]
         /\ UNCHANGED <<chain, page>>

TargetRead ==
    /\ at.stage = "target"
    /\ \E t \in Most(Deploy, head - 1)..head : Turn(1, t, scan.next, scan.candidates)
    /\ UNCHANGED faulty

TargetFails ==
    /\ at.stage = "target"
    /\ Finish(0, scan.next, scan.candidates)
    /\ UNCHANGED faulty

NextSource(next) == Turn(at.src + 1, at.target, next, scan.candidates)

Failing == faulty' = faulty \cup {source}

Asking == at.stage \in {"probe", "head", "logs"}

\* askSource: a rate limit is waited for, a few times.
RateLimited ==
    /\ Asking /\ at.waits < RateWaits
    /\ at' = [at EXCEPT !.waits = @ + 1]
    /\ UNCHANGED <<chain, page, scan, faulty>>

RateLimitedToTheEnd ==
    /\ Asking /\ at.waits = RateWaits
    /\ NextSource(IF at.stage = "logs" THEN at.cursor ELSE scan.next)
    /\ Failing

\* A source that serves nothing at the deployment block is not used.
servesHistory(s) == keeps[s] <= Deploy

Probed ==
    /\ at.stage = "probe"
    /\ IF servesHistory(source)
       THEN /\ at' = [at EXCEPT !.stage = "head", !.waits = 0]
            /\ UNCHANGED <<chain, page, scan>>
       ELSE NextSource(scan.next)
    /\ UNCHANGED faulty

HeadRead ==
    /\ at.stage = "head"
    /\ \E h \in Most(Deploy, head - 1)..head :
       LET until == Least(at.target, h) IN
       /\ IF scan.next > until \/ scan.stop
          THEN NextSource(scan.next)
          ELSE /\ at' = [at EXCEPT !.stage = "logs", !.waits = 0, !.until = until,
                                   !.cursor = scan.next, !.span = SpanOf[source]]
               /\ UNCHANGED <<chain, page, scan>>
       /\ faulty' = IF h < at.target THEN faulty \cup {source} ELSE faulty

\* The first two calls of a turn.
CallFails ==
    /\ at.stage \in {"probe", "head"}
    /\ NextSource(scan.next)
    /\ Failing

\* The loop of scanSource: the rest of the range, or the end of the turn.
Continue(cursor, candidates) ==
    IF cursor > at.until \/ scan.stop
    THEN Turn(at.src + 1, at.target, cursor, candidates)
    ELSE /\ at' = [at EXCEPT !.cursor = cursor, !.waits = 0]
         /\ scan' = [scan EXCEPT !.candidates = candidates]
         /\ UNCHANGED <<chain, page>>

LogsAnswered ==
    /\ at.stage = "logs" /\ end - at.cursor + 1 <= limit[source]
    /\ Continue(end + 1, scan.candidates \cup {r[2] : r \in Logs(source, at.cursor, end)})
    /\ UNCHANGED faulty

\* A refused range shrinks; at the smallest it ends the source's turn.  (A stop
\* is looked at when the loop comes round.)
Shrunk ==
    IF at.span <= MIN_LOG_SPAN \/ scan.stop
    THEN NextSource(at.cursor)
    ELSE /\ at' = [at EXCEPT !.waits = 0, !.span = Most(MIN_LOG_SPAN, (end - at.cursor + 1) \div Shrink)]
         /\ UNCHANGED <<chain, page, scan>>

LogsRefused ==
    /\ at.stage = "logs" /\ end - at.cursor + 1 > limit[source]
    /\ Shrunk
    /\ UNCHANGED faulty

LogsFail ==
    /\ at.stage = "logs"
    /\ Shrunk
    /\ Failing

-----------------------------------------------------------------------------
(* The list. *)

Found(summary) == [kind |-> "found", summary |-> summary]
NotFound(kind) == [kind |-> kind, summary |-> NoSummary]

Ended == scan' = [scan EXCEPT !.running = FALSE, !.stop = FALSE] /\ at' = Idle /\ faulty' = {}

Shows ==
    /\ at.stage = "show"
    /\ list' = Found(scan.summary)
    /\ Ended
    /\ UNCHANGED <<chain, heirView, pending>>

ShowFails ==
    /\ at.stage = "show"
    /\ list' = NotFound("error")
    /\ Ended
    /\ UNCHANGED <<chain, heirView, pending>>

Asks(kind) == Cardinality(pending) < MaxPending /\ pending' = pending \cup {kind}

Lookup ==
    /\ Asks("owner")
    /\ UNCHANGED <<chain, scan, at, list, heirView, faulty>>

\* A transaction of a card was mined: the page reads again what it shows.
rereadHeir ==
    /\ list.kind \in {"owner", "found"}
    /\ Asks(heirView)
    /\ UNCHANGED <<chain, scan, at, list, heirView, faulty>>

OwnerShown ==
    /\ "owner" \in pending
    /\ list' = NotFound("owner") /\ heirView' = "owner"
    /\ pending' = pending \ {"owner"}
    /\ UNCHANGED <<chain, scan, at, faulty>>

FoundShown ==
    /\ "found" \in pending
    /\ list' = Found(scan.summary)
    /\ pending' = pending \ {"found"}
    /\ UNCHANGED <<chain, scan, at, heirView, faulty>>

\* The list stays, or shows that the lookup failed.
ReadFails ==
    /\ \E kind \in pending : pending' = pending \ {kind}
    /\ list' \in {list, NotFound("error")}
    /\ UNCHANGED <<chain, scan, at, heirView, faulty>>

-----------------------------------------------------------------------------
(* The chain. *)

Block ==
    /\ head < MaxBlock
    /\ head' = head + 1
    /\ \E named \in SUBSET Vaults : records' = records \cup {<<head + 1, v>> : v \in named}
    /\ UNCHANGED <<keeps, limit, scan, at, page, faulty>>

Init ==
    /\ head \in {Deploy, MaxBlock - 1}
    /\ records \in SUBSET (((Deploy + 1)..head) \X Vaults)
    /\ Cardinality(records) <= 2
    /\ keeps \in [SourceSet -> {Deploy, MaxBlock - 1}]
    /\ limit \in [SourceSet -> Limits]
    /\ scan = [next |-> 0, candidates |-> {}, summary |-> NoSummary, running |-> FALSE, stop |-> FALSE]
    /\ at = Idle
    /\ list = NotFound("none") /\ heirView = "none" /\ pending = {}
    /\ faulty = {}

Answer ==
    \/ TargetRead \/ Probed \/ HeadRead \/ LogsAnswered \/ LogsRefused \/ Shows

Failure ==
    \/ TargetFails \/ RateLimited \/ RateLimitedToTheEnd \/ CallFails \/ LogsFail \/ ShowFails

Next ==
    \/ Starts \/ Stop \/ Answer \/ Failure
    \/ Lookup \/ rereadHeir \/ OwnerShown \/ FoundShown \/ ReadFails
    \/ Block

Spec == Init /\ [][Next]_vars

-----------------------------------------------------------------------------
(* Properties. *)

\* Types of the search; a stop is remembered only while one runs.
SearchTypeOK ==
    /\ head \in Blocks /\ records \subseteq Blocks \X Vaults
    /\ scan.next \in 0..(MaxBlock + 1) /\ scan.candidates \subseteq Vaults
    /\ at.stage \in {"idle", "target", "probe", "head", "logs", "show"}
    /\ (at.stage = "idle") <=> ~scan.running
    /\ scan.stop => scan.running
    /\ at.stage = "logs" => at.cursor <= at.until /\ at.until <= at.target /\ at.span >= MIN_LOG_SPAN
    /\ list.kind \in {"none", "owner", "found", "error"}

\* Every record below the cursor is a candidate: whatever sources were used, in
\* however many passes, with stops, refusals, failures and sources that keep no
\* old blocks between them, no record in the blocks called searched is left out.
NothingMissed == \A r \in records : r[1] < scan.next => r[2] \in scan.candidates

\* A search that was not stopped is complete if one source was well: it keeps
\* the history, accepts the smallest range, and neither failed nor lagged.
OneSourceSuffices ==
    (at.stage = "show" /\ at.target > 0 /\ ~scan.summary.stopped
        /\ \E s \in SourceSet : servesHistory(s) /\ limit[s] >= MIN_LOG_SPAN /\ s \notin faulty)
       => scan.summary.searchedTo >= scan.summary.target

\* A list that says every block to X was searched leaves out no record up to
\* X, also when the sources change, the next search is under way, or the list
\* was drawn again after a transaction.
SummaryTrue ==
    (list.kind = "found" /\ list.summary.target > 0
        /\ list.summary.searchedTo >= list.summary.target)
       => \A r \in records : r[1] <= list.summary.searchedTo => r[2] \in scan.candidates

\* After a stop, no source is asked for another range.
StopIsHeededStep ==
    (scan.stop /\ scan.running /\ scan'.running)
       => /\ scan'.next > scan.next => at'.stage = "show"
          /\ at'.stage = "logs" => at'.cursor = at.cursor
=============================================================================
