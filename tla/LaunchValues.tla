----------------------------- MODULE LaunchValues -----------------------------
(***************************************************************************)
(* scripts/set-launch-values.js: the launch values go wherever the files   *)
(* of the site and the documents hold a marker.  A run checks the values   *)
(* on chain, changes every file in memory, checks what the result would    *)
(* publish, and only then writes, file by file; it may die between two     *)
(* writes or in one.                                                       *)
(***************************************************************************)
EXTENDS Naturals, SequencesExt, FiniteSets

CONSTANTS
    Order,          \* the files, in the order they are written: the pages of the site first
    FieldsIn,       \* of each file: the launch values it holds
    Deployments,    \* the contracts of each chain: address, block, tx, date, code
    PauseTxs,       \* the transactions that paused the first version
    Given,          \* what a run may be given on the command line
    SiteFiles,      \* the files that validate-site.js reads
    LowerCase,      \* of an address: how it reads without its checksum
    Retired,        \* the first version's address
    CalendarDays,   \* the dates that exist
    RpcTries,       \* how often a call to the node is repeated
    MaxRuns, MaxEdits

VARIABLES
    files,          \* of each file and field: the marker, or what replaced it
    torn,           \* files that a run died in the middle of writing
    asPlanned,      \* the deployments that are as the launch plan says
    launch,         \* the run under way: its stage, what it was given, what it has to write
    last,           \* how the last run ended, since when no file changed
    runs, edits, interrupted

launchVars == <<files, torn, asPlanned, launch, last, runs, edits, interrupted>>

Marker == "TBD"
UnknownMarker == "UNKNOWN_TBD"
None == "none"

Names == {Order[i] : i \in DOMAIN Order}
Idle == [stage |-> "off", given |-> None, tries |-> 0, final |-> <<>>, todo |-> <<>>]
NoResult == [result |-> None, given |-> None]

\* The fields of the testnet's slot in the application are not the mainnet's.
Testnet == {"testnet address", "testnet block", "testnet code"}
Ours(g) == IF g.chain = "sepolia" THEN Testnet ELSE UNION {FieldsIn[f] : f \in Names} \ Testnet

-----------------------------------------------------------------------------
(* The command line: the options as they were given, and their values. *)

Flags == {"offline", "dry-run", "help"}
Required == {"address", "block", "tx", "date"}
Valued == Required \cup {"v1-pause-tx", "chain", "root", "rpc"}

Offline(g) == "offline" \in Range(g.options)
DryRun(g) == Offline(g) \/ "dry-run" \in Range(g.options)

\* An option that is not known, or given twice, or missing.
RefusedOptions(options) ==
    \/ Range(options) \ (Flags \cup Valued) # {}
    \/ \E i, j \in DOMAIN options : i # j /\ options[i] = options[j] /\ options[i] \in Valued
    \/ Required \ Range(options) # {}

\* An address in one case carries no checksum that would show a mistyped
\* character; the first version's is not the second's.
RefusedAddress(address) == address = LowerCase[address] \/ LowerCase[address] = LowerCase[Retired]

RefusedArguments(g) ==
    \/ RefusedOptions(g.options)
    \/ RefusedAddress(g.address)
    \/ g.date \notin CalendarDays
    \/ g.pause # None /\ (g.chain # "base" \/ g.pause = g.tx)

-----------------------------------------------------------------------------
(* The values on the chain, and in the files. *)

\* The transaction created that address in that block, on that date; on Base
\* the contract is what the plan says; the pause is the first version's.
Verified(g) ==
    \E d \in Deployments :
        /\ d.chain = g.chain /\ LowerCase[d.address] = LowerCase[g.address] /\ d.block = g.block
        /\ d.tx = g.tx /\ d.date = g.date
        /\ d.chain = "base" => d \in asPlanned
        /\ g.pause \in PauseTxs \cup {None}

CodeOf(g) == (CHOOSE d \in Deployments : d.chain = g.chain /\ LowerCase[d.address] = LowerCase[g.address]).code

\* What a run puts in place of a field's marker, if anything.
Value(g, field) ==
    CASE field \in {"address", "testnet address"} -> g.address
      [] field \in {"block", "testnet block"} -> g.block
      [] field = "tx" -> g.tx
      [] field = "date" -> g.date
      [] field \in {"code", "testnet code"} -> IF Offline(g) THEN None ELSE CodeOf(g)
      [] field = "pause" -> g.pause

Replaced(g, f) ==
    [field \in FieldsIn[f] |->
        IF field \in Ours(g) /\ files[f][field] = Marker /\ Value(g, field) # None
        THEN Value(g, field) ELSE files[f][field]]

Final(g) == [f \in Names |-> IF f \in torn THEN files[f] ELSE Replaced(g, f)]

Changed(g) == {f \in Names : Final(g)[f] # files[f]}

\* Only the mainnet's run looks for markers it does not know.
HasUnknown(g) ==
    g.chain = "base" /\ \E f \in Names \ torn : \E field \in FieldsIn[f] : files[f][field] = UnknownMarker

Mentioned(g) == \E f \in Names \ torn : \E field \in FieldsIn[f] : Final(g)[f][field] = g.address

\* What f says of the deployment is what the run was given.
Says(final, f, g, fields) ==
    f \notin torn /\ \A field \in fields : final[f][field] = Value(g, field)

\* The application's entry for the chain, and on Base the page's footer.
Published(g, final) ==
    /\ Says(final, "app.js", g, Ours(g) \cap FieldsIn["app.js"])
    /\ g.chain = "base" => Says(final, "app.html", g, {"address", "block", "tx"})

Refused(g) ==
    \/ HasUnknown(g)
    \/ Changed(g) = {} /\ ~Mentioned(g)
    \/ ~Offline(g) /\ ~Published(g, Final(g))

-----------------------------------------------------------------------------

Ended(g, result) == launch' = Idle /\ last' = [result |-> result, given |-> g]

Launch(g) ==
    /\ launch = Idle /\ runs < MaxRuns
    /\ runs' = runs + 1
    /\ launch' = IF RefusedArguments(g) \/ "help" \in Range(g.options) THEN Idle
                 ELSE [Idle EXCEPT !.stage = "checking", !.given = g]
    /\ last' = NoResult
    /\ UNCHANGED <<files, torn, asPlanned, edits, interrupted>>

\* The node does not answer, or answers that there were too many calls; after
\* so many tries the run ends.
RpcFails ==
    /\ launch.stage = "checking" /\ ~Offline(launch.given)
    /\ launch' = IF launch.tries < RpcTries THEN [launch EXCEPT !.tries = @ + 1] ELSE Idle
    /\ last' = NoResult
    /\ UNCHANGED <<files, torn, asPlanned, runs, edits, interrupted>>

\* A value is not what the chain says.
VerifyFails ==
    /\ launch.stage = "checking" /\ ~Offline(launch.given)
    /\ ~Verified(launch.given)
    /\ launch' = Idle /\ last' = NoResult
    /\ UNCHANGED <<files, torn, asPlanned, runs, edits, interrupted>>

\* Everything is checked before the first write.
Prepare ==
    /\ launch.stage = "checking"
    /\ Offline(launch.given) \/ Verified(launch.given)
    /\ LET g == launch.given
       IN  IF Refused(g) THEN Ended(g, "refused")
           ELSE IF DryRun(g) THEN Ended(g, "previewed")
           ELSE IF Changed(g) = {} THEN Ended(g, "done")
           ELSE /\ launch' = [launch EXCEPT !.stage = "writing", !.final = Final(g),
                                !.todo = SelectSeq(Order, LAMBDA f : f \in Changed(g))]
                /\ UNCHANGED last
    /\ UNCHANGED <<files, torn, asPlanned, runs, edits, interrupted>>

WriteFile ==
    /\ launch.stage = "writing"
    /\ files' = [files EXCEPT ![Head(launch.todo)] = launch.final[Head(launch.todo)]]
    /\ IF Len(launch.todo) = 1 THEN Ended(launch.given, "done")
       ELSE launch' = [launch EXCEPT !.todo = Tail(@)] /\ UNCHANGED last
    /\ UNCHANGED <<torn, asPlanned, runs, edits, interrupted>>

\* Between two files, or in the middle of one.
Crash ==
    /\ launch.stage = "writing"
    /\ torn' \in {torn, torn \cup {Head(launch.todo)}}
    /\ launch' = Idle /\ last' = NoResult /\ interrupted' = TRUE
    /\ UNCHANGED <<files, asPlanned, runs, edits>>

HandEdit(f, field, value) ==
    /\ launch.stage # "writing" /\ edits < MaxEdits
    /\ files[f][field] # value /\ f \notin torn
    /\ files' = [files EXCEPT ![f][field] = value]
    /\ edits' = edits + 1 /\ last' = NoResult
    /\ UNCHANGED <<torn, asPlanned, launch, runs, interrupted>>

\* The files as they are in git, all with their markers.
Unfilled == [f \in Names |-> [field \in FieldsIn[f] |-> Marker]]

RestoreFromGit ==
    /\ launch = Idle
    /\ files # Unfilled \/ torn # {}
    /\ files' = Unfilled /\ torn' = {} /\ interrupted' = FALSE /\ last' = NoResult /\ edits' = 0
    /\ UNCHANGED <<asPlanned, launch, runs>>

\* The admin changes the fee, its recipient, or itself.
LeavesThePlan(d) ==
    /\ d \in asPlanned
    /\ asPlanned' = asPlanned \ {d}
    /\ UNCHANGED <<files, torn, launch, last, runs, edits, interrupted>>

-----------------------------------------------------------------------------
(* validate-site.js: whether the site may be published. *)

\* The testnet's slot may stay as it is.
MarkersRemain ==
    \E f \in SiteFiles : \E field \in FieldsIn[f] :
        \/ files[f][field] = UnknownMarker
        \/ files[f][field] = Marker /\ field \notin Testnet

\* Once the application names a contract, the page's footer links the same.
OneDeployment ==
    files["app.js"]["address"] # Marker =>
        /\ files["app.js"]["block"] # Marker /\ files["app.js"]["code"] # Marker
        /\ \A field \in {"address", "block"} : files["app.html"][field] = files["app.js"][field]

SiteValid == ~MarkersRemain /\ OneDeployment

-----------------------------------------------------------------------------

LaunchInit ==
    /\ files = Unfilled /\ torn = {}
    /\ asPlanned = {d \in Deployments : d.planned}
    /\ launch = Idle /\ last = NoResult
    /\ runs = 0 /\ edits = 0 /\ interrupted = FALSE

LaunchNext ==
    \/ \E g \in Given : Launch(g)
    \/ RpcFails \/ VerifyFails \/ Prepare \/ WriteFile \/ Crash
    \/ \E f \in Names : \E field \in FieldsIn[f] :
          \E value \in {UnknownMarker, "0xother"} : HandEdit(f, field, value)
    \/ RestoreFromGit
    \/ \E d \in Deployments : LeavesThePlan(d)

LaunchSpec == LaunchInit /\ [][LaunchNext]_launchVars

-----------------------------------------------------------------------------

\* The shape of the state; what remains to be written differs from the files.
LaunchTypeOK ==
    /\ DOMAIN files = Names /\ \A f \in Names : DOMAIN files[f] = FieldsIn[f]
    /\ torn \subseteq Names /\ asPlanned \subseteq Deployments
    /\ launch.stage \in {"off", "checking", "writing"}
    /\ launch.stage = "writing" =>
          launch.todo # <<>> /\ \A i \in DOMAIN launch.todo : launch.final[launch.todo[i]] # files[launch.todo[i]]
    /\ last.result \in {None, "refused", "previewed", "done"}

\* Whatever a run dies in, the application's entry holds its markers or names
\* one deployment in all its fields, as long as nobody edits the files.
AppNamesOneDeployment ==
    edits = 0 /\ "app.js" \notin torn =>
        \A d \in {"base", "sepolia"} :
            LET slot == [field \in (IF d = "base" THEN {"address", "block", "code"} ELSE Testnet) |->
                            files["app.js"][field]]
            IN  \/ \A field \in DOMAIN slot : slot[field] = Marker
                \/ \E x \in Deployments : x.chain = d /\
                      {slot[field] : field \in DOMAIN slot} = {x.address, x.block, x.code}

\* A run that ended well leaves the application and its footer naming exactly
\* what was verified, whatever an earlier run or an edit had left there.
DoneIsPublished ==
    last.result = "done" =>
        LET g == last.given
        IN  /\ \A field \in Ours(g) \cap FieldsIn["app.js"] : files["app.js"][field] = Value(g, field)
            /\ g.chain = "base" =>
                  \A field \in {"address", "block", "tx"} : files["app.html"][field] = Value(g, field)

\* And the site then passes its own validation, once the pause is given: the
\* run says that this is what comes next.
DoneValidates ==
    last.result = "done" /\ last.given.chain = "base" /\ last.given.pause # None /\ torn = {} => SiteValid

\* Where no run died half-way and nobody edited, all files agree with it.
DoneIsEverywhere ==
    last.result = "done" /\ ~interrupted /\ edits = 0 =>
        \A f \in Names : \A field \in FieldsIn[f] \cap Ours(last.given) :
            files[f][field] = Value(last.given, field)
            \/ (field = "pause" /\ (files[f][field] = Marker \/ last.given.pause = None))

\* A run that died between two files can be repeated: it is refused only for
\* a file that is torn, a marker it does not know, or another run's values.
CrashedRunCanBeRepeated ==
    last.result = "refused" =>
        \/ torn # {}
        \/ \E f \in Names : \E field \in FieldsIn[f] :
              LET wanted == Value(last.given, field)
              IN  \/ files[f][field] = UnknownMarker
                  \/ field \in Ours(last.given) /\ wanted # None /\ files[f][field] \notin {Marker, wanted}
=============================================================================
