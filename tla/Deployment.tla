------------------------------ MODULE Deployment ------------------------------
(***************************************************************************)
(* scripts/deploy.ts: a run refuses what it can refuse, predicts the       *)
(* address, sends the deployment, records it once it is mined, and reads   *)
(* the contract back.  Runs may overlap, and stop anywhere.  What a run    *)
(* was told (environment, chain, token table), what the chain says of the  *)
(* tokens and whether the deployer has money is a record s of settings.    *)
(***************************************************************************)
EXTENDS Naturals, Sequences, FiniteSets

CONSTANTS
    Deploys,        \* the runs that may be under way at a time
    Settings,       \* what a run may be told
    Paths,          \* files a deployment may be recorded in
    AddressOf,      \* the address that a creation by each nonce of the deployer gets, in order
    Hot, Nobody, System,   \* the deployer, the zero address, addresses no contract may pay
    Gifted, MaxGifts   \* bounds: the addresses that somebody gives something to, and how often

MaxNonce == Len(AddressOf)

Places == {AddressOf[n] : n \in 1..MaxNonce} \cup {Nobody}

DeployAssumption ==
    /\ Gifted \subseteq Places /\ MaxGifts \in Nat /\ Deploys \cap Paths = {}
    /\ Len(AddressOf) \in Nat /\ \A n \in 1..Len(AddressOf) : AddressOf[n] # Nobody
    /\ \A s \in Settings : s.path \in Paths

VARIABLES
    sent,           \* the deployer's transactions, in the order of their nonces
    minedUpTo,      \* how many of them are mined
    contracts,      \* the address, settings and history of each contract
    record,         \* of each path
    run,            \* of each run: its stage, settings, prediction, transaction
    lost, overlapped,  \* history: contracts whose run stopped early; paths of two runs at a time
    held,           \* what has been given to each address, before it was a contract's or after
    look,           \* the read-back of each run, and the later one of each record
    shaken          \* history: addresses given something between two reads of a read-back

lookVars == <<held, look, shaken>>
deployVars == <<sent, minedUpTo, contracts, record, run, lost, overlapped, held, look, shaken>>

NoRecord == [at |-> Nobody, readBack |-> "none"]
NoLook == [stage |-> "off", at |-> Nobody, bad |-> FALSE, counted |-> 0]
NoRun == [stage |-> "off", s |-> <<>>, nonce |-> 0, stale |-> FALSE]

Listed(s) == {s.list[i] : i \in DOMAIN s.list}

-----------------------------------------------------------------------------
(* What is refused before anything is sent. *)

RoleOf(given) == IF given = "unset" THEN Hot ELSE given

\* On a mainnet the admin and the fee recipient are named, in checksummed
\* form, and are not the deployer's own key.
RoleRefused(s, given) ==
    /\ s.mainnet
    /\ \/ given = "unset"
       \/ given # Nobody /\ ~s.checksummed
       \/ given = Hot /\ ~s.allowRoles

TokensRefused(s) ==
    \/ s.override /\ s.mainnet /\ ~s.allowOverride
    \/ Cardinality(Listed(s)) # Len(s.list)
    \/ Nobody \in Listed(s)
    \/ s.mainnet /\ s.wrapped = Nobody
    \/ s.wrapped # Nobody /\ s.wrapped \notin Listed(s)

PayeeRefused(s, a) == a \in (Listed(s) \cup {s.wrapped} \cup System) \ {Nobody}

SettingsRefused(s) ==
    \/ s.mainnet /\ ~s.allowMainnet /\ ~s.dryRun
    \/ RoleRefused(s, s.admin) \/ RoleOf(s.admin) = Nobody
    \/ RoleRefused(s, s.fee)
    \/ s.bps > 100
    \/ TokensRefused(s)
    \/ PayeeRefused(s, RoleOf(s.fee)) \/ PayeeRefused(s, RoleOf(s.admin))

\* The constructor's own rules, for a contract that gets the address self.
ConstructorRefuses(s, self) ==
    \/ RoleOf(s.admin) = Nobody \/ s.bps > 100
    \/ Nobody \in Listed(s) \/ self \in Listed(s) \/ Cardinality(Listed(s)) # Len(s.list)
    \/ s.wrapped # Nobody /\ s.wrapped \notin Listed(s)
    \/ RoleOf(s.fee) \in Listed(s) \cup System \cup {self}

-----------------------------------------------------------------------------
(* A run. *)

Active(r) == run[r].stage # "off"

Stage(r, stage) == run' = [run EXCEPT ![r].stage = stage]

Ends(r) == run' = [run EXCEPT ![r] = NoRun]

Overlaps(r, path) == \E q \in Deploys \ {r} : Active(q) /\ run[q].s.path = path

Admit(r, s) ==
    /\ ~Active(r) /\ ~SettingsRefused(s)
    /\ record[s.path] = NoRecord
    /\ run' = [run EXCEPT ![r] = [NoRun EXCEPT !.stage = "admitted", !.s = s]]
    /\ overlapped' = IF Overlaps(r, s.path) THEN overlapped \cup {s.path} ELSE overlapped
    /\ UNCHANGED <<sent, minedUpTo, contracts, record, lost, lookVars>>

NextNonce == Len(sent) + 1

\* What the chain says of the listed and the wrapped token: no code, no answer,
\* or another symbol or number of decimals than the table's.
TokenProblems(s) ==
    \/ \E t \in (Listed(s) \cup {s.wrapped}) \ {Nobody} : s.onChain[t] \in {"no code", "mute"}
    \/ ~s.override /\ \E t \in Listed(s) : s.onChain[t] = "differs"

NonceRefused(s, nonce) ==
    \/ RoleOf(s.admin) = AddressOf[nonce]
    \/ s.mainnet /\ ~s.dryRun /\ NextNonce # minedUpTo + 1

\* The address is that of the next nonce, pending transactions counted; on a
\* mainnet none may be pending.  A dry run ends here.
Predict(r) ==
    /\ run[r].stage = "admitted" /\ NextNonce <= MaxNonce
    /\ IF NonceRefused(run[r].s, NextNonce) \/ TokenProblems(run[r].s) \/ ~run[r].s.funded \/ run[r].s.dryRun
       THEN Ends(r)
       ELSE run' = [run EXCEPT ![r].stage = "ready", ![r].nonce = NextNonce]
    /\ UNCHANGED <<sent, minedUpTo, contracts, record, lost, overlapped, lookVars>>

\* Another transaction of the deployer is between a prediction and its use.
Outdated == [q \in Deploys |-> IF run[q].stage = "ready" THEN [run[q] EXCEPT !.stale = TRUE] ELSE run[q]]

\* The gas estimate runs the constructor first.
Send(r) ==
    /\ run[r].stage = "ready" /\ NextNonce <= MaxNonce
    /\ IF ConstructorRefuses(run[r].s, AddressOf[NextNonce])
       THEN Ends(r) /\ UNCHANGED sent
       ELSE /\ sent' = Append(sent, [deploys |-> TRUE, s |-> run[r].s, stale |-> run[r].stale])
            /\ run' = [Outdated EXCEPT ![r] = [run[r] EXCEPT !.stage = "waiting", !.nonce = NextNonce]]
    /\ UNCHANGED <<minedUpTo, contracts, record, lost, overlapped, lookVars>>

SendOther ==
    /\ NextNonce <= MaxNonce
    /\ sent' = Append(sent, [deploys |-> FALSE, s |-> <<>>, stale |-> FALSE])
    /\ run' = Outdated
    /\ UNCHANGED <<minedUpTo, contracts, record, lost, overlapped, lookVars>>

Mine ==
    /\ minedUpTo < Len(sent)
    /\ minedUpTo' = minedUpTo + 1
    /\ LET tx == sent[minedUpTo + 1]
       IN  contracts' = IF tx.deploys
                        THEN contracts \cup {[at |-> AddressOf[minedUpTo + 1], s |-> tx.s, stale |-> tx.stale,
                                              used |-> FALSE]}
                        ELSE contracts
    /\ UNCHANGED <<sent, record, run, lost, overlapped, lookVars>>

Records(r) == AddressOf[run[r].nonce]

\* Variation: the file is written whether it exists or not.
WriteRecord_Anyway(r) ==
    /\ run[r].stage = "waiting" /\ minedUpTo >= run[r].nonce
    /\ record' = [record EXCEPT ![run[r].s.path] = [at |-> Records(r), readBack |-> "pending"]]
    /\ Stage(r, "recorded")
    /\ UNCHANGED <<sent, minedUpTo, contracts, lost, overlapped, lookVars>>

\* As soon as it is mined; a file that exists by now is not overwritten.
WriteRecord(r) ==
    /\ run[r].stage = "waiting" /\ minedUpTo >= run[r].nonce
    /\ IF record[run[r].s.path] = NoRecord
       THEN /\ record' = [record EXCEPT ![run[r].s.path] = [at |-> Records(r), readBack |-> "pending"]]
            /\ Stage(r, "recorded")
       ELSE Ends(r) /\ UNCHANGED record
    /\ UNCHANGED <<sent, minedUpTo, contracts, lost, overlapped, lookVars>>

\* A read fails, or the process dies.  What was sent may still be mined.
StopRun(r) ==
    /\ Active(r)
    /\ lost' = IF run[r].stage = "waiting" THEN lost \cup {AddressOf[run[r].nonce]} ELSE lost
    /\ Ends(r)
    /\ look' = [look EXCEPT ![r] = NoLook]
    /\ UNCHANGED <<sent, minedUpTo, contracts, record, overlapped, held, shaken>>

-----------------------------------------------------------------------------
(* The read-back: one read after the other, of the contract's own state and *)
(* then, token by token, of what its address holds and what it says is      *)
(* nobody's.  A run reads its own contract, READBACK_ONLY a recorded one,    *)
(* at any time, and each writes the record it has read.                     *)

Used(a) == \E c \in contracts : c.at = a /\ c.used

\* On a mainnet the deployer's own roles fail, unless ALLOW_DEPLOYER_ROLES=yes.
DeployersOwn(s) == s.mainnet /\ Hot \in {RoleOf(s.admin), RoleOf(s.fee)}
FailsByRoles(a, allowRoles) == ~allowRoles /\ \E c \in contracts : c.at = a /\ DeployersOwn(c.s)

Looks(k, l) == look' = [look EXCEPT ![k] = l]

PathOf(k) == IF k \in Paths THEN k ELSE run[k].s.path

\* A run that has recorded its contract reads it back; READBACK_ONLY=yes does so
\* for any record, with or without the leave for the deployer's roles that the
\* run had.  A read that fails sends it back here, three times at most.
BeginLook(k, allowRoles) ==
    /\ k \in Deploys => run[k].stage = "recorded" /\ allowRoles = run[k].s.allowRoles
    /\ k \in Paths => record[k] # NoRecord
    /\ LET at == record[PathOf(k)].at
       IN  Looks(k, [stage |-> "state", at |-> at, bad |-> Used(at) \/ FailsByRoles(at, allowRoles),
                     counted |-> 0])
    /\ UNCHANGED <<sent, minedUpTo, contracts, record, run, lost, overlapped, held, shaken>>

Count(k) ==
    /\ look[k].stage = "state"
    /\ Looks(k, [look[k] EXCEPT !.stage = "counted", !.counted = held[look[k].at]])
    /\ UNCHANGED <<sent, minedUpTo, contracts, record, run, lost, overlapped, held, shaken>>

\* surplus() leaves out what vaults hold.  A use since the state was read shows
\* here if it is a deposit.
Compare(k) ==
    /\ look[k].stage = "counted"
    /\ \E deposit \in {FALSE, Used(look[k].at)} :
          Looks(k, [look[k] EXCEPT !.stage = "done", !.counted = 0,
                                   !.bad = look[k].bad \/ deposit \/ held[look[k].at] # look[k].counted])
    /\ UNCHANGED <<sent, minedUpTo, contracts, record, run, lost, overlapped, held, shaken>>

Writes(k, verdict) ==
    /\ record' = [record EXCEPT ![PathOf(k)].readBack = verdict]
    /\ Looks(k, NoLook)
    /\ IF k \in Deploys THEN Ends(k) ELSE UNCHANGED run
    /\ UNCHANGED <<sent, minedUpTo, contracts, lost, overlapped, held, shaken>>

ReadBack(k) ==
    /\ look[k].stage = "done"
    /\ Writes(k, IF look[k].bad THEN "failed" ELSE "ok")

\* Where reads go on failing a run says so, and READBACK_ONLY writes nothing.
ReadBackFails(r) == run[r].stage = "recorded" /\ Writes(r, "incomplete")

StopLook(path) ==
    /\ look[path] # NoLook
    /\ Looks(path, NoLook)
    /\ UNCHANGED <<sent, minedUpTo, contracts, record, run, lost, overlapped, held, shaken>>

\* The first vault is made, or the admin changes what the record says.
UseContract(c) ==
    /\ ~c.used
    /\ contracts' = (contracts \ {c}) \cup {[c EXCEPT !.used = TRUE]}
    /\ UNCHANGED <<sent, minedUpTo, record, run, lost, overlapped, lookVars>>

\* Anybody gives something to the address of a contract, or of one to come.
Gift(a) ==
    /\ held[a] < MaxGifts
    /\ held' = [held EXCEPT ![a] = @ + 1]
    /\ shaken' = IF \E k \in DOMAIN look : look[k].stage = "counted" /\ look[k].at = a
                 THEN shaken \cup {a} ELSE shaken
    /\ UNCHANGED <<sent, minedUpTo, contracts, record, run, lost, overlapped, look>>

DeployInit ==
    /\ sent = <<>> /\ minedUpTo = 0 /\ contracts = {}
    /\ record = [p \in Paths |-> NoRecord]
    /\ run = [r \in Deploys |-> NoRun]
    /\ lost = {} /\ overlapped = {}
    /\ held = [a \in Places |-> 0]
    /\ look = [k \in Deploys \cup Paths |-> NoLook]
    /\ shaken = {}

DeployNext ==
    \/ \E r \in Deploys :
          \/ \E s \in Settings : Admit(r, s)
          \/ Predict(r) \/ Send(r) \/ WriteRecord(r) \/ ReadBackFails(r) \/ StopRun(r)
    \/ SendOther \/ Mine
    \/ \E k \in Deploys \cup Paths :
          (\E allowRoles \in BOOLEAN : BeginLook(k, allowRoles)) \/ Count(k) \/ Compare(k) \/ ReadBack(k)
    \/ \E p \in Paths : StopLook(p)
    \/ \E c \in contracts : UseContract(c)
    \/ \E a \in Gifted : Gift(a)

DeploySpec == DeployInit /\ [][DeployNext]_deployVars

-----------------------------------------------------------------------------

\* The shape of the state; a run that waits waits for its own transaction.
DeployTypeOK ==
    /\ minedUpTo \in 0..Len(sent) /\ Len(sent) <= MaxNonce
    /\ \A p \in Paths : record[p].readBack \in {"none", "pending", "ok", "failed", "incomplete"}
    /\ \A r \in Deploys :
          /\ run[r].stage \in {"off", "admitted", "ready", "waiting", "recorded"}
          /\ run[r].stage = "waiting" => sent[run[r].nonce].deploys /\ sent[run[r].nonce].s = run[r].s
    /\ \A k \in Deploys \cup Paths : look[k].stage \in {"off", "state", "counted", "done"}
    /\ lost \cup {c.at : c \in contracts} \subseteq {AddressOf[n] : n \in 1..Len(sent)}

\* A record names a contract that exists and was made for that file, even if
\* the deployer sent something else between the prediction and the deployment.
RecordsAreReal ==
    \A p \in Paths : record[p] # NoRecord =>
        \E c \in contracts : c.at = record[p].at /\ c.s.path = p

\* "An existing record is never overwritten": not by a second run, nor by one
\* that was under way at the same time.
RecordsStayStep == \A p \in Paths : record[p] # NoRecord => record'[p].at = record[p].at

\* "The record then blocks a second deployment": a contract is in the record
\* it was made for, or about to be, unless its run stopped between sending and
\* recording, or overlapped another with the same file.
NothingGoesUnrecorded ==
    \A c \in contracts :
        \/ record[c.s.path].at = c.at
        \/ \E r \in Deploys : run[r].stage = "waiting" /\ AddressOf[run[r].nonce] = c.at
        \/ c.at \in lost \/ c.s.path \in overlapped

\* A contract that read back well is called unusable only after it was used, or
\* for the deployer's roles it was given, or where something reached its address
\* between two reads of one read-back: not for what was there before, nor for a
\* read that failed.
Doubtful(a) == a \in shaken \/ \E c \in contracts : c.at = a /\ (c.used \/ DeployersOwn(c.s))

GoodStaysGoodStep ==
    \A p \in Paths :
        record[p].readBack = "ok" /\ record'[p].readBack = "failed" => Doubtful(record[p].at)

\* The contract never owns itself, except where the deployer sent another
\* transaction after the address was predicted.
NeverOwnsItself == \A c \in contracts : RoleOf(c.s.admin) = c.at => c.stale

\* "Checked here so a mistake costs no gas": what passes the script's checks
\* passes the constructor's, but for a fee paid to the new contract itself.
ChecksMirrorConstructor ==
    \A r \in Deploys : run[r].stage = "ready" /\ ~run[r].stale =>
        LET self == AddressOf[run[r].nonce]
        IN  ConstructorRefuses(run[r].s, self) => self \in {RoleOf(run[r].s.fee)} \cup Listed(run[r].s)

\* What keeps these true.  A prediction that is not outdated is of the next
\* transaction; a contract is one of those that were sent, and each of those that
\* were mined is there.
Runs == [stage : {"off", "admitted", "ready", "waiting", "recorded"}, s : Settings \cup {<<>>},
         nonce : Nat, stale : BOOLEAN]

Txs == [deploys : BOOLEAN, s : Settings \cup {<<>>}, stale : BOOLEAN]

Entries == [at : Places, readBack : {"none", "pending", "ok", "failed", "incomplete"}]

RunKept(r) ==
    /\ Active(r) => run[r].s \in Settings
    /\ run[r].stage = "ready" /\ ~run[r].stale =>
          run[r].nonce = NextNonce /\ RoleOf(run[r].s.admin) # AddressOf[run[r].nonce]
    /\ run[r].stage = "waiting" =>
          /\ run[r].nonce \in 1..Len(sent)
          /\ sent[run[r].nonce].deploys /\ sent[run[r].nonce].s = run[r].s
    /\ run[r].stage = "recorded" => record[run[r].s.path] # NoRecord

\* Two runs at a time for one file are seen to overlap, and so is a run whose file
\* another one has written.
SeenToOverlap ==
    \A r \in Deploys : Active(r) =>
        /\ \A q \in Deploys \ {r} : Active(q) /\ run[q].s.path = run[r].s.path => run[r].s.path \in overlapped
        /\ run[r].stage # "recorded" /\ record[run[r].s.path] # NoRecord => run[r].s.path \in overlapped

\* A deployment that was sent is on record, or about to be, or its run stopped or
\* was overlapped.
Accounted(i) ==
    \/ record[sent[i].s.path].at = AddressOf[i]
    \/ \E r \in Deploys : run[r].stage = "waiting" /\ run[r].nonce = i
    \/ AddressOf[i] \in lost
    \/ sent[i].s.path \in overlapped

SentKept(i) ==
    sent[i].deploys =>
        /\ sent[i].s \in Settings
        /\ ~sent[i].stale => RoleOf(sent[i].s.admin) # AddressOf[i]
        /\ i <= minedUpTo => \E c \in contracts : c.at = AddressOf[i] /\ c.s = sent[i].s
        /\ Accounted(i)

MadeOfSent(c) ==
    \E i \in 1..minedUpTo :
        sent[i].deploys /\ c.at = AddressOf[i] /\ c.s = sent[i].s /\ c.stale = sent[i].stale

DeployInv ==
    /\ sent \in Seq(Txs) /\ minedUpTo \in 0..Len(sent)
    /\ run \in [Deploys -> Runs]
    /\ Len(sent) <= MaxNonce
    /\ record \in [Paths -> Entries]
    /\ contracts \subseteq [at : Places, s : Settings, stale : BOOLEAN, used : BOOLEAN]
    /\ \A r \in Deploys : RunKept(r)
    /\ \A i \in 1..Len(sent) : SentKept(i)
    /\ \A c \in contracts : MadeOfSent(c)
    /\ RecordsAreReal
    /\ SeenToOverlap

\* And of the read-backs: one that is under way is of what its record names, what it
\* found bad is so, and what it counted is still there or came in between.
Views == [stage : {"off", "state", "counted", "done"}, at : Places, bad : BOOLEAN, counted : Nat]

LookKept(k) ==
    look[k].stage # "off" =>
        /\ k \in Deploys => run[k].stage = "recorded"
        /\ k \in Paths => record[k] # NoRecord
        /\ look[k].at = record[PathOf(k)].at
        /\ look[k].bad => Doubtful(look[k].at)
        /\ look[k].stage = "counted" /\ held[look[k].at] # look[k].counted => look[k].at \in shaken

LookInv ==
    /\ held \in [Places -> Nat]
    /\ look \in [Deploys \cup Paths -> Views]
    /\ \A k \in Deploys \cup Paths : LookKept(k)
=============================================================================
