------------------------------ MODULE KnownHeirs ------------------------------
(***************************************************************************)
(* site/assets/app.js: the check of a new heir's address against the       *)
(* addresses its owner already uses.  The heirs are read afresh for every  *)
(* review; the owner's other devices create, close and change vaults while *)
(* the reads are answered one after another.  An address that begins or    *)
(* ends as another one does is its look-alike.                             *)
(***************************************************************************)
EXTENDS Integers, FiniteSets

CONSTANTS
    Addresses,
    Nobody,
    Owner,        \* the connected wallet
    Alike,        \* the pairs of addresses that look alike
    MaxVaults     \* bound: vaults the owner ever has

HeirsAssumption ==
    /\ Owner \in Addresses /\ Nobody \notin Addresses
    /\ Alike \subseteq {{a, b} : a, b \in Addresses}
    /\ \A pair \in Alike : Cardinality(pair) = 2
    /\ MaxVaults \in Nat

VARIABLES
    vaults,        \* each vault ever created: its heir and whether it is open
    closedHeirs,   \* the heirs of closed vaults, kept for as long as the page is open
    review,        \* the reads of a review and how far they are
    touched        \* the vaults that changed since the review began

heirsVars == <<vaults, closedHeirs, review, touched>>

Ids == 0..(MaxVaults - 1)
Existing == DOMAIN vaults
Count == Cardinality(Existing)

\* What getOpenVaults answers: the heir of each open vault, and none of others.
Open == [id \in Ids |-> IF id \in Existing /\ vaults[id].open THEN vaults[id].heir ELSE Nobody]
None == [id \in Ids |-> Nobody]

-----------------------------------------------------------------------------
(* The page. *)

looksLike(a, b) == {a, b} \in Alike

lookalikeOf(a, known) == {b \in known : looksLike(a, b)}

HeirsIn(f) == {f[id] : id \in Ids} \ {Nobody}

\* The addresses a new heir is compared with: the heirs of open vaults and of
\* closed ones, but not a closed one's that looks like another of them.
KnownFrom(open) ==
    LET everyAddress == {Owner} \cup HeirsIn(open) \cup HeirsIn(closedHeirs) IN
    HeirsIn(open) \cup {a \in HeirsIn(closedHeirs) : lookalikeOf(a, everyAddress) = {}}

heirProblem(a, known, extra) == a = Owner \/ lookalikeOf(a, {Owner} \cup known \cup extra) # {}

\* The heirs of the owner's open vaults as a refresh reads them; they are what
\* the create form offers to choose from, and the vaults of each go by its name.
collectHeirs(open) == HeirsIn(open)

\* The warnings above the owner's cards: an heir and an address like it.
renderHeirAlerts(heirs) == {{a, b} : a \in heirs, b \in {Owner} \cup heirs} \cap Alike

heirPickerOptions(heirs, exclude) == heirs \ {exclude}

Idle == [stage |-> "idle", open |-> None, opened |-> FALSE, count |-> -1, next |-> 0]

Start ==
    /\ review.stage = "idle"
    /\ review' = [Idle EXCEPT !.stage = "reading"]
    /\ touched' = {}
    /\ UNCHANGED <<vaults, closedHeirs>>

\* Two reads at a time, answered in either order.
ReadOpen ==
    /\ review.stage = "reading" /\ ~review.opened
    /\ review' = [review EXCEPT !.open = Open, !.opened = TRUE]
    /\ UNCHANGED <<vaults, closedHeirs, touched>>

ReadCount ==
    /\ review.stage = "reading" /\ review.count = -1
    /\ review' = [review EXCEPT !.count = Count]
    /\ UNCHANGED <<vaults, closedHeirs, touched>>

BothRead == review.stage = "reading" /\ review.opened /\ review.count >= 0

Skipped(id) == review.open[id] # Nobody \/ closedHeirs[id] # Nobody

\* Then the vaults that are not open, one by one, those not read before.
ReadVault ==
    /\ BothRead /\ review.next < review.count
    /\ closedHeirs' = IF Skipped(review.next) \/ vaults[review.next].open THEN closedHeirs
                      ELSE [closedHeirs EXCEPT ![review.next] = vaults[review.next].heir]
    /\ review' = [review EXCEPT !.next = review.next + 1]
    /\ UNCHANGED <<vaults, touched>>

\* A review that cannot read the heirs does not run.
ReadFails ==
    /\ review.stage = "reading"
    /\ review' = Idle /\ touched' = {}
    /\ UNCHANGED <<vaults, closedHeirs>>

\* The next vault is created for an heir.
Created(a) == [id \in Existing \cup {Count} |->
                  IF id \in Existing THEN vaults[id] ELSE [heir |-> a, open |-> TRUE]]

\* The address entered is not the owner's nor a look-alike of any address in
\* use: the review goes on and the vault is created for it, or is not.
Accept(a) ==
    /\ BothRead /\ review.next >= review.count
    /\ ~heirProblem(a, KnownFrom(review.open), {})
    /\ \/ /\ Count < MaxVaults
          /\ vaults' = Created(a)
       \/ UNCHANGED vaults
    /\ review' = Idle /\ touched' = {}
    /\ UNCHANGED closedHeirs

\* The same check for a vault whose heir is changed: its own counts too.
AcceptChange(id, a) ==
    /\ BothRead /\ review.next >= review.count
    /\ id \in Existing /\ vaults[id].open /\ a # vaults[id].heir
    /\ ~heirProblem(a, KnownFrom(review.open), {vaults[id].heir})
    /\ vaults' = [vaults EXCEPT ![id].heir = a]
    /\ review' = Idle /\ touched' = {}
    /\ UNCHANGED closedHeirs

Refuse(a) ==
    /\ BothRead /\ review.next >= review.count
    /\ heirProblem(a, KnownFrom(review.open), {})
    /\ review' = Idle /\ touched' = {}
    /\ UNCHANGED <<vaults, closedHeirs>>

\* The page is loaded again.
Reload ==
    /\ closedHeirs' = None
    /\ review' = Idle /\ touched' = {}
    /\ UNCHANGED vaults

-----------------------------------------------------------------------------
(* The owner elsewhere, where nothing is compared. *)

CreateElsewhere(a) ==
    /\ Count < MaxVaults
    /\ vaults' = Created(a)
    /\ touched' = touched \cup {Count}
    /\ UNCHANGED <<closedHeirs, review>>

ChangeElsewhere(id, a) ==
    /\ vaults[id].open
    /\ vaults' = [vaults EXCEPT ![id].heir = a]
    /\ touched' = touched \cup {id}
    /\ UNCHANGED <<closedHeirs, review>>

\* Withdrawn from in full, or settled.
Close(id) ==
    /\ vaults[id].open
    /\ vaults' = [vaults EXCEPT ![id].open = FALSE]
    /\ touched' = touched \cup {id}
    /\ UNCHANGED <<closedHeirs, review>>

Init ==
    /\ vaults = [id \in {} |-> [heir |-> Owner, open |-> FALSE]]
    /\ closedHeirs = None
    /\ review = Idle
    /\ touched = {}

Next ==
    \/ Start \/ ReadOpen \/ ReadCount \/ ReadVault \/ ReadFails \/ Reload
    \/ \E a \in Addresses : Accept(a) \/ Refuse(a)
    \/ \E id \in Existing, a \in Addresses : AcceptChange(id, a)
    \/ \E a \in Addresses \ {Owner} : \/ CreateElsewhere(a)
                                      \/ \E id \in Existing : ChangeElsewhere(id, a)
    \/ \E id \in Existing : Close(id)

Spec == Init /\ [][Next]_heirsVars

-----------------------------------------------------------------------------
(* Properties. *)

\* Types; what is kept of a closed vault is true of it for ever, even when the
\* list it was missing from and the count that named it are of different blocks.
HeirsTypeOK ==
    /\ Existing \subseteq Ids
    /\ \A id \in Existing : vaults[id].heir \in Addresses \ {Owner}
    /\ \A id \in Ids : closedHeirs[id] # Nobody =>
          id \in Existing /\ ~vaults[id].open /\ vaults[id].heir = closedHeirs[id]

Named == {vaults[id].heir : id \in Existing}

\* An address the page lets through imitates neither the owner, nor the heir of
\* an open vault, nor that of a closed one unless that heir looks like another
\* address in use itself; vaults that changed while the review read are apart.
ImitationRefusedStep ==
    \A a \in Addresses :
        Accept(a) =>
            /\ ~looksLike(a, Owner)
            /\ \A id \in Existing \ touched :
                  looksLike(a, vaults[id].heir) =>
                      /\ ~vaults[id].open
                      /\ \E b \in {Owner} \cup Named \cup HeirsIn(review.open) :
                            looksLike(vaults[id].heir, b)

\* "The app will not move a vault's heir to either of these addresses": an
\* address that a warning names is not accepted for a vault whose heir is
\* changed, and an heir offered to choose from is refused only where a warning
\* says why, or for a look-alike among the heirs of closed vaults.
AlertsAreKeptStep ==
    touched = {} =>
        \A a \in Addresses :
            /\ (\E id \in Existing : AcceptChange(id, a)) =>
                  a \notin UNION renderHeirAlerts(collectHeirs(Open))
            /\ (Refuse(a) /\ a \in heirPickerOptions(collectHeirs(Open), Owner)) =>
                  \/ a \in UNION renderHeirAlerts(collectHeirs(Open))
                  \/ \E id \in Existing : ~vaults[id].open /\ looksLike(a, vaults[id].heir)

\* The remedy the page gives for two heirs that look alike works: once no open
\* vault names the wrong one, a vault can be created for the other, which the
\* owner used before.
ConfirmedHeirAcceptedStep ==
    \A a \in Named :
        (Refuse(a) /\ touched = {} /\ ~looksLike(a, Owner)) =>
            \E id \in Existing : vaults[id].open /\ looksLike(a, vaults[id].heir)
=============================================================================
