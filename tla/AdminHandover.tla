----------------------------- MODULE AdminHandover -----------------------------
(***************************************************************************)
(* scripts/transfer-admin.ts: the contracts' admin and the fees go from    *)
(* the hot key to a cold wallet.  A run sends up to three transactions and *)
(* waits for each.  Runs may overlap, and stop anywhere: what a run has    *)
(* sent stays pending while later runs read, and may be mined long after,  *)
(* or dropped.  The cold wallet accepts when it likes.                     *)
(***************************************************************************)
EXTENDS Naturals

CONSTANTS
    Handovers,     \* the runs that may be under way at a time
    Wallets,       \* addresses that may be given as COLD_ADDRESS, those that can sign among them
    Signing,       \* the wallets somebody can sign with
    Hot,           \* the key that is to be retired
    Else,          \* somebody else who may be paid the fees
    Nobody,        \* the zero address: no fee recipient, no pending owner
    Contracts,     \* the recorded contracts: "vault", and "sub" where there is one
    MaxRuns        \* bound: runs of the script

\* The zero address signs for nothing, and is not the key.
AdminAssumption ==
    /\ "vault" \in Contracts /\ Contracts \subseteq {"vault", "sub"}
    /\ Nobody \notin Signing \cup {Hot} /\ Else # Hot
    /\ MaxRuns \in Nat

VARIABLES
    owner, pendingOwner,   \* of each contract
    feeRecipient,
    handover,              \* of each run: its stage, its address, the transaction it waits for
    pool, mined,           \* the key's pending transactions, and how many of its nonces are used
    offered,               \* each address that a run was confirmed for
    runs

adminVars == <<owner, pendingOwner, feeRecipient, handover, pool, mined, offered, runs>>

NoTx == [nonce |-> 0, what |-> "none", to |-> Nobody]
NotRunning == [stage |-> "off", cold |-> Nobody, awaits |-> NoTx]

\* Refusals come before anything is sent: the signer must own every contract.
\* No contract comes back to the key, so that one look at both is as good as two.
Refused(cold) == cold = Hot \/ \E c \in Contracts : owner[c] # Hot

\* CONFIRM=yes; a dry run ends where the plan is printed.
StartHandover(r, cold) ==
    /\ handover[r] = NotRunning /\ runs < MaxRuns
    /\ ~Refused(cold)
    /\ runs' = runs + 1
    /\ handover' = [handover EXCEPT ![r] = [NotRunning EXCEPT !.stage = "read", !.cold = cold]]
    /\ offered' = offered \cup {cold}
    /\ UNCHANGED <<owner, pendingOwner, feeRecipient, pool, mined>>

\* The recipient is read after the owners; one that is not this key stays.
ReadRecipient(r) ==
    /\ handover[r].stage = "read"
    /\ handover' = [handover EXCEPT ![r].stage = IF feeRecipient = Hot THEN "fee" ELSE "vault"]
    /\ UNCHANGED <<owner, pendingOwner, feeRecipient, pool, mined, offered, runs>>

\* Both contracts refuse all that is not from their owner.
Obeys(what) == owner[IF what = "sub" THEN "sub" ELSE "vault"] = Hot

\* The first nonce that no pending transaction has.
FirstFree(n) == \A m \in mined + 1 .. n : m = n <=> ~\E tx \in pool : tx.nonce = m

\* First the fee, while this key may still set it, then each contract.  The gas
\* estimate of a transaction that would be refused fails.
SendStep(r) ==
    /\ handover[r].stage \in Contracts \cup {"fee"} /\ handover[r].awaits = NoTx
    /\ Obeys(handover[r].stage)
    /\ \E n \in {mined + 1} \cup {tx.nonce + 1 : tx \in pool} :
          LET sent == [nonce |-> n, what |-> handover[r].stage, to |-> handover[r].cold]
          IN  /\ FirstFree(n)
              /\ pool' = pool \cup {sent}
              /\ handover' = [handover EXCEPT ![r].awaits = sent]
    /\ UNCHANGED <<owner, pendingOwner, feeRecipient, mined, offered, runs>>

\* A run whose transaction is mined goes on to the next contract.
Proceeds(h) ==
    IF h.stage = "fee" THEN [h EXCEPT !.stage = "vault", !.awaits = NoTx]
    ELSE IF h.stage = "vault" /\ "sub" \in Contracts THEN [h EXCEPT !.stage = "sub", !.awaits = NoTx]
    ELSE NotRunning

\* In the order of the nonces.  Where the key has lost the contract by then the
\* transaction fails, and with it the run that waits for it.
MineStep(tx) ==
    /\ tx.nonce = mined + 1
    /\ mined' = mined + 1
    /\ pool' = pool \ {tx}
    /\ feeRecipient' = IF Obeys(tx.what) /\ tx.what = "fee" THEN tx.to ELSE feeRecipient
    /\ pendingOwner' = [c \in Contracts |-> IF Obeys(tx.what) /\ tx.what = c THEN tx.to ELSE pendingOwner[c]]
    /\ handover' = [r \in Handovers |-> IF handover[r].awaits # tx THEN handover[r]
                                        ELSE IF Obeys(tx.what) THEN Proceeds(handover[r])
                                        ELSE NotRunning]
    /\ UNCHANGED <<owner, offered, runs>>

\* A pending transaction is forgotten; its nonce is free again.
DropStep(tx) ==
    /\ pool' = pool \ {tx}
    /\ UNCHANGED <<owner, pendingOwner, feeRecipient, handover, mined, offered, runs>>

\* A transaction is refused, an answer is lost, the process dies.  What was sent
\* stays pending.
StopHandover(r) ==
    /\ handover[r] # NotRunning
    /\ handover' = [handover EXCEPT ![r] = NotRunning]
    /\ UNCHANGED <<owner, pendingOwner, feeRecipient, pool, mined, offered, runs>>

\* Ownable2Step: the pending owner signs, or nothing happens.
AcceptOwnership(c) ==
    /\ pendingOwner[c] \in Signing
    /\ owner' = [owner EXCEPT ![c] = pendingOwner[c]]
    /\ pendingOwner' = [pendingOwner EXCEPT ![c] = Nobody]
    /\ UNCHANGED <<feeRecipient, handover, pool, mined, offered, runs>>

AdminInit ==
    /\ owner = [c \in Contracts |-> Hot]
    /\ pendingOwner = [c \in Contracts |-> Nobody]
    /\ feeRecipient \in {Hot, Else, Nobody}
    /\ handover = [r \in Handovers |-> NotRunning]
    /\ pool = {} /\ mined = 0
    /\ offered = {} /\ runs = 0

AdminNext ==
    \/ \E r \in Handovers :
          \/ \E cold \in Wallets : StartHandover(r, cold)
          \/ ReadRecipient(r) \/ SendStep(r) \/ StopHandover(r)
    \/ \E tx \in pool : MineStep(tx) \/ DropStep(tx)
    \/ \E c \in Contracts : AcceptOwnership(c)

AdminSpec == AdminInit /\ [][AdminNext]_adminVars

-----------------------------------------------------------------------------

\* The shape of the state; no run and no transaction is for the signer's address.
AdminTypeOK ==
    /\ owner \in [Contracts -> Wallets \cup {Hot}]
    /\ pendingOwner \in [Contracts -> Wallets \cup {Hot, Nobody}]
    /\ feeRecipient \in Wallets \cup {Hot, Else, Nobody}
    /\ \A r \in Handovers :
          handover[r].stage \in Contracts \cup {"off", "read", "fee"} /\ handover[r].cold # Hot
    /\ \A tx \in pool : tx.what \in Contracts \cup {"fee"} /\ tx.to \in offered
    /\ offered \subseteq Wallets /\ Hot \notin offered /\ runs \in 0..MaxRuns

\* "Done first, while this key has the authority": fees never go to the
\* retired key once it has lost the vault, whatever stopped a run half-way,
\* whatever it left pending, and whoever accepted what in the meantime.
NoFeesForTheRetiredKey == owner["vault"] # Hot => feeRecipient # Hot

\* Control never goes to an address nobody can sign with, nor to one that no
\* confirmed run named; a mistyped address leaves it where it is.
ControlIsNeverLost == \A c \in Contracts : owner[c] \in {Hot} \cup (Signing \cap offered)

\* A hand-over is no change of fees: fees that are off stay off, and somebody
\* else's fees stay theirs.  They go to an address a confirmed run named; of two
\* runs that both found the key paid, the one mined later decides to which.
FeesOnlyFollowTheKeyStep ==
    feeRecipient' # feeRecipient => feeRecipient \in {Hot} \cup offered /\ feeRecipient' \in offered

\* What keeps these true.  A run that goes to move the fee has found it with the
\* key, and it is there or with an address a run named.  As long as the key is
\* paid no run is past the fee, nor has sent the vault's offer.
Steps == [nonce : Nat, what : Contracts \cup {"fee", "none"}, to : Wallets \cup {Nobody}]

AdminInv ==
    /\ AdminTypeOK
    /\ ControlIsNeverLost
    /\ handover \in [Handovers -> [stage : Contracts \cup {"off", "read", "fee"},
                                   cold : Wallets \cup {Nobody}, awaits : Steps]]
    /\ pool \subseteq Steps /\ mined \in Nat
    /\ \A r \in Handovers : handover[r].stage # "off" => handover[r].cold \in offered
    /\ \A c \in Contracts : pendingOwner[c] \in offered \cup {Nobody}
    /\ (\E r \in Handovers : handover[r].stage = "fee") \/ (\E tx \in pool : tx.what = "fee")
          => feeRecipient \in {Hot} \cup offered
    /\ feeRecipient = Hot =>
          /\ owner["vault"] = Hot /\ pendingOwner["vault"] = Nobody
          /\ \A r \in Handovers : handover[r].stage \in {"off", "read", "fee"}
          /\ \A tx \in pool : tx.what = "fee"
=============================================================================
