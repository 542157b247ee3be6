----------------------------- MODULE Money_proofs -----------------------------
(***************************************************************************)
(* What the page quotes, proved about FeeQuote and Money for every value   *)
(* of the constants and whichever blocks the answers of a refresh came     *)
(* from: unless the administrator changed the fee since the first answer,  *)
(* or an announced raise came due before the last, a card tells the rate   *)
(* of every moment to come, and what it quotes is what is locked and what  *)
(* is charged.                                                             *)
(***************************************************************************)
EXTENDS Money, MoneyRules_proofs

USE MaxTimeAssumption, FeeAssumption, QuoteAssumption

-----------------------------------------------------------------------------
(* The fee in FeeQuote is the fee schedule.                                 *)

\* Every step of the page and of the contract is, for the fees, one of FeeSchedule.
LEMMA QuoteFeeStep ==
  ASSUME [QuoteNext]_quoteVars
  PROVE  [FeeNext]_feeVars
<1>1. CASE Open \/ File \/ Cancel \/ Finalize
  BY <1>1 DEF Open, File, Cancel, Finalize, OnlyTheClaim
<1>2. CASE AdminChangesFee
  BY <1>2 DEF AdminChangesFee, FeeNext
<1>3. CASE RaiseIsRecorded
  BY <1>3 DEF RaiseIsRecorded, FeeNext
<1>4. CASE Refresh \/ Answered
  BY <1>4 DEF Refresh, Answered
<1>5. CASE QuoteTick
  BY <1>5 DEF QuoteTick, FeeNext
<1>6. CASE UNCHANGED quoteVars
  BY <1>6 DEF quoteVars
<1> QED
  BY <1>1, <1>2, <1>3, <1>4, <1>5, <1>6 DEF QuoteNext

\* Beside a page that quotes it, the fee behaves as the fee schedule alone.
THEOREM QuotedFeesImplemented == QuoteSpec => FeeSpec
<1>1. QuoteInit => FeeInit
  BY DEF QuoteInit
<1>2. [QuoteNext]_quoteVars => [FeeNext]_feeVars
  BY QuoteFeeStep
<1> QED
  BY <1>1, <1>2, PTL DEF QuoteSpec, FeeSpec

-----------------------------------------------------------------------------
(* What a card drawn from answers of several blocks is good for.            *)

Claims == [state : {"none", "active", "pending", "settled"}, ceiling : 0..MAX_CLAIM_FEE_BPS,
           locked : 0..MAX_CLAIM_FEE_BPS, finalizableAt : Nat]

\* A reading: the fee as it was read, and the vault with it.
Readings == [bps : 0..MAX_CLAIM_FEE_BPS, pendingBps : 0..MAX_CLAIM_FEE_BPS, pendingAt : Nat,
             recipient : Accounts \cup {NoOne}, recipientActiveAt : Nat, now : Nat, vault : Claims]

\* From now on the schedule answers what the page works out from f.
ReadingHolds(f) ==
    /\ \A t \in Nat : t >= now => RateAt(t) = rateAt(f, t)
    /\ feeRecipient = f.recipient /\ feeRecipientActiveAt = f.recipientActiveAt

\* While the answers come in: what is read of the schedule is what it was at the
\* first answer, and the schedule has since changed only in that a raise which
\* was due already may have been recorded.
AnswersHold ==
    LET read(r) == r \notin asked IN
    /\ read("bps") => fee.bps = ClaimFeeBps
    /\ read("pendingBps") => fee.pendingBps = pendingClaimFeeBps \/ pendingClaimFeeAt = 0
    /\ read("pendingAt") => \/ fee.pendingAt = pendingClaimFeeAt
                            \/ /\ pendingClaimFeeAt = 0 /\ fee.pendingAt <= now
                               /\ read("now") => fee.pendingAt <= fee.now
    /\ read("now") => pendingClaimFeeAt <= fee.now \/ now < pendingClaimFeeAt
    /\ read("recipient") => fee.recipient = feeRecipient
    /\ read("recipientActiveAt") => fee.recipientActiveAt = feeRecipientActiveAt

\* The inductive invariant: answers hold while they come in, and what is drawn
\* stands for as long as nobody changes it.
PageInv ==
    /\ claim \in Claims /\ claim.locked <= claim.ceiling
    /\ fee \in Readings
    /\ asked \subseteq Requests
    /\ card \in {"none", "vault", "create"}
    /\ touched \subseteq {"fee", "claim", "due"}
    /\ asked # {} => card = "none"
    /\ (Reading /\ "now" \notin asked) => fee.now \in 1..now
    /\ (Reading /\ FeeAsAnswered) => AnswersHold
    /\ (Reading /\ "vault" \notin asked /\ fee.vault.state # "none") =>
           claim.state # "none" /\ claim.ceiling = fee.vault.ceiling
    /\ (Reading /\ "vault" \notin asked /\ "claim" \notin touched) => claim = fee.vault
    /\ card # "none" => fee.now \in 1..now
    /\ (card # "none" /\ FeeAsAnswered) => ReadingHolds(fee)
    /\ (card # "none" /\ "claim" \notin touched) => claim = fee.vault
    /\ card = "vault" => claim.state # "none" /\ claim.ceiling = fee.vault.ceiling

\* A page that was not read yet tells nothing.
LEMMA PageStarts ==
  ASSUME QuoteInit
  PROVE  PageInv
<1>1. NoVaultYet \in Claims /\ NoVaultYet.locked <= NoVaultYet.ceiling
  BY DEF NoVaultYet, Claims
<1>2. NotRead \in Readings
  BY <1>1 DEF NotRead, Readings
<1> QED
  BY <1>1, <1>2 DEF QuoteInit, PageInv, Reading

\* The claim's own steps leave its ceiling as it is.
LEMMA ClaimStepKeeps ==
  ASSUME FeeTypeOK, PageInv, Open \/ File \/ Cancel \/ Finalize
  PROVE  PageInv'
<1>1. /\ UNCHANGED <<feeVars, asked, fee, card>> /\ touched' = touched \cup {"claim"}
  BY DEF Open, File, Cancel, Finalize, OnlyTheClaim
<1>2. /\ claim' \in Claims /\ claim'.locked <= claim'.ceiling /\ claim'.state # "none"
      /\ claim.state # "none" => claim'.ceiling = claim.ceiling
  <2>0. claim \in Claims /\ claim.locked <= claim.ceiling
    BY DEF PageInv
  <2>1. CASE Open
    <3>1. PICK ceiling \in Ceilings :
            claim' = [NoVaultYet EXCEPT !.state = "active", !.ceiling = ceiling]
      BY <2>1 DEF Open
    <3>2. ceiling \in 0..MAX_CLAIM_FEE_BPS /\ NoVaultYet \in Claims /\ NoVaultYet.locked = 0
      BY DEF NoVaultYet, Claims
    <3>3. claim.state = "none"
      BY <2>1 DEF Open
    <3> DEFINE armed == [NoVaultYet EXCEPT !.state = "active"]
    <3>4. armed \in Claims /\ armed.locked = 0 /\ armed.state = "active"
      BY <3>2 DEF Claims
    <3>5. claim' = [armed EXCEPT !.ceiling = ceiling]
      BY <3>1
    <3> HIDE DEF armed
    <3> QED
      BY <3>2, <3>3, <3>4, <3>5 DEF Claims
  <2>2. CASE File
    <3>1. /\ FeeToLock(claim.ceiling) \in 0..MAX_CLAIM_FEE_BPS
          /\ FeeToLock(claim.ceiling) <= claim.ceiling
      BY <2>0 DEF FeeToLock, Lesser, ClaimFeeBps, RateAt, Claims, FeeTypeOK, ClockTypeOK
    <3>2. now + CHALLENGE \in Nat
      BY DEF FeeTypeOK, ClockTypeOK
    <3> QED
      BY <2>0, <2>2, <3>1, <3>2 DEF File, Claims
  <2>3. CASE Cancel
    <3> DEFINE freed == [claim EXCEPT !.state = "active"]
               unlocked == [freed EXCEPT !.locked = 0]
    <3>1. freed \in Claims /\ freed.state = "active" /\ freed.ceiling = claim.ceiling
      BY <2>0 DEF Claims
    <3> HIDE DEF freed
    <3>2. /\ unlocked \in Claims /\ unlocked.state = "active" /\ unlocked.locked = 0
          /\ unlocked.ceiling = claim.ceiling
      BY <3>1 DEF Claims
    <3>3. claim' = [unlocked EXCEPT !.finalizableAt = 0]
      BY <2>3 DEF Cancel, freed
    <3> HIDE DEF unlocked
    <3> QED
      BY <2>0, <3>2, <3>3 DEF Claims
  <2>4. CASE Finalize
    BY <2>0, <2>4 DEF Finalize, Claims
  <2> QED
    BY <2>1, <2>2, <2>3, <2>4
<1>3. ReadingHolds(fee) => ReadingHolds(fee)'
  BY <1>1 DEF feeVars, feeState, schedule, recipient, ReadingHolds, RateAt, rateAt, scheduledRaise
<1>4. AnswersHold => AnswersHold'
  BY <1>1 DEF feeVars, feeState, schedule, recipient, AnswersHold, ClaimFeeBps, RateAt
<1>5. FeeAsAnswered' <=> FeeAsAnswered
  BY <1>1 DEF FeeAsAnswered
<1> QED
  BY <1>1, <1>2, <1>3, <1>4, <1>5 DEF PageInv, Reading, feeVars

\* An announced raise that comes due, or is recorded, changes no answer about
\* the time still to come; only the administrator does.
LEMMA FeeStepKeepsReading ==
  ASSUME FeeTypeOK, fee \in Readings, ReadingHolds(fee), fee' = fee,
         \/ ApplyClaimFee \/ (Tick /\ UNCHANGED feeState)
  PROVE  ReadingHolds(fee)'
<1> USE DEF FeeTypeOK, ClockTypeOK, ReadingHolds
<1>1. CASE ApplyClaimFee
  <2>1. now' = now /\ UNCHANGED recipient
    BY <1>1 DEF ApplyClaimFee
  <2>2. ASSUME NEW t \in Nat, t >= now
        PROVE  RateAt(t)' = RateAt(t)
    BY <1>1, <2>2 DEF ApplyClaimFee, RaiseMatured, ClearRaise, RateAt
  <2> QED
    BY <2>1, <2>2 DEF recipient, rateAt, scheduledRaise
<1>2. CASE Tick /\ UNCHANGED feeState
  <2>1. now' = now + 1 /\ UNCHANGED recipient
    BY <1>2 DEF Tick, feeState
  <2>2. ASSUME NEW t \in Nat
        PROVE  RateAt(t)' = RateAt(t)
    BY <1>2 DEF feeState, schedule, RateAt
  <2> QED
    BY <2>1, <2>2 DEF recipient, rateAt, scheduledRaise
<1> QED
  BY <1>1, <1>2

\* While the answers come in, a raise that is recorded was due at the first of
\* them, and one that comes due is noticed.
LEMMA FeeStepKeepsAnswers ==
  ASSUME FeeTypeOK, PageInv, Reading, AnswersHold, FeeAsAnswered', RaiseIsRecorded \/ QuoteTick
  PROVE  AnswersHold'
<1> USE DEF FeeTypeOK, ClockTypeOK, AnswersHold
<1>1. UNCHANGED <<asked, fee, recipient>> /\ fee \in Readings
  BY DEF RaiseIsRecorded, QuoteTick, ApplyClaimFee, feeState, PageInv
<1>2. "now" \notin asked => fee.now \in 1..now
  BY DEF PageInv
<1>3. CASE RaiseIsRecorded
  <2>1. /\ pendingClaimFeeAt # 0 /\ now >= pendingClaimFeeAt /\ now' = now
        /\ recordedFeeBps' = pendingClaimFeeBps /\ pendingClaimFeeBps' = 0 /\ pendingClaimFeeAt' = 0
    BY <1>3 DEF RaiseIsRecorded, ApplyClaimFee, RaiseMatured, ClearRaise
  <2>2. ClaimFeeBps' = ClaimFeeBps
    BY <2>1 DEF ClaimFeeBps, RateAt
  <2> QED
    BY <1>1, <1>2, <2>1, <2>2 DEF recipient, Readings
<1>4. CASE QuoteTick
  <2>1. now' = now + 1 /\ UNCHANGED schedule
    BY <1>4 DEF QuoteTick, Tick, feeState
  <2>2. pendingClaimFeeAt # now'
    BY <1>4 DEF QuoteTick, FeeAsAnswered
  <2>3. ClaimFeeBps' = ClaimFeeBps
    BY <2>1, <2>2 DEF ClaimFeeBps, RateAt, schedule
  <2> QED
    BY <1>1, <1>2, <2>1, <2>2, <2>3 DEF recipient, schedule, Readings
<1> QED
  BY <1>3, <1>4

\* The administrator and time leave what the page read true of its blocks.
LEMMA FeeStepKeepsPage ==
  ASSUME FeeTypeOK, PageInv, AdminChangesFee \/ RaiseIsRecorded \/ QuoteTick
  PROVE  PageInv'
<1>1. /\ UNCHANGED <<claim, asked, fee, card>>
      /\ now' \in {now, now + 1}
  BY DEF AdminChangesFee, RaiseIsRecorded, QuoteTick, SetClaimFee, SetFeeRecipient,
         ApplyClaimFee, Tick
<1>2. now \in Nat /\ now <= now'
  BY <1>1 DEF FeeTypeOK, ClockTypeOK
<1>3. touched' \in {touched, touched \cup {"fee"}, touched \cup {"due"}}
  BY DEF AdminChangesFee, RaiseIsRecorded, QuoteTick
<1>4. CASE AdminChangesFee
  <2>1. ~FeeAsAnswered'
    BY <1>4 DEF AdminChangesFee, FeeAsAnswered
  <2> QED
    BY <1>1, <1>2, <1>3, <2>1 DEF PageInv, Reading, Readings
<1>5. CASE RaiseIsRecorded \/ QuoteTick
  <2>1. FeeAsAnswered' => FeeAsAnswered
    BY <1>3 DEF FeeAsAnswered
  <2>2. ReadingHolds(fee) => ReadingHolds(fee)'
    BY <1>1, <1>5, FeeStepKeepsReading DEF RaiseIsRecorded, QuoteTick, PageInv
  <2>3. (Reading /\ AnswersHold /\ FeeAsAnswered') => AnswersHold'
    BY <1>5, FeeStepKeepsAnswers
  <2> QED
    BY <1>1, <1>2, <1>3, <2>1, <2>2, <2>3 DEF PageInv, Reading, Readings
<1> QED
  BY <1>4, <1>5

\* An answer joins the others.
LEMMA AnswersKeep ==
  ASSUME FeeTypeOK, PageInv, Answered
  PROVE  PageInv'
<1>1. PICK request \in asked :
        /\ fee' = [fee EXCEPT ![request] = Answer(request)]
        /\ asked' = asked \ {request}
        /\ card' \in IF asked' # {} THEN {"none"} ELSE Cards(fee')
        /\ touched' = IF asked = Requests THEN {} ELSE touched
        /\ UNCHANGED <<feeVars, claim>>
  BY DEF Answered
<1>2. fee \in Readings /\ request \in Requests /\ asked \subseteq Requests /\ claim \in Claims
  BY DEF PageInv
<1>3. now' = now /\ now \in Nat \ {0} /\ claim' = claim /\ UNCHANGED feeState
  BY <1>1 DEF feeVars, FeeTypeOK, ClockTypeOK
<1>4. \A r \in Requests : fee'[r] = IF r = request THEN Answer(r) ELSE fee[r]
  BY <1>1, <1>2 DEF Readings, Requests
<1>5. /\ fee'.bps = IF request = "bps" THEN ClaimFeeBps ELSE fee.bps
      /\ fee'.pendingBps = IF request = "pendingBps" THEN pendingClaimFeeBps ELSE fee.pendingBps
      /\ fee'.pendingAt = IF request = "pendingAt" THEN pendingClaimFeeAt ELSE fee.pendingAt
      /\ fee'.recipient = IF request = "recipient" THEN feeRecipient ELSE fee.recipient
      /\ fee'.recipientActiveAt =
           IF request = "recipientActiveAt" THEN feeRecipientActiveAt ELSE fee.recipientActiveAt
      /\ fee'.now = IF request = "now" THEN now ELSE fee.now
      /\ fee'.vault = IF request = "vault" THEN claim ELSE fee.vault
  BY <1>4 DEF Requests, Answer
<1>6. fee' \in Readings
  <2>1. /\ ClaimFeeBps \in 0..MAX_CLAIM_FEE_BPS /\ pendingClaimFeeBps \in 0..MAX_CLAIM_FEE_BPS
        /\ pendingClaimFeeAt \in Nat /\ feeRecipient \in Accounts \cup {NoOne}
        /\ feeRecipientActiveAt \in Nat /\ now \in Nat /\ claim \in Claims
    BY <1>2 DEF FeeTypeOK, ClockTypeOK, ClaimFeeBps, RateAt
  <2>2. fee' = [bps |-> fee'.bps, pendingBps |-> fee'.pendingBps, pendingAt |-> fee'.pendingAt,
                recipient |-> fee'.recipient, recipientActiveAt |-> fee'.recipientActiveAt,
                now |-> fee'.now, vault |-> fee'.vault]
    BY <1>1, <1>2 DEF Readings
  <2>3. /\ fee.bps \in 0..MAX_CLAIM_FEE_BPS /\ fee.pendingBps \in 0..MAX_CLAIM_FEE_BPS
        /\ fee.pendingAt \in Nat /\ fee.recipient \in Accounts \cup {NoOne}
        /\ fee.recipientActiveAt \in Nat /\ fee.now \in Nat /\ fee.vault \in Claims
    BY <1>2 DEF Readings
  <2> QED
    BY <1>5, <2>1, <2>2, <2>3 DEF Readings
<1>7. asked # Requests => Reading
  BY <1>1 DEF Reading
<1>8. FeeAsAnswered' => AnswersHold
  <2>1. CASE asked = Requests
    BY <2>1 DEF AnswersHold, Requests
  <2>2. CASE asked # Requests
    BY <1>1, <1>7, <2>2 DEF PageInv, FeeAsAnswered
  <2> QED
    BY <2>1, <2>2
<1>9. (Reading /\ "now" \notin asked) => fee.now \in 1..now
  BY DEF PageInv
<1>10. "now" \notin asked' => fee'.now \in 1..now
  BY <1>1, <1>2, <1>3, <1>5, <1>7, <1>9 DEF Requests
<1>11. "now" \notin asked => fee.now \in 1..now
  BY <1>7, <1>9 DEF Requests
<1>12. FeeAsAnswered' => AnswersHold'
  <2> SUFFICES ASSUME FeeAsAnswered' PROVE AnswersHold'
    OBVIOUS
  <2>1. AnswersHold /\ ClaimFeeBps' = ClaimFeeBps
    BY <1>3, <1>8 DEF feeState, schedule, ClaimFeeBps, RateAt
  <2>2. \A r : r \notin asked' <=> (r \notin asked \/ r = request)
    BY <1>1
  <2>3. UNCHANGED <<pendingClaimFeeBps, pendingClaimFeeAt, feeRecipient, feeRecipientActiveAt>>
    BY <1>3 DEF feeState, schedule, recipient
  <2>4. pendingClaimFeeAt \in Nat /\ fee.pendingAt \in Nat
    BY <1>2 DEF Readings, FeeTypeOK
  <2> QED
    BY <1>3, <1>5, <1>11, <2>1, <2>2, <2>3, <2>4 DEF AnswersHold
<1>13. (FeeAsAnswered' /\ asked' = {}) => ReadingHolds(fee)'
  <2> SUFFICES ASSUME AnswersHold', asked' = {} PROVE ReadingHolds(fee)'
    BY <1>12
  <2>1. /\ fee'.bps = ClaimFeeBps' /\ fee'.now \in 1..now
        /\ fee'.recipient = feeRecipient' /\ fee'.recipientActiveAt = feeRecipientActiveAt'
    BY <1>10 DEF AnswersHold
  <2>2. /\ fee'.pendingBps = pendingClaimFeeBps \/ pendingClaimFeeAt = 0
        /\ fee'.pendingAt = pendingClaimFeeAt \/ (pendingClaimFeeAt = 0 /\ fee'.pendingAt <= fee'.now)
        /\ pendingClaimFeeAt <= fee'.now \/ now < pendingClaimFeeAt
    BY <1>3 DEF AnswersHold, feeState, schedule
  <2>3. /\ ClaimFeeBps' = ClaimFeeBps /\ \A t : RateAt(t)' = RateAt(t)
    BY <1>3 DEF feeState, schedule, ClaimFeeBps, RateAt
  <2>4. pendingClaimFeeAt \in Nat /\ fee'.now \in Nat /\ fee'.pendingAt \in Nat
    BY <1>6 DEF Readings, FeeTypeOK
  <2>5. ASSUME NEW t \in Nat, t >= now
        PROVE  RateAt(t) = rateAt(fee', t)
    BY <1>3, <2>1, <2>2, <2>3, <2>4, <2>5 DEF RateAt, ClaimFeeBps, rateAt, scheduledRaise
  <2> QED
    BY <1>3, <2>1, <2>3, <2>5 DEF ReadingHolds
<1>14. "vault" \notin asked' =>
         /\ fee'.vault.state # "none" =>
                claim.state # "none" /\ claim.ceiling = fee'.vault.ceiling
         /\ "claim" \notin touched' => claim = fee'.vault
  <2>1. CASE request = "vault"
    BY <1>5, <2>1
  <2>2. CASE request # "vault"
    <3>1. "vault" \notin asked' => "vault" \notin asked /\ asked # Requests
      BY <1>1, <2>2 DEF Requests
    <3>2. "vault" \notin asked' => touched' = touched /\ Reading
      BY <1>1, <1>7, <3>1
    <3> QED
      BY <1>5, <2>2, <3>1, <3>2 DEF PageInv
  <2> QED
    BY <2>1, <2>2
<1>15. /\ card' \in {"none", "vault", "create"}
       /\ asked' # {} => card' = "none"
       /\ card' = "vault" => asked' = {} /\ fee'.vault.state \in {"active", "pending"}
       /\ card' # "none" => asked' = {}
  BY <1>1 DEF Cards
<1>16. touched' \subseteq {"fee", "claim", "due"} /\ asked' \subseteq Requests
  BY <1>1, <1>2 DEF PageInv
<1>17. claim' \in Claims /\ claim'.locked <= claim'.ceiling
  BY <1>3 DEF PageInv
<1>18. Reading' => asked' # {}
  BY DEF Reading
<1> QED
  BY <1>3, <1>6, <1>10, <1>12, <1>13, <1>14, <1>15, <1>16, <1>17, <1>18 DEF PageInv

\* Every step keeps what holds of the page,
LEMMA PageKept ==
  ASSUME FeeTypeOK, PageInv, [QuoteNext]_quoteVars
  PROVE  PageInv'
<1>1. CASE Refresh
  <2>1. card = "none" /\ asked' = Requests
    BY <1>1 DEF Refresh, PageInv, NotRead
  <2> QED
    BY <1>1, <2>1 DEF Refresh, PageInv, Reading, FeeAsAnswered, feeVars
<1>2. CASE UNCHANGED quoteVars
  BY <1>2 DEF quoteVars, feeVars, feeState, schedule, recipient, PageInv, ReadingHolds,
     RateAt, rateAt, scheduledRaise, AnswersHold, ClaimFeeBps, Reading, FeeAsAnswered
<1> QED
  BY <1>1, <1>2, ClaimStepKeeps, FeeStepKeepsPage, AnswersKeep DEF QuoteNext

\* which is its inductive invariant:
LEMMA PageStaysSound == QuoteSpec => [](FeeTypeOK /\ PageInv)
<1>1. QuoteInit => PageInv
  BY PageStarts
<1>2. FeeTypeOK /\ PageInv /\ [QuoteNext]_quoteVars => PageInv'
  BY PageKept
<1>3. QuoteSpec => []FeeTypeOK
  BY QuotedFeesImplemented, FeeTypeCorrect, PTL
<1> QED
  BY <1>1, <1>2, <1>3, PTL DEF QuoteSpec

-----------------------------------------------------------------------------
(* What is quoted is real.                                                  *)

\* what the page shows was in force together, at the block it read.
LEMMA PageTellsTheTruth ==
  ASSUME FeeTypeOK, PageInv
  PROVE  QuotesAreReal
<1>1. QuoteTypeOK
  BY DEF QuoteTypeOK, PageInv, Claims
<1>2. EveryAnnouncementCounts
  BY DEF EveryAnnouncementCounts, PageInv, ReadingHolds, FeeTypeOK, ClockTypeOK
<1>3. NothingUnsaid
  <2> SUFFICES ASSUME card # "none", FeeAsAnswered, feeNotes(fee) = {}
               PROVE  ClaimFeeBps = fee.bps /\ RecipientInForce
    BY DEF NothingUnsaid
  <2>1. ~scheduledRaise(fee) /\ fee.recipient # NoOne /\ feeRecipientInForce(fee, fee.now)
    BY DEF feeNotes
  <2>2. /\ now \in Nat /\ ReadingHolds(fee) /\ fee.now \in 1..now /\ fee \in Readings
    BY DEF PageInv, FeeTypeOK, ClockTypeOK
  <2>3. ClaimFeeBps = fee.bps
    BY <2>1, <2>2 DEF ReadingHolds, ClaimFeeBps, rateAt
  <2>4. RecipientInForce
    BY <2>1, <2>2 DEF ReadingHolds, RecipientInForce, RecipientActive, feeRecipientInForce, Readings
  <2> QED
    BY <2>3, <2>4
<1> QED
  BY <1>1, <1>2, <1>3 DEF QuotesAreReal

\* What a card takes for the rate of a moment is the schedule's, and a card
\* without a note leaves nothing out, in every order of answers, raises, cuts,
\* recordings, recipients and claims.
THEOREM QuotesTellTheTruth == QuoteSpec => []QuotesAreReal
<1>1. FeeTypeOK /\ PageInv => QuotesAreReal
  BY PageTellsTheTruth
<1> QED
  BY <1>1, PageStaysSound, PTL

-----------------------------------------------------------------------------
(* What is quoted is kept.                                                  *)

\* The recipient that counts, as the card worked it out and as it is.
LEMMA RecipientAsRead ==
  ASSUME ReadingHolds(fee), NEW t
  PROVE  RecipientActive(t) <=> feeRecipientInForce(fee, t)
BY DEF ReadingHolds, RecipientActive, feeRecipientInForce

\* Before anything announced takes effect, a claim locks what the card quotes.
LEMMA LockAsRead ==
  ASSUME FeeTypeOK, PageInv, card # "none", FeeAsAnswered, claim.ceiling = fee.vault.ceiling,
         \/ \A at \in Rises(fee, MaxTime) : now < at
         \/ \E until \in Nat : now < until /\ \A at \in Rises(fee, until) : now < at
  PROVE  FeeToLock(claim.ceiling) = lockNow(fee)
<1>1. /\ now \in Nat /\ now <= MaxTime /\ ReadingHolds(fee) /\ fee.now \in 1..now
      /\ fee \in Readings /\ claim.ceiling \in Nat
  BY DEF PageInv, Claims, FeeTypeOK, ClockTypeOK
<1>2. fee.bps \in Nat /\ fee.pendingAt \in Nat /\ fee.recipientActiveAt \in Nat
  BY <1>1 DEF Readings
<1>3. ~(scheduledRaise(fee) /\ fee.pendingAt <= now)
  BY <1>1, <1>2 DEF Rises
<1>4. ClaimFeeBps = fee.bps
  BY <1>1, <1>3 DEF ReadingHolds, ClaimFeeBps, rateAt
<1>5. RecipientInForce <=> feeRecipientInForce(fee, fee.now)
  <2>1. RecipientInForce <=> feeRecipientInForce(fee, now)
    BY <1>1, RecipientAsRead DEF RecipientInForce
  <2>2. ASSUME feeRecipientInForce(fee, now), ~feeRecipientInForce(fee, fee.now)
        PROVE  FALSE
    BY <1>1, <1>2, <2>2 DEF Rises, feeRecipientInForce
  <2>3. feeRecipientInForce(fee, fee.now) => feeRecipientInForce(fee, now)
    BY <1>1, <1>2 DEF feeRecipientInForce
  <2> QED
    BY <2>1, <2>2, <2>3
<1>6. Lesser(ClaimFeeBps, claim.ceiling) = Lesser(claim.ceiling, fee.bps)
  BY <1>1, <1>2, <1>4 DEF Lesser
<1> QED
  BY <1>5, <1>6 DEF FeeToLock, lockNow

\* A claim settled at the block that was read is charged what the page showed.
LEMMA ChargedAsQuoted ==
  ASSUME FeeTypeOK, PageInv
  PROVE  QuoteIsChargedStep
<1> SUFFICES ASSUME Finalize, touched = {}, card = "vault", fee.vault.state = "pending",
                    now = first(fee)
             PROVE  Charge = settleBpsAt(fee, first(fee))
  BY DEF QuoteIsChargedStep
<1>1. now \in Nat /\ ReadingHolds(fee) /\ claim = fee.vault
  BY DEF PageInv, FeeAsAnswered, FeeTypeOK, ClockTypeOK
<1>2. ClaimFeeBps = rateAt(fee, now)
  BY <1>1 DEF ReadingHolds, ClaimFeeBps
<1>3. RecipientInForce <=> feeRecipientInForce(fee, now)
  BY <1>1, RecipientAsRead DEF RecipientInForce
<1> QED
  BY <1>1, <1>2, <1>3 DEF Charge, settleBpsAt

\* A claim filed before an announced raise locks what the page showed.
LEMMA LockedAsQuoted ==
  ASSUME FeeTypeOK, PageInv
  PROVE  LockIsAsQuotedStep
<1> SUFFICES ASSUME File, touched = {}, card = "vault", fee.vault.state = "active",
                    \A at \in Rises(fee, MaxTime) : now < at
             PROVE  claim'.locked = lockNow(fee)
  BY DEF LockIsAsQuotedStep
<1>1. claim.ceiling = fee.vault.ceiling /\ FeeAsAnswered
  BY DEF PageInv, FeeAsAnswered
<1>2. FeeToLock(claim.ceiling) = lockNow(fee)
  BY <1>1, LockAsRead
<1>3. claim'.locked = FeeToLock(claim.ceiling)
  BY DEF File, PageInv, Claims
<1> QED
  BY <1>2, <1>3

\* The rise the card names is the first of those it counts.
LEMMA FirstRise ==
  ASSUME fee \in Readings, NEW until \in Nat, Rises(fee, until) # {}
  PROVE  /\ feeRiseAt(fee, until) \in Rises(fee, until)
         /\ \A n \in Rises(fee, until) : feeRiseAt(fee, until) <= n
<1>1. /\ fee.pendingAt \in Nat /\ fee.recipientActiveAt \in Nat
  BY DEF Readings
<1>2. Rises(fee, until) \subseteq {fee.pendingAt, fee.recipientActiveAt}
  BY DEF Rises
<1> DEFINE R == Rises(fee, until)
<1> HIDE DEF R
<1>3. \E m \in R : \A n \in R : m <= n
  BY <1>1, <1>2 DEF R
<1>4. feeRiseAt(fee, until) = CHOOSE m \in R : \A n \in R : m <= n
  BY DEF feeRiseAt, R
<1>5. feeRiseAt(fee, until) \in R /\ \A n \in R : feeRiseAt(fee, until) <= n
  BY <1>3, <1>4
<1> QED
  BY <1>5 DEF R

\* Filed again in time, where the page advises it, a claim keeps a lower rate.
LEMMA RefilingHelps ==
  ASSUME FeeTypeOK, PageInv
  PROVE  RefilingKeepsLowerFeeStep
<1> SUFFICES ASSUME File, card = "vault", FeeAsAnswered, RefilingAdvised(fee),
                    now < feeRiseAt(fee, first(fee))
             PROVE  claim'.locked = lockNow(fee) /\ claim'.locked < settleBpsAt(fee, first(fee))
  BY DEF RefilingKeepsLowerFeeStep
<1>1. /\ fee \in Readings /\ claim.ceiling = fee.vault.ceiling /\ now \in Nat
  BY DEF PageInv, FeeTypeOK, ClockTypeOK
<1>2. first(fee) \in Nat
  BY <1>1 DEF first, Readings, Claims
<1>3. Rises(fee, first(fee)) # {} /\ lockNow(fee) < settleBpsAt(fee, first(fee))
  BY DEF RefilingAdvised
<1>4. /\ feeRiseAt(fee, first(fee)) \in Rises(fee, first(fee))
      /\ \A n \in Rises(fee, first(fee)) : feeRiseAt(fee, first(fee)) <= n
  BY <1>1, <1>2, <1>3, FirstRise
<1>5. Rises(fee, first(fee)) \subseteq {n \in Nat : n <= first(fee)}
  BY <1>1 DEF Rises, Readings
<1>6. now < first(fee) /\ \A at \in Rises(fee, first(fee)) : now < at
  BY <1>1, <1>2, <1>4, <1>5
<1>7. FeeToLock(claim.ceiling) = lockNow(fee)
  BY <1>1, <1>2, <1>6, LockAsRead
<1>8. claim'.locked = FeeToLock(claim.ceiling)
  BY DEF File, PageInv, Claims
<1> QED
  BY <1>3, <1>7, <1>8

\* What a card quotes is what a claim locks and what a settlement charges, and
\* its advice to file again before the fee rises is good.
THEOREM QuotesAreHonoured == QuoteSpec => QuotesAreKept
<1>1. FeeTypeOK /\ PageInv /\ [QuoteNext]_quoteVars =>
        [/\ QuoteIsChargedStep /\ LockIsAsQuotedStep /\ RefilingKeepsLowerFeeStep]_quoteVars
  BY ChargedAsQuoted, LockedAsQuoted, RefilingHelps
<1> QED
  BY <1>1, PageStaysSound, PTL DEF QuoteSpec, QuotesAreKept

-----------------------------------------------------------------------------
(* Both modules of Money.                                                   *)

\* Nothing is asked beside the lane.
LaneIsAlone == part = "lane" => asked = {}

LEMMA LaneStaysAlone == MoneySpec => []LaneIsAlone
<1>1. MoneyInit => LaneIsAlone
  BY DEF MoneyInit, QuoteInit, LaneIsAlone
<1>2. LaneIsAlone /\ [MoneyNext]_moneyVars => LaneIsAlone'
  BY DEF LaneIsAlone, MoneyNext, FeeMoves, LaneMoves, moneyVars, quoteVars
<1> QED
  BY <1>1, <1>2, PTL DEF MoneySpec

\* Every step of Money is one of the page or a stutter, and one of the lane or a stutter.
LEMMA MoneyStep ==
  ASSUME LaneIsAlone, [MoneyNext]_moneyVars
  PROVE  [QuoteNext]_quoteVars /\ [LaneNext]_laneVars
<1>1. CASE FeeMoves
  <2>1. QuoteNext /\ UNCHANGED lanes
    BY <1>1 DEF FeeMoves
  <2>2. Tick \/ now' = now
    BY <2>1, QuoteFeeStep DEF FeeNext, SetClaimFee, ApplyClaimFee, SetFeeRecipient, feeVars
  <2> QED
    BY <2>1, <2>2 DEF LaneNext, laneVars
<1>2. CASE LaneMoves
  <2>0. asked = {}
    BY <1>2 DEF LaneMoves, LaneIsAlone
  <2>1. LaneNext /\ UNCHANGED <<feeState, claim, asked, fee, card, touched>>
    BY <1>2 DEF LaneMoves
  <2>2. Tick \/ now' = now
    BY <2>1 DEF LaneNext, DepositAction, ReleaseAction, CreditAction, SweepAction, GiftAction,
                WithdrawCredit, PushCredit, PayCredit, SweepSurplus, ForceFeed
  <2>3. ~Reading
    BY <2>0 DEF Reading
  <2> QED
    BY <2>1, <2>2, <2>3 DEF QuoteNext, QuoteTick, quoteVars, feeVars
<1>3. CASE UNCHANGED moneyVars
  BY <1>3 DEF moneyVars, quoteVars, feeVars, laneVars
<1> QED
  BY <1>1, <1>2, <1>3 DEF MoneyNext

\* A behaviour of Money is one of the page beside the fee and one of custody.
THEOREM MoneyImplements == MoneySpec => QuoteSpec /\ LaneSpec
<1>1. MoneyInit => QuoteInit /\ LaneInit
  BY DEF MoneyInit
<1>2. LaneIsAlone /\ [MoneyNext]_moneyVars => [QuoteNext]_quoteVars
  BY MoneyStep
<1>3. LaneIsAlone /\ [MoneyNext]_moneyVars => [LaneNext]_laneVars
  BY MoneyStep
<1> QED
  BY <1>1, <1>2, <1>3, LaneStaysAlone, PTL DEF MoneySpec, QuoteSpec, LaneSpec

\* What is credited in an asset is what is owed in it.
THEOREM MoneyAddsUp == MoneySpec => []CreditsAddUp
<1>1. LaneTypeOK /\ CreditsAreTheSum => CreditsAddUp
  <2> SUFFICES ASSUME LaneTypeOK, CreditsAreTheSum, NEW t \in Tokens
               PROVE  totalCredited[t] = SumFunction(credits[t])
    BY DEF CreditsAddUp
  <2>1. DOMAIN credits[t] = Payable
    BY DEF LaneTypeOK
  <2> QED
    BY <2>1 DEF CreditsAreTheSum, SumFunction
<1> QED
  BY <1>1, MoneyImplements, LaneTypeCorrect, CreditsStayTheSum, PTL
=============================================================================
