------------------------------ MODULE Site_proofs ------------------------------
(***************************************************************************)
(* Five results about Site, for every value of its constants that their    *)
(* assumptions allow: nothing is signed twice; what is signed is what was  *)
(* reviewed, and works; what was told stands; the switch keeps its promise *)
(* to the owner; and what the page shows is so.  Each part has an          *)
(* inductive invariant of its own.  That of an owner's panel is proved in  *)
(* OwnerDesk and that of the switch in DeadMansSwitch, and both hold of    *)
(* the sizes here.  A part whose variables are few is written with the     *)
(* slots they are kept in.                                                 *)
(***************************************************************************)
EXTENDS Site, FiniteSetTheorems, TLAPS

-----------------------------------------------------------------------------
(* Counting. *)

\* A set whose elements are all the same has at most one.
LEMMA AtMostOne ==
  ASSUME NEW S, \A s, t \in S : s = t
  PROVE  Cardinality(S) <= 1
<1>1. CASE S = {}
  BY <1>1, FS_EmptySet
<1>2. ASSUME NEW s, S = {s}
      PROVE  Cardinality(S) <= 1
  <2>1. Cardinality({s}) = 1
    BY FS_Singleton
  <2> QED
    BY <1>2, <2>1
<1> QED
  BY <1>1, <1>2

-----------------------------------------------------------------------------
(* One review and its transactions: the part "pageTx".                      *)

sign == s1
step == s2
fate == s3
line == s4
unsettled == s5
watchers == s6
asked == s7

\* Nothing of what r sent can be any more, but for the last.
OnlyLastCanBe(r) ==
    /\ fate[r] # <<>>
    /\ \A i \in 1..(Len(fate[r]) - 1) : fate[r][i] \in Tx!Ineffective

NothingCanBe(r) == \A i \in DOMAIN fate[r] : fate[r][i] \in Tx!Ineffective

\* What holds of a review at every moment.  While its handler runs its button is
\* disabled; if it waits, or the result is watched, only the last transaction may
\* still be mined; and what is offered has nothing left that could be.
TxRow(r) ==
    /\ sign[r] = "offered" \/ step[r] \in {"recheck", "prompt"} => NothingCanBe(r)
    /\ NothingCanBe(r) \/ OnlyLastCanBe(r)
    /\ line[r] = "confirmed" => \E i \in DOMAIN fate[r] : fate[r][i] \in Tx!Succeeded
    /\ line[r] = "failed" /\ step[r] # "wait" => NothingCanBe(r)
    /\ sign[r] = "none" => fate[r] = <<>>
    /\ step[r] # "idle" => sign[r] = "disabled"
    /\ step[r] = "wait" => OnlyLastCanBe(r)
    /\ r \in watchers => OnlyLastCanBe(r) /\ step[r] = "idle" /\ sign[r] = "disabled"

\* The inductive invariant.
TxInv == Tx!PageTypeOK /\ \A r \in Reviews : TxRow(r)

\* A step of one review leaves the others as they are.
LEMMA OtherReviewsStay ==
  ASSUME TxInv, NEW r \in Reviews, NEW q \in Reviews \ {r}, Tx!PageStep(r) \/ Tx!Land(r), TxRow(q)
  PROVE  TxRow(q)'
<1>1. /\ sign'[q] = sign[q] /\ step'[q] = step[q] /\ fate'[q] = fate[q] /\ line'[q] = line[q]
      /\ q \in watchers' => q \in watchers
  BY DEF TxInv, Tx!PageTypeOK, Tx!PageStep, Tx!Land, Tx!Review, Tx!Click, Tx!RecheckRefuses,
         Tx!StartRefused, Tx!StartPrompt, Tx!WalletRefuses, Tx!Broadcast, Tx!BroadcastLost,
         Tx!WaitConfirms, Tx!WaitFails, Tx!WaitLost, Tx!WatchAsks, Tx!WatchAnsweredNone,
         Tx!WatchAnswered, Tx!OfferAgain, Tx!Failed, Tx!Confirmed, Tx!Unknown,
         sign, step, fate, line, watchers
<1> QED
  BY <1>1 DEF TxRow, NothingCanBe, OnlyLastCanBe, Tx!Ineffective, Tx!Succeeded

\* A transaction is sent: it is the last.
LEMMA SentIsLast ==
  ASSUME TxInv, NEW r \in Reviews, fate' = [fate EXCEPT ![r] = Append(@, "pool")]
  PROVE  /\ fate' \in [Reviews -> Seq(Tx!Fates)]
         /\ NothingCanBe(r) => OnlyLastCanBe(r)'
<1>1. fate[r] \in Seq(Tx!Fates) /\ "pool" \in Tx!Fates
  BY DEF TxInv, Tx!PageTypeOK, Tx!Fates, fate
<1>2. fate'[r] = Append(fate[r], "pool")
  BY DEF TxInv, Tx!PageTypeOK, fate
<1>3. /\ fate'[r] \in Seq(Tx!Fates) /\ Len(fate'[r]) = Len(fate[r]) + 1 /\ Len(fate[r]) \in Nat
      /\ \A i \in 1..Len(fate[r]) : fate'[r][i] = fate[r][i]
  BY <1>1, <1>2
<1>4. fate' \in [Reviews -> Seq(Tx!Fates)]
  BY <1>3 DEF TxInv, Tx!PageTypeOK, fate
<1>5. NothingCanBe(r) => OnlyLastCanBe(r)'
  BY <1>1, <1>3 DEF NothingCanBe, OnlyLastCanBe, Tx!Ineffective
<1> QED
  BY <1>4, <1>5

\* A transaction in the pool comes to something; what was over stays over.
LEMMA LandedRow ==
  ASSUME TxInv, NEW r \in Reviews, Tx!Land(r)
  PROVE  fate' \in [Reviews -> Seq(Tx!Fates)] /\ TxRow(r)'
<1>1. fate[r] \in Seq(Tx!Fates)
  BY DEF TxInv, Tx!PageTypeOK, fate
<1>2. PICK i \in DOMAIN fate[r], f \in Tx!Succeeded \cup Tx!Ineffective :
         fate[r][i] = "pool" /\ fate' = [fate EXCEPT ![r][i] = f]
  BY DEF Tx!Land, fate
<1>3. fate'[r] = [fate[r] EXCEPT ![i] = f] /\ f \in Tx!Fates
  BY <1>2 DEF TxInv, Tx!PageTypeOK, Tx!Fates, fate
<1>4. /\ fate'[r] \in Seq(Tx!Fates) /\ Len(fate'[r]) = Len(fate[r]) /\ DOMAIN fate'[r] = DOMAIN fate[r]
      /\ \A j \in DOMAIN fate[r] : fate[r][j] # "pool" => fate'[r][j] = fate[r][j]
      /\ Len(fate[r]) \in Nat /\ DOMAIN fate[r] = 1..Len(fate[r])
  BY <1>1, <1>2, <1>3
<1>5. fate' \in [Reviews -> Seq(Tx!Fates)]
  BY <1>2, <1>4 DEF TxInv, Tx!PageTypeOK, fate
<1>6. UNCHANGED <<sign, step, line, watchers>>
  BY DEF Tx!Land, sign, step, line, watchers
<1>7. /\ NothingCanBe(r) => NothingCanBe(r)'
      /\ OnlyLastCanBe(r) => OnlyLastCanBe(r)'
  BY <1>4, SMTT(60) DEF NothingCanBe, OnlyLastCanBe, Tx!Ineffective
<1>8. (\E j \in DOMAIN fate[r] : fate[r][j] \in Tx!Succeeded)
         => \E j \in DOMAIN fate'[r] : fate'[r][j] \in Tx!Succeeded
  BY <1>4 DEF Tx!Succeeded
<1>9. fate[r] = <<>> => fate'[r] = <<>>
  BY <1>2
<1> QED
  BY <1>5, <1>6, <1>7, <1>8, <1>9 DEF TxRow, TxInv

\* What a row is while its transactions are what they were.
LEMMA RowOfItself ==
  ASSUME NEW r \in Reviews, fate' = fate
  PROVE  /\ NothingCanBe(r)' <=> NothingCanBe(r)
         /\ OnlyLastCanBe(r)' <=> OnlyLastCanBe(r)
BY DEF NothingCanBe, OnlyLastCanBe, Tx!Ineffective

\* The last was confirmed, or failed: that is what the wait or the watch read.
LEMMA LastTells ==
  ASSUME TxInv, NEW r \in Reviews, OnlyLastCanBe(r)
  PROVE  /\ Tx!FateOf(r) \in Tx!Ineffective => NothingCanBe(r)
         /\ Tx!FateOf(r) \in Tx!Succeeded => \E i \in DOMAIN fate[r] : fate[r][i] \in Tx!Succeeded
<1>1. fate[r] \in Seq(Tx!Fates) /\ fate[r] # <<>>
  BY DEF TxInv, Tx!PageTypeOK, OnlyLastCanBe, fate
<1>2. Len(fate[r]) \in Nat \ {0} /\ DOMAIN fate[r] = 1..Len(fate[r])
  BY <1>1
<1>3. Tx!FateOf(r) = fate[r][Len(fate[r])]
  BY DEF Tx!FateOf, fate
<1> QED
  BY <1>2, <1>3 DEF NothingCanBe, OnlyLastCanBe

\* The review that moves stays in order, and so do the types.
LEMMA TxRowStep ==
  ASSUME TxInv, NEW r \in Reviews, Tx!PageStep(r) \/ Tx!Land(r)
  PROVE  Tx!PageTypeOK' /\ TxRow(r)'
<1> USE DEF sign, step, fate, line, unsettled, watchers, asked
<1>1. CASE Tx!Land(r)
  BY <1>1, LandedRow DEF Tx!Land, TxInv, Tx!PageTypeOK
<1>2. CASE Tx!Review(r) \/ Tx!Click(r) \/ Tx!RecheckRefuses(r) \/ Tx!StartRefused(r)
             \/ Tx!StartPrompt(r) \/ Tx!WalletRefuses(r)
  <2>1. Tx!PageTypeOK'
    BY <1>2 DEF TxInv, Tx!PageTypeOK, Tx!Review, Tx!Click, Tx!RecheckRefuses, Tx!StartRefused,
                Tx!StartPrompt, Tx!WalletRefuses, Tx!Failed, Tx!OfferAgain
  <2>2. fate' = fate /\ watchers' = watchers
    BY <1>2 DEF Tx!Review, Tx!Click, Tx!RecheckRefuses, Tx!StartRefused,
                Tx!StartPrompt, Tx!WalletRefuses, Tx!Failed, Tx!OfferAgain
  <2>3. sign[r] = "none" => NothingCanBe(r)
    BY DEF TxInv, TxRow, NothingCanBe
  <2> QED
    BY <1>2, <2>1, <2>2, <2>3, RowOfItself
       DEF TxInv, TxRow, Tx!PageTypeOK, Tx!Review, Tx!Click, Tx!RecheckRefuses, Tx!StartRefused,
           Tx!StartPrompt, Tx!WalletRefuses, Tx!Failed, Tx!OfferAgain
<1>3. CASE Tx!Broadcast(r) \/ Tx!BroadcastLost(r)
  <2>1. fate' = [fate EXCEPT ![r] = Append(@, "pool")]
    BY <1>3 DEF Tx!Broadcast, Tx!BroadcastLost
  <2>2. NothingCanBe(r) /\ sign[r] = "disabled" /\ r \notin watchers
    BY <1>3 DEF TxInv, TxRow, Tx!Broadcast, Tx!BroadcastLost
  <2>3. fate' \in [Reviews -> Seq(Tx!Fates)] /\ OnlyLastCanBe(r)'
    BY <2>1, <2>2, SentIsLast
  <2>4. Tx!PageTypeOK'
    BY <1>3, <2>3 DEF TxInv, Tx!PageTypeOK, Tx!Broadcast, Tx!BroadcastLost, Tx!Unknown
  <2>5. /\ sign'[r] = "disabled" /\ step'[r] \in {"wait", "idle"}
        /\ line'[r] = "unknown" \/ (line'[r] = line[r] /\ step'[r] = "wait")
        /\ r \in watchers' => step'[r] = "idle"
    BY <1>3, <2>2 DEF TxInv, Tx!PageTypeOK, Tx!Broadcast, Tx!BroadcastLost, Tx!Unknown
  <2>6. (\E i \in DOMAIN fate[r] : fate[r][i] \in Tx!Succeeded) => FALSE
    BY <2>2 DEF NothingCanBe, Tx!Ineffective, Tx!Succeeded
  <2>7. line[r] # "confirmed"
    BY <2>6 DEF TxInv, TxRow
  <2> QED
    BY <2>3, <2>4, <2>5, <2>7 DEF TxRow
<1>4. CASE Tx!WaitConfirms(r) \/ Tx!WaitFails(r) \/ Tx!WaitLost(r)
  <2>1. Tx!PageTypeOK' /\ fate' = fate
    BY <1>4 DEF TxInv, Tx!PageTypeOK, Tx!WaitConfirms, Tx!WaitFails, Tx!WaitLost, Tx!Confirmed,
                Tx!Failed, Tx!OfferAgain, Tx!Unknown
  <2>2. OnlyLastCanBe(r) /\ sign[r] = "disabled" /\ r \notin watchers
    BY <1>4 DEF TxInv, TxRow, Tx!WaitConfirms, Tx!WaitFails, Tx!WaitLost
  <2>3. CASE Tx!WaitConfirms(r)
    <3>1. \E i \in DOMAIN fate[r] : fate[r][i] \in Tx!Succeeded
      BY <2>2, <2>3, LastTells DEF Tx!WaitConfirms
    <3> QED
      BY <2>1, <2>2, <2>3, <3>1, RowOfItself
         DEF TxInv, TxRow, Tx!PageTypeOK, Tx!WaitConfirms, Tx!Confirmed
  <2>4. CASE Tx!WaitFails(r)
    <3>1. NothingCanBe(r)
      BY <2>2, <2>4, LastTells DEF Tx!WaitFails, Tx!Ineffective
    <3> QED
      BY <2>1, <2>2, <2>4, <3>1, RowOfItself
         DEF TxInv, TxRow, Tx!PageTypeOK, Tx!WaitFails, Tx!Failed, Tx!OfferAgain,
             NothingCanBe, Tx!Ineffective, Tx!Succeeded
  <2>5. CASE Tx!WaitLost(r)
    BY <2>1, <2>2, <2>5, RowOfItself DEF TxInv, TxRow, Tx!PageTypeOK, Tx!WaitLost, Tx!Unknown
  <2> QED
    BY <1>4, <2>1, <2>3, <2>4, <2>5
<1>5. CASE Tx!WatchAsks(r) \/ Tx!WatchAnsweredNone(r)
  <2>1. Tx!PageTypeOK' /\ UNCHANGED <<sign, step, fate, line>> /\ watchers' \subseteq watchers
    BY <1>5 DEF TxInv, Tx!PageTypeOK, Tx!WatchAsks, Tx!WatchAnsweredNone
  <2> QED
    BY <2>1, RowOfItself DEF TxInv, TxRow
<1>6. CASE Tx!WatchAnswered(r)
  <2>1. Tx!PageTypeOK' /\ UNCHANGED <<sign, step, fate>> /\ watchers' = watchers \ {r}
    BY <1>6 DEF TxInv, Tx!PageTypeOK, Tx!WatchAnswered
  <2>2. OnlyLastCanBe(r) /\ sign[r] = "disabled" /\ step[r] = "idle"
    BY <1>6 DEF TxInv, TxRow, Tx!PageTypeOK, Tx!WatchAnswered
  <2>3. /\ line'[r] = "confirmed" => \E i \in DOMAIN fate[r] : fate[r][i] \in Tx!Succeeded
        /\ line'[r] = "failed" => NothingCanBe(r)
    BY <1>6, <2>2, LastTells
       DEF TxInv, Tx!PageTypeOK, Tx!WatchAnswered, Tx!Succeeded, Tx!Ineffective
  <2> QED
    BY <2>1, <2>2, <2>3, RowOfItself DEF TxInv, TxRow
<1> QED
  BY <1>1, <1>2, <1>3, <1>4, <1>5, <1>6 DEF Tx!PageStep

\* No step of the page, the wallet or the network leads out of the invariant.
LEMMA TxStep ==
  ASSUME TxInv, [Tx!PageNext]_Tx!pageVars
  PROVE  TxInv'
<1>1. CASE Tx!PageNext
  <2>1. PICK r \in Reviews : Tx!PageStep(r) \/ Tx!Land(r)
    BY <1>1 DEF Tx!PageNext
  <2>2. \A q \in Reviews : TxRow(q)'
    BY <2>1, TxRowStep, OtherReviewsStay DEF TxInv
  <2> QED
    BY <2>1, <2>2, TxRowStep DEF TxInv
<1>2. CASE UNCHANGED Tx!pageVars
  BY <1>2 DEF TxInv, TxRow, NothingCanBe, OnlyLastCanBe, Tx!pageVars, Tx!PageTypeOK,
              sign, step, fate, line, unsettled, watchers, asked
<1> QED
  BY <1>1, <1>2

\* The page starts in it,
LEMMA TxStart ==
  ASSUME Tx!PageInit
  PROVE  TxInv
BY DEF Tx!PageInit, TxInv, TxRow, NothingCanBe, OnlyLastCanBe, Tx!PageTypeOK,
       sign, step, fate, line, unsettled, watchers, asked

\* and in it nothing is done twice, and what the page says of it is so.
LEMMA TxPromises ==
  ASSUME TxInv
  PROVE  Tx!OfferedMeansNothingHappened /\ Tx!DoneAtMostOnce /\ Tx!VerdictsTrue
<1> USE DEF sign, step, fate, line
<1>1. Tx!OfferedMeansNothingHappened
  BY DEF TxInv, TxRow, NothingCanBe, Tx!OfferedMeansNothingHappened
<1>2. Tx!DoneAtMostOnce
  <2> SUFFICES ASSUME NEW r \in Reviews, NEW i \in DOMAIN fate[r], NEW j \in DOMAIN fate[r],
                      fate[r][i] \notin Tx!Ineffective, fate[r][j] \notin Tx!Ineffective
               PROVE  i = j
    BY DEF Tx!DoneAtMostOnce
  <2>1. fate[r] \in Seq(Tx!Fates)
    BY DEF TxInv, Tx!PageTypeOK
  <2>2. OnlyLastCanBe(r)
    BY DEF TxInv, TxRow, NothingCanBe
  <2>3. Len(fate[r]) \in Nat /\ DOMAIN fate[r] = 1..Len(fate[r])
    BY <2>1
  <2> QED
    BY <2>2, <2>3 DEF OnlyLastCanBe
<1>3. Tx!VerdictsTrue
  BY DEF TxInv, TxRow, NothingCanBe, Tx!VerdictsTrue
<1> QED
  BY <1>1, <1>2, <1>3

-----------------------------------------------------------------------------
(* The create form: the part "form".                                        *)

formGeneration == s1
formReviews == s2
formSigns == s3
creating == s4
sending == s5
formUnsettled == s6
fates == s9

\* A plan whose create is mined, or could be: it has no review and no button that
\* can be clicked, and only its own transaction may be under way.
Spent(p) ==
    /\ p <= formGeneration /\ p \notin formReviews
    /\ \A s \in formSigns : s.plan = p => s.enabled = FALSE

FormTypes ==
    /\ formGeneration \in Nat
    /\ \A r \in formReviews : r \in 1..formGeneration
    /\ fates \in [Form!Plans -> {0, 1}]
    /\ sending \in [stage : {"idle", "allowance", "create", "sent"}, plan : Form!Plans \cup {0}]
    /\ creating <=> sending.stage # "idle"
    /\ formUnsettled \in Form!Plans \cup {-1, 0}

\* The button on the page is of the newest review, which has been shown.
NewestShown ==
    /\ \A s, t \in formSigns : s = t
    /\ \A s \in formSigns :
          /\ DOMAIN s = {"plan", "enabled"}
          /\ s.plan = formGeneration /\ s.plan \notin formReviews

\* What was sent for a plan is the only create of it.
SentForGood ==
    /\ \A p \in Form!Plans : fates[p] = 1 =>
          Spent(p) /\ (sending.plan = p => sending.stage \in {"idle", "sent"})
    /\ sending.stage # "idle" => sending.plan \in Form!Plans /\ Spent(sending.plan)
    /\ sending.stage = "sent" => fates[sending.plan] = 1 /\ formUnsettled = 0
    /\ formUnsettled > 0 => fates[formUnsettled] = 1

\* The inductive invariant.
FormInv == FormTypes /\ NewestShown /\ SentForGood

\* A button with its second field changed.
LEMMA SwitchedRecord ==
  ASSUME NEW s, DOMAIN s = {"plan", "enabled"}, NEW on, NEW t, t = [s EXCEPT !.enabled = on]
  PROVE  DOMAIN t = {"plan", "enabled"} /\ t.plan = s.plan /\ t.enabled = on
OBVIOUS

\* Switching the buttons of one plan leaves those of another plan as they are.
OthersStayOff(plan) ==
    \A p : p # plan /\ (\A s \in formSigns : s.plan = p => s.enabled = FALSE)
               => \A t \in formSigns' : t.plan = p => t.enabled = FALSE

\* A button that is switched off or on stays the button of its plan.
LEMMA SwitchedButton ==
  ASSUME FormInv, NEW plan, formSigns' = Form!Disabled(plan) \/ formSigns' = Form!Enabled(plan),
         formGeneration' = formGeneration, formReviews' = formReviews
  PROVE  NewestShown' /\ OthersStayOff(plan)
<1>1. CASE formSigns' = Form!Disabled(plan)
  <2>1. \A t \in formSigns' : \E s \in formSigns :
           t = [s EXCEPT !.enabled = s.enabled /\ s.plan # plan]
    BY <1>1 DEF Form!Disabled, formSigns
  <2>2. \A t \in formSigns' : \E s \in formSigns :
           /\ DOMAIN t = {"plan", "enabled"} /\ t.plan = s.plan
           /\ s.plan = plan \/ s.enabled = FALSE => t.enabled = FALSE
    <3> SUFFICES ASSUME NEW t \in formSigns'
                 PROVE  \E s \in formSigns :
                           /\ DOMAIN t = {"plan", "enabled"} /\ t.plan = s.plan
                           /\ s.plan = plan \/ s.enabled = FALSE => t.enabled = FALSE
      OBVIOUS
    <3>1. PICK s \in formSigns : t = [s EXCEPT !.enabled = s.enabled /\ s.plan # plan]
      BY <2>1
    <3> DEFINE on == s.enabled /\ s.plan # plan
    <3>2. s.plan = plan \/ s.enabled = FALSE => on = FALSE
      OBVIOUS
    <3>3. DOMAIN s = {"plan", "enabled"} /\ t = [s EXCEPT !.enabled = on]
      BY <3>1 DEF FormInv, NewestShown
    <3> HIDE DEF on
    <3>4. DOMAIN t = {"plan", "enabled"} /\ t.plan = s.plan /\ t.enabled = on
      BY <3>3, SwitchedRecord
    <3> QED
      BY <3>2, <3>4
  <2>3. NewestShown'
    <3>1. ASSUME NEW t \in formSigns', NEW u \in formSigns'
          PROVE  t = u
      <4>1. PICK s \in formSigns : t = [s EXCEPT !.enabled = s.enabled /\ s.plan # plan]
        BY <2>1
      <4>2. PICK v \in formSigns : u = [v EXCEPT !.enabled = v.enabled /\ v.plan # plan]
        BY <2>1
      <4>3. s = v
        BY DEF FormInv, NewestShown
      <4> QED
        BY <4>1, <4>2, <4>3, Zenon
    <3> QED
      BY <2>2, <3>1, Zenon DEF FormInv, NewestShown
  <2> QED
    BY <2>2, <2>3 DEF OthersStayOff
<1>2. CASE formSigns' = Form!Enabled(plan)
  <2>1. \A t \in formSigns' : \E s \in formSigns :
           t = [s EXCEPT !.enabled = s.enabled \/ s.plan = plan]
    BY <1>2 DEF Form!Enabled, formSigns
  <2>2. \A t \in formSigns' : \E s \in formSigns :
           /\ DOMAIN t = {"plan", "enabled"} /\ t.plan = s.plan
           /\ s.plan # plan /\ s.enabled = FALSE => t.enabled = FALSE
    <3> SUFFICES ASSUME NEW t \in formSigns'
                 PROVE  \E s \in formSigns :
                           /\ DOMAIN t = {"plan", "enabled"} /\ t.plan = s.plan
                           /\ s.plan # plan /\ s.enabled = FALSE => t.enabled = FALSE
      OBVIOUS
    <3>1. PICK s \in formSigns : t = [s EXCEPT !.enabled = s.enabled \/ s.plan = plan]
      BY <2>1
    <3> DEFINE on == s.enabled \/ s.plan = plan
    <3>2. s.plan # plan /\ s.enabled = FALSE => on = FALSE
      OBVIOUS
    <3>3. DOMAIN s = {"plan", "enabled"} /\ t = [s EXCEPT !.enabled = on]
      BY <3>1 DEF FormInv, NewestShown
    <3> HIDE DEF on
    <3>4. DOMAIN t = {"plan", "enabled"} /\ t.plan = s.plan /\ t.enabled = on
      BY <3>3, SwitchedRecord
    <3> QED
      BY <3>2, <3>4
  <2>3. NewestShown'
    <3>1. ASSUME NEW t \in formSigns', NEW u \in formSigns'
          PROVE  t = u
      <4>1. PICK s \in formSigns : t = [s EXCEPT !.enabled = s.enabled \/ s.plan = plan]
        BY <2>1
      <4>2. PICK v \in formSigns : u = [v EXCEPT !.enabled = v.enabled \/ v.plan = plan]
        BY <2>1
      <4>3. s = v
        BY DEF FormInv, NewestShown
      <4> QED
        BY <4>1, <4>2, <4>3, Zenon
    <3> QED
      BY <2>2, <3>1, Zenon DEF FormInv, NewestShown
  <2> QED
    BY <2>2, <2>3 DEF OthersStayOff
<1> QED
  BY <1>1, <1>2

\* What was switched off cannot be clicked.
LEMMA SwitchedOff ==
  ASSUME FormInv, NEW plan, formSigns' = Form!Disabled(plan)
  PROVE  \A t \in formSigns' : t.plan = plan => t.enabled = FALSE
<1> SUFFICES ASSUME NEW t \in formSigns', t.plan = plan
             PROVE  t.enabled = FALSE
  OBVIOUS
<1>1. PICK s \in formSigns : t = [s EXCEPT !.enabled = s.enabled /\ s.plan # plan]
  BY DEF Form!Disabled, formSigns
<1> DEFINE on == s.enabled /\ s.plan # plan
<1>2. DOMAIN s = {"plan", "enabled"} /\ t = [s EXCEPT !.enabled = on]
  BY <1>1 DEF FormInv, NewestShown
<1>3. s.plan = plan => on = FALSE
  OBVIOUS
<1> HIDE DEF on
<1> QED
  BY <1>2, <1>3, SwitchedRecord

LEMMA FormStep ==
  ASSUME FormInv, [Form!Next]_Form!formVars
  PROVE  FormInv'
<1> USE DEF Spent, Form!Plans, formGeneration, formReviews, formSigns, creating, sending,
            formUnsettled, fates
<1>1. CASE Form!Edit
  BY <1>1 DEF Form!Edit, Form!Cleared, FormInv, FormTypes, NewestShown, SentForGood
<1>2. CASE Form!ClickReview
  BY <1>2 DEF Form!ClickReview, Form!Cleared, FormInv, FormTypes, NewestShown, SentForGood
<1>3. ASSUME NEW r \in formReviews, Form!ReviewShown(r)
      PROVE  FormInv'
  <2>1. FormTypes'
    BY <1>3 DEF Form!ReviewShown, FormInv, FormTypes
  <2>2. \/ formSigns' = formSigns
        \/ r = formGeneration /\ formSigns' = formSigns \cup {[plan |-> r, enabled |-> TRUE]}
    BY <1>3 DEF Form!ReviewShown, Form!current
  <2>4. r = formGeneration => formSigns = {}
    BY DEF FormInv, NewestShown
  <2>5. NewestShown'
    <3> DEFINE button == [plan |-> r, enabled |-> TRUE]
    <3>1. DOMAIN button = {"plan", "enabled"} /\ button.plan = r
      OBVIOUS
    <3>2. r \notin formReviews' /\ formGeneration' = formGeneration /\ formReviews' \subseteq formReviews
      BY <1>3 DEF Form!ReviewShown
    <3> HIDE DEF button
    <3>3. formSigns' = formSigns \/ (r = formGeneration /\ formSigns' = {button})
      BY <2>2, <2>4 DEF button
    <3> QED
      BY <3>1, <3>2, <3>3 DEF FormInv, NewestShown
  <2>3. SentForGood'
    BY <1>3 DEF Form!ReviewShown, Form!current, FormInv, FormTypes, NewestShown, SentForGood
  <2> QED
    BY <2>1, <2>5, <2>3 DEF FormInv
<1>4. ASSUME NEW r \in formReviews, Form!ReviewStops(r)
      PROVE  FormInv'
  BY <1>4 DEF Form!ReviewStops, FormInv, FormTypes, NewestShown, SentForGood
<1>5. ASSUME NEW plan \in Form!Plans, Form!Sign(plan)
      PROVE  FormInv'
  <2>1. formSigns' = Form!Disabled(plan) /\ formGeneration' = formGeneration /\ formReviews' = formReviews
    BY <1>5 DEF Form!Sign
  <2>2. FormTypes'
    BY <1>5 DEF Form!Sign, FormInv, FormTypes
  <2>3. plan = formGeneration /\ plan \notin formReviews /\ fates[plan] = 0
    BY <1>5 DEF Form!Sign, FormInv, FormTypes, NewestShown, SentForGood
  <2>5. NewestShown' /\ OthersStayOff(plan)
    BY <2>1, SwitchedButton
  <2>6. \A t \in formSigns' : t.plan = plan => t.enabled = FALSE
    BY <2>1, SwitchedOff
  <2>4. SentForGood'
    BY <1>5, <2>1, <2>3, <2>5, <2>6 DEF OthersStayOff, Form!Sign, FormInv, FormTypes, SentForGood
  <2> QED
    BY <2>2, <2>4, <2>5 DEF FormInv
<1>6. CASE Form!AllowanceEnough
  BY <1>6 DEF Form!AllowanceEnough, FormInv, FormTypes, NewestShown, SentForGood
<1>7. CASE Form!AllowanceFails \/ Form!RefusedToSend
  <2>1. /\ formSigns' = Form!Enabled(sending.plan) /\ formGeneration' = formGeneration
        /\ formReviews' = formReviews /\ sending' = Form!Idle /\ ~creating'
        /\ UNCHANGED <<fates, formUnsettled>>
        /\ sending.stage \in {"allowance", "create"}
    BY <1>7 DEF Form!AllowanceFails, Form!RefusedToSend, Form!HandlerEnds
  <2>2. FormTypes'
    BY <2>1 DEF Form!Idle, FormInv, FormTypes
  <2>3. fates[sending.plan] = 0
    BY <2>1 DEF FormInv, FormTypes, SentForGood
  <2>5. NewestShown' /\ OthersStayOff(sending.plan)
    BY <2>1, SwitchedButton
  <2>4. SentForGood'
    BY <2>1, <2>3, <2>5 DEF OthersStayOff, Form!Idle, FormInv, FormTypes, SentForGood
  <2> QED
    BY <2>2, <2>4, <2>5 DEF FormInv
<1>8. CASE Form!ApprovalLost
  BY <1>8 DEF Form!ApprovalLost, Form!HandlerEnds, Form!Idle, FormInv, FormTypes, NewestShown, SentForGood
<1>9. CASE Form!Send
  <2>1. FormTypes' /\ NewestShown'
    BY <1>9 DEF Form!Send, FormInv, FormTypes, NewestShown, SentForGood
  <2>2. /\ sending.plan \in Form!Plans /\ fates[sending.plan] = 0 /\ Spent(sending.plan)
        /\ sending.stage = "create" /\ formUnsettled = 0
    BY <1>9 DEF Form!Send, FormInv, FormTypes, SentForGood
  <2>3. /\ fates' = [fates EXCEPT ![sending.plan] = 1]
        /\ sending'.stage = "sent" /\ sending'.plan = sending.plan
        /\ UNCHANGED <<formGeneration, formReviews, formSigns, formUnsettled>>
    BY <1>9, <2>2 DEF Form!Send, FormInv, FormTypes
  <2>4. SentForGood'
    BY <2>2, <2>3 DEF FormInv, FormTypes, SentForGood
  <2> QED
    BY <2>1, <2>4 DEF FormInv
<1>10. CASE Form!NothingHappened
  <2>1. /\ formSigns' = Form!Enabled(sending.plan) /\ formGeneration' = formGeneration
        /\ formReviews' = formReviews /\ sending' = Form!Idle /\ ~creating'
        /\ formUnsettled' = formUnsettled
        /\ sending.stage = "sent" /\ fates' = [fates EXCEPT ![sending.plan] = @ - 1]
    BY <1>10 DEF Form!NothingHappened, Form!HandlerEnds
  <2>2. sending.plan \in Form!Plans /\ fates[sending.plan] = 1 /\ formUnsettled = 0
    BY <2>1 DEF FormInv, FormTypes, SentForGood
  <2>3. FormTypes' /\ fates' = [fates EXCEPT ![sending.plan] = 0]
    BY <2>1, <2>2 DEF Form!Idle, FormInv, FormTypes
  <2>5. NewestShown' /\ OthersStayOff(sending.plan)
    BY <2>1, SwitchedButton
  <2>4. SentForGood'
    BY <2>1, <2>2, <2>3, <2>5 DEF OthersStayOff, Form!Idle, FormInv, FormTypes, SentForGood
  <2> QED
    BY <2>3, <2>4, <2>5 DEF FormInv
<1>11. CASE Form!Mined
  BY <1>11 DEF Form!Mined, Form!Idle, FormInv, FormTypes, NewestShown, SentForGood
<1>12. CASE Form!ResultUnknown
  BY <1>12
     DEF Form!ResultUnknown, Form!HandlerEnds, Form!Idle, FormInv, FormTypes, NewestShown, SentForGood
<1>13. CASE Form!ReceiptRead
  <2>1. /\ formUnsettled # 0 /\ formUnsettled' = 0 /\ sending.stage # "sent"
        /\ formUnsettled > 0 => formUnsettled \in Form!Plans /\ fates[formUnsettled] = 1
        /\ UNCHANGED <<formReviews, creating, sending>>
    BY <1>13 DEF Form!ReceiptRead, FormInv, FormTypes, SentForGood
  <2>2. CASE /\ formSigns' = {} /\ UNCHANGED fates
             /\ formGeneration' = formGeneration + 1 \/ UNCHANGED formGeneration
    BY <2>1, <2>2 DEF FormInv, FormTypes, NewestShown, SentForGood
  <2>3. CASE /\ formUnsettled > 0 /\ fates' = [fates EXCEPT ![formUnsettled] = @ - 1]
             /\ UNCHANGED <<formSigns, formGeneration>>
    <3>1. fates' = [fates EXCEPT ![formUnsettled] = 0]
      BY <2>1, <2>3 DEF FormInv, FormTypes
    <3> QED
      BY <2>1, <2>3, <3>1 DEF FormInv, FormTypes, NewestShown, SentForGood
  <2>4. CASE UNCHANGED <<formSigns, formGeneration, fates>>
    BY <2>1, <2>4 DEF FormInv, FormTypes, NewestShown, SentForGood
  <2> QED
    BY <1>13, <2>2, <2>3, <2>4 DEF Form!ReceiptRead
<1>14. CASE Form!ElsewhereLost
  BY <1>14 DEF Form!ElsewhereLost, FormInv, FormTypes, NewestShown, SentForGood
<1>15. CASE Form!Reconnect \/ UNCHANGED Form!formVars
  <2>1. UNCHANGED <<formGeneration, formReviews, formSigns, creating, sending, formUnsettled, fates>>
    BY <1>15 DEF Form!Reconnect, Form!formVars
  <2> QED
    BY <2>1 DEF FormInv, FormTypes, NewestShown, SentForGood
<1> QED
  BY <1>1, <1>2, <1>3, <1>4, <1>5, <1>6, <1>7, <1>8, <1>9, <1>10, <1>11, <1>12, <1>13, <1>14, <1>15
     DEF Form!Next

LEMMA FormStart ==
  ASSUME Form!Init
  PROVE  FormInv
BY DEF Form!Init, FormInv, FormTypes, NewestShown, SentForGood, Spent, Form!Plans, Form!Idle,
       formGeneration, formReviews, formSigns,
       creating, sending, formUnsettled, fates

LEMMA FormPromises ==
  ASSUME FormInv
  PROVE  Form!OneSignButton /\ Form!OneCreatePerReview
<1>1. Form!OneCreatePerReview
  BY DEF FormInv, FormTypes, Form!OneCreatePerReview, fates
<1>2. Cardinality(s3) <= 1
  BY AtMostOne DEF FormInv, NewestShown, formSigns
<1> QED
  BY <1>1, <1>2 DEF Form!OneSignButton, Form!Cardinality, Cardinality

-----------------------------------------------------------------------------
(* A payout's panel: the part "payout".                                     *)

payPanel == s4
payGeneration == s5
payReviews == s6
paySigns == s7

PaySigns == [kind : {"none", "all", "part"}, units : Int, left : Int, outflows : Int, generation : Nat,
             stage : {"offered", "prompt"}]

PayTyped ==
    /\ s1 \in Int /\ s2 \in Int /\ payPanel \in {"none", "all", "part"}
    /\ paySigns \subseteq PaySigns /\ payGeneration \in Nat

\* The inductive invariant: each review and each button has a generation of its
\* own, and what is offered is of the one on the page.
PayInv ==
    /\ PayTyped /\ payReviews \subseteq 1..payGeneration
    /\ \A s \in paySigns :
          /\ s.generation <= payGeneration /\ s.generation \notin payReviews
          /\ s.stage = "offered" => Payout!Shown(s)
    /\ \A s, t \in paySigns : s.generation = t.generation => s = t

LEMMA PayStep ==
  ASSUME PayInv, [Payout!Next]_Payout!vars
  PROVE  PayInv'
<1> USE DEF PayInv, PayTyped, PaySigns, payPanel, payGeneration, payReviews, paySigns, Payout!Shown,
            Payout!Handlers, Payout!NextGeneration, Payout!money
<1>1. ASSUME NEW kind \in {"all", "part"}, Payout!Click(kind) \/ Payout!NotOpened(kind)
      PROVE  PayInv'
  BY <1>1 DEF Payout!Click, Payout!NotOpened
<1>2. ASSUME NEW kind \in {"all", "part"}, Payout!Opened(kind)
      PROVE  PayInv'
  BY <1>2 DEF Payout!Opened
<1>3. CASE Payout!ClosePanel
  BY <1>3 DEF Payout!ClosePanel
<1>4. CASE Payout!Edit
  BY <1>4 DEF Payout!Edit
<1>11. CASE Payout!StartReview
  BY <1>11 DEF Payout!StartReview
<1>5. ASSUME NEW r \in payReviews, Payout!ReviewShown(r)
      PROVE  PayInv'
  BY <1>5 DEF Payout!ReviewShown, Payout!Current
<1>6. ASSUME NEW r \in payReviews, Payout!ReviewDropped(r)
      PROVE  PayInv'
  BY <1>6 DEF Payout!ReviewDropped
<1>7. ASSUME NEW s \in paySigns, Payout!Sign(s)
      PROVE  PayInv'
  BY <1>7 DEF Payout!Sign
<1>8. ASSUME NEW s \in paySigns, Payout!Decline(s)
      PROVE  PayInv'
  BY <1>8 DEF Payout!Decline
<1>9. ASSUME NEW s \in paySigns, Payout!Mined(s)
      PROVE  PayInv'
  BY <1>9 DEF Payout!Mined, Payout!Pays
<1>10. CASE Payout!Credited \/ Payout!PaidElsewhere
  <2>1. /\ UNCHANGED <<payPanel, payGeneration, payReviews, paySigns>>
        /\ s1' \in Int /\ s2' \in Int
    BY <1>10 DEF Payout!Credited, Payout!PaidElsewhere
  <2> QED
    BY <2>1
<1>12. CASE UNCHANGED Payout!vars
  BY <1>12 DEF Payout!vars
<1> QED
  BY <1>1, <1>2, <1>3, <1>4, <1>5, <1>6, <1>7, <1>8, <1>9, <1>10,
     <1>11, <1>12 DEF Payout!Next

LEMMA PayStart ==
  ASSUME Payout!Init
  PROVE  PayInv
BY DEF Payout!Init, PayInv, PayTyped, PaySigns, payPanel, payGeneration, payReviews, paySigns

LEMMA PayPromise ==
  ASSUME PayInv
  PROVE  Payout!OneSignButton
<1>1. \A s, t \in s7 \ Payout!Handlers : s = t
  BY DEF PayInv, PayTyped, PaySigns, Payout!Handlers, Payout!Shown, paySigns, payPanel, payGeneration
<1>2. Cardinality(s7 \ Payout!Handlers) <= 1
  BY <1>1, AtMostOne
<1> QED
  BY <1>2 DEF Payout!OneSignButton, Payout!Cardinality, Cardinality

\* What a review said and the credit since: unless something was paid out, the
\* credit covers what is to be paid and what is to stay.
PayCovers ==
    /\ s1 >= 0
    /\ \A s \in s7 :
          /\ s.units > 0 /\ s.left >= 0 /\ s.outflows <= s2
          /\ s.kind = "all" => s.left = 0
          /\ s.outflows = s2 => s1 >= s.units + s.left

LEMMA PayCoversStep ==
  ASSUME PayTyped, PayCovers, [Payout!Next]_(Payout!vars)
  PROVE  PayCovers'
<1> USE DEF PayTyped, PaySigns, PayCovers, payPanel, payGeneration, paySigns, Payout!money, Payout!Handlers
<1>1. CASE /\ UNCHANGED Payout!money /\ s7' \subseteq s7
  BY <1>1
<1>2. ASSUME NEW kind \in {"all", "part"},
   Payout!Click(kind) \/ Payout!Opened(kind) \/ Payout!NotOpened(kind)
      PROVE  PayCovers'
  BY <1>1, <1>2 DEF Payout!Click, Payout!Opened, Payout!NotOpened
<1>3. CASE Payout!ClosePanel \/ Payout!Edit \/ Payout!StartReview
  BY <1>1, <1>3 DEF Payout!ClosePanel, Payout!Edit, Payout!StartReview
<1>4. ASSUME NEW r \in s6, Payout!ReviewShown(r)
      PROVE  PayCovers'
  <2>1. PICK units \in IF s4 = "part" THEN 1..s1 ELSE {s1} :
          s7' = s7 \cup {[
              kind |-> s4, units |-> units, left |-> s1 - units, outflows |-> s2,
              generation |-> s5, stage |-> "offered"]}
    BY <1>4 DEF Payout!ReviewShown
  <2>2. units \in Int /\ units > 0 /\ units <= s1 /\ (s4 = "all" => s1 - units = 0)
    BY <1>4, <2>1 DEF Payout!ReviewShown, Payout!Current
  <2> QED
    BY <1>4, <2>1, <2>2 DEF Payout!ReviewShown
<1>5. ASSUME NEW r \in s6, Payout!ReviewDropped(r)
      PROVE  PayCovers'
  BY <1>1, <1>5 DEF Payout!ReviewDropped
<1>6. ASSUME NEW s \in s7, Payout!Sign(s) \/ Payout!Decline(s)
      PROVE  PayCovers'
  <2>1. PICK st \in {"offered", "prompt"} :
          s7' \subseteq s7 \cup {[s EXCEPT !.stage = st]} /\ UNCHANGED Payout!money
    BY <1>6 DEF Payout!Sign, Payout!Decline
  <2> DEFINE t == [s EXCEPT !.stage = st]
  <2>2. t.units = s.units /\ t.outflows = s.outflows /\ t.kind = s.kind /\ t.left = s.left
    OBVIOUS
  <2>3. s7' \subseteq s7 \cup {t}
    BY <2>1
  <2> HIDE DEF t
  <2> QED
    BY <2>1, <2>2, <2>3
<1>7. ASSUME NEW s \in s7, Payout!Mined(s)
      PROVE  PayCovers'
  <2>1. s7' \subseteq s7
    BY <1>7 DEF Payout!Mined
  <2>2. CASE UNCHANGED Payout!money
    BY <1>1, <2>1, <2>2
  <2>3. CASE Payout!Pays(s) <= s1 /\ s1' = s1 - Payout!Pays(s) /\ s2' = s2 + 1
    <3>1. Payout!Pays(s) \in Int
      BY DEF Payout!Pays
    <3>2. s1' >= 0
      BY <2>3, <3>1
    <3>3. \A t \in s7' : t.outflows <= s2' /\ t.outflows # s2'
      BY <2>1, <2>3
    <3> QED
      BY <2>1, <3>2, <3>3
  <2> QED
    BY <1>7, <2>2, <2>3 DEF Payout!Mined
<1>8. CASE Payout!Credited
  BY <1>8 DEF Payout!Credited
<1>9. CASE Payout!PaidElsewhere
  <2>1. s1' >= 0 /\ s2' = s2 + 1 /\ s7' = s7
    BY <1>9 DEF Payout!PaidElsewhere
  <2>2. \A t \in s7' : t.outflows <= s2' /\ t.outflows # s2'
    BY <2>1
  <2> QED
    BY <2>1, <2>2
<1>10. CASE UNCHANGED Payout!vars
  BY <1>1, <1>10 DEF Payout!vars
<1> QED
  BY <1>2, <1>3, <1>4, <1>5, <1>6, <1>7, <1>8, <1>9, <1>10 DEF Payout!Next

\* What a payout pays and leaves is what its review said.
LEMMA PaysAsTold ==
  ASSUME PayTyped, PayCovers
  PROVE  Payout!PaysAsToldStep
<1> SUFFICES ASSUME NEW s \in s7, Payout!Mined(s), s2 = s.outflows
             PROVE  s1 - s1' >= s.units /\ s1' >= s.left /\ (s.kind = "all" => s1' = 0)
  BY DEF Payout!PaysAsToldStep
<1>1. /\ s.units > 0 /\ s.left >= 0 /\ (s.kind = "all" => s.left = 0) /\ s1 >= s.units + s.left
      /\ s.units \in Int /\ s.left \in Int /\ s1 \in Int /\ s1 >= 0 /\ s2 \in Int
  BY DEF PayCovers, PayTyped, PaySigns, payPanel, payGeneration, paySigns
<1>2. s.units <= s1
  BY <1>1
<1> QED
  BY <1>1, <1>2 DEF Payout!Mined, Payout!Pays, Payout!money

-----------------------------------------------------------------------------
(* All of them: what each part that signs keeps to itself.                  *)

ButtonsInv ==
    /\ part = "pageTx" => TxInv
    /\ part = "form" => FormInv
    /\ part = "payout" => PayInv
    /\ part = "desk" => Desk!ButtonInv
    /\ part = "longDesk" => LongDesk!ButtonInv

\* What is known of the sizes of the owner's part.
LEMMA DesksFit ==
  /\ DeskSize.MaxTime \in Nat \ {0} /\ Desk!SwitchAssumption /\ Desk!DeskAssumption
  /\ LongDeskSize.MaxTime \in Nat \ {0} /\ LongDesk!SwitchAssumption /\ LongDesk!DeskAssumption
BY SiteAssumption DEF SiteAssumption

\* A step of the run is a step of its part, and a behaviour keeps to its part.
LEMMA StepOfItsPart ==
  ASSUME [SiteNext]_siteVars
  PROVE  /\ part' = part
         /\ part = "pageTx" => [Tx!PageNext]_Tx!pageVars
         /\ part = "form" => [Form!Next]_Form!formVars
         /\ part = "payout" => [Payout!Next]_Payout!vars
         /\ part = "desk" => [Desk!DeskNext]_Desk!deskVars
         /\ part = "longDesk" => [LongDesk!DeskNext]_LongDesk!deskVars
<1>1. CASE SiteNext
  BY <1>1 DEF SiteNext
<1>2. CASE UNCHANGED siteVars
  BY <1>2 DEF siteVars, Tx!pageVars, Form!formVars, Payout!vars, Desk!deskVars, Desk!switchVars,
              LongDesk!deskVars, LongDesk!switchVars
<1> QED
  BY <1>1, <1>2

LEMMA ButtonsStart ==
  ASSUME SiteInit
  PROVE  ButtonsInv
BY DesksFit, TxStart, FormStart, PayStart, Desk!ButtonStart, LongDesk!ButtonStart DEF SiteInit, ButtonsInv

LEMMA ButtonsStep ==
  ASSUME ButtonsInv, [SiteNext]_siteVars
  PROVE  ButtonsInv'
BY DesksFit, StepOfItsPart, TxStep, FormStep, PayStep, Desk!ButtonStep, LongDesk!ButtonStep DEF ButtonsInv

LEMMA ButtonsPromise ==
  ASSUME ButtonsInv
  PROVE  NothingSignedTwice
BY DesksFit, TxPromises, FormPromises, PayPromise, Desk!ButtonsAreOne, LongDesk!ButtonsAreOne
   DEF ButtonsInv, NothingSignedTwice, OfferedMeansNothingHappened, DoneAtMostOnce, VerdictsTrue,
       OneSignButton, OneCreatePerReview

\* What was decided once is not signed or mined twice (runTx, watchUnsettled, the
\* panels' reviews): whatever the wallet, the network and the reads answer, in
\* whatever order.
THEOREM SignedOnce == SiteSpec => []NothingSignedTwice
<1>1. SiteInit => ButtonsInv
  BY ButtonsStart
<1>2. ButtonsInv /\ [SiteNext]_siteVars => ButtonsInv'
  BY ButtonsStep
<1>3. ButtonsInv => NothingSignedTwice
  BY ButtonsPromise
<1> QED
  BY <1>1, <1>2, <1>3, PTL DEF SiteSpec

-----------------------------------------------------------------------------
(* The switch: what DeadMansSwitch proves for every value of its constants  *)
(* holds for the part "promise".                                            *)

SwitchInv == part = "promise" => Promise!SwitchSound

LEMMA PromiseFits == PromiseSize.MaxTime \in Nat \ {0} /\ Promise!SwitchAssumption
BY SiteAssumption DEF SiteAssumption

\* The switch that the page and the watcher take a vault for keeps its promise
\* to the owner (the contract: EveryVaultIsASwitch).
THEOREM PageSwitchKeepsItsPromises == SiteSpec => SwitchPromises
<1>1. SiteInit => SwitchInv
  BY PromiseFits, Promise!SwitchStarts DEF SiteInit, SwitchInv
<1>2. ASSUME SwitchInv, [SiteNext]_siteVars
      PROVE  /\ SwitchInv'
             /\ ActsBuyTimeStep /\ OnlyTwoWaysOutAtHorizonStep /\ SettledOnlyAfterSilence'
  <2>1. part' = part
    BY <1>2 DEF SiteNext, siteVars
  <2>2. CASE part # "promise"
    BY <2>1, <2>2 DEF SwitchInv, ActsBuyTimeStep, OnlyTwoWaysOutAtHorizonStep, SettledOnlyAfterSilence
  <2>3. CASE part = "promise"
    <3>1. [Promise!SwitchNext]_(Promise!switchVars)
      BY <1>2, <2>3 DEF SiteNext, siteVars, Promise!switchVars
    <3>2. Promise!SwitchSound /\ Promise!SwitchSound'
      BY <1>2, <2>3, <3>1, PromiseFits, Promise!SwitchGoesOn DEF SwitchInv
    <3>3. Promise!ActsBuyTimeStep /\ Promise!OnlyTwoWaysOutAtHorizonStep
      BY <3>1, <3>2, PromiseFits, Promise!ActBuysTime, Promise!TwoWaysOut
    <3>4. Promise!SettledOnlyAfterSilence'
      BY <3>2 DEF Promise!SwitchSound, Promise!WaitedFor, Promise!SettledOnlyAfterSilence
    <3> QED
      BY <2>1, <2>3, <3>2, <3>3, <3>4
         DEF SwitchInv, ActsBuyTimeStep, OnlyTwoWaysOutAtHorizonStep, SettledOnlyAfterSilence
  <2> QED
    BY <2>2, <2>3
<1> QED
  BY <1>1, <1>2, PTL DEF SiteSpec, SwitchPromises

-----------------------------------------------------------------------------
(* An heir's card: the part "heirDesk".  Of the slots, s1 is the time, s2   *)
(* the vault, s3 the panel, s4 its stage, s5 whether it warns, s6 the chain *)
(* time a cancel has read, s7 the vault as it re-read it and s8 when it was *)
(* asked for.                                                               *)

\* What is known of the sizes of this part.
LEMMA HeirFits ==
  HeirSize.MaxTime \in Nat \ {0} /\ Heir!SwitchAssumption /\ Heir!HeirAssumption
BY SiteAssumption DEF SiteAssumption

USE HeirFits

\* What keeps the heir's card true.  Its vault is a sound switch; a claim's panel shows a
\* vault that could be claimed, a cancel's panel a claim that was there when it opened, and
\* any later claim of the vault is made no earlier; the vault a cancel has re-read held
\* that claim; a cancel that was let through without a warning was asked for a margin
\* before that claim could be settled.
CardOf(v) == v.phase \in {"none", "active", "claimed", "settled", "closed"} /\ v.claimedAt \in Nat

HeirInv ==
    /\ Heir!SwitchSound /\ s2.claimedAt <= s1
    /\ Heir!HeirTypeOK
    /\ DOMAIN s3 = {"kind", "view", "finalizableAt", "payee"}
    /\ s3.kind \in {"none", "claim", "cancel", "finalize"}
    /\ s3.finalizableAt \in Nat /\ CardOf(s3.view)
    /\ s6 \in Nat /\ s8 \in Nat
    /\ s4 \in {"form", "reading"} => s3.kind = "claim"
    /\ s4 \in {"offered", "recheck"} => s3.kind \in {"claim", "cancel"}
    /\ s4 = "prompt" => s3.kind # "none"
    /\ s3.kind = "claim" /\ s4 \in {"reading", "offered", "recheck", "prompt"} =>
          s3.view.phase = "active" /\ s3.payee \in Persons
    /\ s3.kind = "cancel" =>
          /\ s3.view.phase = "claimed"
          /\ s3.finalizableAt = s3.view.claimedAt + s2.window
          /\ s3.view.claimedAt <= s1
          /\ s2.phase \in {"claimed", "settled"} => s2.claimedAt >= s3.view.claimedAt
    /\ s6 # 0 => s3.kind = "cancel" /\ s6 >= s8 - HeirSize.ClockError
    /\ DOMAIN s7 = {"read", "vault"}
    /\ s7.vault.phase # "none" =>
          /\ s3.kind = "cancel" /\ s7.vault.phase = "claimed" /\ s7.vault.heir = Me
          /\ s7.vault.payee = s3.view.payee /\ s7.vault.claimedAt = s3.view.claimedAt
          /\ s7.vault.window = s2.window
    /\ s4 = "prompt" /\ s3.kind = "cancel" /\ ~s5 =>
          s8 + HeirSize.CANCEL_MARGIN - HeirSize.ClockError < s3.finalizableAt

\* A vault is a sound switch when the page is opened.
LEMMA HeirStarts == Heir!HeirInit => HeirInv
<1> SUFFICES ASSUME Heir!HeirInit PROVE HeirInv
  OBVIOUS
<1>1. s1 = 1 /\ s1 \in Nat /\ Heir!ClockTypeOK
  BY DEF Heir!HeirInit, Heir!ClockInit, Heir!ClockTypeOK
<1>2. PICK period \in Heir!Periods, window \in Heir!Windows, horizon \in Heir!Horizons :
        s2 = Heir!Restarted([Heir!Unarmed EXCEPT !.phase = "active", !.heir = Me,
                  !.period = period, !.horizon = horizon, !.window = window], s1)
  BY DEF Heir!HeirInit
<1>3. s2 = Heir!ArmedAs(Me, period, window, horizon, s1)
  BY <1>2 DEF Heir!ArmedAs
<1>4. period \in Nat /\ window \in Nat /\ horizon \in Nat /\ Me \in Persons
  BY DEF Heir!Periods, Heir!Windows, Heir!Horizons, Heir!SwitchAssumption,
     Heir!HeirAssumption
<1>5. /\ s2 \in Heir!Switches /\ Heir!ClaimFieldsFit(s2) /\ Heir!WaitedFor(s2, s1)
      /\ s2.claimedAt = 0 /\ s2.phase = "active"
  <2> DEFINE s == Heir!ArmedAs(Me, period, window, horizon, s1)
  <2>1. /\ s \in Heir!Switches /\ Heir!ClaimFieldsFit(s) /\ Heir!WaitedFor(s, s1)
        /\ s.claimedAt = 0 /\ s.phase = "active"
    BY <1>1, <1>4, Heir!ArmedIs
  <2> QED
    BY <1>3, <2>1
<1>6. Heir!SwitchSound /\ Heir!SwitchTypeOK
  BY <1>1, <1>5 DEF Heir!SwitchSound, Heir!SwitchTypeOK, Heir!ClaimFieldsFit
<1>7. /\ s3 = Heir!NoPanel /\ s4 = "closed" /\ s5 = FALSE /\ s6 = 0 /\ s8 = 0
      /\ s7 = Heir!NotReread
  BY DEF Heir!HeirInit
<1> QED
  BY <1>1, <1>5, <1>6, <1>7 DEF HeirInv, Heir!HeirTypeOK, Heir!NoPanel, Heir!NoView, Heir!NotReread,
     Heir!Unarmed, CardOf

\* A mined call is a step of the switch, as whatever others do is.
LEMMA HeirStepsSwitch ==
  ASSUME HeirInv, Heir!HeirNext
  PROVE  UNCHANGED Heir!switchVars \/ Heir!LaterStep
<1>1. CASE UNCHANGED Heir!switchVars
  BY <1>1
<1>2. CASE Heir!Mined
  <2>1. s3.kind \in {"none", "claim", "cancel", "finalize"} /\ s4 = "prompt" /\ s1' = s1
        /\ (s3.kind = "claim" => s3.payee \in Persons)
    BY <1>2 DEF Heir!Mined, HeirInv
  <2>2. CASE ~Heir!Accepts(s3)
    BY <1>2, <2>1, <2>2 DEF Heir!Mined, Heir!switchVars
  <2>3. CASE Heir!Accepts(s3) /\ s3.kind = "claim"
    <3>1. Heir!CanClaim(s2, s1) /\ Heir!Becoming(Heir!ClaimedBy(s2, s1, s3.payee))
      BY <1>2, <2>1, <2>3 DEF Heir!Mined, Heir!Accepts, Heir!AfterCall, Heir!Becoming
    <3> QED
      BY <2>1, <2>3, <3>1 DEF Heir!Claim, Heir!LaterStep, Heir!HeirActs
  <2>4. CASE Heir!Accepts(s3) /\ s3.kind = "cancel"
    <3>1. s2.phase = "claimed" /\ Heir!Becoming(Heir!Unclaimed(s2))
      BY <1>2, <2>1, <2>4 DEF Heir!Mined, Heir!Accepts, Heir!AfterCall, Heir!Becoming
    <3> QED
      BY <3>1 DEF Heir!CancelClaim, Heir!LaterStep, Heir!HeirActs
  <2>5. CASE Heir!Accepts(s3) /\ s3.kind = "finalize"
    <3>1. Heir!CanSettle(s2, s1) /\ Heir!Becoming([s2 EXCEPT !.phase = "settled"])
      BY <1>2, <2>1, <2>5 DEF Heir!Mined, Heir!Accepts, Heir!AfterCall, Heir!Becoming
    <3> QED
      BY <3>1 DEF Heir!Settle, Heir!LaterStep
  <2>6. CASE Heir!Accepts(s3) /\ s3.kind = "none"
    <3>1. s4 = "prompt" => s3.kind # "none"
      BY DEF HeirInv
    <3> QED
      BY <2>1, <2>6, <3>1
  <2> QED
    BY <2>1, <2>2, <2>3, <2>4, <2>5, <2>6
<1>3. CASE Heir!OthersAct
  BY <1>3 DEF Heir!OthersAct, Heir!LaterStep
<1> QED
  BY <1>1, <1>2, <1>3 DEF Heir!HeirNext, Heir!OpenClaim, Heir!OpenCancel, Heir!OpenFinalize, Heir!Opened,
     Heir!ClosePanel,
     Heir!ReviewReads, Heir!ReviewShown, Heir!ReviewAgain, Heir!MovesTo, Heir!Click, Heir!ClockRead, Heir!VaultRead,
        Heir!RecheckRefuses,
     Heir!SignClaim, Heir!SignCancel, Heir!Decline

\* A step under which the panel stays as it is: what it shows of a claim stays the
\* latest it can be.
LEMMA PanelOutlasts ==
  ASSUME HeirInv, UNCHANGED Heir!switchVars \/ Heir!LaterStep
  PROVE  /\ Heir!SwitchSound' /\ Heir!SwitchTypeOK' /\ (s2.claimedAt <= s1)'
         /\ s1' \in Nat /\ s1' >= s1 /\ s2'.window = s2.window
         /\ s2.window \in Nat /\ s2.claimedAt \in Nat /\ s1 \in Nat
         /\ \A n \in Nat :
               /\ n <= s1
               /\ s2.phase \in {"claimed", "settled"} => s2.claimedAt >= n
               => (s2'.phase \in {"claimed", "settled"} => s2'.claimedAt >= n)
<1>1. Heir!SwitchSound /\ s1 \in Nat /\ s2 \in Heir!Switches /\ s2.claimedAt <= s1
  BY DEF HeirInv, Heir!SwitchSound, Heir!ClockTypeOK
<1>2. [Heir!SwitchNext]_(Heir!switchVars)
  BY DEF Heir!LaterStep, Heir!SwitchNext
<1>3. Heir!SwitchSound'
  BY <1>1, <1>2, Heir!SwitchGoesOn
<1>4. Heir!SwitchTypeOK'
  BY <1>3 DEF Heir!SwitchSound, Heir!SwitchTypeOK, Heir!ClaimFieldsFit
<1>5. s2.window \in Nat /\ s2.claimedAt \in Nat
  BY <1>1 DEF Heir!Switches
<1>6. CASE UNCHANGED Heir!switchVars
  BY <1>1, <1>3, <1>4, <1>5, <1>6 DEF Heir!switchVars
<1>7. CASE Heir!LaterStep
  <2>1. /\ s1' \in Nat /\ s1' >= s1 /\ s2'.window = s2.window
        /\ s2'.claimedAt \in {0, s2.claimedAt, s1}
        /\ s2'.phase \in {"claimed", "settled"} =>
              \/ s2.phase \in {"claimed", "settled"} /\ s2'.claimedAt = s2.claimedAt
              \/ s2'.claimedAt = s1
    BY <1>1, <1>7, Heir!SwitchStepLeaves
  <2> QED
    BY <1>1, <1>3, <1>4, <1>5, <2>1
<1> QED
  BY <1>6, <1>7

\* Every step keeps it.
LEMMA HeirGoesOn ==
  ASSUME HeirInv, [Heir!HeirNext]_(Heir!heirVars)
  PROVE  HeirInv'
<1>1. UNCHANGED Heir!switchVars \/ Heir!LaterStep
  BY HeirStepsSwitch DEF Heir!heirVars
<1>2. /\ Heir!SwitchSound' /\ Heir!SwitchTypeOK' /\ (s2.claimedAt <= s1)'
      /\ s1' \in Nat /\ s1' >= s1 /\ s2'.window = s2.window
      /\ s2.window \in Nat /\ s2.claimedAt \in Nat /\ s1 \in Nat
  BY <1>1, PanelOutlasts
\* The vault as the page reads it.
<1>3. /\ Heir!View.phase = s2.phase /\ Heir!View.claimedAt = s2.claimedAt /\ CardOf(Heir!View)
      /\ Heir!View.payee = s2.payee
  BY DEF HeirInv, Heir!SwitchSound, Heir!View, Heir!ViewOf, CardOf, Heir!Switches
<1>4. /\ s2.claimedAt <= s1 /\ HeirSize.CANCEL_MARGIN \in Nat /\ HeirSize.ClockError \in Nat
      /\ Me \in Persons
  BY DEF HeirInv, Heir!HeirAssumption
\* What the page keeps of it.
<1>5. /\ DOMAIN s3 = {"kind", "view", "finalizableAt", "payee"}
      /\ s3.kind \in {"none", "claim", "cancel", "finalize"}
      /\ s3.finalizableAt \in Nat /\ CardOf(s3.view)
      /\ s6 \in Nat /\ s8 \in Nat
      /\ s4 \in {"closed", "form", "reading", "offered", "recheck", "prompt"}
      /\ s5 => s3.kind = "cancel"
      /\ s6 # 0 => s4 = "recheck" /\ s3.kind = "cancel" /\ s6 >= s8 - HeirSize.ClockError
      /\ DOMAIN s7 = {"read", "vault"} /\ (s7 # Heir!NotReread => s4 = "recheck" /\ s3.kind = "cancel")
      /\ s4 \in {"form", "reading"} => s3.kind = "claim"
      /\ s4 \in {"offered", "recheck"} => s3.kind \in {"claim", "cancel"}
      /\ s4 = "prompt" => s3.kind # "none"
      /\ s3.kind = "claim" /\ s4 \in {"reading", "offered", "recheck", "prompt"} =>
            s3.view.phase = "active" /\ s3.payee \in Persons
      /\ s3.kind = "cancel" =>
            s3.view.phase = "claimed" /\ s3.finalizableAt = s3.view.claimedAt + s2.window
      /\ s3.kind = "cancel" => s3.view.claimedAt <= s1
      /\ s4 = "prompt" /\ s3.kind = "cancel" /\ ~s5 =>
            s8 + HeirSize.CANCEL_MARGIN - HeirSize.ClockError < s3.finalizableAt
  BY DEF HeirInv, Heir!HeirTypeOK
<1> DEFINE RereadHolds ==
      s7'.vault.phase # "none" =>
        /\ s3'.kind = "cancel" /\ s7'.vault.phase = "claimed" /\ s7'.vault.heir = Me
        /\ s7'.vault.payee = s3'.view.payee /\ s7'.vault.claimedAt = s3'.view.claimedAt
        /\ s7'.vault.window = s2'.window
<1>51. s3' = s3 /\ s7' = s7 => RereadHolds
  BY <1>2 DEF HeirInv
<1>52. s7' = Heir!NotReread => RereadHolds /\ DOMAIN s7' = {"read", "vault"}
  BY DEF Heir!NotReread, Heir!Unarmed
<1>53. s4 # "recheck" /\ s7' = s7 => s7' = Heir!NotReread
  BY <1>5
<1> HIDE DEF RereadHolds
<1> DEFINE CancelLasts ==
      s3'.kind = "cancel" =>
        /\ s3'.view.claimedAt <= s1'
        /\ s2'.phase \in {"claimed", "settled"} => s2'.claimedAt >= s3'.view.claimedAt
<1>6. s3' = s3 => CancelLasts
  <2>1. /\ s3.kind = "cancel" => s3.view.claimedAt <= s1
        /\ s3.kind = "cancel" =>
             (s2.phase \in {"claimed", "settled"} => s2.claimedAt >= s3.view.claimedAt)
        /\ s3.view.claimedAt \in Nat
    BY DEF HeirInv, CardOf
  <2> QED
    BY <1>1, <1>2, <2>1, PanelOutlasts
<1>7. s3'.kind # "cancel" => CancelLasts
  OBVIOUS
<1> HIDE DEF CancelLasts
<1>8. SUFFICES ASSUME Heir!HeirNext PROVE HeirInv'
  <2>1. CASE UNCHANGED Heir!heirVars
    <3>1. s3' = s3 /\ s4' = s4 /\ s5' = s5 /\ s6' = s6 /\ s7' = s7 /\ s8' = s8
      BY <2>1 DEF Heir!heirVars
    <3>2. CancelLasts /\ RereadHolds
      BY <1>6, <1>51, <3>1
    <3> QED
      BY <1>2, <1>5, <3>1, <3>2 DEF HeirInv, Heir!HeirTypeOK, CancelLasts, RereadHolds
  <2> QED
    BY <1>8, <2>1
\* A panel that is opened.
<1>9. Heir!FinalizableAt(s2) \in Nat /\ Heir!FinalizableAt(s2) = s2.claimedAt + s2.window
  BY <1>2 DEF Heir!FinalizableAt
<1>10. CASE Heir!OpenClaim
  <2>1. /\ DOMAIN s3' = {"kind", "view", "finalizableAt", "payee"}
        /\ s3'.kind = "claim" /\ s3'.view = Heir!View /\ s3'.finalizableAt \in Nat
        /\ s4' = "form" /\ s5' = FALSE /\ s6' = 0 /\ s8' = 0 /\ s7' = Heir!NotReread
    BY <1>9, <1>10 DEF Heir!OpenClaim, Heir!Opened
  <2> QED
    BY <1>2, <1>3, <1>7, <1>52, <2>1 DEF HeirInv, Heir!HeirTypeOK, RereadHolds
<1>11. CASE Heir!OpenCancel
  <2>1. /\ DOMAIN s3' = {"kind", "view", "finalizableAt", "payee"}
        /\ s3'.kind = "cancel" /\ s3'.view = Heir!View
        /\ s3'.finalizableAt = Heir!FinalizableAt(s2)
        /\ s4' = "offered" /\ s6' = 0 /\ s8' = 0 /\ s7' = Heir!NotReread
        /\ s2.phase = "claimed" /\ s2' = s2 /\ s1' = s1
    BY <1>11 DEF Heir!OpenCancel, Heir!Opened, Heir!switchVars
  <2> QED
    BY <1>2, <1>3, <1>4, <1>9, <1>52, <2>1 DEF HeirInv, Heir!HeirTypeOK, RereadHolds
<1>12. CASE s4 \in {"closed", "form", "offered"} /\ Heir!OpenFinalize
  <2>1. /\ DOMAIN s3' = {"kind", "view", "finalizableAt", "payee"}
        /\ s3'.kind = "finalize" /\ s3'.finalizableAt = 0 /\ s3'.view = Heir!NoView
        /\ s4' = "prompt" /\ s5' = FALSE /\ s6' = 0 /\ s8' = s1 /\ s7' = Heir!NotReread
    BY <1>5, <1>12 DEF Heir!OpenFinalize, Heir!NoPanel
  <2>2. CardOf(Heir!NoView)
    BY DEF CardOf, Heir!NoView
  <2> QED
    BY <1>2, <1>52, <2>1, <2>2 DEF HeirInv, Heir!HeirTypeOK, RereadHolds
<1>13. CASE Heir!ClosePanel \/ Heir!Mined
  <2>1. s3' = Heir!NoPanel /\ s4' = "closed" /\ s5' = FALSE /\ s6' = s6 /\ s7' = s7 /\ s8' = s8
        /\ s4 \in {"form", "offered", "prompt"}
    BY <1>13 DEF Heir!ClosePanel, Heir!Mined
  <2>2. /\ DOMAIN s3' = {"kind", "view", "finalizableAt", "payee"}
        /\ s6 = 0 /\ s3'.kind = "none" /\ s3'.finalizableAt = 0 /\ s3'.view = Heir!NoView
    BY <1>5, <2>1 DEF Heir!NoPanel
  <2>3. CardOf(Heir!NoView)
    BY DEF CardOf, Heir!NoView
  <2> QED
    BY <1>2, <1>5, <1>52, <1>53, <2>1, <2>2, <2>3 DEF HeirInv, Heir!HeirTypeOK, RereadHolds
<1>14. CASE Heir!ReviewReads
  <2>1. PICK payee \in Persons :
          /\ s3' = [s3 EXCEPT !.view = Heir!View, !.payee = payee]
          /\ IF Heir!CanClaim(s2, s1) /\ s2.heir = Me
             THEN Heir!MovesTo(IF payee = Me THEN "offered" ELSE "reading")
             ELSE Heir!MovesTo("form")
    BY <1>14 DEF Heir!ReviewReads
  <2> QED
    <3>1. /\ DOMAIN s3' = DOMAIN s3 /\ s3'.kind = s3.kind /\ s3.kind = "claim"
          /\ s3'.view = Heir!View /\ s3'.payee = payee /\ s3'.finalizableAt = s3.finalizableAt
      BY <1>5, <1>14, <2>1 DEF Heir!ReviewReads
    <3>2. /\ s4' \in {"form", "offered", "reading"} /\ s6' = 0
          /\ s4' # "form" => s2.phase = "active"
          /\ s5' = s5 /\ s8' = s8 /\ s7' = Heir!NotReread
      BY <1>5, <1>14, <1>53, <2>1 DEF Heir!ReviewReads, Heir!MovesTo, Heir!CanClaim
    <3> QED
      BY <1>2, <1>3, <1>5, <1>52, <3>1, <3>2 DEF HeirInv, Heir!HeirTypeOK, RereadHolds
\* The panel stays, and its handler goes on.
<1>15. s3' = s3 => CancelLasts /\ DOMAIN s3' = DOMAIN s3
  BY <1>6
<1>16. CASE Heir!ReviewShown \/ Heir!ReviewAgain
  <2>1. /\ s3' = s3 /\ s5' = s5 /\ s6' = s6 /\ s7' = Heir!NotReread /\ s8' = s8 /\ s6 = 0
        /\ s4 \in {"reading", "offered"} /\ s3.kind = "claim" /\ s4' \in {"form", "offered"}
    BY <1>5, <1>16, <1>53 DEF Heir!ReviewShown, Heir!ReviewAgain, Heir!MovesTo
  <2> QED
    BY <1>2, <1>5, <1>15, <1>52, <2>1 DEF HeirInv, Heir!HeirTypeOK, CancelLasts, RereadHolds
<1>17. CASE Heir!Click
  <2>1. /\ s3' = s3 /\ s5' = s5 /\ s6' = s6 /\ s7' = Heir!NotReread /\ s8' = s8
        /\ s4 = "offered" /\ s4' = "recheck"
    BY <1>17, <1>53 DEF Heir!Click, Heir!MovesTo
  <2> QED
    BY <1>2, <1>5, <1>15, <1>52, <2>1 DEF HeirInv, Heir!HeirTypeOK, CancelLasts, RereadHolds
<1>18. CASE Heir!RecheckRefuses
  <2>1. /\ s3' = s3 /\ s5' = s5 /\ s6' = 0 /\ s7' = Heir!NotReread /\ s8' = s8
        /\ s4 = "recheck" /\ s4' = "offered"
    BY <1>18 DEF Heir!RecheckRefuses
  <2> QED
    BY <1>2, <1>5, <1>15, <1>52, <2>1 DEF HeirInv, Heir!HeirTypeOK, CancelLasts, RereadHolds
<1>19. CASE Heir!SignClaim
  <2>1. /\ s3' = s3 /\ s5' = s5 /\ s6' = s6 /\ s6 = 0 /\ s7' = s7 /\ s7 = Heir!NotReread
        /\ s3.kind = "claim" /\ s4 = "recheck" /\ s4' \in {"form", "prompt"}
        /\ s8' \in {s8, s1}
    BY <1>5, <1>19 DEF Heir!SignClaim
  <2> QED
    BY <1>2, <1>5, <1>15, <1>52, <2>1 DEF HeirInv, Heir!HeirTypeOK, CancelLasts, RereadHolds
<1>20. CASE Heir!SignCancel
  <2>1. /\ s3' = s3 /\ s6' = 0 /\ s7' = Heir!NotReread /\ s8' = s8 /\ s3.kind = "cancel"
        /\ s4 = "recheck" /\ s6 >= s8 - HeirSize.ClockError
        /\ \/ s4' = "offered" /\ s5'
           \/ s4' = "prompt" /\ s5' = s5 /\ (s5 \/ ~Heir!isLate(s6))
    BY <1>5, <1>20 DEF Heir!SignCancel, Heir!BothRead
  <2>2. s4' = "prompt" /\ ~s5' => s8 + HeirSize.CANCEL_MARGIN - HeirSize.ClockError < s3.finalizableAt
    BY <1>4, <1>5, <2>1 DEF Heir!isLate
  <2> QED
    BY <1>2, <1>5, <1>15, <1>52, <2>1, <2>2 DEF HeirInv, Heir!HeirTypeOK, CancelLasts, RereadHolds
<1>21. CASE Heir!Decline
  <2>1. /\ s3' = s3 /\ s5' = s5 /\ s6' = s6 /\ s6 = 0 /\ s7' = Heir!NotReread /\ s8' = s8
        /\ s4 = "prompt" /\ s4' = IF s3.kind = "finalize" THEN "closed" ELSE "offered"
    BY <1>5, <1>21, <1>53 DEF Heir!Decline
  <2> QED
    BY <1>2, <1>5, <1>15, <1>52, <2>1 DEF HeirInv, Heir!HeirTypeOK, CancelLasts, RereadHolds
<1>22. CASE Heir!ClockRead
  <2>1. /\ s3' = s3 /\ s4' = s4 /\ s4 = "recheck" /\ s5' = s5 /\ s7' = s7
        /\ s3.kind = "cancel" /\ s8' = s1 /\ s6' \in Heir!chainNow
    BY <1>22 DEF Heir!ClockRead
  <2>2. s6' \in Nat /\ s6' >= s1 - HeirSize.ClockError
    <3>1. PICK t \in Heir!chainNow : s6' = t
      BY <2>1
    <3>2. t = s1 \/ (t \in 1..(HeirSize.MaxTime + HeirSize.ClockError) /\ t >= s1 - HeirSize.ClockError)
      BY <1>2, <1>4 DEF Heir!chainNow
    <3>3. HeirSize.MaxTime \in Nat
      OBVIOUS
    <3> QED
      BY <1>2, <1>4, <3>1, <3>2, <3>3
  <2>3. CancelLasts /\ RereadHolds
    BY <1>6, <1>51, <2>1
  <2> QED
    BY <1>2, <1>5, <2>1, <2>2, <2>3 DEF HeirInv, Heir!HeirTypeOK, CancelLasts, RereadHolds
<1>23. CASE Heir!VaultRead
  <2>1. /\ s1' = s1 /\ s2' = s2 /\ s3' = s3 /\ s4' = s4 /\ s4 = "recheck" /\ s5' = s5
        /\ s6' = s6 /\ s8' = s8 /\ s3.kind = "cancel" /\ DOMAIN s7' = {"read", "vault"}
        /\ \/ ~Heir!Changed /\ s7'.vault = s2
           \/ s7'.vault = Heir!Unarmed
    BY <1>23 DEF Heir!VaultRead, Heir!switchVars
  <2>2. ASSUME ~Heir!Changed, s7'.vault = s2
        PROVE  RereadHolds
    <3>1. s2.heir = Me /\ ~Heir!vaultChange(s3.view, Heir!View)
      BY <2>2 DEF Heir!Changed
    <3>2. /\ s2.phase = s3.view.phase
          /\ s2.phase = "claimed" => s2.claimedAt = s3.view.claimedAt /\ s2.payee = s3.view.payee
      BY <3>1 DEF Heir!vaultChange, Heir!View, Heir!ViewOf
    <3>3. s3.view.phase = "claimed"
      BY <1>5, <2>1
    <3> QED
      BY <2>1, <2>2, <3>1, <3>2, <3>3 DEF RereadHolds
  <2>3. s7'.vault = Heir!Unarmed => RereadHolds
    BY DEF RereadHolds, Heir!Unarmed
  <2>4. RereadHolds /\ CancelLasts
    BY <1>6, <2>1, <2>2, <2>3
  <2> QED
    BY <1>2, <1>5, <2>1, <2>4 DEF HeirInv, Heir!HeirTypeOK, CancelLasts, RereadHolds
<1>24. CASE Heir!OthersAct
  <2>1. s3' = s3 /\ s4' = s4 /\ s5' = s5 /\ s6' = s6 /\ s7' = s7 /\ s8' = s8
    BY <1>24 DEF Heir!OthersAct, Heir!heirOnly
  <2>2. CancelLasts /\ RereadHolds
    BY <1>6, <1>51, <2>1
  <2> QED
    BY <1>2, <1>5, <2>1, <2>2 DEF HeirInv, Heir!HeirTypeOK, CancelLasts, RereadHolds
<1> QED
  BY <1>8, <1>10, <1>11, <1>12, <1>13, <1>14, <1>16, <1>17, <1>18, <1>19, <1>20, <1>21, <1>22, <1>23, <1>24
     DEF Heir!HeirNext

\* What is asked of the wallet works, and a cancel without a warning is in time.
LEMMA HeirStepsTrue ==
  ASSUME HeirInv, [Heir!HeirNext]_(Heir!heirVars)
  PROVE  Heir!AskedOnlyWhatWorksStep /\ Heir!UnwarnedCancelInTimeStep
<1>1. /\ s1 \in Nat /\ s2 \in Heir!Switches /\ Heir!SwitchSound
      /\ HeirSize.CANCEL_MARGIN \in Nat /\ HeirSize.ClockError \in Nat
  BY DEF HeirInv, Heir!SwitchSound, Heir!ClockTypeOK, Heir!HeirAssumption
<1>2. Heir!AskedOnlyWhatWorksStep
  <2>1. SUFFICES ASSUME s4 = "recheck", s4' = "prompt"
                 PROVE  /\ s3.kind = "claim" => Heir!Accepts(s3)
                        /\ s3.kind = "cancel" =>
                              /\ s7.vault.payee = s3.view.payee
                              /\ Heir!FinalizableAt(s7.vault) = s3.finalizableAt
                              /\ s2 = s7.vault => Heir!Accepts(s3)
    BY DEF Heir!AskedOnlyWhatWorksStep
  <2>2. \/ s3.kind = "claim" /\ ~Heir!Changed /\ Heir!IsExpired(s2, s1)
        \/ s3.kind = "cancel" /\ Heir!AsShown
    BY <2>1 DEF Heir!HeirNext, Heir!heirVars, Heir!OpenClaim, Heir!OpenCancel, Heir!OpenFinalize,
       Heir!Opened, Heir!ClosePanel,
       Heir!ReviewReads, Heir!ReviewShown, Heir!ReviewAgain, Heir!MovesTo, Heir!Click, Heir!ClockRead,
          Heir!VaultRead, Heir!RecheckRefuses,
       Heir!SignClaim, Heir!SignCancel, Heir!Decline, Heir!Mined, Heir!OthersAct, Heir!heirOnly
  <2>3. CASE s3.kind = "claim"
    <3>1. s2.heir = Me /\ ~Heir!vaultChange(s3.view, Heir!View)
      BY <2>2, <2>3 DEF Heir!Changed
    <3>2. s2.phase = s3.view.phase
      BY <3>1 DEF Heir!vaultChange, Heir!View, Heir!ViewOf
    <3>3. s2.phase = "active"
      BY <2>1, <2>3, <3>2 DEF HeirInv
    <3> QED
      BY <2>2, <2>3, <3>1, <3>3 DEF Heir!Accepts, Heir!CanClaim
  <2>4. CASE s3.kind = "cancel"
    <3>1. /\ s7.vault.phase = "claimed" /\ s7.vault.heir = Me
          /\ s7.vault.payee = s3.view.payee
          /\ s7.vault.claimedAt = s3.view.claimedAt /\ s7.vault.window = s2.window
          /\ s3.finalizableAt = s3.view.claimedAt + s2.window
      BY <2>2, <2>4 DEF HeirInv, Heir!AsShown
    <3> QED
      BY <2>4, <3>1 DEF Heir!Accepts, Heir!FinalizableAt
  <2> QED
    BY <2>2, <2>3, <2>4
<1>3. Heir!UnwarnedCancelInTimeStep
  <2>1. SUFFICES ASSUME Heir!Mined, s3.kind = "cancel", ~s5,
     s1 <= s8 + HeirSize.CANCEL_MARGIN - HeirSize.ClockError,
                        s2.phase = "settled"
                 PROVE  FALSE
    BY DEF Heir!UnwarnedCancelInTimeStep
  <2>2. s4 = "prompt"
    BY <2>1 DEF Heir!Mined
  <2>3. /\ s8 + HeirSize.CANCEL_MARGIN - HeirSize.ClockError < s3.view.claimedAt + s2.window
        /\ s2.claimedAt >= s3.view.claimedAt
        /\ s8 \in Nat /\ s3.view.claimedAt \in Nat
    BY <2>1, <2>2 DEF HeirInv, CardOf
  <2>4. s2.claimedAt \in Nat /\ s2.window \in Nat /\ s1 >= s2.claimedAt + s2.window
    BY <1>1, <2>1 DEF Heir!SwitchSound, Heir!WaitedFor, Heir!FinalizableAt, Heir!Switches
  <2> QED
    BY <1>1, <2>1, <2>3, <2>4
<1> QED
  BY <1>2, <1>3

HIDE HeirFits

-----------------------------------------------------------------------------
(* Check in on all: the part "checkIns".  s1 is the time, s2 the vaults,    *)
(* s3 the stage, s4 the vaults as read, s5 the chain time as read, s6 the   *)
(* vaults of the batch, s7 what it moved and s8 the report.                 *)

\* What is known of the sizes of this part.
LEMMA CheckInFits ==
  CheckInSize.MaxTime \in Nat \ {0} /\ CheckIns!SwitchAssumption /\ CheckIns!CheckInAssumption
BY SiteAssumption DEF SiteAssumption

USE CheckInFits DEF CheckIns!SwitchAssumption, CheckIns!CheckInAssumption

\* A vault at time t: its deadline lies within a period.
InPeriod(s, t) ==
    /\ DOMAIN s = {"phase", "heir", "deadline", "period", "horizon", "window", "claimedAt", "payee"}
    /\ s.phase \in {"active", "claimed", "settled", "closed"}
    /\ s.deadline \in Int /\ s.horizon \in Int /\ s.period \in CheckIns!Periods
    /\ s.deadline <= t + s.period

\* The inductive invariant: what was read of a vault was one of its states, and
\* its horizon has at most moved away since.
BatchInv ==
    /\ s1 \in 1..CheckInSize.MaxTime
    /\ DOMAIN s2 = Cards /\ \A v \in Cards : InPeriod(s2[v], s1)
    /\ s4.done \in BOOLEAN /\ DOMAIN s8 = Cards
    /\ s4.done => \A v \in Cards :
          /\ s4.of[v].phase \in {"active", "claimed", "settled", "closed"}
          /\ s4.of[v].horizon \in Int /\ s4.of[v].horizon <= s2[v].horizon
          /\ s4.reached[v] \in BOOLEAN /\ (s4.reached[v] => s1 >= s4.of[v].horizon)
    /\ s3 = "sending" => s4.done /\ \A v \in Cards : s8[v] # "checkedIn"

-----------------------------------------------------------------------------
(* One vault. *)

LEMMA RestartedFits ==
  ASSUME NEW s, NEW t \in Int, InPeriod(s, t), NEW u, u = CheckIns!Restarted(s, t)
  PROVE  /\ InPeriod(u, t) /\ u.phase = s.phase /\ u.horizon = s.horizon /\ u.period = s.period
         /\ u.deadline = CheckIns!Sooner(t + s.period, s.horizon)
<1> DEFINE d == CheckIns!Sooner(t + s.period, s.horizon)
<1>1. d \in Int /\ d <= t + s.period
  BY DEF InPeriod, CheckIns!Periods, CheckIns!Sooner
<1>2. u = [s EXCEPT !.deadline = d]
  BY DEF CheckIns!Restarted
<1> HIDE DEF d
<1>3. /\ u.deadline = d /\ u.phase = s.phase /\ u.horizon = s.horizon /\ u.period = s.period
      /\ DOMAIN u = DOMAIN s
  BY <1>2 DEF InPeriod
<1>4. InPeriod(u, t)
  BY <1>1, <1>3 DEF InPeriod
<1> QED
  BY <1>3, <1>4 DEF d

LEMMA ActedFits ==
  ASSUME NEW s, NEW t \in Int, InPeriod(s, t), NEW u, u = CheckIns!Acted(s, t)
  PROVE  InPeriod(u, t) /\ u.horizon = s.horizon
<1> DEFINE w == CheckIns!Unclaimed(s)
<1>1. InPeriod(w, t) /\ w.horizon = s.horizon
  <2>1. CASE s.phase # "claimed"
    BY <2>1 DEF CheckIns!Unclaimed
  <2>2. CASE s.phase = "claimed"
    <3>1. w = [s EXCEPT !.phase = "active", !.claimedAt = 0, !.payee = Absent]
      BY <2>2 DEF CheckIns!Unclaimed
    <3> HIDE DEF w
    <3>2. /\ DOMAIN w = DOMAIN s /\ w.phase = "active" /\ w.deadline = s.deadline
          /\ w.horizon = s.horizon /\ w.period = s.period
      BY <3>1 DEF InPeriod
    <3> QED
      BY <3>2 DEF InPeriod
  <2> QED
    BY <2>1, <2>2
<1>2. u = CheckIns!Restarted(w, t)
  BY DEF CheckIns!Acted
<1> HIDE DEF w
<1> QED
  BY <1>1, <1>2, RestartedFits

\* Whatever else happens to a vault, its horizon does not come nearer.
LEMMA ElsewhereFits ==
  ASSUME NEW s, NEW t \in Int, InPeriod(s, t), NEW u \in CheckIns!Elsewhere(s, t)
  PROVE  InPeriod(u, t) /\ u.horizon >= s.horizon
<1>0. s.horizon \in Int
  BY DEF InPeriod
<1>1. CASE u = CheckIns!Restarted(s, t)
  BY <1>0, <1>1, RestartedFits
<1>2. CASE u = CheckIns!Acted(s, t)
  BY <1>0, <1>2, ActedFits
<1>3. ASSUME NEW h \in CheckIns!Horizons, CheckIns!CanExtend(s, t, h),
   u = CheckIns!Acted([s EXCEPT !.horizon = h], t)
      PROVE  InPeriod(u, t) /\ u.horizon >= s.horizon
  <2> DEFINE w == [s EXCEPT !.horizon = h]
  <2>1. /\ DOMAIN w = DOMAIN s /\ w.phase = s.phase /\ w.deadline = s.deadline
        /\ w.horizon = h /\ w.period = s.period
    BY DEF InPeriod
  <2>2. u = CheckIns!Acted(w, t)
    BY <1>3
  <2> HIDE DEF w
  <2>3. h \in Int /\ h > s.horizon
    BY <1>3 DEF CheckIns!Horizons, CheckIns!CanExtend
  <2>4. InPeriod(w, t)
    BY <2>1, <2>3 DEF InPeriod
  <2>5. InPeriod(u, t) /\ u.horizon = w.horizon
    BY <2>2, <2>4, ActedFits
  <2> QED
    BY <1>0, <2>1, <2>3, <2>5
<1>4. CASE u = [CheckIns!Acted(s, t) EXCEPT !.phase = "closed"]
  <2> DEFINE w == CheckIns!Acted(s, t)
  <2>1. InPeriod(w, t) /\ w.horizon = s.horizon
    BY ActedFits
  <2>2. u = [w EXCEPT !.phase = "closed"]
    BY <1>4
  <2> HIDE DEF w
  <2>3. /\ DOMAIN u = DOMAIN w /\ u.phase = "closed" /\ u.deadline = w.deadline
        /\ u.horizon = w.horizon /\ u.period = w.period
    BY <2>1, <2>2 DEF InPeriod
  <2> QED
    BY <1>0, <2>1, <2>3 DEF InPeriod
<1>5. CASE u = CheckIns!ClaimedBy(s, t, s.heir) \/ u = [s EXCEPT !.phase = "settled"]
  <2>1. /\ DOMAIN u = DOMAIN s /\ u.phase \in {"claimed", "settled"} /\ u.deadline = s.deadline
        /\ u.horizon = s.horizon /\ u.period = s.period
    BY <1>5 DEF CheckIns!ClaimedBy, InPeriod
  <2> QED
    BY <1>0, <2>1 DEF InPeriod
<1> QED
  BY <1>1, <1>2, <1>3, <1>4, <1>5, Zenon DEF CheckIns!Elsewhere

\* What a SKIP code says of a vault at time t.
IsSo(code, s, t) ==
    /\ code = "claimPending" => s.phase = "claimed" /\ ~CheckIns!AtHorizon(s, t)
    /\ code = "claimPastHorizon" => s.phase = "claimed" /\ CheckIns!AtHorizon(s, t)
    /\ code = "horizonReached" => s.phase = "active" /\ CheckIns!AtHorizon(s, t)
    /\ code = "pinned" => s.phase = "active" /\ s.deadline >= s.horizon
    /\ code = "nothing" => s.phase = "active" /\ ~CheckIns!AtHorizon(s, t) /\ ~(s.deadline >= s.horizon)
    /\ code = "repeated" => ~(CheckIns!Restarted(s, t).deadline > s.deadline)
    /\ code \in {"nothing", "terminal", "repeated", "horizonReached", "pinned", "claimPending",
                 "claimPastHorizon"}

LEMMA SkippedIsSo ==
  ASSUME NEW s, NEW t \in Int, InPeriod(s, t)
  PROVE  IsSo(CheckIns!SkipReason(s, t), s, t)
<1> DEFINE again == CheckIns!Restarted(s, t).deadline <= s.deadline
<1>1. again => ~(CheckIns!Restarted(s, t).deadline > s.deadline)
  BY RestartedFits DEF InPeriod
<1>2. CheckIns!SkipReason(s, t) =
        IF s.phase = "claimed" THEN IF CheckIns!AtHorizon(s, t) THEN "claimPastHorizon" ELSE "claimPending"
        ELSE IF s.phase # "active" THEN "terminal"
        ELSE IF CheckIns!AtHorizon(s, t) THEN "horizonReached"
        ELSE IF s.deadline >= s.horizon THEN "pinned"
        ELSE IF again THEN "repeated" ELSE "nothing"
  BY DEF CheckIns!SkipReason, InPeriod
<1> HIDE DEF again
<1> QED
  BY <1>1, <1>2 DEF IsSo, InPeriod

\* The page's check of a vault that was read, by a time that is not after t.
LEMMA BlockerIs ==
  ASSUME NEW s, s.phase \in {"active", "claimed", "settled", "closed"}, NEW reached \in BOOLEAN, NEW t
  PROVE  CheckIns!checkInBlocker(s, reached, t) =
           IF s.phase = "claimed" THEN IF reached \/ t >= s.horizon THEN "claimPastHorizon" ELSE "claimPending"
           ELSE IF s.phase # "active" THEN "terminal"
           ELSE IF reached \/ t >= s.horizon THEN "horizonReached"
           ELSE IF s.deadline >= s.horizon THEN "pinned" ELSE "nothing"
BY DEF CheckIns!checkInBlocker

LEMMA BlockedIsSo ==
  ASSUME NEW s, NEW t \in Int, InPeriod(s, t), NEW reached \in BOOLEAN, reached => CheckIns!AtHorizon(s, t)
  PROVE  IsSo(CheckIns!checkInBlocker(s, reached, t), s, t)
<1> DEFINE b == CheckIns!checkInBlocker(s, reached, t)
<1>1. b = IF s.phase = "claimed" THEN IF CheckIns!AtHorizon(s,
   t) THEN "claimPastHorizon" ELSE "claimPending"
          ELSE IF s.phase # "active" THEN "terminal"
          ELSE IF CheckIns!AtHorizon(s, t) THEN "horizonReached"
          ELSE IF s.deadline >= s.horizon THEN "pinned" ELSE "nothing"
  BY BlockerIs DEF InPeriod, CheckIns!AtHorizon
<1> HIDE DEF b
<1>2. IsSo(b, s, t)
  BY <1>1 DEF IsSo, InPeriod
<1> QED
  BY <1>2 DEF b

\* The horizon can be moved away from a vault that waits for it.
LEMMA CanBeExtended ==
  ASSUME NEW s, NEW t \in 1..CheckInSize.MaxTime, InPeriod(s, t), CheckIns!IsLive(s),
         CheckIns!AtHorizon(s, t) \/ s.deadline >= s.horizon
  PROVE  \E horizon \in CheckIns!Horizons : CheckIns!CanExtend(s, t, horizon)
<1>1. s.period \in Int /\ s.period <= CheckInSize.MaxPeriod /\ s.horizon < t + CheckInSize.MaxHorizon
  BY DEF InPeriod, CheckIns!Periods, CheckIns!AtHorizon
<1>2. t + CheckInSize.MaxHorizon \in CheckIns!Horizons
  BY DEF CheckIns!Horizons
<1>3. CheckIns!CanExtend(s, t, t + CheckInSize.MaxHorizon)
  BY <1>1 DEF CheckIns!CanExtend
<1> QED
  BY <1>2, <1>3

\* A remedy for what is so is accepted.
LEMMA RemediesWork ==
  ASSUME NEW s, NEW t \in 1..CheckInSize.MaxTime, InPeriod(s, t), NEW code, IsSo(code, s, t),
         NEW remedy \in CheckIns!Remedies(code)
  PROVE  CheckIns!Helps(remedy, s, t)
<1>1. CASE code = "claimPending"
  <2>1. remedy = "veto"
    BY <1>1 DEF CheckIns!Remedies
  <2> QED
    BY <1>1, <2>1 DEF CheckIns!Helps, IsSo, CheckIns!CanVeto
<1>2. CASE code \in {"horizonReached", "pinned"}
  <2>1. remedy = "extend"
    BY <1>2 DEF CheckIns!Remedies
  <2>2. \E horizon \in CheckIns!Horizons : CheckIns!CanExtend(s, t, horizon)
    BY <1>2, CanBeExtended DEF IsSo, CheckIns!IsLive
  <2> QED
    BY <2>1, <2>2 DEF CheckIns!Helps
<1>3. CASE code = "claimPastHorizon"
  <2>1. remedy \in {"stop", "close"}
    BY <1>3 DEF CheckIns!Remedies
  <2>2. \E horizon \in CheckIns!Horizons : CheckIns!CanExtend(s, t, horizon)
    BY <1>3, CanBeExtended DEF IsSo, CheckIns!IsLive
  <2> QED
    BY <1>3, <2>1, <2>2 DEF CheckIns!Helps, IsSo, CheckIns!IsLive
<1>4. CASE code \in {"nothing", "terminal", "repeated"}
  BY <1>4 DEF CheckIns!Remedies
<1> QED
  BY <1>1, <1>2, <1>3, <1>4 DEF IsSo

-----------------------------------------------------------------------------
(* The batch. *)

LEMMA BatchStarts == CheckIns!Init => BatchInv
<1> SUFFICES ASSUME CheckIns!Init
             PROVE  BatchInv
  OBVIOUS
<1>1. s1 = 1 /\ s1 \in 1..CheckInSize.MaxTime
  BY DEF CheckIns!Init, CheckIns!ClockInit
<1>2. ASSUME NEW v \in Cards
      PROVE  InPeriod(s2[v], s1)
  <2>0. s2[v] \in CheckIns!Armed
    BY DEF CheckIns!Init
  <2>1. PICK of \in CheckIns!Terms :
          s2[v] = CheckIns!Restarted([CheckIns!Unarmed EXCEPT !.phase = "active", !.heir = of.heir, !.period = of.period,
                                                              !.horizon = of.horizon, !.window = of.window], 1)
    BY <2>0 DEF CheckIns!Armed
  <2> DEFINE w == [CheckIns!Unarmed EXCEPT !.phase = "active", !.heir = of.heir, !.period = of.period,
                                           !.horizon = of.horizon, !.window = of.window]
  <2>2. /\ DOMAIN w = {"phase", "heir", "deadline", "period", "horizon", "window", "claimedAt", "payee"}
        /\ w.phase = "active" /\ w.deadline = 0 /\ w.horizon = of.horizon /\ w.period = of.period
    BY DEF CheckIns!Unarmed
  <2>5. of.period \in CheckIns!Periods /\ of.horizon \in Int
    BY DEF CheckIns!Terms
  <2>3. s2[v] = CheckIns!Restarted(w, 1)
    BY <2>1
  <2> HIDE DEF w
  <2>4. InPeriod(w, 1)
    BY <2>2, <2>5 DEF InPeriod, CheckIns!Periods
  <2> QED
    BY <1>1, <2>3, <2>4, RestartedFits
<1>3. s4.done = FALSE /\ s3 = "idle" /\ DOMAIN s8 = Cards /\ DOMAIN s2 = Cards
  BY DEF CheckIns!Init, CheckIns!Unread, CheckIns!Nothing
<1> QED
  BY <1>1, <1>2, <1>3 DEF BatchInv

\* As time passes or a vault goes on, what was read stays one of its states.
LEMMA ReadGoesOn ==
  ASSUME BatchInv, s1' \in s1..CheckInSize.MaxTime, DOMAIN s2' = Cards,
         \A v \in Cards : InPeriod(s2'[v], s1') /\ s2'[v].horizon >= s2[v].horizon,
         s4' = s4, DOMAIN s8' = Cards,
         s3' = "sending" => s4.done /\ \A v \in Cards : s8'[v] # "checkedIn"
  PROVE  BatchInv'
<1>1. s1' \in 1..CheckInSize.MaxTime /\ s1 \in Int
  BY DEF BatchInv
<1>2. s4.done => \A v \in Cards : s2[v].horizon \in Int /\ s2'[v].horizon \in Int
  BY DEF BatchInv, InPeriod
<1> QED
  BY <1>1, <1>2 DEF BatchInv

\* Nothing was read yet.
LEMMA NothingReadYet ==
  ASSUME BatchInv, UNCHANGED <<s1, s2>>, s4' = CheckIns!Unread, s8' = CheckIns!Nothing, s3' # "sending"
  PROVE  BatchInv'
<1>1. s4'.done = FALSE /\ DOMAIN s8' = Cards
  BY DEF CheckIns!Unread, CheckIns!Nothing
<1> QED
  BY <1>1 DEF BatchInv

LEMMA BatchGoesOn ==
  ASSUME BatchInv, [CheckIns!Next]_(CheckIns!checkInVars)
  PROVE  BatchInv'
<1>0. s1 \in 1..CheckInSize.MaxTime /\ s1 \in Int /\ \A v \in Cards : InPeriod(s2[v], s1)
  BY DEF BatchInv
<1>1. ASSUME UNCHANGED <<s1, s2, s4>>, DOMAIN s8' = Cards,
             s3' = "sending" => s4.done /\ \A v \in Cards : s8'[v] # "checkedIn"
      PROVE  BatchInv'
  BY <1>0, <1>1, ReadGoesOn DEF BatchInv, InPeriod
<1>2. CASE CheckIns!Click \/ CheckIns!Retired
  BY <1>2, NothingReadYet DEF CheckIns!Click, CheckIns!Retired
<1>3. CASE CheckIns!ReadVaults
  <2> DEFINE r == [v \in Cards |-> CheckIns!AtHorizon(s2[v], s1)]
  <2>1. s4' = [done |-> TRUE, of |-> s2, reached |-> r]
    BY <1>3 DEF CheckIns!ReadVaults
  <2>2. \A v \in Cards : r[v] \in BOOLEAN /\ (r[v] => s1 >= s2[v].horizon)
    <3> TAKE v \in Cards
    <3>1. r[v] = CheckIns!AtHorizon(s2[v], s1)
      OBVIOUS
    <3> HIDE DEF r
    <3>2. CheckIns!AtHorizon(s2[v], s1) \in BOOLEAN /\ (CheckIns!AtHorizon(s2[v],
       s1) => s1 >= s2[v].horizon)
      BY DEF CheckIns!AtHorizon
    <3> QED
      BY <3>1, <3>2, Zenon
  <2>3. UNCHANGED <<s1, s2, s8>> /\ s3' # "sending"
    BY <1>3 DEF CheckIns!ReadVaults
  <2> HIDE DEF r
  <2>4. s4'.done = TRUE /\ s4'.of = s2 /\ s4'.reached = r
    BY <2>1
  <2> QED
    <3>1. \A v \in Cards :
             /\ s4'.of[v].phase \in {"active", "claimed", "settled", "closed"}
             /\ s4'.of[v].horizon \in Int /\ s4'.of[v].horizon <= s2[v].horizon
      BY <1>0, <2>4 DEF InPeriod
    <3>2. \A v \in Cards : s4'.reached[v] \in BOOLEAN /\ (s4'.reached[v] => s1 >= s4'.of[v].horizon)
      BY <2>2, <2>4
    <3> QED
      BY <1>0, <2>3, <2>4, <3>1, <3>2 DEF BatchInv
<1>4. CASE CheckIns!ReadClock
  BY <1>1, <1>4 DEF CheckIns!ReadClock, BatchInv
<1>5. CASE CheckIns!Prefilter
  <2>1. \A v \in Cards : CheckIns!Blocker(v) # "checkedIn"
    BY <1>5, BlockerIs DEF CheckIns!Prefilter, CheckIns!Blocker, BatchInv
  <2>2. /\ UNCHANGED <<s1, s2, s4>> /\ s4.done /\ DOMAIN s8' = Cards
        /\ \A v \in Cards : s8'[v] \in {"nothing", "sending", CheckIns!Blocker(v)}
    BY <1>5 DEF CheckIns!Prefilter
  <2> QED
    BY <1>1, <2>1, <2>2
<1>6. CASE CheckIns!Mined
  <2>1. /\ UNCHANGED <<s1, s4>> /\ s3' = "reported" /\ DOMAIN s8' = Cards /\ DOMAIN s2' = Cards
        /\ \A v \in Cards : s2'[v] = IF v \in CheckIns!CheckedIn THEN CheckIns!Restarted(s2[v], s1) ELSE s2[v]
    BY <1>6 DEF CheckIns!Mined, CheckIns!Reported
  <2>2. \A v \in Cards : InPeriod(s2'[v], s1) /\ s2'[v].horizon >= s2[v].horizon
    <3> SUFFICES ASSUME NEW v \in Cards
                 PROVE  InPeriod(s2'[v], s1) /\ s2'[v].horizon >= s2[v].horizon
      OBVIOUS
    <3> DEFINE s == s2[v]  u == s2'[v]
    <3>1. InPeriod(s, s1) /\ s.horizon \in Int
      BY <1>0 DEF InPeriod
    <3>2. u = CheckIns!Restarted(s, s1) \/ u = s
      BY <2>1
    <3> QED
      BY <1>0, <3>1, <3>2, RestartedFits
  <2> QED
    BY <1>0, <2>1, <2>2, ReadGoesOn
<1>7. CASE CheckIns!Refused \/ CheckIns!Unknown
  BY <1>1, <1>7 DEF CheckIns!Refused, CheckIns!Unknown, BatchInv
<1>8. ASSUME NEW v \in Cards, CheckIns!Reread(v) \/ CheckIns!RereadFails(v)
      PROVE  BatchInv'
  <2>1. UNCHANGED <<s1, s2, s4>> /\ s3' # "sending" /\ DOMAIN s8' = Cards
    BY <1>8 DEF CheckIns!Reread, CheckIns!RereadFails, BatchInv
  <2> QED
    BY <1>1, <2>1
<1>9. CASE CheckIns!OthersAct
  <2>1. UNCHANGED <<s3, s4, s8>>
    BY <1>9 DEF CheckIns!OthersAct, CheckIns!pageVars
  <2>2. CASE CheckIns!Tick /\ UNCHANGED s2
    <3>1. s1' = s1 + 1 /\ s1' \in s1..CheckInSize.MaxTime
      BY <1>0, <2>2 DEF CheckIns!Tick
    <3>2. \A v \in Cards : InPeriod(s2[v], s1')
      BY <1>0, <3>1 DEF InPeriod, CheckIns!Periods
    <3> QED
      BY <2>1, <2>2, <3>1, <3>2, ReadGoesOn DEF BatchInv, InPeriod
  <2>3. ASSUME NEW v \in Cards, NEW s \in CheckIns!Elsewhere(s2[v], s1),
               s2' = [s2 EXCEPT ![v] = s], s1' = s1
        PROVE  BatchInv'
    <3>1. InPeriod(s, s1) /\ s.horizon >= s2[v].horizon
      BY <1>0, ElsewhereFits
    <3>2. /\ DOMAIN s2' = Cards /\ s2'[v] = s
          /\ \A w \in Cards \ {v} : s2'[w] = s2[w]
      BY <2>3 DEF BatchInv
    <3>3. \A w \in Cards : InPeriod(s2'[w], s1) /\ s2'[w].horizon >= s2[w].horizon
      BY <1>0, <3>1, <3>2 DEF InPeriod
    <3> QED
      BY <1>0, <2>1, <2>3, <3>2, <3>3, ReadGoesOn DEF BatchInv
  <2> QED
    BY <1>9, <2>2, <2>3 DEF CheckIns!OthersAct
<1>10. CASE UNCHANGED CheckIns!checkInVars
  BY <1>1, <1>10 DEF CheckIns!checkInVars, CheckIns!pageVars, BatchInv
<1> QED
  BY <1>2, <1>3, <1>4, <1>5, <1>6, <1>7, <1>8, <1>9, <1>10 DEF CheckIns!Next

-----------------------------------------------------------------------------
(* What the page says of a batch. *)

\* What is held back is what the contract would skip.
LEMMA HeldBackIsSkipped ==
  ASSUME BatchInv
  PROVE  CheckIns!HeldBackAsSkippedStep
<1> SUFFICES ASSUME CheckIns!Prefilter, NEW v \in Cards \ s6', s2[v] = s4.of[v], s5 = s1
             PROVE  CheckIns!SkipReason(s2[v], s1) = CheckIns!Blocker(v)
  BY DEF CheckIns!HeldBackAsSkippedStep
<1> DEFINE s == s2[v]
<1>1. /\ CheckIns!Blocker(v) # "nothing"
      /\ CheckIns!Blocker(v) = CheckIns!checkInBlocker(s, s4.reached[v], s1)
  BY DEF CheckIns!Prefilter, CheckIns!Blocker
<1>2. /\ InPeriod(s, s1) /\ s1 \in Int
      /\ s4.reached[v] \in BOOLEAN /\ (s4.reached[v] => CheckIns!AtHorizon(s, s1))
  BY DEF BatchInv, CheckIns!Prefilter, CheckIns!AtHorizon
<1>3. CheckIns!Blocker(v) =
        IF s.phase = "claimed" THEN IF CheckIns!AtHorizon(s, s1) THEN "claimPastHorizon" ELSE "claimPending"
        ELSE IF s.phase # "active" THEN "terminal"
        ELSE IF CheckIns!AtHorizon(s, s1) THEN "horizonReached"
        ELSE IF s.deadline >= s.horizon THEN "pinned" ELSE "nothing"
  BY <1>1, <1>2, BlockerIs DEF InPeriod, CheckIns!AtHorizon
<1> QED
  BY <1>1, <1>2, <1>3 DEF CheckIns!SkipReason, InPeriod

\* The report of a mined batch, of one of its vaults.
LEMMA ReportedOf ==
  ASSUME BatchInv, CheckIns!Mined, NEW v \in Cards
  PROVE  /\ v \in CheckIns!CheckedIn =>
              /\ v \in s6 /\ s2'[v] = CheckIns!Restarted(s2[v], s1)
              /\ s8'[v] = IF CheckIns!Restarted(s2[v], s1).deadline >= s4.of[v].horizon
                          THEN "lastCheckIn" ELSE "checkedIn"
         /\ v \in s6 \ CheckIns!CheckedIn => s2'[v] = s2[v] /\ s8'[v] = CheckIns!SkipReason(s2[v], s1)
         /\ v \notin s6 => s8'[v] = s8[v]
<1>1. CheckIns!CheckedIn \subseteq s6
  BY DEF CheckIns!CheckedIn
<1>2. s8'[v] = CASE v \in CheckIns!CheckedIn ->
                      IF CheckIns!Restarted(s2[v], s1).deadline >= s4.of[v].horizon
                      THEN "lastCheckIn" ELSE "checkedIn"
                 [] v \in s6 \ CheckIns!CheckedIn -> CheckIns!SkipReason(s2[v], s1)
                 [] OTHER -> s8[v]
  BY DEF CheckIns!Mined, CheckIns!Reported
<1>3. s2'[v] = IF v \in CheckIns!CheckedIn THEN CheckIns!Restarted(s2[v], s1) ELSE s2[v]
  BY DEF CheckIns!Mined
<1> QED
  BY <1>1, <1>2, <1>3

\* Who is told "checked in" without more can check in again.
LEMMA LastIsTold ==
  ASSUME BatchInv
  PROVE  CheckIns!NoUntoldLastCheckInStep
<1> SUFFICES ASSUME CheckIns!Mined, NEW v \in Cards, s8'[v] = "checkedIn"
             PROVE  s2'[v].deadline < s2'[v].horizon
  BY DEF CheckIns!NoUntoldLastCheckInStep
<1> DEFINE s == s2[v]  u == s2'[v]  h == s4.of[v].horizon
<1>1. InPeriod(s, s1) /\ s1 \in Int /\ h \in Int /\ h <= s.horizon /\ s8[v] # "checkedIn"
  BY DEF BatchInv, CheckIns!Mined
<1>2. CheckIns!SkipReason(s, s1) # "checkedIn"
  BY <1>1, SkippedIsSo DEF IsSo
<1>3. v \in CheckIns!CheckedIn
  BY <1>1, <1>2, ReportedOf
<1>4. u = CheckIns!Restarted(s, s1) /\ ~(u.deadline >= h)
  BY <1>3, ReportedOf
<1> HIDE DEF s, u, h
<1>5. InPeriod(u, s1) /\ u.horizon = s.horizon
  BY <1>1, <1>4, RestartedFits
<1>6. u.deadline \in Int /\ u.horizon \in Int
  BY <1>5 DEF InPeriod
<1>7. u.deadline < u.horizon
  BY <1>1, <1>4, <1>5, <1>6
<1> QED
  BY <1>7 DEF u

\* What a vault that was read again is told is so, by the time it is judged by.
LEMMA RereadIs ==
  ASSUME BatchInv, NEW v \in Cards, CheckIns!Reread(v)
  PROVE  \E b : /\ b = CheckIns!checkInBlocker(s2[v], CheckIns!AtHorizon(s2[v], s1), s5)
                /\ s8'[v] = IF b = "nothing" THEN "notSent" ELSE b
BY DEF CheckIns!Reread, BatchInv

LEMMA NotSentCanBeSent ==
  ASSUME BatchInv
  PROVE  CheckIns!NotSentCanBeSentStep
<1> SUFFICES ASSUME NEW v \in Cards, CheckIns!Reread(v), s8'[v] = "notSent"
             PROVE  CheckIns!CanShowLife(s2[v], s1)
  BY DEF CheckIns!NotSentCanBeSentStep
<1> DEFINE s == s2[v]
<1>1. InPeriod(s, s1) /\ s1 \in Int
  BY DEF BatchInv
<1>2. CheckIns!AtHorizon(s, s1) \in BOOLEAN
  BY DEF CheckIns!AtHorizon
<1>3. CheckIns!checkInBlocker(s, CheckIns!AtHorizon(s, s1), s5) = "nothing"
  <2>1. CheckIns!checkInBlocker(s, CheckIns!AtHorizon(s, s1), s5) # "notSent"
    BY <1>1, <1>2, BlockerIs DEF InPeriod
  <2> QED
    BY <2>1, RereadIs
<1>4. s.phase = "active" /\ ~CheckIns!AtHorizon(s, s1) /\ ~(s.deadline >= s.horizon)
  BY <1>1, <1>2, <1>3, BlockerIs DEF InPeriod
<1> QED
  BY <1>1, <1>4 DEF CheckIns!CanShowLife, InPeriod

\* A button of the report helps.
LEMMA RemediesHelp ==
  ASSUME BatchInv
  PROVE  CheckIns!RemediesHelpStep
<1>0. s1 \in Int /\ s1 \in 1..CheckInSize.MaxTime /\ \A v \in Cards : InPeriod(s2[v], s1)
  BY DEF BatchInv
<1>1. ASSUME CheckIns!Mined, NEW v \in Cards, v \in s6
      PROVE  /\ \A remedy \in CheckIns!Remedies(s8'[v]) : CheckIns!Helps(remedy, s2'[v], s1)
             /\ v \notin CheckIns!Alarmed(s8') => s2'[v].deadline >= CheckIns!Restarted(s2[v], s1).deadline
  <2>1. CASE v \in CheckIns!CheckedIn
    <3>1. s8'[v] \in {"lastCheckIn", "checkedIn"} /\ s2'[v] = CheckIns!Restarted(s2[v], s1)
      BY <1>1, <2>1, ReportedOf
    <3>2. CheckIns!Remedies(s8'[v]) = {}
      BY <3>1 DEF CheckIns!Remedies
    <3>4. InPeriod(s2'[v], s1)
      BY <1>0, <3>1, RestartedFits
    <3>3. s2'[v].deadline \in Int
      BY <3>4 DEF InPeriod
    <3> QED
      BY <3>1, <3>2, <3>3
  <2>2. CASE v \notin CheckIns!CheckedIn
    <3>1. s2'[v] = s2[v] /\ s8'[v] = CheckIns!SkipReason(s2[v], s1)
      BY <1>1, <2>2, ReportedOf
    <3>2. IsSo(s8'[v], s2[v], s1)
      BY <1>0, <3>1, SkippedIsSo
    <3>3. s8'[v] # "nothing"
      BY <1>1, <2>2, <3>1 DEF CheckIns!CheckedIn
    <3>4. v \notin CheckIns!Alarmed(s8') => s8'[v] = "repeated"
      BY <3>2, <3>3 DEF CheckIns!Alarmed, IsSo
    <3>5. s2[v].deadline \in Int /\ CheckIns!Restarted(s2[v], s1).deadline \in Int
      BY <1>0, RestartedFits DEF InPeriod
    <3> QED
      BY <1>0, <3>1, <3>2, <3>4, <3>5, RemediesWork DEF IsSo
  <2> QED
    BY <2>1, <2>2
<1>2. ASSUME CheckIns!Prefilter, NEW v \in Cards, s2[v] = s4.of[v], s5 = s1
      PROVE  \A remedy \in CheckIns!Remedies(s8'[v]) : CheckIns!Helps(remedy, s2'[v], s1)
  <2>1. s2' = s2 /\ s8'[v] \in {"nothing", "sending", CheckIns!Blocker(v)}
    BY <1>2 DEF CheckIns!Prefilter
  <2>2. CASE s8'[v] \in {"nothing", "sending"}
    BY <2>2 DEF CheckIns!Remedies
  <2>3. CASE s8'[v] = CheckIns!Blocker(v)
    <3>1. /\ CheckIns!Blocker(v) = CheckIns!checkInBlocker(s2[v], s4.reached[v], s1)
          /\ s4.reached[v] \in BOOLEAN /\ (s4.reached[v] => CheckIns!AtHorizon(s2[v], s1))
      BY <1>2 DEF CheckIns!Blocker, BatchInv, CheckIns!Prefilter, CheckIns!AtHorizon
    <3>2. IsSo(s8'[v], s2[v], s1)
      BY <1>0, <2>3, <3>1, BlockedIsSo
    <3> QED
      BY <1>0, <2>1, <3>2, RemediesWork
  <2> QED
    BY <2>1, <2>2, <2>3
<1>3. ASSUME NEW v \in Cards, CheckIns!Reread(v), s5 = s1
      PROVE  \A remedy \in CheckIns!Remedies(s8'[v]) : CheckIns!Helps(remedy, s2'[v], s1)
  <2> DEFINE reached == CheckIns!AtHorizon(s2[v], s1)
  <2>1. s2' = s2
    BY <1>3 DEF CheckIns!Reread
  <2>2. reached \in BOOLEAN
    BY DEF CheckIns!AtHorizon
  <2>3. PICK b : b = CheckIns!checkInBlocker(s2[v], reached,
     s1) /\ s8'[v] = IF b = "nothing" THEN "notSent" ELSE b
    BY <1>3, RereadIs
  <2>4. IsSo(b, s2[v], s1)
    BY <1>0, <2>2, <2>3, BlockedIsSo
  <2>5. CASE b = "nothing"
    <3>1. s8'[v] = "notSent"
      BY <2>3, <2>5
    <3> QED
      BY <3>1 DEF CheckIns!Remedies
  <2>6. CASE b # "nothing"
    <3>1. s8'[v] = b
      BY <2>3, <2>6
    <3> QED
      BY <1>0, <2>1, <2>4, <3>1, RemediesWork
  <2> QED
    BY <2>5, <2>6
<1>4. /\ CheckIns!Prefilter => ~CheckIns!Mined
      /\ \A v \in Cards : CheckIns!Reread(v) => ~CheckIns!Mined
  BY DEF CheckIns!Prefilter, CheckIns!Reread, CheckIns!Mined
<1> QED
  BY <1>1, <1>2, <1>3, <1>4 DEF CheckIns!RemediesHelpStep

HIDE CheckInFits DEF CheckIns!SwitchAssumption, CheckIns!CheckInAssumption

-----------------------------------------------------------------------------
(* The lines of transactions: the part "txLine".  s1 is the view's home,    *)
(* s2 the card of each, s4 the cards on the page, s5 the draws so far, s6   *)
(* the draw of its log, s7 where its runTx is, s8 the cards its re-read     *)
(* found, s9 when its line went home, s10 the logs, s11 the home's text.    *)

\* At most one transaction's result is unknown to the page, and a line that was
\* taken to the home is of a transaction that is over.
LineInv ==
    /\ s2 \in [Reviews -> Cards] /\ DOMAIN s10 = Cards
    /\ s7 \in [Reviews -> {"idle"} \cup TxLog!Waiting \cup TxLog!Ended]
    /\ s9 \in [Reviews -> Int] /\ s5 \in Int
    /\ \A t \in s12 : t \in Reviews /\ s7[t] = "unknown" /\ s12 = {t}
    /\ \A t \in Reviews : s9[t] # 0 => s7[t] \in {"done", "failed"}

LEMMA LineStarts == TxLog!LineInit => LineInv
BY DEF TxLog!LineInit, LineInv, TxLog!Waiting, TxLog!Ended

\* The steps that move a transaction on, and what of them matters to the rest.
LEMMA MovesOn ==
  ASSUME LineInv, NEW t \in Reviews,
         NEW from, NEW to, from \subseteq {"idle"} \cup TxLog!Waiting \cup {"unknown"},
         s7[t] \in from, to \in TxLog!Waiting \cup TxLog!Ended,
         s7' = [s7 EXCEPT ![t] = to], DOMAIN s10' = Cards,
         UNCHANGED <<s2, s9, s5>>,
         s12' = s12 \ {t} \/ (s12' = {t} /\ to = "unknown")
  PROVE  LineInv'
BY DEF LineInv, TxLog!Waiting, TxLog!Ended

\* The text after a re-read that failed.
LEMMA NotRedrawnText ==
  ASSUME NEW t \in Reviews, TxLog!NotRedrawn(t)
  PROVE  /\ \E what \in {"confirmed", "failed"} :
               s10' = s10 \/ s10' = [s10 EXCEPT ![s2[t]] = TxLog!Line(t, what)]
         /\ s9' = s9 \/ s9' = [s9 EXCEPT ![t] = s5]
<1> DEFINE to == IF s7[t] = "confirmed" THEN "confirmed" ELSE "failed"
<1>1. to \in {"confirmed", "failed"} /\ TxLog!logNow(t) \in {"home", "card", "detached"}
  BY DEF TxLog!logNow
<1>2. /\ TxLog!logNow(t) = "card" => s10' = [s10 EXCEPT ![s2[t]] = TxLog!Line(t, to)] /\ s9' = s9
      /\ TxLog!logNow(t) = "home" => s10' = s10 /\ s9' = s9
      /\ TxLog!logNow(t) = "detached" => s10' = s10 /\ s9' = [s9 EXCEPT ![t] = s5]
  BY DEF TxLog!NotRedrawn
<1> HIDE DEF to
<1> QED
  BY <1>1, <1>2

\* The text after a re-read that is drawn.
LEMMA RedrawnText ==
  ASSUME NEW t \in Reviews, TxLog!Redrawn(t)
  PROVE  /\ \E what \in {"confirmed", "failed"} :
               s10' = TxLog!NewLogs(s4') \/ s10' = [TxLog!NewLogs(s4') EXCEPT ![s2[t]] = TxLog!Line(t, what)]
         /\ s5' = s5 + 1
         /\ s9' = [s9 EXCEPT ![t] = s5'] \/ s9' = [s9 EXCEPT ![t] = 0]
<1> DEFINE to == IF s7[t] = "confirmed" THEN "confirmed" ELSE "failed"
           toHome == (s1 = "status" /\ s9[t] # 0) \/ s2[t] \notin s4'
<1>1. to \in {"confirmed", "failed"}
  OBVIOUS
<1>2. /\ s10' = IF toHome THEN TxLog!NewLogs(s4') ELSE [TxLog!NewLogs(s4') EXCEPT ![s2[t]] = TxLog!Line(t, to)]
      /\ s9' = [s9 EXCEPT ![t] = IF toHome THEN s5 + 1 ELSE 0]
      /\ s5' = s5 + 1
  BY DEF TxLog!Redrawn, TxLog!relocate
<1> HIDE DEF to, toHome
<1> QED
  BY <1>1, <1>2

LEMMA LineStep ==
  ASSUME LineInv, [TxLog!LineNext]_(TxLog!lineVars)
  PROVE  LineInv'
<1>1. ASSUME NEW t \in Reviews, TxLog!Press(t)
      PROVE  LineInv'
  <2>1. CASE s12 # {}
    BY <1>1, <2>1 DEF TxLog!Press, TxLog!Refuse, LineInv
  <2>2. CASE s12 = {}
    <3>1. /\ s7' = [s7 EXCEPT ![t] = "wallet"] /\ DOMAIN s10' = Cards /\ s7[t] \in {"idle"}
          /\ UNCHANGED <<s2, s9, s5>> /\ s12' = s12 \ {t}
      BY <1>1, <2>2 DEF TxLog!Press, LineInv
    <3> QED
      BY <3>1, MovesOn DEF TxLog!Waiting
  <2> QED
    BY <2>1, <2>2
<1>2. ASSUME NEW t \in Reviews, TxLog!Declined(t) \/ TxLog!Sent(t)
      PROVE  LineInv'
  <2>1. PICK to \in {"failed", "sent"} :
          /\ s7' = [s7 EXCEPT ![t] = to] /\ DOMAIN s10' = Cards /\ s7[t] \in {"wallet"}
          /\ UNCHANGED <<s2, s9, s5, s12>>
    BY <1>2 DEF TxLog!Declined, TxLog!Sent, TxLog!Written, LineInv
  <2>2. s12' = s12 \ {t}
    BY <2>1 DEF LineInv
  <2> QED
    BY <2>1, <2>2, MovesOn DEF TxLog!Waiting, TxLog!Ended
<1>3. ASSUME NEW t \in Reviews, NEW what \in {"confirmed", "reverted"}, TxLog!Result(t, what)
      PROVE  LineInv'
  <2>1. /\ s7' = [s7 EXCEPT ![t] = what] /\ DOMAIN s10' = Cards /\ s7[t] \in {"sent", "unknown"}
        /\ UNCHANGED <<s2, s9, s5>> /\ s12' = s12 \ {t}
    BY <1>3 DEF TxLog!Result, TxLog!Written, LineInv
  <2> QED
    BY <2>1, MovesOn DEF TxLog!Waiting
<1>4. ASSUME NEW t \in Reviews, TxLog!Lost(t)
      PROVE  LineInv'
  <2>1. /\ s7' = [s7 EXCEPT ![t] = "unknown"] /\ DOMAIN s10' = Cards /\ s7[t] \in {"sent"}
        /\ UNCHANGED <<s2, s9, s5>> /\ s12' = {t}
    BY <1>4 DEF TxLog!Lost, TxLog!Written, LineInv
  <2> QED
    BY <2>1, MovesOn DEF TxLog!Waiting, TxLog!Ended
<1>5. ASSUME NEW t \in Reviews, TxLog!Redrawn(t) \/ TxLog!NotRedrawn(t)
      PROVE  LineInv'
  <2>1. PICK to \in {"done", "failed"} : s7' = [s7 EXCEPT ![t] = to]
    BY <1>5 DEF TxLog!Redrawn, TxLog!NotRedrawn, LineInv
  <2>2. s7[t] \in {"confirmed", "reverted"} /\ UNCHANGED <<s2, s12>>
    BY <1>5 DEF TxLog!Redrawn, TxLog!NotRedrawn
  <2>3. DOMAIN s10' = Cards
    BY <1>5, NotRedrawnText, RedrawnText DEF TxLog!NewLogs, LineInv
  <2>4. s5' \in Int /\ \E at0 \in Int : s9' = [s9 EXCEPT ![t] = at0]
    <3>1. CASE TxLog!Redrawn(t)
      BY <3>1, RedrawnText DEF LineInv
    <3>2. CASE TxLog!NotRedrawn(t)
      <4>1. s9' = s9 \/ s9' = [s9 EXCEPT ![t] = s5]
        BY <3>2, NotRedrawnText
      <4>2. s9 = [s9 EXCEPT ![t] = s9[t]] /\ s9[t] \in Int
        BY DEF LineInv
      <4> QED
        BY <3>2, <4>1, <4>2 DEF TxLog!NotRedrawn, LineInv
    <3> QED
      BY <1>5, <3>1, <3>2
  <2> QED
    BY <2>1, <2>2, <2>3, <2>4 DEF LineInv, TxLog!Waiting, TxLog!Ended
<1>6. CASE \/ \E t \in Reviews : TxLog!CloseOnChain(t)
           \/ \E c \in Cards : TxLog!CouldNotContinue(c)
           \/ TxLog!LookUp \/ UNCHANGED TxLog!lineVars
  <2>1. DOMAIN s10' = Cards /\ s5' \in Int /\ UNCHANGED <<s2, s7, s9, s12>>
    BY <1>6 DEF TxLog!CloseOnChain, TxLog!CouldNotContinue, TxLog!LookUp, TxLog!NewLogs, TxLog!lineVars,
       LineInv
  <2> QED
    BY <2>1 DEF LineInv
<1> QED
  BY <1>1, <1>2, <1>3, <1>4, <1>5, <1>6 DEF TxLog!LineNext

LEMMA ResultIsShown ==
  ASSUME LineInv, [TxLog!LineNext]_(TxLog!lineVars)
  PROVE  TxLog!ResultIsShownStep
<1> SUFFICES ASSUME NEW t \in Reviews, NEW what,
                    \/ what = "confirmed" /\ s7[t] = "confirmed" /\ s7'[t] = "done"
                    \/ what = "failed" /\ s7[t] = "reverted" /\ s7'[t] = "failed"
             PROVE  TxLog!Seen(t, what)'
  BY DEF TxLog!ResultIsShownStep
<1>0. t \in DOMAIN s7 /\ s2[t] \in Cards
  BY DEF LineInv
<1>1. TxLog!Redrawn(t) \/ TxLog!NotRedrawn(t)
  BY <1>0, ZenonT(60) DEF TxLog!LineNext, TxLog!lineVars, TxLog!Press, TxLog!Declined, TxLog!Sent,
     TxLog!CloseOnChain, TxLog!Result, TxLog!Lost, TxLog!Redrawn, TxLog!NotRedrawn,
         TxLog!CouldNotContinue, TxLog!LookUp, LineInv
<1>2. s2' = s2
  BY <1>1 DEF TxLog!Redrawn, TxLog!NotRedrawn
<1>3. TxLog!Line(t, what)' = TxLog!Line(t, what)
  BY DEF TxLog!Line
<1>4. s10'[s2[t]] = TxLog!Line(t, what) \/ TxLog!Line(t, what) \in s11'
  <2>1. CASE TxLog!Redrawn(t)
    <3>1. TxLog!relocate(t, what, s8[t])
      BY <2>1 DEF TxLog!Redrawn
    <3> HIDE DEF TxLog!Line
    <3> QED
      BY <1>0, <3>1 DEF TxLog!relocate, TxLog!NewLogs
  <2>2. CASE TxLog!NotRedrawn(t)
    <3>1. \/ s10' = [s10 EXCEPT ![s2[t]] = TxLog!Line(t, what)]
          \/ s11' = TxLog!AtHome(t, what)
      BY <2>2 DEF TxLog!NotRedrawn, TxLog!logNow
    <3>2. TxLog!Line(t, what) \in TxLog!AtHome(t, what)
      BY DEF TxLog!AtHome
    <3> QED
      BY <1>0, <3>1, <3>2 DEF LineInv
  <2> QED
    BY <1>1, <2>1, <2>2
<1> QED
  BY <1>2, <1>3, <1>4 DEF TxLog!Seen

LEMMA WarningStays ==
  ASSUME LineInv, [TxLog!LineNext]_(TxLog!lineVars)
  PROVE  TxLog!WarningStaysStep
<1> SUFFICES ASSUME NEW t \in s12 \cap s12',
                    s10[s2[t]] = TxLog!Line(t, "unknown"), s2[t] \in s4'
             PROVE  s10'[s2[t]] = TxLog!Line(t, "unknown") \/ s10'[s2[t]].what \notin {"blank", "refused"}
  BY DEF TxLog!WarningStaysStep
<1> DEFINE warning == TxLog!Line(t, "unknown")
<1>0. /\ t \in Reviews /\ s7[t] = "unknown" /\ s12 = {t} /\ s9[t] = 0
      /\ s2[t] \in Cards /\ DOMAIN s10 = Cards
  BY DEF LineInv
<1>1. (CHOOSE u \in s12 : TRUE) = t
  BY <1>0
<1>2. \A u, what : TxLog!Line(u, what).what = what
  BY DEF TxLog!Line
<1>3. ASSUME s10' = s10
      PROVE  s10'[s2[t]] = warning
  BY <1>3
<1>4. ASSUME NEW c, NEW l, s10' = [s10 EXCEPT ![c] = l], l.what \notin {"blank", "refused"}
      PROVE  s10'[s2[t]] = warning \/ s10'[s2[t]].what \notin {"blank", "refused"}
  BY <1>0, <1>4
<1>5. ASSUME NEW u \in Reviews, NEW what, s10' = TxLog!Written(u, what), what \notin {"blank", "refused"}
      PROVE  s10'[s2[t]] = warning \/ s10'[s2[t]].what \notin {"blank", "refused"}
  BY <1>2, <1>3, <1>4, <1>5 DEF TxLog!Written
<1>6. ASSUME NEW u \in Reviews, TxLog!Press(u)
      PROVE  s10'[s2[t]] = warning
  <2>1. TxLog!Refuse(u) /\ s2[u] \in s4
    BY <1>0, <1>6 DEF TxLog!Press
  <2>2. s2[u] = s2[t] => TxLog!logNow(t) = "card"
    BY <1>0, <2>1 DEF TxLog!logNow, TxLog!MovedConnected
  <2>3. s10' = IF TxLog!logNow(t) = "card" /\ s2[t] = s2[u]
               THEN s10 ELSE [s10 EXCEPT ![s2[u]] = TxLog!Line(u, "refused")]
    BY <1>1, <2>1 DEF TxLog!Refuse
  <2> QED
    BY <1>0, <2>2, <2>3
<1>7. \A cs : s2[t] \in cs => TxLog!NewLogs(cs)[s2[t]] = warning
  <2>1. TxLog!CardLog(s2[t]) = warning
    BY <1>0, <1>1 DEF TxLog!CardLog
  <2> QED
    BY <1>0, <2>1 DEF TxLog!NewLogs
<1>8. ASSUME NEW u \in Reviews, TxLog!Redrawn(u)
      PROVE  s10'[s2[t]] = warning \/ s10'[s2[t]].what \notin {"blank", "refused"}
  <2>1. PICK what \in {"confirmed", "failed"} :
          s10' = TxLog!NewLogs(s4') \/ s10' = [TxLog!NewLogs(s4') EXCEPT ![s2[u]] = TxLog!Line(u, what)]
    BY <1>8, RedrawnText
  <2>2. DOMAIN TxLog!NewLogs(s4') = Cards
    BY DEF TxLog!NewLogs
  <2> QED
    BY <1>0, <1>2, <1>7, <2>1, <2>2
<1>9. ASSUME NEW u \in Reviews, TxLog!NotRedrawn(u)
      PROVE  s10'[s2[t]] = warning \/ s10'[s2[t]].what \notin {"blank", "refused"}
  <2>1. PICK what \in {"confirmed", "failed"} :
          s10' = s10 \/ s10' = [s10 EXCEPT ![s2[u]] = TxLog!Line(u, what)]
    BY <1>9, NotRedrawnText
  <2> DEFINE l == TxLog!Line(u, what)
  <2>2. l.what \notin {"blank", "refused"}
    BY <1>2
  <2> HIDE DEF l
  <2>3. s10' = s10 \/ s10' = [s10 EXCEPT ![s2[u]] = l]
    BY <2>1 DEF l
  <2> QED
    BY <1>3, <1>4, <2>2, <2>3
<1>10. ASSUME NEW u \in Reviews, TxLog!Declined(u) \/ TxLog!Sent(u) \/ TxLog!Lost(u)
                  \/ \E what \in {"confirmed", "reverted"} : TxLog!Result(u, what)
       PROVE  s10'[s2[t]] = warning \/ s10'[s2[t]].what \notin {"blank", "refused"}
  BY <1>5, <1>10 DEF TxLog!Declined, TxLog!Sent, TxLog!Lost, TxLog!Result
<1>11. CASE \/ \E u \in Reviews : TxLog!CloseOnChain(u)
            \/ \E c \in Cards : TxLog!CouldNotContinue(c)
            \/ UNCHANGED TxLog!lineVars
  BY <1>3, <1>4, <1>11 DEF TxLog!CloseOnChain, TxLog!CouldNotContinue, TxLog!lineVars
<1>12. CASE TxLog!LookUp
  BY <1>7, <1>12 DEF TxLog!LookUp
<1> QED
  BY <1>6, <1>8, <1>9, <1>10, <1>11, <1>12 DEF TxLog!LineNext

-----------------------------------------------------------------------------
(* The heirs that are known: the part "heirs".  s1 is the vaults, s2 what   *)
(* is kept of closed ones, s3 the review, s4 the vaults that changed since. *)

\* What is known of the sizes of this part.
LEMMA HeirsFit == Heirs!HeirsAssumption
BY SiteAssumption DEF SiteAssumption

USE HeirsFit DEF Heirs!HeirsAssumption

\* The vaults are numbered as they were created.
HeirsTyped ==
    /\ Heirs!Count \in 0..MaxHeirVaults /\ Heirs!Existing = 0..(Heirs!Count - 1)
    /\ \A id \in Heirs!Existing : /\ DOMAIN s1[id] = {"heir", "open"}
                                  /\ s1[id].heir \in SiteAddresses \ {Owner} /\ s1[id].open \in BOOLEAN
    /\ s2 \in [Heirs!Ids -> SiteAddresses \cup {Absent}]
    /\ s3.open \in [Heirs!Ids -> SiteAddresses \cup {Absent}]
    /\ s3.opened \in BOOLEAN /\ s3.count \in -1..Heirs!Count /\ s3.next \in Nat
    /\ DOMAIN s3 = {"stage", "open", "opened", "count", "next"}

\* What is kept of a closed vault is true of it.
KeptIsTrue ==
    \A id \in Heirs!Ids : s2[id] # Absent =>
        id \in Heirs!Existing /\ ~s1[id].open /\ s1[id].heir = s2[id]

\* What a review has read of a vault is still so, unless the vault changed.
ReadIsTrue ==
    /\ s3.opened => \A id \in Heirs!Ids \ s4 : s3.open[id] = Heirs!Open[id]
    /\ s3.count >= 0 => \A id \in Heirs!Existing \ s4 : id < s3.count
    /\ \A id \in Heirs!Existing \ s4 :
          id < s3.next => s1[id].open \/ s2[id] # Absent

HeirsInv == HeirsTyped /\ KeptIsTrue /\ ReadIsTrue

LEMMA HeirsStart == Heirs!Init => HeirsInv
<1> SUFFICES ASSUME Heirs!Init
             PROVE  HeirsInv
  OBVIOUS
<1>1. Heirs!Existing = {} /\ Heirs!Count = 0
  BY FS_EmptySet DEF Heirs!Init, Heirs!Existing, Heirs!Count, Heirs!Cardinality, Cardinality
<1> QED
  BY <1>1 DEF Heirs!Init, HeirsInv, HeirsTyped, KeptIsTrue, ReadIsTrue, Heirs!Idle, Heirs!None, Heirs!Ids

\* A new vault has the next number, and the others are as they were.
LEMMA OneMore ==
  ASSUME HeirsTyped, Heirs!Count < MaxHeirVaults, NEW a \in SiteAddresses \ {Owner},
         s1' = Heirs!Created(a)
  PROVE  /\ Heirs!Count' = Heirs!Count + 1 /\ Heirs!Existing' = Heirs!Existing \cup {Heirs!Count}
         /\ Heirs!Count \notin Heirs!Existing
         /\ Heirs!Existing' = 0..Heirs!Count /\ Heirs!Count' \in 0..MaxHeirVaults
         /\ \A id \in Heirs!Existing : s1'[id] = s1[id]
         /\ s1'[Heirs!Count] = [heir |-> a, open |-> TRUE]
<1>1. Heirs!Count \in Nat /\ Heirs!Existing = 0..(Heirs!Count - 1)
  BY DEF HeirsTyped
<1>2. Heirs!Existing' = Heirs!Existing \cup {Heirs!Count}
  BY DEF Heirs!Existing, Heirs!Created
<1>3. Heirs!Existing' = 0..Heirs!Count /\ Heirs!Count \notin Heirs!Existing
  BY <1>1, <1>2
<1>4. Cardinality(0..Heirs!Count) = Heirs!Count + 1
  BY <1>1, FS_Interval
<1>5. Heirs!Count' = Cardinality(Heirs!Existing')
  BY DEF Heirs!Count, Heirs!Cardinality, Cardinality
<1>6. Heirs!Count' = Heirs!Count + 1
  BY <1>3, <1>4, <1>5
<1>7. /\ \A id \in Heirs!Existing : s1'[id] = s1[id]
      /\ s1'[Heirs!Count] = [heir |-> a, open |-> TRUE]
  BY <1>3 DEF Heirs!Created
<1> QED
  BY <1>1, <1>2, <1>3, <1>6, <1>7

\* The vault that changes is counted already.
LEMMA SameMany ==
  ASSUME HeirsTyped, Heirs!Existing' = Heirs!Existing
  PROVE  Heirs!Count' = Heirs!Count
BY DEF Heirs!Count

\* What getOpenVaults says of one vault.
LEMMA OpenOf ==
  ASSUME NEW id \in Heirs!Ids
  PROVE  Heirs!Open[id] = IF id \in Heirs!Existing /\ s1[id].open THEN s1[id].heir ELSE Absent
BY DEF Heirs!Open

\* It says the same as long as the vault is the same.
LEMMA OpenStays ==
  ASSUME NEW id \in Heirs!Ids,
         id \in Heirs!Existing' <=> id \in Heirs!Existing, id \in Heirs!Existing => s1'[id] = s1[id]
  PROVE  Heirs!Open'[id] = Heirs!Open[id]
BY DEF Heirs!Open

\* A vault elsewhere, or the page's own: what was read of the others stays true.
LEMMA OthersAsRead ==
  ASSUME HeirsInv, NEW id \in Heirs!Ids,
         Heirs!Existing' = Heirs!Existing \cup {id}, Heirs!Existing' \subseteq Heirs!Ids,
         \A k \in Heirs!Existing \ {id} : s1'[k] = s1[k],
         s4' = s4 \cup {id}, UNCHANGED <<s2, s3>>,
         Heirs!Count' >= Heirs!Count
  PROVE  ReadIsTrue'
<1>1. \A k \in Heirs!Ids \ s4' : Heirs!Open'[k] = Heirs!Open[k]
  BY OpenStays
<1>2. \A k \in Heirs!Existing' \ s4' : k \in Heirs!Existing \ s4 /\ s1'[k] = s1[k]
  OBVIOUS
<1> QED
  BY <1>1, <1>2 DEF HeirsInv, ReadIsTrue

\* A review that has just begun, or is over, has read nothing.
LEMMA NothingRead ==
  ASSUME HeirsInv, s3' \in {Heirs!Idle, [Heirs!Idle EXCEPT !.stage = "reading"]}, s4' = {},
         Heirs!Count' \in Nat, Heirs!Existing' = 0..(Heirs!Count' - 1)
  PROVE  /\ ReadIsTrue'
         /\ s3'.open \in [Heirs!Ids -> SiteAddresses \cup {Absent}]
         /\ s3'.opened \in BOOLEAN /\ s3'.count \in -1..Heirs!Count' /\ s3'.next \in Nat
         /\ DOMAIN s3' = {"stage", "open", "opened", "count", "next"}
<1>1. /\ s3'.open = Heirs!None /\ s3'.opened = FALSE /\ s3'.count = -1 /\ s3'.next = 0
      /\ DOMAIN s3' = {"stage", "open", "opened", "count", "next"}
  BY DEF Heirs!Idle
<1>2. ReadIsTrue'
  <2>1. \A id \in Heirs!Existing' : ~(id < s3'.next)
    BY <1>1
  <2>2. ~s3'.opened /\ ~(s3'.count >= 0)
    BY <1>1
  <2> QED
    BY <2>1, <2>2, Zenon DEF ReadIsTrue
<1>3. Heirs!None \in [Heirs!Ids -> SiteAddresses \cup {Absent}]
  BY DEF Heirs!None
<1> QED
  <2>1. s3'.open \in [Heirs!Ids -> SiteAddresses \cup {Absent}]
    BY <1>1, <1>3
  <2>2. s3'.opened \in BOOLEAN
    BY <1>1
  <2>3. s3'.count \in -1..Heirs!Count'
    BY <1>1
  <2>4. s3'.next \in Nat
    BY <1>1
  <2> QED
    BY <1>1, <1>2, <2>1, <2>2, <2>3, <2>4

LEMMA CreatedKeeps ==
  ASSUME HeirsInv, Heirs!Count < MaxHeirVaults, NEW a \in SiteAddresses \ {Owner},
         s1' = Heirs!Created(a), UNCHANGED s2
  PROVE  /\ Heirs!Count' \in 0..MaxHeirVaults /\ Heirs!Existing' = 0..(Heirs!Count' - 1)
         /\ Heirs!Count' = Heirs!Count + 1
         /\ \A id \in Heirs!Existing' : /\ DOMAIN s1'[id] = {"heir", "open"}
                                        /\ s1'[id].heir \in SiteAddresses \ {Owner}
                                        /\ s1'[id].open \in BOOLEAN
         /\ KeptIsTrue'
<1>1. HeirsTyped /\ KeptIsTrue
  BY DEF HeirsInv
<1>2. /\ Heirs!Count' = Heirs!Count + 1 /\ Heirs!Existing' = Heirs!Existing \cup {Heirs!Count}
      /\ Heirs!Count \notin Heirs!Existing
      /\ Heirs!Existing' = 0..Heirs!Count /\ Heirs!Count' \in 0..MaxHeirVaults
      /\ \A id \in Heirs!Existing : s1'[id] = s1[id]
      /\ s1'[Heirs!Count] = [heir |-> a, open |-> TRUE]
  BY <1>1, OneMore
<1>3. Heirs!Count \in Nat
  BY <1>1 DEF HeirsTyped
<1>4. \A id \in Heirs!Existing' : /\ DOMAIN s1'[id] = {"heir", "open"}
                                  /\ s1'[id].heir \in SiteAddresses \ {Owner}
                                  /\ s1'[id].open \in BOOLEAN
  <2>1. /\ DOMAIN s1'[Heirs!Count] = {"heir", "open"}
        /\ s1'[Heirs!Count].heir = a /\ s1'[Heirs!Count].open = TRUE
    BY <1>2
  <2> QED
    BY <1>1, <1>2, <2>1, ZenonT(60) DEF HeirsTyped
<1>5. KeptIsTrue'
  BY <1>1, <1>2 DEF KeptIsTrue
<1> QED
  BY <1>2, <1>3, <1>4, <1>5

\* One vault's heir changes, or it is closed.
LEMMA ChangedKeeps ==
  ASSUME HeirsInv, NEW id \in Heirs!Existing, s1[id].open, NEW v,
         s1' = [s1 EXCEPT ![id] = v],
         DOMAIN v = {"heir", "open"}, v.heir \in SiteAddresses \ {Owner}, v.open \in BOOLEAN,
         UNCHANGED s2
  PROVE  /\ Heirs!Count' = Heirs!Count /\ Heirs!Existing' = Heirs!Existing
         /\ \A k \in Heirs!Existing' : /\ DOMAIN s1'[k] = {"heir", "open"}
                                       /\ s1'[k].heir \in SiteAddresses \ {Owner}
                                       /\ s1'[k].open \in BOOLEAN
         /\ \A k \in Heirs!Existing \ {id} : s1'[k] = s1[k]
         /\ KeptIsTrue'
<1>1. HeirsTyped /\ KeptIsTrue
  BY DEF HeirsInv
<1>2. Heirs!Existing' = Heirs!Existing /\ \A k \in Heirs!Existing : s1'[k] = IF k = id THEN v ELSE s1[k]
  BY DEF Heirs!Existing
<1>3. Heirs!Count' = Heirs!Count
  BY <1>1, <1>2, SameMany
<1>4. KeptIsTrue'
  BY <1>1, <1>2 DEF KeptIsTrue
<1> QED
  BY <1>1, <1>2, <1>3, <1>4 DEF HeirsTyped

\* The page reads.
LEMMA ReadingKeeps ==
  ASSUME HeirsInv, Heirs!Start \/ Heirs!ReadOpen \/ Heirs!ReadCount \/ Heirs!ReadVault
  PROVE  HeirsInv'
<1>1. Heirs!Count \in 0..MaxHeirVaults /\ Heirs!Existing = 0..(Heirs!Count - 1) /\ HeirsTyped
  BY DEF HeirsInv, HeirsTyped
<1>2. /\ s1' = s1 /\ Heirs!Existing' = Heirs!Existing /\ Heirs!Count' = Heirs!Count
      /\ Heirs!Open' = Heirs!Open
  BY DEF Heirs!Start, Heirs!ReadOpen, Heirs!ReadCount, Heirs!ReadVault, Heirs!Existing, Heirs!Count,
     Heirs!Open
<1>3. CASE Heirs!Start
  <2>1. /\ s3' \in {Heirs!Idle, [Heirs!Idle EXCEPT !.stage = "reading"]} /\ s4' = {}
        /\ s2' = s2
    BY <1>3 DEF Heirs!Start
  <2>2. KeptIsTrue'
    BY <1>2, <2>1 DEF HeirsInv, KeptIsTrue
  <2> QED
    BY <1>1, <1>2, <2>1, <2>2, NothingRead DEF HeirsInv, HeirsTyped
<1>4. CASE Heirs!ReadOpen
  <2>1. /\ s3'.open = Heirs!Open /\ s3'.opened = TRUE /\ s3'.count = s3.count
        /\ s3'.next = s3.next
        /\ DOMAIN s3' = {"stage", "open", "opened", "count", "next"}
        /\ s2' = s2 /\ s4' = s4
    BY <1>1, <1>4 DEF Heirs!ReadOpen, HeirsTyped
  <2>2. Heirs!Open \in [Heirs!Ids -> SiteAddresses \cup {Absent}]
    BY <1>1 DEF Heirs!Open, HeirsTyped
  <2> QED
    BY <1>1, <1>2, <2>1, <2>2 DEF HeirsInv, HeirsTyped, KeptIsTrue, ReadIsTrue
<1>5. CASE Heirs!ReadCount
  <2>1. /\ s3'.open = s3.open /\ s3'.opened = s3.opened /\ s3'.count = Heirs!Count
        /\ s3'.next = s3.next
        /\ DOMAIN s3' = {"stage", "open", "opened", "count", "next"}
        /\ s2' = s2 /\ s4' = s4
    BY <1>1, <1>5 DEF Heirs!ReadCount, HeirsTyped
  <2> QED
    BY <1>1, <1>2, <2>1 DEF HeirsInv, HeirsTyped, KeptIsTrue, ReadIsTrue
<1>6. CASE Heirs!ReadVault
  <2> DEFINE id == s3.next
  <2>1. /\ s3'.open = s3.open /\ s3'.opened = s3.opened /\ s3'.count = s3.count
        /\ s3'.next = id + 1 /\ s3.opened /\ s3.count >= 0 /\ id < s3.count
        /\ DOMAIN s3' = {"stage", "open", "opened", "count", "next"} /\ s4' = s4
    BY <1>1, <1>6 DEF Heirs!ReadVault, Heirs!BothRead, HeirsTyped
  <2>2. id \in Heirs!Existing /\ id \in Heirs!Ids
    BY <1>1, <2>1 DEF HeirsTyped, Heirs!Ids
  <2>3. s1[id].heir \in SiteAddresses /\ s1[id].heir # Absent /\ s1[id].open \in BOOLEAN
    BY <1>1, <2>2 DEF HeirsTyped
  <2>4. CASE Heirs!Skipped(id) \/ s1[id].open
    <3>1. s2' = s2
      BY <1>6, <2>4 DEF Heirs!ReadVault
    <3>2. id \notin s4 => s1[id].open \/ s2[id] # Absent
      BY <2>1, <2>2, <2>4, OpenOf DEF Heirs!Skipped, HeirsInv, ReadIsTrue
    <3> QED
      BY <1>1, <1>2, <2>1, <2>2, <3>1, <3>2 DEF HeirsInv, HeirsTyped, KeptIsTrue, ReadIsTrue
  <2>5. CASE ~(Heirs!Skipped(id) \/ s1[id].open)
    <3>1. s2' = [s2 EXCEPT ![id] = s1[id].heir]
      BY <1>6, <2>5 DEF Heirs!ReadVault
    <3>2. /\ s2' \in [Heirs!Ids -> SiteAddresses \cup {Absent}]
          /\ \A k \in Heirs!Ids : s2'[k] = IF k = id THEN s1[id].heir ELSE s2[k]
      BY <1>1, <2>2, <2>3, <3>1 DEF HeirsTyped
    <3>3. HeirsTyped' /\ KeptIsTrue'
      BY <1>1, <1>2, <2>1, <2>2, <2>5, <3>2 DEF HeirsInv, HeirsTyped, KeptIsTrue
    <3>4. ReadIsTrue'
      BY <1>1, <1>2, <2>1, <2>2, <2>3, <3>2 DEF HeirsInv, HeirsTyped, ReadIsTrue, Heirs!Ids
    <3> QED
      BY <3>3, <3>4 DEF HeirsInv
  <2> QED
    BY <2>4, <2>5
<1> QED
  BY <1>3, <1>4, <1>5, <1>6

LEMMA HeirsStep ==
  ASSUME HeirsInv, [Heirs!Next]_(Heirs!heirsVars)
  PROVE  HeirsInv'
<1>1. HeirsTyped /\ KeptIsTrue /\ ReadIsTrue /\ Heirs!Count \in 0..MaxHeirVaults /\ Heirs!Count \in Nat
  BY DEF HeirsInv, HeirsTyped
<1>2. CASE Heirs!Start \/ Heirs!ReadOpen \/ Heirs!ReadCount \/ Heirs!ReadVault
  BY <1>2, ReadingKeeps
<1>3. ASSUME s1' = s1, s3' = Heirs!Idle, s4' = {},
             s2' = s2 \/ s2' = Heirs!None
      PROVE  HeirsInv'
  <2>1. Heirs!Existing' = Heirs!Existing /\ Heirs!Count' = Heirs!Count
    BY <1>3 DEF Heirs!Existing, Heirs!Count
  <2>2. s2' \in [Heirs!Ids -> SiteAddresses \cup {Absent}] /\ KeptIsTrue'
    BY <1>1, <1>3, <2>1 DEF Heirs!None, HeirsTyped, KeptIsTrue
  <2> QED
    BY <1>1, <1>3, <2>1, <2>2, NothingRead DEF HeirsInv, HeirsTyped
<1>4. ASSUME NEW a \in SiteAddresses, Heirs!Accept(a)
      PROVE  HeirsInv'
  <2>1. a # Owner /\ s3' = Heirs!Idle /\ s4' = {} /\ s2' = s2
    BY <1>4 DEF Heirs!Accept, Heirs!heirProblem
  <2>2. CASE Heirs!Count < MaxHeirVaults /\ s1' = Heirs!Created(a)
    BY <1>1, <2>1, <2>2, CreatedKeeps, NothingRead DEF HeirsInv, HeirsTyped
  <2> QED
    BY <1>3, <1>4, <2>1, <2>2 DEF Heirs!Accept
<1>5. ASSUME NEW id \in Heirs!Existing, NEW a \in SiteAddresses, Heirs!AcceptChange(id, a)
      PROVE  HeirsInv'
  <2>1. a # Owner /\ s3' = Heirs!Idle /\ s4' = {} /\ s2' = s2 /\ s1[id].open
    BY <1>5 DEF Heirs!AcceptChange, Heirs!heirProblem
  <2> DEFINE v == [s1[id] EXCEPT !.heir = a]
  <2>2. DOMAIN v = {"heir", "open"} /\ v.heir \in SiteAddresses \ {Owner} /\ v.open \in BOOLEAN
    BY <1>1, <2>1 DEF HeirsTyped
  <2>3. s1' = [s1 EXCEPT ![id] = v]
    BY <1>5 DEF Heirs!AcceptChange
  <2> HIDE DEF v
  <2>4. /\ Heirs!Count' = Heirs!Count /\ Heirs!Existing' = Heirs!Existing
        /\ \A k \in Heirs!Existing' : /\ DOMAIN s1'[k] = {"heir", "open"}
                                      /\ s1'[k].heir \in SiteAddresses \ {Owner}
                                      /\ s1'[k].open \in BOOLEAN
        /\ KeptIsTrue'
    BY <2>1, <2>2, <2>3, ChangedKeeps
  <2> QED
    BY <1>1, <2>1, <2>4, NothingRead DEF HeirsInv, HeirsTyped
<1>6. ASSUME NEW a \in SiteAddresses \ {Owner}, Heirs!CreateElsewhere(a)
      PROVE  HeirsInv'
  <2>1. /\ Heirs!Count < MaxHeirVaults /\ s1' = Heirs!Created(a) /\ s4' = s4 \cup {Heirs!Count}
        /\ s2' = s2 /\ s3' = s3
    BY <1>6 DEF Heirs!CreateElsewhere
  <2>2. /\ Heirs!Count' \in 0..MaxHeirVaults /\ Heirs!Existing' = 0..(Heirs!Count' - 1)
        /\ Heirs!Count' = Heirs!Count + 1
        /\ \A id \in Heirs!Existing' : /\ DOMAIN s1'[id] = {"heir", "open"}
                                       /\ s1'[id].heir \in SiteAddresses \ {Owner}
                                       /\ s1'[id].open \in BOOLEAN
        /\ KeptIsTrue'
    BY <2>1, CreatedKeeps
  <2>5. /\ Heirs!Existing' = Heirs!Existing \cup {Heirs!Count}
        /\ \A k \in Heirs!Existing \ {Heirs!Count} : s1'[k] = s1[k]
    BY <1>1, <2>1, OneMore
  <2>6. Heirs!Count \in Heirs!Ids /\ Heirs!Existing' \subseteq Heirs!Ids
    BY <1>1, <2>1, <2>2 DEF Heirs!Ids
  <2>3. /\ Heirs!Existing' = Heirs!Existing \cup {Heirs!Count} /\ Heirs!Count \in Heirs!Ids
        /\ Heirs!Existing' \subseteq Heirs!Ids
        /\ \A k \in Heirs!Existing \ {Heirs!Count} : s1'[k] = s1[k]
    BY <2>5, <2>6
  <2>4. ReadIsTrue'
    BY <1>1, <2>1, <2>2, <2>3, OthersAsRead
  <2> QED
    BY <1>1, <2>1, <2>2, <2>4 DEF HeirsInv, HeirsTyped
<1>7. ASSUME NEW id \in Heirs!Existing, s1[id].open, NEW v, s1' = [s1 EXCEPT ![id] = v],
             DOMAIN v = {"heir", "open"}, v.heir \in SiteAddresses \ {Owner}, v.open \in BOOLEAN,
             s4' = s4 \cup {id}, UNCHANGED <<s2, s3>>
      PROVE  HeirsInv'
  <2>1. /\ Heirs!Count' = Heirs!Count /\ Heirs!Existing' = Heirs!Existing
        /\ \A k \in Heirs!Existing' : /\ DOMAIN s1'[k] = {"heir", "open"}
                                      /\ s1'[k].heir \in SiteAddresses \ {Owner}
                                      /\ s1'[k].open \in BOOLEAN
        /\ \A k \in Heirs!Existing \ {id} : s1'[k] = s1[k]
        /\ KeptIsTrue'
    BY <1>7, ChangedKeeps
  <2>2. Heirs!Existing \subseteq Heirs!Ids
    BY <1>1 DEF HeirsTyped, Heirs!Ids
  <2>3. ReadIsTrue'
    BY <1>1, <1>7, <2>1, <2>2, OthersAsRead
  <2> QED
    BY <1>1, <1>7, <2>1, <2>3 DEF HeirsInv, HeirsTyped
<1>8. ASSUME NEW id \in Heirs!Existing, NEW a \in SiteAddresses \ {Owner}, Heirs!ChangeElsewhere(id, a)
      PROVE  HeirsInv'
  <2> DEFINE v == [s1[id] EXCEPT !.heir = a]
  <2>1. DOMAIN v = {"heir", "open"} /\ v.heir \in SiteAddresses \ {Owner} /\ v.open \in BOOLEAN
    BY <1>1 DEF HeirsTyped
  <2>2. /\ s1' = [s1 EXCEPT ![id] = v] /\ s1[id].open
        /\ s4' = s4 \cup {id} /\ UNCHANGED <<s2, s3>>
    BY <1>8 DEF Heirs!ChangeElsewhere
  <2> HIDE DEF v
  <2> QED
    BY <1>7, <2>1, <2>2
<1>9. ASSUME NEW id \in Heirs!Existing, Heirs!Close(id)
      PROVE  HeirsInv'
  <2> DEFINE v == [s1[id] EXCEPT !.open = FALSE]
  <2>1. DOMAIN v = {"heir", "open"} /\ v.heir \in SiteAddresses \ {Owner} /\ v.open \in BOOLEAN
    BY <1>1 DEF HeirsTyped
  <2>2. /\ s1' = [s1 EXCEPT ![id] = v] /\ s1[id].open
        /\ s4' = s4 \cup {id} /\ UNCHANGED <<s2, s3>>
    BY <1>9 DEF Heirs!Close
  <2> HIDE DEF v
  <2> QED
    BY <1>7, <2>1, <2>2
<1>10. CASE Heirs!ReadFails \/ Heirs!Reload \/ \E a \in SiteAddresses : Heirs!Refuse(a)
  BY <1>3, <1>10 DEF Heirs!ReadFails, Heirs!Reload, Heirs!Refuse
<1>11. CASE UNCHANGED Heirs!heirsVars
  <2>1. UNCHANGED <<s1, s2, s3, s4, Heirs!Existing, Heirs!Count, Heirs!Open>>
    BY <1>11 DEF Heirs!heirsVars, Heirs!Existing, Heirs!Count, Heirs!Open
  <2> QED
    BY <1>1, <2>1 DEF HeirsInv, HeirsTyped, KeptIsTrue, ReadIsTrue
<1> QED
  BY <1>2, <1>4, <1>5, <1>6, <1>8, <1>9, <1>10, <1>11 DEF Heirs!Next

\* When a review is over, an open vault's heir was read as it is, and a closed
\* one's is kept, unless the vault changed meanwhile.
LEMMA AllAreKnown ==
  ASSUME HeirsInv, Heirs!BothRead, s3.next >= s3.count, NEW id \in Heirs!Existing \ s4
  PROVE  /\ s1[id].open => s1[id].heir \in Heirs!HeirsIn(s3.open)
         /\ ~s1[id].open => s1[id].heir \in Heirs!HeirsIn(s2)
<1>1. /\ id \in Heirs!Ids /\ id < s3.next /\ s1[id].heir # Absent
      /\ s3.open[id] = Heirs!Open[id]
  BY DEF HeirsInv, HeirsTyped, ReadIsTrue, Heirs!BothRead, Heirs!Ids
<1>2. CASE s1[id].open
  BY <1>1, <1>2, OpenOf DEF Heirs!HeirsIn
<1>3. CASE ~s1[id].open
  BY <1>1, <1>3 DEF HeirsInv, ReadIsTrue, KeptIsTrue, Heirs!HeirsIn
<1> QED
  BY <1>2, <1>3

\* A kept heir is one a closed vault names.
LEMMA KeptAreNamed ==
  ASSUME HeirsInv, NEW a \in Heirs!HeirsIn(s2)
  PROVE  \E id \in Heirs!Existing : ~s1[id].open /\ s1[id].heir = a
BY DEF HeirsInv, KeptIsTrue, Heirs!HeirsIn

\* What was read as the heir of an open vault is so while nothing changed.
LEMMA ReadAreOpen ==
  ASSUME HeirsInv, Heirs!BothRead, s4 = {}
  PROVE  /\ \A a \in Heirs!HeirsIn(s3.open) : \E id \in Heirs!Existing : s1[id].open /\ s1[id].heir = a
         /\ Heirs!HeirsIn(s3.open) = Heirs!HeirsIn(Heirs!Open)
<1>1. \A id \in Heirs!Ids : s3.open[id] = Heirs!Open[id]
  BY DEF HeirsInv, ReadIsTrue, Heirs!BothRead
<1>2. Heirs!HeirsIn(s3.open) = Heirs!HeirsIn(Heirs!Open)
  BY <1>1 DEF Heirs!HeirsIn
<1> QED
  BY <1>1, <1>2, OpenOf DEF Heirs!HeirsIn

LEMMA LooksBothWays == \A a, b : Heirs!looksLike(a, b) <=> Heirs!looksLike(b, a)
<1>1. \A a, b : {a, b} = {b, a}
  OBVIOUS
<1> QED
  BY <1>1 DEF Heirs!looksLike

LEMMA ImitationIsRefused ==
  ASSUME HeirsInv
  PROVE  Heirs!ImitationRefusedStep
<1> SUFFICES ASSUME NEW a \in SiteAddresses, Heirs!Accept(a)
             PROVE  /\ ~Heirs!looksLike(a, Owner)
                    /\ \A id \in Heirs!Existing \ s4 :
                          Heirs!looksLike(a, s1[id].heir) =>
                              /\ ~s1[id].open
                              /\ \E b \in {Owner} \cup Heirs!Named \cup Heirs!HeirsIn(s3.open) :
                                    Heirs!looksLike(s1[id].heir, b)
  BY DEF Heirs!ImitationRefusedStep
<1>1. /\ Heirs!BothRead /\ s3.next >= s3.count /\ a # Owner
      /\ \A b \in {Owner} \cup Heirs!KnownFrom(s3.open) : ~Heirs!looksLike(a, b)
  BY DEF Heirs!Accept, Heirs!heirProblem, Heirs!lookalikeOf
<1>2. ASSUME NEW id \in Heirs!Existing \ s4, Heirs!looksLike(a, s1[id].heir)
      PROVE  /\ ~s1[id].open
             /\ \E b \in {Owner} \cup Heirs!Named \cup Heirs!HeirsIn(s3.open) : Heirs!looksLike(s1[id].heir, b)
  <2> DEFINE h == s1[id].heir
             every == {Owner} \cup Heirs!HeirsIn(s3.open) \cup Heirs!HeirsIn(s2)
  <2>1. h \notin Heirs!KnownFrom(s3.open)
    BY <1>1, <1>2
  <2>2. h \notin Heirs!HeirsIn(s3.open)
    BY <2>1 DEF Heirs!KnownFrom
  <2>3. ~s1[id].open /\ h \in Heirs!HeirsIn(s2)
    BY <1>1, <2>2, AllAreKnown DEF HeirsInv, HeirsTyped
  <2>4. Heirs!lookalikeOf(h, every) # {}
    BY <2>1, <2>3 DEF Heirs!KnownFrom
  <2>5. PICK b \in every : Heirs!looksLike(h, b)
    BY <2>4 DEF Heirs!lookalikeOf
  <2>6. Heirs!HeirsIn(s2) \subseteq Heirs!Named
    BY KeptAreNamed DEF Heirs!Named
  <2> QED
    BY <2>3, <2>5, <2>6
<1> QED
  BY <1>1, <1>2

LEMMA ConfirmedIsAccepted ==
  ASSUME HeirsInv
  PROVE  Heirs!ConfirmedHeirAcceptedStep
<1> SUFFICES ASSUME NEW a \in Heirs!Named, Heirs!Refuse(a), s4 = {}, ~Heirs!looksLike(a, Owner)
             PROVE  \E id \in Heirs!Existing : s1[id].open /\ Heirs!looksLike(a, s1[id].heir)
  BY DEF Heirs!ConfirmedHeirAcceptedStep
<1>1. Heirs!BothRead /\ s3.next >= s3.count /\ Heirs!heirProblem(a, Heirs!KnownFrom(s3.open), {})
  BY DEF Heirs!Refuse
<1>2. a # Owner
  BY DEF Heirs!Named, HeirsInv, HeirsTyped
<1>3. PICK b \in {Owner} \cup Heirs!KnownFrom(s3.open) : Heirs!looksLike(a, b)
  BY <1>1, <1>2 DEF Heirs!heirProblem, Heirs!lookalikeOf
<1>4. a \in Heirs!HeirsIn(s3.open) \cup Heirs!HeirsIn(s2)
  BY <1>1, AllAreKnown DEF Heirs!Named
<1>5. b \in Heirs!HeirsIn(s3.open)
  <2> SUFFICES ASSUME b \notin Heirs!HeirsIn(s3.open)
               PROVE  FALSE
    OBVIOUS
  <2> DEFINE every == {Owner} \cup Heirs!HeirsIn(s3.open) \cup Heirs!HeirsIn(s2)
  <2>1. Heirs!lookalikeOf(b, every) = {}
    BY <1>3 DEF Heirs!KnownFrom
  <2>2. ~Heirs!looksLike(b, a)
    BY <1>4, <2>1 DEF Heirs!lookalikeOf
  <2> QED
    BY <1>3, <2>2, LooksBothWays
<1>6. PICK id \in Heirs!Existing : s1[id].open /\ s1[id].heir = b
  BY <1>1, <1>5, ReadAreOpen
<1> QED
  BY <1>3, <1>6

LEMMA AlertsKeep ==
  ASSUME HeirsInv
  PROVE  Heirs!AlertsAreKeptStep
<1> DEFINE heirs == Heirs!HeirsIn(Heirs!Open)
<1> SUFFICES ASSUME s4 = {}, NEW a \in SiteAddresses
             PROVE  /\ (\E id \in Heirs!Existing : Heirs!AcceptChange(id, a)) =>
                           a \notin UNION Heirs!renderHeirAlerts(heirs)
                    /\ (Heirs!Refuse(a) /\ a \in heirs \ {Owner}) =>
                           \/ a \in UNION Heirs!renderHeirAlerts(heirs)
                           \/ \E id \in Heirs!Existing : ~s1[id].open /\ Heirs!looksLike(a, s1[id].heir)
  BY DEF Heirs!AlertsAreKeptStep, Heirs!heirPickerOptions, Heirs!collectHeirs
<1>1. \A b, c : b \in heirs /\ c \in {Owner} \cup heirs /\ Heirs!looksLike(b, c)
                    => {b, c} \in Heirs!renderHeirAlerts(heirs)
  BY DEF Heirs!renderHeirAlerts, Heirs!looksLike
<1>2. ASSUME NEW id \in Heirs!Existing, Heirs!AcceptChange(id, a), a \in UNION Heirs!renderHeirAlerts(heirs)
      PROVE  FALSE
  <2>1. /\ Heirs!BothRead /\ a # Owner
        /\ \A b \in {Owner} \cup Heirs!HeirsIn(s3.open) : ~Heirs!looksLike(a, b)
    BY <1>2 DEF Heirs!AcceptChange, Heirs!heirProblem, Heirs!lookalikeOf, Heirs!KnownFrom
  <2>2. \A b \in {Owner} \cup heirs : ~Heirs!looksLike(a, b)
    BY <2>1, ReadAreOpen
  <2>3. PICK b \in heirs, c \in {Owner} \cup heirs : Heirs!looksLike(b, c) /\ a \in {b, c}
    <3>1. PICK pair \in Heirs!renderHeirAlerts(heirs) : a \in pair
      BY <1>2
    <3>2. PICK b \in heirs, c \in {Owner} \cup heirs : pair = {b, c} /\ pair \in Alike
      BY <3>1 DEF Heirs!renderHeirAlerts
    <3> QED
      BY <3>1, <3>2 DEF Heirs!looksLike
  <2> QED
    BY <2>2, <2>3, LooksBothWays
<1>3. ASSUME Heirs!Refuse(a), a \in heirs, a # Owner,
             ~ \E id \in Heirs!Existing : ~s1[id].open /\ Heirs!looksLike(a, s1[id].heir)
      PROVE  a \in UNION Heirs!renderHeirAlerts(heirs)
  <2>1. Heirs!BothRead /\ Heirs!heirProblem(a, Heirs!KnownFrom(s3.open), {})
    BY <1>3 DEF Heirs!Refuse
  <2>2. PICK b \in {Owner} \cup Heirs!KnownFrom(s3.open) : Heirs!looksLike(a, b)
    BY <1>3, <2>1 DEF Heirs!heirProblem, Heirs!lookalikeOf
  <2>3. b \notin Heirs!HeirsIn(s2)
    BY <1>3, <2>2, KeptAreNamed
  <2>4. b \in {Owner} \cup heirs
    BY <2>1, <2>2, <2>3, ReadAreOpen DEF Heirs!KnownFrom
  <2>5. {a, b} \in Heirs!renderHeirAlerts(heirs)
    BY <1>1, <1>3, <2>2, <2>4
  <2> QED
    BY <2>5
<1> QED
  BY <1>2, <1>3

HIDE HeirsFit DEF Heirs!HeirsAssumption

-----------------------------------------------------------------------------
(* The heir search: the part "search".  s1 is the newest block, s5 the      *)
(* search, s6 where it is.                                                  *)

\* What is known of the sizes of this part.
LEMMA SearchFits ==
  /\ Sources \in Seq(Search!SourceSet) /\ Len(Sources) > 0
  /\ SearchSize.MIN_LOG_SPAN \in Nat \ {0} /\ SearchSize.Shrink \in Nat \ {0, 1}
  /\ \A i \in DOMAIN Sources : SpanOf[Sources[i]] \in Nat
BY SiteAssumption DEF SiteAssumption, Search!SearchAssumption, Search!SourceSet

USE SearchFits

\* The cursors are numbers, and the source that is asked is one of the list.
Cursors ==
    /\ DOMAIN s5 = {"next", "candidates", "summary", "running", "stop"}
    /\ DOMAIN s6 = {"stage", "src", "span", "until", "cursor", "target", "waits"}
    /\ s1 \in Int /\ s5.next \in Int
    /\ s6.cursor \in Int /\ s6.span \in Int /\ s6.until \in Int /\ s6.target \in Int
    /\ s6.src \in Nat /\ (s6.stage \in {"probe", "head", "logs"} => s6.src \in DOMAIN Sources)

LEMMA SearchStarts == Search!Init => Cursors
BY DEF Search!Init, Cursors, Search!Idle, Search!Deploy

\* A turn: the next source's, or none.
LEMMA TurnKeeps ==
  ASSUME Cursors, NEW i \in Nat, i > 0, NEW target \in Int, NEW next \in Int, NEW candidates,
         Search!Turn(i, target, next, candidates)
  PROVE  /\ Cursors'
         /\ s5.stop => s6'.stage = "show"
         /\ s6'.stage # "show" => s6'.stage = "probe" /\ s5'.next = next
<1>1. CASE i > Len(Sources) \/ next > target \/ s5.stop
  <2>1. Search!Finish(target, next, candidates)
    BY <1>1 DEF Search!Turn
  <2>2. /\ s6'.stage = "show" /\ s6'.src = 0 /\ s6'.span = 0 /\ s6'.until = 0 /\ s6'.cursor = 0
        /\ s6'.target = target /\ s1' = s1
        /\ DOMAIN s6' = {"stage", "src", "span", "until", "cursor", "target", "waits"}
    BY <2>1 DEF Search!Finish, Search!Idle, Search!chain
  <2>3. DOMAIN s5' = {"next", "candidates", "summary", "running", "stop"} /\ s5'.next = next
    BY <2>1 DEF Search!Finish, Cursors
  <2> QED
    BY <2>2, <2>3 DEF Cursors
<1>2. CASE ~(i > Len(Sources) \/ next > target \/ s5.stop)
  <2>1. /\ s6' = [Search!Idle EXCEPT !.stage = "probe", !.src = i, !.target = target]
        /\ s5' = [s5 EXCEPT !.next = next, !.candidates = candidates]
        /\ s1' = s1
    BY <1>2 DEF Search!Turn, Search!chain
  <2>2. i \in DOMAIN Sources
    BY <1>2
  <2>3. /\ s6'.stage = "probe" /\ s6'.src = i /\ s6'.span = 0 /\ s6'.until = 0 /\ s6'.cursor = 0
        /\ s6'.target = target
        /\ DOMAIN s6' = {"stage", "src", "span", "until", "cursor", "target", "waits"}
    BY <2>1 DEF Search!Idle
  <2>4. DOMAIN s5' = {"next", "candidates", "summary", "running", "stop"} /\ s5'.next = next
    BY <2>1 DEF Cursors
  <2> QED
    BY <1>2, <2>1, <2>2, <2>3, <2>4 DEF Cursors
<1> QED
  BY <1>1, <1>2

\* What every step keeps, and what none does after a stop.
Heeded ==
    /\ Cursors'
    /\ s5.stop /\ s5.running /\ s5'.running /\ s6'.stage # "show" =>
          s5'.next = s5.next /\ (s6'.stage = "logs" => s6'.cursor = s6.cursor)

LEMMA NextSourceHeeds ==
  ASSUME Cursors, NEW next \in Int, Search!NextSource(next)
  PROVE  Heeded
<1>1. s6.src + 1 \in Nat /\ s6.src + 1 > 0 /\ s6.target \in Int
  BY DEF Cursors
<1> QED
  BY <1>1, TurnKeeps DEF Search!NextSource, Heeded

LEMMA SearchHeeds ==
  ASSUME Cursors, [Search!Next]_(Search!vars)
  PROVE  Heeded
<1>0. /\ s5.next \in Int /\ s6.cursor \in Int /\ s6.target \in Int /\ s6.src \in Nat
      /\ s6.span \in Int /\ s6.until \in Int /\ s1 \in Int /\ Search!end \in Int
  BY DEF Cursors, Search!end, Search!Least
<1>1. CASE Search!TargetRead
  <2>1. PICK t \in Search!Most(Search!Deploy, s1 - 1)..s1 : Search!Turn(1, t, s5.next, s5.candidates)
    BY <1>1 DEF Search!TargetRead
  <2> QED
    BY <1>0, <2>1, TurnKeeps DEF Heeded
<1>2. ASSUME NEW target \in Int, Search!Finish(target, s5.next, s5.candidates)
      PROVE  Heeded
  <2>2. /\ s6'.stage = "show" /\ s6'.src = 0 /\ s6'.span = 0 /\ s6'.until = 0 /\ s6'.cursor = 0
        /\ s6'.target = target /\ s1' = s1
        /\ DOMAIN s6' = {"stage", "src", "span", "until", "cursor", "target", "waits"}
    BY <1>2 DEF Search!Finish, Search!Idle, Search!chain
  <2>3. DOMAIN s5' = {"next", "candidates", "summary", "running", "stop"} /\ s5'.next = s5.next
    BY <1>2 DEF Search!Finish, Cursors
  <2> QED
    BY <1>0, <2>2, <2>3 DEF Heeded, Cursors
<1>3. ASSUME s5' = s5, s1' = s1, NEW w, NEW span \in Int,
             s6' = [s6 EXCEPT !.waits = w, !.span = span]
      PROVE  Heeded
  BY <1>3 DEF Heeded, Cursors
<1>4. CASE Search!RateLimited
  BY <1>4 DEF Search!RateLimited, Search!chain, Heeded, Cursors
<1>5. CASE Search!RateLimitedToTheEnd \/ Search!CallFails
  BY <1>0, <1>5, NextSourceHeeds DEF Search!RateLimitedToTheEnd, Search!CallFails
<1>6. CASE Search!Probed
  <2>1. CASE Search!servesHistory(Search!source)
    <3>1. s6' = [s6 EXCEPT !.stage = "head", !.waits = 0] /\ s5' = s5 /\ s1' = s1 /\ s6.stage = "probe"
      BY <1>6, <2>1 DEF Search!Probed, Search!chain
    <3> QED
      BY <3>1 DEF Heeded, Cursors
  <2> QED
    BY <1>0, <1>6, <2>1, NextSourceHeeds DEF Search!Probed
<1>7. CASE Search!HeadRead
  <2>1. PICK h \in Search!Most(Search!Deploy, s1 - 1)..s1 :
          IF s5.next > Search!Least(s6.target, h) \/ s5.stop
          THEN Search!NextSource(s5.next)
          ELSE /\ s6' = [s6 EXCEPT !.stage = "logs", !.waits = 0, !.until = Search!Least(s6.target, h),
                                   !.cursor = s5.next, !.span = SpanOf[Search!source]]
               /\ UNCHANGED <<Search!chain, Search!page, s5>>
    BY <1>7 DEF Search!HeadRead
  <2>2. CASE s5.next > Search!Least(s6.target, h) \/ s5.stop
    BY <1>0, <2>1, <2>2, NextSourceHeeds
  <2>3. CASE ~(s5.next > Search!Least(s6.target, h) \/ s5.stop)
    <3> DEFINE u == Search!Least(s6.target, h)  sp == SpanOf[Search!source]
    <3>1. u \in Int
      BY <1>0 DEF Search!Least
    <3>2. sp \in Int
      BY <1>7 DEF Search!HeadRead, Cursors, Search!source
    <3>3. s6' = [s6 EXCEPT !.stage = "logs", !.waits = 0, !.until = u, !.cursor = s5.next, !.span = sp]
      BY <2>1, <2>3
    <3>4. s5' = s5 /\ s1' = s1 /\ s6.src \in DOMAIN Sources
      BY <1>7, <2>1, <2>3 DEF Search!chain, Search!HeadRead, Cursors
    <3> HIDE DEF u, sp
    <3> QED
      BY <1>0, <2>3, <3>1, <3>2, <3>3, <3>4 DEF Heeded, Cursors
  <2> QED
    BY <2>2, <2>3
<1>8. CASE Search!LogsAnswered
  <2> DEFINE cands == s5.candidates \cup {r[2] : r \in Search!Logs(Search!source, s6.cursor, Search!end)}
             c == Search!end + 1
  <2>1. Search!Continue(c, cands) /\ c \in Int
    BY <1>0, <1>8 DEF Search!LogsAnswered
  <2> HIDE DEF c, cands
  <2>2. CASE c > s6.until \/ s5.stop
    <3>1. Search!Turn(s6.src + 1, s6.target, c, cands) /\ s6.src + 1 \in Nat /\ s6.src + 1 > 0
      BY <1>0, <2>1, <2>2, SMTT(30) DEF Search!Continue
    <3> QED
      BY <1>0, <2>1, <2>2, <3>1, TurnKeeps DEF Heeded
  <2>3. CASE ~(c > s6.until \/ s5.stop)
    <3>1. /\ s6' = [s6 EXCEPT !.cursor = c, !.waits = 0] /\ s1' = s1
          /\ s5' = [s5 EXCEPT !.candidates = cands]
      BY <2>1, <2>3 DEF Search!Continue, Search!chain
    <3> QED
      BY <2>1, <2>3, <3>1 DEF Heeded, Cursors
  <2> QED
    BY <2>2, <2>3
<1>9. CASE Search!LogsRefused \/ Search!LogsFail
  <2>1. Search!Shrunk
    BY <1>9 DEF Search!LogsRefused, Search!LogsFail
  <2>2. CASE s6.span <= SearchSize.MIN_LOG_SPAN \/ s5.stop
    BY <1>0, <2>1, <2>2, NextSourceHeeds DEF Search!Shrunk
  <2>3. CASE ~(s6.span <= SearchSize.MIN_LOG_SPAN \/ s5.stop)
    <3> DEFINE sp == Search!Most(SearchSize.MIN_LOG_SPAN,
       (Search!end - s6.cursor + 1) \div SearchSize.Shrink)
    <3>1. sp \in Int
      BY <1>0, SMTT(30) DEF Search!Most
    <3>2. s6' = [s6 EXCEPT !.waits = 0, !.span = sp] /\ s5' = s5 /\ s1' = s1
      BY <2>1, <2>3 DEF Search!Shrunk, Search!chain
    <3> HIDE DEF sp
    <3> QED
      BY <1>3, <3>1, <3>2
  <2> QED
    BY <2>2, <2>3
<1>10. CASE Search!Shows \/ Search!ShowFails
  <2>1. s6' = Search!Idle /\ s5' = [s5 EXCEPT !.running = FALSE, !.stop = FALSE] /\ s1' = s1
    BY <1>10 DEF Search!Shows, Search!ShowFails, Search!Ended, Search!chain
  <2> QED
    BY <2>1 DEF Heeded, Cursors, Search!Idle
<1>11. CASE Search!Starts
  <2>1. /\ DOMAIN s5' = DOMAIN s5 /\ s5'.next \in Int /\ s1' = s1
        /\ s6' = [Search!Idle EXCEPT !.stage = "target"] /\ s5'.next = IF s5.next = 0 THEN Search!Deploy ELSE s5.next
    BY <1>0, <1>11 DEF Search!Starts, Cursors, Search!Deploy, Search!chain
  <2>2. Cursors'
    BY <2>1 DEF Cursors, Search!Idle
  <2> QED
    BY <1>11, <2>1, <2>2 DEF Heeded, Search!Idle, Search!Starts
<1>12. CASE Search!Stop
  BY <1>12 DEF Search!Stop, Search!chain, Heeded, Cursors
<1>13. CASE Search!Lookup \/ Search!rereadHeir \/ Search!OwnerShown \/ Search!FoundShown
            \/ Search!ReadFails \/ Search!Block \/ UNCHANGED Search!vars
  <2>1. s5' = s5 /\ s6' = s6 /\ s1' \in Int
    BY <1>0, <1>13 DEF Search!Lookup, Search!rereadHeir, Search!OwnerShown, Search!FoundShown,
       Search!ReadFails, Search!Block, Search!vars, Search!chain
  <2> QED
    BY <2>1 DEF Heeded, Cursors
<1> QED
  BY <1>1, <1>2, <1>4, <1>5, <1>6, <1>7, <1>8, <1>9, <1>10, <1>11, <1>12, <1>13
     DEF Search!Next, Search!Answer, Search!Failure, Search!TargetFails

LEMMA StopIsHeeded ==
  ASSUME Cursors, [Search!Next]_(Search!vars)
  PROVE  Search!StopIsHeededStep
<1>1. Heeded /\ s5.next \in Int
  BY SearchHeeds DEF Cursors
<1>2. s5.stop /\ s5.running /\ s5'.running /\ s6'.stage # "show" => ~(s5'.next > s5.next)
  BY <1>1 DEF Heeded
<1> QED
  BY <1>1, <1>2 DEF Heeded, Search!StopIsHeededStep

HIDE SearchFits

-----------------------------------------------------------------------------
(* All of them again: what is signed is what was reviewed, and what was     *)
(* told stands.                                                             *)

\* What each of these parts keeps.
WordsInv ==
    /\ part = "desk" => Desk!DeskInv
    /\ part = "longDesk" => LongDesk!DeskInv
    /\ part = "heirDesk" => HeirInv
    /\ part = "payout" => PayInv /\ PayCovers
    /\ part = "heirs" => HeirsInv
    /\ part = "checkIns" => BatchInv
    /\ part = "txLine" => LineInv
    /\ part = "search" => Cursors

\* A step of the run is a step of its part.
LEMMA StepOfTheTold ==
  ASSUME [SiteNext]_siteVars
  PROVE  /\ part = "heirDesk" => [Heir!HeirNext]_(Heir!heirVars)
         /\ part = "checkIns" => [CheckIns!Next]_(CheckIns!checkInVars)
         /\ part = "heirs" => [Heirs!Next]_(Heirs!heirsVars)
         /\ part = "txLine" => [TxLog!LineNext]_(TxLog!lineVars)
         /\ part = "search" => [Search!Next]_(Search!vars)
<1>1. CASE SiteNext
  BY <1>1 DEF SiteNext
<1>2. CASE UNCHANGED siteVars
  BY <1>2 DEF siteVars, Heir!heirVars, Heir!switchVars, CheckIns!checkInVars, CheckIns!pageVars,
              Heirs!heirsVars, TxLog!lineVars, Search!vars
<1> QED
  BY <1>1, <1>2

LEMMA WordsStart ==
  ASSUME SiteInit
  PROVE  WordsInv
<1>1. part = "desk" => Desk!DeskInv
  BY Desk!DeskStarts, DesksFit DEF SiteInit
<1>2. part = "longDesk" => LongDesk!DeskInv
  BY LongDesk!DeskStarts, DesksFit DEF SiteInit
<1>3. part = "payout" => PayInv /\ PayCovers
  BY PayStart DEF SiteInit, Payout!Init, PayCovers, paySigns
<1>4. part = "heirDesk" => HeirInv
  BY HeirStarts DEF SiteInit
<1>5. part = "heirs" => HeirsInv
  BY HeirsStart DEF SiteInit
<1>6. part = "checkIns" => BatchInv
  BY BatchStarts DEF SiteInit
<1>7. (part = "txLine" => LineInv) /\ (part = "search" => Cursors)
  BY LineStarts, SearchStarts DEF SiteInit
<1> QED
  BY <1>1, <1>2, <1>3, <1>4, <1>5, <1>6, <1>7 DEF WordsInv

LEMMA WordsStep ==
  ASSUME WordsInv, [SiteNext]_siteVars
  PROVE  WordsInv'
<1>1. part = "desk" => Desk!DeskInv'
  BY StepOfItsPart, Desk!DeskGoesOn, DesksFit DEF WordsInv
<1>2. part = "longDesk" => LongDesk!DeskInv'
  BY StepOfItsPart, LongDesk!DeskGoesOn, DesksFit DEF WordsInv
<1>3. part = "payout" => PayInv' /\ PayCovers'
  BY StepOfItsPart, PayStep, PayCoversStep DEF WordsInv, PayInv
<1>4. part = "heirDesk" => HeirInv'
  BY StepOfTheTold, HeirGoesOn DEF WordsInv
<1>5. part = "heirs" => HeirsInv'
  BY StepOfTheTold, HeirsStep DEF WordsInv
<1>6. part = "checkIns" => BatchInv'
  BY StepOfTheTold, BatchGoesOn DEF WordsInv
<1>7. part = "txLine" => LineInv'
  BY StepOfTheTold, LineStep DEF WordsInv
<1>8. part = "search" => Cursors'
  BY StepOfTheTold, SearchHeeds DEF WordsInv, Heeded
<1>9. part' = part
  BY StepOfItsPart
<1> QED
  BY <1>1, <1>2, <1>3, <1>4, <1>5, <1>6, <1>7, <1>8, <1>9 DEF WordsInv

LEMMA WordsPromise ==
  ASSUME WordsInv, [SiteNext]_siteVars
  PROVE  /\ EffectAsToldStep /\ EverythingClosesStep /\ SignedCallAcceptedStep
         /\ AskedOnlyWhatWorksStep /\ UnwarnedCancelInTimeStep /\ PaysAsToldStep
         /\ ConfirmedHeirAcceptedStep /\ ImitationRefusedStep
         /\ ResultIsShownStep /\ WarningStaysStep /\ LastIsLastStep /\ HeldBackAsSkippedStep
         /\ RemediesHelpStep /\ NoUntoldLastCheckInStep /\ NotSentCanBeSentStep
         /\ AlertsAreKeptStep /\ StopIsHeededStep
<1>1. part = "desk" => /\ Desk!EffectAsToldStep /\ Desk!EverythingClosesStep
                       /\ Desk!SignedCallAcceptedStep /\ Desk!LastIsLastStep
  BY Desk!DeskStepsTrue, DesksFit DEF WordsInv
<1>2. part = "longDesk" => /\ LongDesk!EffectAsToldStep /\ LongDesk!EverythingClosesStep
                           /\ LongDesk!SignedCallAcceptedStep /\ LongDesk!LastIsLastStep
  BY LongDesk!DeskStepsTrue, DesksFit DEF WordsInv
<1>3. EffectAsToldStep /\ EverythingClosesStep /\ SignedCallAcceptedStep /\ LastIsLastStep
  BY <1>1, <1>2 DEF EffectAsToldStep, EverythingClosesStep, SignedCallAcceptedStep, LastIsLastStep
<1>4. AskedOnlyWhatWorksStep /\ UnwarnedCancelInTimeStep
  BY StepOfTheTold, HeirStepsTrue DEF WordsInv, AskedOnlyWhatWorksStep, UnwarnedCancelInTimeStep
<1>5. PaysAsToldStep
  BY PaysAsTold DEF WordsInv, PayInv, PaysAsToldStep
<1>6. ConfirmedHeirAcceptedStep /\ ImitationRefusedStep /\ AlertsAreKeptStep
  BY ConfirmedIsAccepted, ImitationIsRefused, AlertsKeep
     DEF WordsInv, ConfirmedHeirAcceptedStep, ImitationRefusedStep, AlertsAreKeptStep
<1>7. ResultIsShownStep /\ WarningStaysStep
  BY StepOfTheTold, ResultIsShown, WarningStays DEF WordsInv, ResultIsShownStep, WarningStaysStep
<1>8. HeldBackAsSkippedStep /\ RemediesHelpStep /\ NoUntoldLastCheckInStep /\ NotSentCanBeSentStep
  BY HeldBackIsSkipped, RemediesHelp, LastIsTold, NotSentCanBeSent
     DEF WordsInv, HeldBackAsSkippedStep, RemediesHelpStep, NoUntoldLastCheckInStep, NotSentCanBeSentStep
<1>9. StopIsHeededStep
  BY StepOfTheTold, StopIsHeeded DEF WordsInv, StopIsHeededStep
<1> QED
  BY <1>3, <1>4, <1>5, <1>6, <1>7, <1>8, <1>9

\* A signature does what its review said, and the contract accepts it: for every
\* contract, every set of persons and of addresses, and every length of a run,
\* whatever the vault does between the reads and the block (vaultChange, the last
\* re-reads of the owner's and of the heir's panels, heirProblem).
THEOREM SignedIsAsReviewed == SiteSpec => SignedAsReviewed
<1>1. SiteInit => WordsInv
  BY WordsStart
<1>2. WordsInv /\ [SiteNext]_siteVars => WordsInv'
  BY WordsStep
<1>3. WordsInv /\ [SiteNext]_siteVars =>
         /\ EffectAsToldStep /\ EverythingClosesStep /\ SignedCallAcceptedStep
         /\ AskedOnlyWhatWorksStep /\ UnwarnedCancelInTimeStep /\ PaysAsToldStep
         /\ ConfirmedHeirAcceptedStep /\ ImitationRefusedStep
  BY WordsPromise
<1> QED
  BY <1>1, <1>2, <1>3, PTL DEF SiteSpec, SignedAsReviewed

\* What the page has told stands: however its transactions end and its cards are
\* drawn, whatever the vaults of a batch do between its reads and its block, and
\* whenever a search is stopped (relocate, reportCheckIn, checkInBlocker,
\* renderHeirAlerts, searchHeir).
THEOREM ReportsStandOn == SiteSpec => ReportsStand
<1>1. SiteInit => WordsInv
  BY WordsStart
<1>2. WordsInv /\ [SiteNext]_siteVars => WordsInv'
  BY WordsStep
<1>3. WordsInv /\ [SiteNext]_siteVars =>
         /\ ResultIsShownStep /\ WarningStaysStep /\ LastIsLastStep /\ HeldBackAsSkippedStep
         /\ RemediesHelpStep /\ NoUntoldLastCheckInStep /\ NotSentCanBeSentStep
         /\ AlertsAreKeptStep /\ StopIsHeededStep
  BY WordsPromise
<1> QED
  BY <1>1, <1>2, <1>3, PTL DEF SiteSpec, ReportsStand

-----------------------------------------------------------------------------
(* Where the lines stand: the part "txLine" once more, with all that is     *)
(* shown on a card and at the view's home.                                  *)

LEMMA LinesFit == MaxDraws \in Nat \ {0}
BY SiteAssumption DEF SiteAssumption

\* What is on the page: a card that is not shown has no text, and a line at the
\* home is of a transaction whose card is gone.
LinesPlaced ==
    /\ s1 \in TxLog!Homes /\ s2 \in [Reviews -> Cards]
    /\ s3 \subseteq Cards /\ s4 \subseteq Cards
    /\ s5 \in 1..MaxDraws
    /\ s6 \in [Reviews -> 0..MaxDraws] /\ s9 \in [Reviews -> 0..MaxDraws]
    /\ s8 \in [Reviews -> SUBSET Cards]
    /\ s10 \in [Cards -> TxLog!Lines] /\ \A c \in Cards \ s4 : s10[c] = TxLog!Blank
    /\ s11 \subseteq TxLog!Lines
    /\ s1 = "status" => \A l, m \in s11 : l = m
    /\ TxLog!HomeIsForTheGone

LEMMA LinesAre ==
  /\ TxLog!Blank \in TxLog!Lines /\ TxLog!Blank.tx = {}
  /\ \A t \in Reviews, what \in TxLog!Whats : TxLog!Line(t, what) \in TxLog!Lines /\ TxLog!Line(t, what).tx = {t}
  /\ [tx |-> {}, what |-> "stopped"] \in TxLog!Lines
BY DEF TxLog!Blank, TxLog!Lines, TxLog!Line, TxLog!Whats

LEMMA PlacedStart == TxLog!LineInit => LinesPlaced
<1> SUFFICES ASSUME TxLog!LineInit PROVE LinesPlaced
  OBVIOUS
<1>1. s10 \in [Cards -> TxLog!Lines]
  BY LinesAre DEF TxLog!LineInit
<1> QED
  BY <1>1, LinesFit DEF TxLog!LineInit, LinesPlaced, TxLog!HomeIsForTheGone

\* A line written on a card of the page.
LEMMA WrittenStays ==
  ASSUME LineInv, LinesPlaced, NEW c \in Cards, NEW l \in TxLog!Lines,
         s10' = s10 \/ (c \in s4 /\ s10' = [s10 EXCEPT ![c] = l]),
         UNCHANGED <<s1, s2, s4, s5, s9, s11>>,
         s3' \subseteq Cards, s6' \in [Reviews -> 0..MaxDraws], s8' \in [Reviews -> SUBSET Cards]
  PROVE  LinesPlaced'
<1>1. s10' \in [Cards -> TxLog!Lines] /\ \A d \in Cards \ s4 : s10'[d] = TxLog!Blank
  BY DEF LinesPlaced
<1> QED
  BY <1>1 DEF LinesPlaced, TxLog!HomeIsForTheGone

LEMMA NewLogsAre ==
  ASSUME LineInv, NEW cs \in SUBSET Cards
  PROVE  TxLog!NewLogs(cs) \in [Cards -> TxLog!Lines] /\ \A c \in Cards \ cs : TxLog!NewLogs(cs)[c] = TxLog!Blank
<1>1. \A c \in Cards : TxLog!CardLog(c) \in TxLog!Lines
  <2> SUFFICES ASSUME NEW c \in Cards  PROVE TxLog!CardLog(c) \in TxLog!Lines
    OBVIOUS
  <2>1. CASE \E u \in s12 : s2[u] = c
    <3>1. (CHOOSE u \in s12 : TRUE) \in Reviews
      BY <2>1 DEF LineInv
    <3> QED
      BY <2>1, <3>1, LinesAre DEF TxLog!CardLog, TxLog!Whats
  <2> QED
    BY <2>1, LinesAre DEF TxLog!CardLog
<1> QED
  BY <1>1, LinesAre DEF TxLog!NewLogs

LEMMA PlacedGoesOn ==
  ASSUME LineInv, LinesPlaced, [TxLog!LineNext]_(TxLog!lineVars)
  PROVE  LinesPlaced'
<1>0. /\ s1 \in TxLog!Homes /\ s2 \in [Reviews -> Cards]
      /\ s3 \subseteq Cards /\ s4 \subseteq Cards
      /\ s5 \in 1..MaxDraws /\ MaxDraws \in Nat
      /\ s6 \in [Reviews -> 0..MaxDraws] /\ s9 \in [Reviews -> 0..MaxDraws]
      /\ s8 \in [Reviews -> SUBSET Cards]
  BY LinesFit DEF LinesPlaced
<1>1. ASSUME NEW t \in Reviews, NEW what \in TxLog!Whats
      PROVE  \/ TxLog!Written(t, what) = s10
             \/ (s2[t] \in s4 /\ TxLog!Written(t, what) = [s10 EXCEPT ![s2[t]] = TxLog!Line(t, what)])
  BY DEF TxLog!Written, TxLog!Connected
<1>2. ASSUME NEW t \in Reviews, TxLog!Press(t)
      PROVE  LinesPlaced'
  <2>1. /\ s10' = s10 \/ \E what \in TxLog!Whats : s10' = [s10 EXCEPT ![s2[t]] = TxLog!Line(t, what)]
        /\ s2[t] \in s4 /\ UNCHANGED <<s1, s2, s3, s4, s5, s9, s11, s8>>
    BY <1>2 DEF TxLog!Press, TxLog!Refuse, TxLog!Whats
  <2>2. s6' \in [Reviews -> 0..MaxDraws]
    BY <1>0, <1>2 DEF TxLog!Press
  <2> QED
    BY <1>0, <2>1, <2>2, WrittenStays, LinesAre
<1>3. ASSUME NEW t \in Reviews, TxLog!Declined(t) \/ TxLog!Sent(t) \/ TxLog!Lost(t)
      PROVE  LinesPlaced'
  <2>1. PICK what \in TxLog!Whats : s10' = TxLog!Written(t, what)
    BY <1>3 DEF TxLog!Declined, TxLog!Sent, TxLog!Lost, TxLog!Whats
  <2>2. UNCHANGED <<s1, s2, s3, s4, s5, s6, s8, s9, s11>>
    BY <1>3 DEF TxLog!Declined, TxLog!Sent, TxLog!Lost
  <2> QED
    BY <1>0, <1>1, <2>1, <2>2, WrittenStays, LinesAre
<1>4. ASSUME NEW t \in Reviews, NEW what \in {"confirmed", "reverted"}, TxLog!Result(t, what)
      PROVE  LinesPlaced'
  <2>1. PICK w \in TxLog!Whats : s10' = TxLog!Written(t, w)
    BY <1>4 DEF TxLog!Result, TxLog!Whats
  <2>2. UNCHANGED <<s1, s2, s3, s4, s5, s6, s9, s11>> /\ s8' \in [Reviews -> SUBSET Cards]
    BY <1>0, <1>4 DEF TxLog!Result
  <2> QED
    BY <1>0, <1>1, <2>1, <2>2, WrittenStays, LinesAre
<1>5. ASSUME NEW c \in Cards, TxLog!CouldNotContinue(c)
      PROVE  LinesPlaced'
  BY <1>0, <1>5, WrittenStays, LinesAre DEF TxLog!CouldNotContinue
<1>6. ASSUME NEW t \in Reviews, TxLog!CloseOnChain(t)
      PROVE  LinesPlaced'
  <2>1. s10' = s10 /\ s2[t] \in Cards /\ s3' \subseteq Cards
        /\ UNCHANGED <<s1, s2, s4, s5, s6, s8, s9, s11>>
    BY <1>0, <1>6 DEF TxLog!CloseOnChain
  <2> QED
    BY <1>0, <2>1, WrittenStays, LinesAre
<1>7. CASE UNCHANGED TxLog!lineVars
  BY <1>7 DEF TxLog!lineVars, LinesPlaced, TxLog!HomeIsForTheGone
<1>8. CASE TxLog!LookUp
  <2>1. /\ s5' = s5 + 1 /\ s5 < MaxDraws /\ s4' = s3 /\ s10' = TxLog!NewLogs(s3)
        /\ s11' = IF s1 = "list" THEN {} ELSE s11
        /\ UNCHANGED <<s1, s2, s3, s6, s7, s8, s9, s12>>
    BY <1>8 DEF TxLog!LookUp
  <2>2. s10' \in [Cards -> TxLog!Lines] /\ \A c \in Cards \ s3 : s10'[c] = TxLog!Blank
    BY <1>0, <2>1, NewLogsAre
  <2>3. s11' \subseteq TxLog!Lines /\ (s1 = "status" => \A l, m \in s11' : l = m)
        /\ (s1 = "list" => s11' = {})
    BY <2>1 DEF LinesPlaced
  <2>4. s5' \in 1..MaxDraws
    BY <1>0, <2>1
  <2> QED
    BY <1>0, <2>1, <2>2, <2>3, <2>4 DEF LinesPlaced, TxLog!HomeIsForTheGone
<1>9. ASSUME NEW t \in Reviews, TxLog!Redrawn(t)
      PROVE  LinesPlaced'
  <2> DEFINE what == IF s7[t] = "confirmed" THEN "confirmed" ELSE "failed"
             cs == s8[t]
             stays == s1 = "status" /\ s9[t] # 0
             toHome == stays \/ s2[t] \notin cs
             kept == IF s1 = "list" THEN {} ELSE s11
  <2>1. /\ what \in TxLog!Whats /\ cs \subseteq Cards /\ TxLog!Line(t, what) \in TxLog!Lines
        /\ TxLog!Line(t, what).tx = {t}
    BY <1>0, LinesAre DEF TxLog!Whats
  <2>2. /\ s5' = s5 + 1 /\ s5 < MaxDraws /\ s4' = cs
        /\ s10' = IF toHome THEN TxLog!NewLogs(cs) ELSE [TxLog!NewLogs(cs) EXCEPT ![s2[t]] = TxLog!Line(t, what)]
        /\ s11' = IF toHome THEN {TxLog!Line(t, what)} ELSE kept
        /\ s9' = [s9 EXCEPT ![t] = IF toHome THEN s5 + 1 ELSE 0]
        /\ UNCHANGED <<s1, s2, s3, s6, s8, s12>>
    BY <1>9 DEF TxLog!Redrawn, TxLog!relocate
  <2>3. TxLog!NewLogs(cs) \in [Cards -> TxLog!Lines] /\ \A c \in Cards \ cs : TxLog!NewLogs(cs)[c] = TxLog!Blank
    BY <2>1, NewLogsAre
  <2> HIDE DEF what, cs
  <2>4. s10' \in [Cards -> TxLog!Lines] /\ \A c \in Cards \ s4' : s10'[c] = TxLog!Blank
    BY <1>0, <2>1, <2>2, <2>3
  <2>5. s9' \in [Reviews -> 0..MaxDraws] /\ s5' \in 1..MaxDraws
    BY <1>0, <2>2
  <2>6. s11' \subseteq TxLog!Lines /\ (s1 = "status" => \A l, m \in s11' : l = m)
    BY <2>1, <2>2 DEF LinesPlaced
  <2>7. TxLog!HomeIsForTheGone'
    BY <2>1, <2>2 DEF TxLog!HomeIsForTheGone
  <2> QED
    BY <1>0, <2>1, <2>2, <2>4, <2>5, <2>6, <2>7 DEF LinesPlaced
<1>10. ASSUME NEW t \in Reviews, TxLog!NotRedrawn(t)
      PROVE  LinesPlaced'
  <2> DEFINE what == IF s7[t] = "confirmed" THEN "confirmed" ELSE "failed"
  <2>1. what \in TxLog!Whats /\ TxLog!Line(t, what) \in TxLog!Lines /\ TxLog!Line(t, what).tx = {t}
    BY LinesAre DEF TxLog!Whats
  <2>2. s9[t] = 0 /\ TxLog!logNow(t) \in {"card", "detached"}
        /\ (TxLog!logNow(t) = "card" <=> s2[t] \in s4)
    BY <1>10 DEF TxLog!NotRedrawn, LineInv, TxLog!logNow, TxLog!MovedConnected
  <2>3. UNCHANGED <<s1, s2, s3, s4, s5, s6, s8, s12>>
    BY <1>10 DEF TxLog!NotRedrawn
  <2>4. CASE TxLog!logNow(t) = "card"
    <3>1. s10' = [s10 EXCEPT ![s2[t]] = TxLog!Line(t, what)] /\ UNCHANGED <<s11, s9>>
      BY <1>10, <2>4 DEF TxLog!NotRedrawn
    <3> HIDE DEF what
    <3> QED
      BY <1>0, <2>1, <2>2, <2>3, <2>4, <3>1, WrittenStays
  <2>5. CASE TxLog!logNow(t) = "detached"
    <3>1. s11' = TxLog!AtHome(t, what) /\ s9' = [s9 EXCEPT ![t] = s5] /\ s10' = s10
      BY <1>10, <2>5 DEF TxLog!NotRedrawn
    <3> HIDE DEF what
    <3>2. s2[t] \notin s4
      BY <2>2, <2>5
    <3>3. s11' \subseteq TxLog!Lines /\ (s1 = "status" => \A l, m \in s11' : l = m)
      BY <2>1, <3>1 DEF TxLog!AtHome, LinesPlaced
    <3>4. TxLog!HomeIsForTheGone'
      BY <2>1, <2>3, <3>1, <3>2 DEF TxLog!AtHome, TxLog!HomeIsForTheGone, LinesPlaced
    <3>5. s9' \in [Reviews -> 0..MaxDraws]
      BY <1>0, <3>1
    <3> QED
      BY <1>0, <2>3, <3>1, <3>3, <3>4, <3>5 DEF LinesPlaced
  <2> QED
    BY <2>2, <2>4, <2>5
<1> QED
  BY <1>2, <1>3, <1>4, <1>5, <1>6, <1>7, <1>8, <1>9, <1>10 DEF TxLog!LineNext

\* What is written is placed where it belongs.
LEMMA LinePromises ==
  ASSUME LineInv, LinesPlaced
  PROVE  TxLog!LineTypeOK /\ TxLog!HomeIsForTheGone
<1>1. s1 = "status" => Cardinality(s11) <= 1
  BY AtMostOne DEF LinesPlaced
<1>2. Cardinality(s12) <= 1
  <2>1. \A t, u \in s12 : t = u
    BY DEF LineInv
  <2> QED
    BY <2>1, AtMostOne
<1> QED
  BY <1>1, <1>2 DEF LineInv, LinesPlaced, TxLog!LineTypeOK, TxLog!Cardinality, Cardinality

-----------------------------------------------------------------------------
(* What a report says of a batch that was mined. *)

\* A vault stays a record of its fields.
LEMMA RestartedIsSwitch ==
  ASSUME NEW s \in CheckIns!Switches, NEW t \in Nat
  PROVE  CheckIns!Restarted(s, t) \in CheckIns!Switches
<1>1. CheckIns!Sooner(t + s.period, s.horizon) \in Nat
  BY DEF CheckIns!Switches, CheckIns!Sooner
<1> QED
  BY <1>1 DEF CheckIns!Restarted, CheckIns!Switches

LEMMA ActedIsSwitch ==
  ASSUME NEW s \in CheckIns!Switches, NEW t \in Nat
  PROVE  CheckIns!Acted(s, t) \in CheckIns!Switches
<1>1. CheckIns!Unclaimed(s) \in CheckIns!Switches
  BY DEF CheckIns!Unclaimed, CheckIns!Switches
<1> QED
  BY <1>1, RestartedIsSwitch DEF CheckIns!Acted

LEMMA ElsewhereIsSwitch ==
  ASSUME NEW s \in CheckIns!Switches, NEW t \in Nat, NEW u \in CheckIns!Elsewhere(s, t)
  PROVE  u \in CheckIns!Switches
<1>1. CASE u = CheckIns!Restarted(s, t) \/ u = CheckIns!Acted(s, t)
  BY <1>1, RestartedIsSwitch, ActedIsSwitch
<1>2. ASSUME NEW h \in CheckIns!Horizons, u = CheckIns!Acted([s EXCEPT !.horizon = h], t)
      PROVE  u \in CheckIns!Switches
  <2>1. h \in Nat
    BY DEF CheckIns!Horizons
  <2>2. [s EXCEPT !.horizon = h] \in CheckIns!Switches
    BY <2>1 DEF CheckIns!Switches
  <2> QED
    BY <1>2, <2>2, ActedIsSwitch
<1>3. CASE u = [CheckIns!Acted(s, t) EXCEPT !.phase = "closed"]
  <2>1. CheckIns!Acted(s, t) \in CheckIns!Switches
    BY ActedIsSwitch
  <2> QED
    BY <1>3, <2>1 DEF CheckIns!Switches
<1>4. CASE u = CheckIns!ClaimedBy(s, t, s.heir) \/ u = [s EXCEPT !.phase = "settled"]
  BY <1>4 DEF CheckIns!ClaimedBy, CheckIns!Switches
<1> QED
  BY <1>1, <1>2, <1>3, <1>4, Zenon DEF CheckIns!Elsewhere

\* What is moved or told by then: nothing of a batch that is not mined.
BatchTold ==
    /\ s2 \in [Cards -> CheckIns!Switches]
    /\ s3 \in {"idle", "reading", "sending", "rereading", "reported"}
    /\ s8 \in [Cards -> CheckIns!Entries] /\ s6 \subseteq Cards
    /\ s3 = "reported" => \A v \in Cards : s8[v] # "sending"
    /\ s3 \in {"sending", "rereading"} =>
          s4.done /\ \A v \in Cards : s8[v] = "sending" => v \in s6
    /\ s3 # "reported" => \A v \in Cards : s7[v] = 0
    /\ s3 = "sending" => \A v \in Cards : s8[v] \notin {"checkedIn", "lastCheckIn"}
    /\ CheckIns!ReportIsTheReceipt

LEMMA ToldStarts == CheckIns!Init => BatchTold
<1> SUFFICES ASSUME CheckIns!Init  PROVE BatchTold
  OBVIOUS
<1>1. ASSUME NEW v \in Cards
      PROVE  s2[v] \in CheckIns!Switches
  <2>0. s2[v] \in CheckIns!Armed
    BY DEF CheckIns!Init
  <2>1. PICK of \in CheckIns!Terms :
          s2[v] = CheckIns!Restarted([CheckIns!Unarmed EXCEPT !.phase = "active", !.heir = of.heir, !.period = of.period,
                                                              !.horizon = of.horizon, !.window = of.window], 1)
    BY <2>0 DEF CheckIns!Armed
  <2> DEFINE w == [CheckIns!Unarmed EXCEPT !.phase = "active", !.heir = of.heir, !.period = of.period,
                                           !.horizon = of.horizon, !.window = of.window]
  <2>2. of.heir \in OnePerson /\ of.period \in Nat /\ of.horizon \in Nat /\ of.window \in Nat
    BY CheckInFits DEF CheckIns!Terms, CheckIns!Periods, CheckIns!Windows, CheckIns!SwitchAssumption
  <2>3. w \in CheckIns!Switches
    BY <2>2 DEF CheckIns!Unarmed, CheckIns!Switches
  <2> HIDE DEF w
  <2>4. s2[v] = CheckIns!Restarted(w, 1)
    BY <2>1 DEF w
  <2> QED
    BY <2>3, <2>4, RestartedIsSwitch
<1>2. s2 \in [Cards -> CheckIns!Switches]
  BY <1>1 DEF CheckIns!Init
<1>3. /\ s3 = "idle" /\ s6 = {} /\ s8 \in [Cards -> CheckIns!Entries] /\ \A v \in Cards : s7[v] = 0
  BY DEF CheckIns!Init, CheckIns!Nothing, CheckIns!Entries
<1> QED
  BY <1>2, <1>3 DEF BatchTold, CheckIns!ReportIsTheReceipt

\* The page's reason is one of the SKIP codes.
LEMMA BlockerCodes ==
  ASSUME NEW s, s.phase \in {"active", "claimed", "settled", "closed"}, NEW reached \in BOOLEAN, NEW t
  PROVE  /\ CheckIns!checkInBlocker(s, reached, t) \in CheckIns!Entries
         /\ CheckIns!checkInBlocker(s, reached, t) \notin {"sending", "checkedIn", "lastCheckIn"}
BY BlockerIs DEF CheckIns!Entries

\* Nothing was mined: the report may be any that fits its stage.
LEMMA NotMined ==
  ASSUME BatchTold, s3 # "reported" \/ s3' # "reported", \A v \in Cards : s7'[v] = 0,
         s2' \in [Cards -> CheckIns!Switches],
         s3' \in {"idle", "reading", "sending", "rereading", "reported"},
         s8' \in [Cards -> CheckIns!Entries], s6' \subseteq Cards,
         s3' = "reported" => \A v \in Cards : s8'[v] # "sending",
         s3' \in {"sending", "rereading"} =>
            s4'.done /\ \A v \in Cards : s8'[v] = "sending" => v \in s6',
         s3' = "sending" => \A v \in Cards : s8'[v] \notin {"checkedIn", "lastCheckIn"}
  PROVE  BatchTold'
BY DEF BatchTold, CheckIns!ReportIsTheReceipt

LEMMA ToldGoesOn ==
  ASSUME BatchInv, BatchTold, [CheckIns!Next]_(CheckIns!checkInVars)
  PROVE  BatchTold'
<1>0. /\ s1 \in Nat /\ s2 \in [Cards -> CheckIns!Switches] /\ s8 \in [Cards -> CheckIns!Entries]
      /\ s6 \subseteq Cards
      /\ \A v \in Cards : s2[v].phase \in {"active", "claimed", "settled", "closed"}
      /\ DOMAIN s2 = Cards
  BY DEF BatchInv, BatchTold, InPeriod
<1>1. CASE CheckIns!Click \/ CheckIns!Retired
  <2>1. /\ s3' \in {"idle", "reading"} /\ s8' = CheckIns!Nothing /\ s6' = {} /\ s2' = s2
        /\ s7' = [v \in Cards |-> 0]
    BY <1>1 DEF CheckIns!Click, CheckIns!Retired
  <2>2. s8' \in [Cards -> CheckIns!Entries]
    BY <2>1 DEF CheckIns!Nothing, CheckIns!Entries
  <2> QED
    BY <1>0, <2>1, <2>2, NotMined
<1>2. CASE CheckIns!ReadVaults \/ CheckIns!ReadClock
  <2>1. s3 = "reading" /\ UNCHANGED <<s2, s3, s6, s7, s8>>
    BY <1>2 DEF CheckIns!ReadVaults, CheckIns!ReadClock
  <2> QED
    BY <1>0, <2>1, NotMined DEF BatchTold
<1>3. CASE CheckIns!Prefilter
  <2>1. /\ s3 = "reading" /\ s4.done /\ s6' = {v \in Cards : CheckIns!Blocker(v) = "nothing"}
        /\ s8' = [v \in Cards |->
                CASE ~CheckIns!IsLive(s4.of[v]) -> "nothing"
                  [] CheckIns!IsLive(s4.of[v]) /\ CheckIns!Blocker(v) = "nothing" -> "sending"
                  [] OTHER -> CheckIns!Blocker(v)]
        /\ s3' = IF s6' = {} THEN "reported" ELSE "sending"
        /\ UNCHANGED <<s1, s2, s4, s5, s7>>
    BY <1>3 DEF CheckIns!Prefilter
  <2>2. \A v \in Cards : CheckIns!Blocker(v) \in CheckIns!Entries /\ CheckIns!Blocker(v) \notin {"sending", "checkedIn", "lastCheckIn"}
    BY <2>1, BlockerCodes DEF CheckIns!Blocker, BatchInv
  <2>3. \A v \in Cards : \/ s8'[v] = "nothing"
                         \/ s8'[v] = "sending" /\ CheckIns!Blocker(v) = "nothing"
                         \/ s8'[v] = CheckIns!Blocker(v)
    BY <2>1
  <2>4. DOMAIN s8' = Cards /\ s8' = [v \in Cards |-> s8'[v]]
    BY <2>1
  <2>5. s8' \in [Cards -> CheckIns!Entries]
    BY <2>2, <2>3, <2>4 DEF CheckIns!Entries
  <2>6. \A v \in Cards : s8'[v] \notin {"checkedIn", "lastCheckIn"}
                           /\ (s8'[v] = "sending" => v \in s6')
    BY <2>1, <2>2, <2>3
  <2>7. s6' \subseteq Cards /\ (\A v \in Cards : s7'[v] = 0)
    BY <2>1 DEF BatchTold
  <2> QED
    BY <1>0, <2>1, <2>5, <2>6, <2>7, NotMined
<1>4. CASE CheckIns!Mined
  <2>1. /\ s3 = "sending" /\ s3' = "reported" /\ s8' = CheckIns!Reported /\ s6' = s6 /\ s4' = s4
        /\ s2' = [v \in Cards |-> IF v \in CheckIns!CheckedIn THEN CheckIns!Restarted(s2[v], s1) ELSE s2[v]]
        /\ s7' = [v \in Cards |-> IF v \in CheckIns!CheckedIn THEN CheckIns!Restarted(s2[v], s1).deadline ELSE 0]
    BY <1>4 DEF CheckIns!Mined
  <2>2. s2' \in [Cards -> CheckIns!Switches]
    BY <1>0, <2>1, RestartedIsSwitch
  <2>3. \A v \in Cards : IsSo(CheckIns!SkipReason(s2[v], s1), s2[v], s1)
    BY SkippedIsSo DEF BatchInv
  <2>4. \A v \in Cards :
           CheckIns!SkipReason(s2[v], s1) \in {"nothing", "terminal", "repeated", "horizonReached",
              "pinned",
                                               "claimPending", "claimPastHorizon"}
    BY <2>3 DEF IsSo
  <2>5. ASSUME NEW v \in CheckIns!CheckedIn
        PROVE  v \in Cards /\ CheckIns!Restarted(s2[v], s1).deadline > 0
    <3> DEFINE s == s2[v]
    <3>1. /\ v \in Cards /\ s \in CheckIns!Switches /\ InPeriod(s, s1)
          /\ CheckIns!SkipReason(s, s1) = "nothing"
      BY <1>0, <2>5 DEF CheckIns!CheckedIn, BatchInv
    <3>2. IsSo("nothing", s, s1)
      BY <2>3, <3>1
    <3> HIDE DEF s
    <3>3. s.horizon > s.deadline /\ s.deadline \in Nat /\ s.horizon \in Nat
      BY <3>1, <3>2 DEF IsSo, CheckIns!Switches
    <3>4. CheckIns!Restarted(s, s1).deadline = CheckIns!Sooner(s1 + s.period, s.horizon)
      BY <1>0, <3>1, RestartedFits
    <3>5. s1 + s.period > 0 /\ s1 + s.period \in Nat
      BY <1>0, <3>1, CheckInFits DEF BatchInv, InPeriod, CheckIns!Periods, CheckIns!SwitchAssumption
    <3> QED
      BY <3>1, <3>3, <3>4, <3>5 DEF s, CheckIns!Sooner
  <2>6. ASSUME NEW v \in Cards
        PROVE  /\ s8'[v] \in CheckIns!Entries /\ s8'[v] # "sending"
               /\ s8'[v] \in {"checkedIn", "lastCheckIn"} <=> s7'[v] > 0
    <3>1. CASE v \in CheckIns!CheckedIn
      <4>1. s8'[v] \in {"checkedIn", "lastCheckIn"} /\ s7'[v] > 0
        BY <2>1, <2>5, <3>1 DEF CheckIns!Reported
      <4> QED
        BY <4>1 DEF CheckIns!Entries
    <3>2. CASE v \in s6 \ CheckIns!CheckedIn
      <4>1. s8'[v] = CheckIns!SkipReason(s2[v], s1) /\ s7'[v] = 0
        BY <2>1, <3>2 DEF CheckIns!Reported
      <4> QED
        BY <2>4, <4>1 DEF CheckIns!Entries
    <3>3. CASE v \notin s6
      <4>1. v \notin CheckIns!CheckedIn
        BY <3>3 DEF CheckIns!CheckedIn
      <4>2. s8'[v] = s8[v] /\ s7'[v] = 0
        BY <2>1, <3>3, <4>1 DEF CheckIns!Reported
      <4>3. s8[v] # "sending" /\ s8[v] \notin {"checkedIn", "lastCheckIn"}
        BY <2>1, <3>3 DEF BatchTold
      <4> QED
        BY <1>0, <4>2, <4>3
    <3> QED
      BY <3>1, <3>2, <3>3
  <2>7. DOMAIN s8' = Cards /\ s8' = [v \in Cards |-> s8'[v]]
    BY <2>1 DEF CheckIns!Reported
  <2>8. s8' \in [Cards -> CheckIns!Entries]
    BY <2>6, <2>7
  <2> QED
    BY <1>0, <2>1, <2>2, <2>6, <2>8 DEF BatchTold, CheckIns!ReportIsTheReceipt
<1>5. CASE CheckIns!Refused
  <2>1. s3 = "sending" /\ s3' = "rereading" /\ UNCHANGED <<s2, s4, s6, s7, s8>>
    BY <1>5 DEF CheckIns!Refused
  <2> QED
    BY <1>0, <2>1, NotMined DEF BatchTold
<1>6. ASSUME NEW v \in Cards, CheckIns!Reread(v) \/ CheckIns!RereadFails(v)
      PROVE  BatchTold'
  <2>1. /\ s3 = "rereading" /\ v \in s6 /\ s6' = s6 \ {v} /\ UNCHANGED <<s2, s4, s7>>
        /\ s3' = IF s6' = {} THEN "reported" ELSE s3
    BY <1>6 DEF CheckIns!Reread, CheckIns!RereadFails
  <2>2. PICK b : /\ b = CheckIns!checkInBlocker(s2[v], CheckIns!AtHorizon(s2[v], s1), s5) \/ b = CheckIns!Blocker(v)
                 /\ s8' = [s8 EXCEPT ![v] = IF b = "nothing" THEN "notSent" ELSE b]
    BY <1>6 DEF CheckIns!Reread, CheckIns!RereadFails
  <2>3. b \in CheckIns!Entries /\ b # "sending"
    <3>1. CheckIns!checkInBlocker(s2[v], CheckIns!AtHorizon(s2[v], s1), s5) \in CheckIns!Entries \ {"sending"}
      <4>1. CheckIns!AtHorizon(s2[v], s1) \in BOOLEAN
        BY DEF CheckIns!AtHorizon
      <4> QED
        BY <1>0, <4>1, BlockerCodes
    <3>2. CheckIns!Blocker(v) \in CheckIns!Entries \ {"sending"}
      BY <2>1, BlockerCodes DEF CheckIns!Blocker, BatchInv, BatchTold
    <3> QED
      BY <2>2, <3>1, <3>2
  <2>4. s8' \in [Cards -> CheckIns!Entries] /\ s8'[v] # "sending"
        /\ \A w \in Cards \ {v} : s8'[w] = s8[w]
    BY <1>0, <2>2, <2>3 DEF CheckIns!Entries
  <2>5. s4.done /\ \A w \in Cards : s8[w] = "sending" => w \in s6
    BY <2>1 DEF BatchTold
  <2>6. \A w \in Cards : s8'[w] = "sending" => w \in s6'
    BY <2>1, <2>4, <2>5
  <2>7. \A w \in Cards : s7'[w] = 0
    BY <2>1 DEF BatchTold
  <2> QED
    BY <1>0, <2>1, <2>4, <2>5, <2>6, <2>7, NotMined
<1>7. CASE CheckIns!Unknown
  <2>1. /\ s3 = "sending" /\ s3' = "reported" /\ UNCHANGED <<s2, s4, s6, s7>>
        /\ s8' = [v \in Cards |-> IF v \in s6 THEN "nothing" ELSE s8[v]]
    BY <1>7 DEF CheckIns!Unknown
  <2>2. s8' \in [Cards -> CheckIns!Entries]
    BY <1>0, <2>1 DEF CheckIns!Entries
  <2>3. \A v \in Cards : s8'[v] # "sending" /\ s7'[v] = 0
    BY <2>1 DEF BatchTold
  <2> QED
    BY <1>0, <2>1, <2>2, <2>3, NotMined
<1>8. CASE CheckIns!OthersAct
  <2>1. UNCHANGED <<s3, s4, s6, s7, s8>>
    BY <1>8 DEF CheckIns!OthersAct, CheckIns!pageVars
  <2>2. s2' \in [Cards -> CheckIns!Switches]
    <3>1. ASSUME NEW v \in Cards, NEW s \in CheckIns!Elsewhere(s2[v], s1), s2' = [s2 EXCEPT ![v] = s]
          PROVE  s2' \in [Cards -> CheckIns!Switches]
      <4>1. s \in CheckIns!Switches
        BY <1>0, ElsewhereIsSwitch
      <4> QED
        BY <1>0, <3>1, <4>1
    <3> QED
      BY <1>0, <1>8, <3>1 DEF CheckIns!OthersAct
  <2> QED
    BY <2>1, <2>2 DEF BatchTold, CheckIns!ReportIsTheReceipt
<1>9. CASE UNCHANGED CheckIns!checkInVars
  BY <1>9 DEF CheckIns!checkInVars, CheckIns!pageVars, BatchTold, CheckIns!ReportIsTheReceipt
<1> QED
  BY <1>1, <1>2, <1>3, <1>4, <1>5, <1>6, <1>7, <1>8, <1>9 DEF CheckIns!Next

LEMMA BatchPromises ==
  ASSUME BatchInv, BatchTold
  PROVE  CheckIns!CheckInTypeOK /\ CheckIns!ReportIsTheReceipt
BY DEF BatchInv, BatchTold, CheckIns!CheckInTypeOK, CheckIns!ClockTypeOK

-----------------------------------------------------------------------------
(* The wallet's connection: the part "connection".  s1 is the wallet, s2    *)
(* what the page holds of it, s3 the attempts, s4 whether it listens, s5    *)
(* the changes, s6 the banner and s7 the cards.                             *)

LEMMA ConnFits == Conn!ConnectionAssumption /\ Conn!NoneAssumption
BY SiteAssumption DEF SiteAssumption

Stages == {"idle", "accounts", "network", "signer", "code", "settings", "failed", "vaults"}

\* Until the page is loaded again, its contract is that of the chain it thinks
\* it is on or that of a chain the wallet left before it listened, and what is
\* read of it was verified on the wallet's chain.
ConnInv ==
    /\ Conn!ConnectionTypeOK
    /\ s1.account \in Persons /\ s1.chain \in Chains
    /\ s2.contract \in Deployed \cup {Absent} /\ s2.read \in Chains \cup {Absent}
    /\ s2.ready \in BOOLEAN /\ s5 \in BOOLEAN /\ s4 \in BOOLEAN /\ s7 \in BOOLEAN
    /\ DOMAIN s2 = {"account", "signer", "chain", "contract", "ready", "read"}
    /\ s2.ready => s2.read \in Chains
    /\ s2.contract # Absent => s4
    /\ \A a \in {1, 2} : s3[a] \in {"code", "settings", "failed", "vaults"} => s2.contract # Absent
    /\ \A a \in {1, 2} : s3[a] = "signer" => s2.chain \in Chains
    /\ ~s5 /\ s2.contract # Absent => s2.chain \in {s2.contract, s1.chain}
    /\ ~s5 /\ (s2.ready \/ \E a \in {1, 2} : s3[a] = "settings") =>
          s2.contract \in Genuine /\ s2.contract = s1.chain /\ s2.chain = s1.chain
    /\ ~s5 /\ s2.ready => s2.read = s2.contract

LEMMA ConnStarts == Conn!Init => ConnInv
<1> SUFFICES ASSUME Conn!Init PROVE ConnInv
  OBVIOUS
<1>1. /\ s2.account = Absent /\ s2.chain = Absent /\ s2.contract = Absent /\ s2.ready = FALSE
      /\ s2.read = Absent
      /\ DOMAIN s2 = {"account", "signer", "chain", "contract", "ready", "read"}
  BY DEF Conn!Init, Conn!Fresh
<1>2. \A a \in {1, 2} : s3[a] = "idle"
  BY DEF Conn!Init
<1> QED
  BY <1>1, <1>2, ConnFits DEF Conn!Init, ConnInv, Conn!ConnectionTypeOK, Conn!ConnectionAssumption,
     Conn!NoneAssumption

LEMMA ConnStays ==
  ASSUME ConnInv, UNCHANGED Conn!connVars
  PROVE  ConnInv'
<1>1. UNCHANGED <<s1, s2, s3, s4, s5, s6, s7>>
  BY DEF Conn!connVars
<1>2. Conn!ConnectionTypeOK'
  BY <1>1 DEF ConnInv, Conn!ConnectionTypeOK, Conn!ConnectionAssumption, Conn!NoneAssumption
<1> QED
  BY <1>1, <1>2 DEF ConnInv

LEMMA ConnGoesOn ==
  ASSUME ConnInv, Conn!Next
  PROVE  ConnInv'
<1> USE ConnFits DEF ConnInv, Conn!ConnectionTypeOK, Conn!ConnectionAssumption, Conn!NoneAssumption
<1>1. CASE \E a \in {1, 2} : Conn!Click(a) \/ Conn!AccountsAnswered(a) \/ Conn!VaultsAnswered(a) \/ Conn!TryAgain(a)
  <2> PICK a \in {1, 2} : Conn!Click(a) \/ Conn!AccountsAnswered(a) \/ Conn!VaultsAnswered(a) \/ Conn!TryAgain(a)
    BY <1>1
  <2>1. CASE Conn!Click(a)
    BY <2>1 DEF Conn!Click, Conn!Begin, Conn!Moves
  <2>2. CASE Conn!AccountsAnswered(a)
    BY <2>2 DEF Conn!AccountsAnswered, Conn!Moves
  <2>3. CASE Conn!VaultsAnswered(a)
    BY <2>3 DEF Conn!VaultsAnswered, Conn!Moves
  <2>4. CASE Conn!TryAgain(a)
    BY <2>4 DEF Conn!TryAgain, Conn!Moves
  <2> QED
    BY <2>1, <2>2, <2>3, <2>4
<1>2. CASE \E a \in {1, 2} : Conn!NetworkAnswered(a)
  BY <1>2 DEF Conn!NetworkAnswered, Conn!Moves
<1>3. CASE \E a \in {1, 2} : Conn!SignerAnswered(a)
  <2> PICK a \in {1, 2} : Conn!SignerAnswered(a)
    BY <1>3
  <2>1. /\ s3' = [s3 EXCEPT ![a] = s3'[a]]
        /\ s4' = TRUE /\ s3[a] = "signer" /\ UNCHANGED <<s1, s5, s7>>
    BY DEF Conn!SignerAnswered, Conn!Moves
  <2>2. CASE s2.chain \in Deployed
    <3>1. s2.chain # Absent
      BY <2>2
    <3>2. /\ s2' = [s2 EXCEPT !.signer = s1.account, !.contract = s2.chain]
          /\ s3' = [s3 EXCEPT ![a] = "code"] /\ s6' = s6
      BY <2>2, <3>1 DEF Conn!SignerAnswered, Conn!Moves, Conn!deployment
    <3>3. /\ s2'.account = s2.account /\ s2'.chain = s2.chain /\ s2'.contract = s2.chain
          /\ s2'.ready = s2.ready /\ s2'.read = s2.read
          /\ DOMAIN s2' = {"account", "signer", "chain", "contract", "ready", "read"}
      BY <3>2
    <3>4. /\ s3' \in [{1, 2} -> Stages]
          /\ \A b \in {1, 2} : s3'[b] = "settings" => s3[b] = "settings"
          /\ \A b \in {1, 2} : s3'[b] = "signer" => s3[b] = "signer"
      BY <3>2 DEF Stages
    <3>5. UNCHANGED <<s1, s5, s7>> /\ s4' = TRUE
      BY <2>1
    <3>6. ~s5 /\ s2.contract # Absent => s2.chain \in {s2.contract, s1.chain}
      OBVIOUS
    <3>7. ~s5 /\ (s2.ready \/ \E b \in {1, 2} : s3[b] = "settings") =>
             s2.contract \in Genuine /\ s2.contract = s1.chain /\ s2.chain = s1.chain
      OBVIOUS
    <3> QED
      BY <2>2, <3>1, <3>2, <3>3, <3>4, <3>5, <3>6, <3>7 DEF Stages
  <2>3. CASE s2.chain \notin Deployed
    BY <2>1, <2>3 DEF Conn!SignerAnswered, Conn!Moves, Conn!deployment
  <2> QED
    BY <2>2, <2>3
<1>4. CASE \E a \in {1, 2} : Conn!CodeAnswered(a)
  <2> PICK a \in {1, 2} : Conn!CodeAnswered(a)
    BY <1>4
  <2>1. CASE s1.chain = s2.contract /\ s1.chain \in Genuine
    BY <2>1 DEF Conn!CodeAnswered, Conn!Moves
  <2>2. CASE ~(s1.chain = s2.contract /\ s1.chain \in Genuine)
    <3>1. /\ s2' = [s2 EXCEPT !.ready = FALSE] /\ s6' = "retry"
          /\ s3' = [s3 EXCEPT ![a] = "failed"] /\ s3[a] = "code"
          /\ UNCHANGED <<s1, s4, s5, s7>>
      BY <2>2 DEF Conn!CodeAnswered, Conn!SettingsUnread, Conn!Moves
    <3> QED
      BY <3>1
  <2> QED
    BY <2>1, <2>2
<1>5. CASE \E a \in {1, 2} : Conn!SettingsAnswered(a)
  BY <1>5 DEF Conn!SettingsAnswered, Conn!Moves
<1>6. CASE \E a \in {1, 2} : Conn!ReadFails(a)
  BY <1>6 DEF Conn!ReadFails, Conn!SettingsUnread, Conn!Moves
<1>7. CASE Conn!ChangeWallet
  BY <1>7 DEF Conn!ChangeWallet, Conn!WalletChanges
<1>8. CASE Conn!SwitchChain
  BY <1>8 DEF Conn!SwitchChain, Conn!WalletChanges
<1>9. CASE Conn!Reload
  BY <1>9 DEF Conn!Reload, Conn!Fresh
<1> QED
  BY <1>1, <1>2, <1>3, <1>4, <1>5, <1>6, <1>7, <1>8, <1>9 DEF Conn!Next

LEMMA ConnPromises == ConnInv => Conn!ConnectionTypeOK /\ Conn!ReadyMeansVerified
BY DEF ConnInv, Conn!ReadyMeansVerified

-----------------------------------------------------------------------------
(* The heir search once more: s2 is the records, s3 and s4 what the sources *)
(* keep and how much they answer, s7 the list, s8 what is shown of the      *)
(* heir, s9 what is asked, s10 the sources that failed.                     *)

LEMMA SearchSizes == Search!SearchAssumption
BY SiteAssumption DEF SiteAssumption

USE SearchFits

\* The rest of what is known of the sizes.
LEMMA SearchBounds ==
  /\ SearchSize.MaxBlock \in Nat /\ SearchSize.MaxBlock > 1 /\ Limits \subseteq Nat
  /\ DOMAIN Sources = 1..Len(Sources) /\ Len(Sources) \in Nat
  /\ \A i \in DOMAIN Sources : SpanOf[Sources[i]] >= SearchSize.MIN_LOG_SPAN
BY SearchSizes, SearchFits DEF Search!SearchAssumption

\* A source that keeps the history, takes the smallest range, and neither failed
\* nor lagged so far.
Well(s) == Search!servesHistory(s) /\ s4[s] >= SearchSize.MIN_LOG_SPAN /\ s \notin s10

\* Every record of a block before this one is a candidate.
SearchedBelow(block, candidates) == \A r \in s2 : r[1] < block => r[2] \in candidates

\* What the search has done: the records before its cursor are candidates, those
\* a summary speaks of among them, and the sources whose turn is over were not
\* well, unless nothing was left to read or the search was stopped.
Reached ==
    /\ DOMAIN s5 = {"next", "candidates", "summary", "running", "stop"}
    /\ DOMAIN s6 = {"stage", "src", "span", "until", "cursor", "target", "waits"}
    /\ s1 \in Search!Deploy..SearchSize.MaxBlock /\ s2 \subseteq (Search!Deploy..s1) \X OnePerson
    /\ s3 \in [Search!SourceSet -> Int] /\ s4 \in [Search!SourceSet -> Nat]
    /\ s5.running \in BOOLEAN /\ s5.stop \in BOOLEAN /\ (s5.stop => s5.running)
    /\ s5.next \in 0..(s1 + 1) /\ (s5.running => s5.next >= Search!Deploy)
    /\ s5.candidates \subseteq OnePerson
    /\ s6.stage \in {"idle", "target", "probe", "head", "logs", "show"}
    /\ (s6.stage = "idle") <=> ~s5.running
    /\ s6.stage \in {"probe", "head", "logs"} =>
          /\ s6.src \in DOMAIN Sources /\ s6.target \in Search!Deploy..s1
          /\ \A i \in 1..(s6.src - 1) : ~Well(Sources[i])
    /\ s6.stage \in {"head", "logs"} => Search!servesHistory(Search!source)
    /\ s6.stage = "logs" =>
          /\ s6.cursor \in s5.next..s6.until /\ s6.until \in Int /\ s6.until <= s6.target
          /\ s6.span \in Int /\ s6.span >= SearchSize.MIN_LOG_SPAN
          /\ SearchedBelow(s6.cursor, s5.candidates)
          /\ s6.until = s6.target \/ Search!source \in s10
    /\ SearchedBelow(s5.next, s5.candidates)
    /\ s5.summary.searchedTo \in Nat /\ s5.summary.searchedTo <= Search!Most(s5.next - 1, 0)
    /\ s7.summary.searchedTo \in Nat /\ s7.summary.searchedTo <= Search!Most(s5.next - 1, 0)
    /\ s6.stage = "show" /\ s6.target > 0 /\ ~s5.summary.stopped =>
          \/ s5.summary.searchedTo >= s5.summary.target
          \/ \A i \in DOMAIN Sources : ~Well(Sources[i])
    /\ s7.kind \in {"none", "owner", "found", "error"}

LEMMA SearchReaches == Search!Init => Reached
<1> SUFFICES ASSUME Search!Init PROVE Reached
  OBVIOUS
<1>1. /\ s5 = [next |-> 0, candidates |-> {}, summary |-> Search!NoSummary, running |-> FALSE, stop |-> FALSE]
      /\ s6 = Search!Idle /\ s7 = Search!NotFound("none") /\ s10 = {}
  BY DEF Search!Init
<1>2. /\ s1 \in Search!Deploy..SearchSize.MaxBlock /\ s2 \subseteq (Search!Deploy..s1) \X OnePerson
  BY SearchBounds DEF Search!Init, Search!Deploy
<1>3. s3 \in [Search!SourceSet -> Int] /\ s4 \in [Search!SourceSet -> Nat]
  <2>1. /\ s3 \in [Search!SourceSet -> {Search!Deploy, SearchSize.MaxBlock - 1}]
        /\ s4 \in [Search!SourceSet -> Limits]
    BY DEF Search!Init
  <2>2. {Search!Deploy, SearchSize.MaxBlock - 1} \subseteq Int /\ Limits \subseteq Nat
    BY SearchBounds DEF Search!Deploy
  <2> QED
    BY <2>1, <2>2
<1>4. /\ DOMAIN s5 = {"next", "candidates", "summary", "running", "stop"} /\ s5.next = 0
      /\ s5.candidates = {} /\ s5.running = FALSE /\ s5.stop = FALSE /\ s5.summary.searchedTo = 0
  BY <1>1 DEF Search!NoSummary
<1>5. DOMAIN s6 = {"stage", "src", "span", "until", "cursor", "target", "waits"} /\ s6.stage = "idle"
  BY <1>1 DEF Search!Idle
<1>6. s7.kind = "none" /\ s7.summary.searchedTo = 0
  BY <1>1 DEF Search!NotFound, Search!NoSummary
<1>7. /\ s5.next \in 0..(s1 + 1) /\ 0 <= Search!Most(s5.next - 1, 0)
      /\ SearchedBelow(s5.next, s5.candidates)
  BY <1>2, <1>4 DEF SearchedBelow, Search!Deploy, Search!Most
<1>8. /\ s5.summary.searchedTo \in Nat /\ s5.summary.searchedTo <= Search!Most(s5.next - 1, 0)
      /\ s7.summary.searchedTo \in Nat /\ s7.summary.searchedTo <= Search!Most(s5.next - 1, 0)
  BY <1>4, <1>6, <1>7
<1> HIDE DEF Search!Init
<1> QED
  BY <1>2, <1>8, <1>3, <1>4, <1>5, <1>6, <1>7 DEF Reached

\* A turn, after a source whose own is over.
LEMMA TurnReaches ==
  ASSUME Reached, s5.running, NEW i \in 1..(Len(Sources) + 1), NEW target \in Search!Deploy..s1,
         NEW next \in s5.next..(s1 + 1), NEW candidates,
         s5.candidates \subseteq candidates, candidates \subseteq OnePerson,
         SearchedBelow(next, candidates), Search!Turn(i, target, next, candidates),
         s10 \subseteq s10',
         next > target \/ s5.stop \/ \A j \in 1..(i - 1) : ~Well(Sources[j])'
  PROVE  Reached'
<1>1. /\ s1' = s1 /\ s2' = s2 /\ s3' = s3 /\ s4' = s4 /\ s7' = s7
      /\ s5.next \in Nat /\ s1 \in Nat
  BY DEF Search!Turn, Search!Finish, Search!chain, Search!page, Reached, Search!Deploy
<1>0. /\ s5.summary.searchedTo \in Nat /\ s5.summary.searchedTo <= Search!Most(s5.next - 1, 0)
      /\ s7.summary.searchedTo \in Nat /\ s7.summary.searchedTo <= Search!Most(s5.next - 1, 0)
      /\ s5.next >= 1 /\ next \in Nat /\ next >= s5.next
  BY <1>1 DEF Reached, Search!Deploy
<1>00. Search!Most(s5.next - 1, 0) <= Search!Most(next - 1, 0) /\ Search!Most(next - 1, 0) = next - 1
  BY <1>0, <1>1 DEF Search!Most
<1>2. CASE i > Len(Sources) \/ next > target \/ s5.stop
  <2>1. Search!Finish(target, next, candidates)
    BY <1>2 DEF Search!Turn
  <2>2. /\ s6'.stage = "show" /\ s6'.target = target
        /\ DOMAIN s6' = {"stage", "src", "span", "until", "cursor", "target", "waits"}
    BY <2>1 DEF Search!Finish, Search!Idle
  <2> DEFINE told == [searchedTo |-> next - 1, stopped |-> s5.stop,
                      target |-> IF target = 0 THEN 0 ELSE Search!Most(target, next - 1)]
  <2>3. /\ s5' = [s5 EXCEPT !.next = next, !.candidates = candidates, !.summary = told]
        /\ told.searchedTo = next - 1 /\ told.stopped = s5.stop
        /\ target # 0 => told.target = Search!Most(target, next - 1)
    BY <2>1 DEF Search!Finish
  <2> HIDE DEF told
  <2>4. /\ DOMAIN s5' = {"next", "candidates", "summary", "running", "stop"} /\ s5'.next = next
        /\ s5'.candidates = candidates /\ s5'.summary = told /\ s5'.running = s5.running
        /\ s5'.stop = s5.stop
    BY <2>3 DEF Reached
  <2>5. \/ s5'.summary.stopped \/ s5'.summary.searchedTo >= s5'.summary.target
        \/ \A j \in DOMAIN Sources : ~Well(Sources[j])'
    <3>1. CASE s5.stop
      BY <2>3, <2>4, <3>1
    <3>2. CASE next > target
      BY <1>1, <2>3, <2>4, <3>2 DEF Search!Most, Search!Deploy
    <3>3. CASE i > Len(Sources) /\ \A j \in 1..(i - 1) : ~Well(Sources[j])'
      BY <3>3, SearchBounds
    <3> QED
      BY <1>2, <3>1, <3>2, <3>3
  <2>6. /\ s5'.summary.searchedTo = next - 1 /\ next >= 1 /\ s5.next <= next
        /\ s7'.summary.searchedTo \in Nat /\ s7'.summary.searchedTo <= Search!Most(next - 1, 0)
    <3>1. Search!Most(s5.next - 1, 0) \in Int /\ Search!Most(next - 1, 0) \in Int
      BY <1>0, <1>1 DEF Search!Most
    <3> QED
      BY <1>0, <1>00, <1>1, <2>3, <2>4, <3>1, SMTT(30)
  <2>7. SearchedBelow(next, candidates)'
    BY <1>1 DEF SearchedBelow
  <2> QED
    BY <1>1, <2>2, <2>4, <2>5, <2>6, <2>7, SMTT(30) DEF Reached, SearchedBelow, Search!Deploy, Search!Most
<1>3. CASE ~(i > Len(Sources) \/ next > target \/ s5.stop)
  <2>1. /\ s6' = [Search!Idle EXCEPT !.stage = "probe", !.src = i, !.target = target]
        /\ s5' = [s5 EXCEPT !.next = next, !.candidates = candidates]
    BY <1>3 DEF Search!Turn
  <2>2. i \in DOMAIN Sources
    BY <1>3, SearchBounds
  <2>3. /\ s6'.stage = "probe" /\ s6'.src = i /\ s6'.target = target
        /\ DOMAIN s6' = {"stage", "src", "span", "until", "cursor", "target", "waits"}
    BY <2>1 DEF Search!Idle
  <2>4. /\ DOMAIN s5' = {"next", "candidates", "summary", "running", "stop"} /\ s5'.next = next
        /\ s5'.candidates = candidates /\ s5'.summary = s5.summary
        /\ s5'.running = s5.running /\ s5'.stop = s5.stop
    BY <2>1 DEF Reached
  <2>5. /\ s5'.summary.searchedTo \in Nat /\ s5'.summary.searchedTo <= Search!Most(next - 1, 0)
        /\ s7'.summary.searchedTo \in Nat /\ s7'.summary.searchedTo <= Search!Most(next - 1, 0)
    <3>1. Search!Most(s5.next - 1, 0) \in Int /\ Search!Most(next - 1, 0) \in Int
      BY <1>0, <1>1 DEF Search!Most
    <3> QED
      BY <1>0, <1>00, <1>1, <2>4, <3>1, SMTT(30)
  <2>6. SearchedBelow(next, candidates)'
    BY <1>1 DEF SearchedBelow
  <2> QED
    <3>1. \A j \in 1..(s6'.src - 1) : ~Well(Sources[j])'
      BY <1>3, <2>3
    <3>2. /\ s6'.src \in DOMAIN Sources /\ s6'.target \in Search!Deploy..s1'
          /\ s5'.next \in 0..(s1' + 1) /\ s5'.next >= Search!Deploy
      BY <1>0, <1>1, <2>2, <2>3, <2>4 DEF Search!Deploy
    <3> QED
      BY <1>1, <2>3, <2>4, <2>5, <2>6, <3>1, <3>2 DEF Reached, SearchedBelow
<1> QED
  BY <1>2, <1>3

\* The turn after this one's.
LEMMA NextReaches ==
  ASSUME Reached, s6.stage \in {"probe", "head", "logs"}, NEW next \in s5.next..(s1 + 1),
         SearchedBelow(next, s5.candidates), Search!NextSource(next), s10 \subseteq s10',
         next > s6.target \/ s5.stop \/ ~Well(Search!source) \/ Search!source \in s10'
  PROVE  Reached'
<1>1. /\ s6.src \in DOMAIN Sources /\ s6.target \in Search!Deploy..s1 /\ s5.running
      /\ \A i \in 1..(s6.src - 1) : ~Well(Sources[i])
      /\ s5.candidates \subseteq OnePerson
  BY DEF Reached
<1>2. s6.src + 1 \in 1..(Len(Sources) + 1) /\ s6.src \in Nat
  BY <1>1, SearchBounds
<1>3. s3' = s3 /\ s4' = s4
  BY DEF Search!NextSource, Search!Turn, Search!Finish, Search!chain
<1>4. ~Well(Search!source) \/ Search!source \in s10' => \A j \in 1..(s6.src + 1 - 1) : ~Well(Sources[j])'
  <2>1. ASSUME NEW j \in 1..(s6.src + 1 - 1), Well(Sources[j])'
        PROVE  Well(Sources[j]) /\ Sources[j] \notin s10'
    BY <1>3, <2>1 DEF Well, Search!servesHistory
  <2>2. ASSUME NEW j \in 1..(s6.src + 1 - 1), Well(Sources[j])  PROVE j = s6.src
    BY <1>1, <1>2, <2>2
  <2> QED
    BY <2>1, <2>2 DEF Search!source
<1>5. Search!Turn(s6.src + 1, s6.target, next, s5.candidates)
  BY DEF Search!NextSource
<1>6. next > s6.target \/ s5.stop \/ \A j \in 1..(s6.src + 1 - 1) : ~Well(Sources[j])'
  BY <1>4
<1> DEFINE i == s6.src + 1
           target == s6.target
           found == s5.candidates
<1>7. /\ i \in 1..(Len(Sources) + 1) /\ Search!Turn(i, target, next, found)
      /\ next > target \/ s5.stop \/ \A j \in 1..(i - 1) : ~Well(Sources[j])'
  BY <1>2, <1>5, <1>6
<1>8. /\ target \in Search!Deploy..s1 /\ s5.candidates \subseteq found
      /\ found \subseteq OnePerson /\ SearchedBelow(next, found)
  BY <1>1
<1> HIDE DEF i, target, found
<1> QED
  BY <1>1, <1>7, <1>8, TurnReaches

\* What a step that only moves within a turn leaves: the source, the target and
\* what was found so far.
LEMMA WithinTurn ==
  ASSUME Reached, s6.stage \in {"probe", "head", "logs"}, UNCHANGED <<Search!chain, Search!page, s5>>,
         s10 \subseteq s10',
         DOMAIN s6' = DOMAIN s6, s6'.stage \in {"probe", "head", "logs"},
         s6'.src = s6.src, s6'.target = s6.target,
         s6'.stage # "probe" => Search!servesHistory(Search!source),
         s6'.stage = "logs" =>
            /\ s6'.cursor \in s5.next..s6'.until /\ s6'.until \in Int /\ s6'.until <= s6.target
            /\ s6'.span \in Int /\ s6'.span >= SearchSize.MIN_LOG_SPAN
            /\ SearchedBelow(s6'.cursor, s5.candidates)
            /\ s6'.until = s6.target \/ Search!source \in s10'
  PROVE  Reached'
<1>1. /\ UNCHANGED <<s1, s2, s3, s4, s7, s5>> /\ Search!source' = Search!source
  BY DEF Search!chain, Search!page, Search!source
<1>2. \A i \in 1..(s6.src - 1) : ~Well(Sources[i])'
  BY <1>1 DEF Reached, Well, Search!servesHistory
<1>3. /\ s6.src \in DOMAIN Sources /\ s6.target \in Search!Deploy..s1 /\ s5.running
  BY DEF Reached
<1>4. s6'.stage \in {"head", "logs"} => Search!servesHistory(Search!source)'
  BY <1>1 DEF Search!servesHistory
<1>5. s6'.stage = "logs" => SearchedBelow(s6.cursor, s5.candidates)'
  BY <1>1 DEF SearchedBelow
<1>6. SearchedBelow(s5.next, s5.candidates)'
  BY <1>1 DEF Reached, SearchedBelow
<1> QED
  BY <1>1, <1>2, <1>3, <1>4, <1>5, <1>6 DEF Reached

\* The pass is over before the first turn.
LEMMA NoneRead ==
  ASSUME Reached, s5.running, NEW target \in Int, target = 0,
         Search!Finish(target, s5.next, s5.candidates)
  PROVE  Reached'
<1>1. /\ s1' = s1 /\ s2' = s2 /\ s3' = s3 /\ s4' = s4 /\ s7' = s7
  BY DEF Search!Finish, Search!chain
<1>2. /\ s6'.stage = "show" /\ s6'.target = 0
      /\ DOMAIN s6' = {"stage", "src", "span", "until", "cursor", "target", "waits"}
  BY DEF Search!Finish, Search!Idle
<1>3. /\ DOMAIN s5' = {"next", "candidates", "summary", "running", "stop"} /\ s5'.next = s5.next
      /\ s5'.candidates = s5.candidates /\ s5'.running = s5.running /\ s5'.stop = s5.stop
      /\ s5'.summary.searchedTo = s5.next - 1
  BY DEF Search!Finish, Reached
<1>4. s5.next \in Nat /\ s5.next >= 1 /\ Search!Most(s5.next - 1, 0) = s5.next - 1
  BY DEF Reached, Search!Deploy, Search!Most
<1>5. SearchedBelow(s5.next, s5.candidates)'
  BY <1>1, <1>3 DEF SearchedBelow, Reached
<1>6. /\ s5'.summary.searchedTo \in Nat /\ s5'.summary.searchedTo <= Search!Most(s5.next - 1, 0)'
      /\ s7'.summary.searchedTo \in Nat /\ s7'.summary.searchedTo <= Search!Most(s5.next - 1, 0)'
  BY <1>1, <1>3, <1>4 DEF Reached
<1> HIDE DEF Search!Finish
<1> QED
  BY <1>1, <1>2, <1>3, <1>5, <1>6, SMTT(40) DEF Reached

LEMMA SearchGoesOn ==
  ASSUME Reached, [Search!Next]_(Search!vars)
  PROVE  Reached'
<1>0. /\ s1 \in Nat /\ s1 >= Search!Deploy /\ s5.next \in Nat /\ s5.next <= s1 + 1
      /\ s5.running \in BOOLEAN /\ (s6.stage = "idle" <=> ~s5.running)
      /\ (s5.running => s5.next >= Search!Deploy)
      /\ SearchedBelow(s5.next, s5.candidates) /\ s5.candidates \subseteq OnePerson
  BY DEF Reached, Search!Deploy
<1>1. CASE Search!TargetRead
  <2>1. PICK t \in Search!Most(Search!Deploy, s1 - 1)..s1 : Search!Turn(1, t, s5.next, s5.candidates)
    BY <1>1 DEF Search!TargetRead
  <2>2. t \in Search!Deploy..s1 /\ s5.running /\ s5.next \in s5.next..(s1 + 1) /\ s10' = s10
    BY <1>0, <1>1 DEF Search!TargetRead, Search!Most, Search!Deploy
  <2>3. \A j \in 1..(1 - 1) : ~Well(Sources[j])'
    OBVIOUS
  <2>4. 1 \in 1..(Len(Sources) + 1)
    BY SearchBounds
  <2> QED
    BY <1>0, <2>1, <2>2, <2>3, <2>4, TurnReaches
<1>2. CASE Search!TargetFails
  BY <1>0, <1>2, NoneRead DEF Search!TargetFails
<1>3. CASE Search!RateLimited
  <2>1. s6.stage \in {"probe", "head", "logs"} /\ s6' = [s6 EXCEPT !.waits = @ + 1]
        /\ UNCHANGED <<Search!chain, Search!page, s5, s10>>
    BY <1>3 DEF Search!RateLimited, Search!Asking
  <2> QED
    BY <1>0, <2>1, WithinTurn DEF Reached
<1>4. CASE Search!RateLimitedToTheEnd
  <2>1. s6.stage \in {"probe", "head", "logs"} /\ Search!source \in s10' /\ s10 \subseteq s10'
    BY <1>4 DEF Search!RateLimitedToTheEnd, Search!Asking, Search!Failing
  <2> DEFINE next == IF s6.stage = "logs" THEN s6.cursor ELSE s5.next
  <2>2. Search!NextSource(next)
    BY <1>4 DEF Search!RateLimitedToTheEnd
  <2>3. next \in s5.next..(s1 + 1) /\ SearchedBelow(next, s5.candidates)
    <3>1. CASE s6.stage = "logs"
      <4>1. /\ s6.cursor \in s5.next..s6.until /\ s6.until \in Int /\ s6.until <= s6.target
            /\ s6.target \in Search!Deploy..s1 /\ SearchedBelow(s6.cursor, s5.candidates)
        BY <3>1 DEF Reached
      <4>2. s6.cursor \in s5.next..(s1 + 1)
        BY <1>0, <4>1 DEF Search!Deploy
      <4> QED
        BY <3>1, <4>1, <4>2
    <3>2. CASE s6.stage # "logs"
      BY <1>0, <3>2
    <3> QED
      BY <3>1, <3>2
  <2> HIDE DEF next
  <2> QED
    BY <2>1, <2>2, <2>3, NextReaches
<1>5. CASE Search!CallFails
  <2>1. s6.stage \in {"probe", "head", "logs"} /\ Search!source \in s10' /\ s10 \subseteq s10'
        /\ Search!NextSource(s5.next) /\ s5.next \in s5.next..(s1 + 1)
    BY <1>0, <1>5 DEF Search!CallFails, Search!Failing
  <2> QED
    BY <1>0, <2>1, NextReaches
<1>6. CASE Search!Probed
  <2>1. CASE Search!servesHistory(Search!source)
    <3>1. s6' = [s6 EXCEPT !.stage = "head", !.waits = 0] /\ s6.stage = "probe"
          /\ UNCHANGED <<Search!chain, Search!page, s5, s10>>
      BY <1>6, <2>1 DEF Search!Probed
    <3> QED
      BY <2>1, <3>1, WithinTurn DEF Reached
  <2>2. CASE ~Search!servesHistory(Search!source)
    <3>1. Search!NextSource(s5.next) /\ s6.stage = "probe" /\ s10' = s10 /\ ~Well(Search!source)
          /\ s5.next \in s5.next..(s1 + 1)
      BY <1>0, <1>6, <2>2 DEF Search!Probed, Well
    <3> QED
      BY <1>0, <3>1, NextReaches
  <2> QED
    BY <2>1, <2>2
<1>7. CASE Search!HeadRead
  <2>1. PICK h \in Search!Most(Search!Deploy, s1 - 1)..s1 :
          /\ IF s5.next > Search!Least(s6.target, h) \/ s5.stop
             THEN Search!NextSource(s5.next)
             ELSE /\ s6' = [s6 EXCEPT !.stage = "logs", !.waits = 0, !.until = Search!Least(s6.target, h),
                                      !.cursor = s5.next, !.span = SpanOf[Search!source]]
                  /\ UNCHANGED <<Search!chain, Search!page, s5>>
          /\ s10' = IF h < s6.target THEN s10 \cup {Search!source} ELSE s10
    BY <1>7 DEF Search!HeadRead
  <2>2. /\ s6.stage = "head" /\ s6.target \in Int /\ s6.src \in DOMAIN Sources
        /\ Search!servesHistory(Search!source)
        /\ s10 \subseteq s10' /\ (h < s6.target => Search!source \in s10')
        /\ DOMAIN s6 = {"stage", "src", "span", "until", "cursor", "target", "waits"}
    BY <1>7, <2>1 DEF Search!HeadRead, Reached
  <2>3. Search!Least(s6.target, h) \in Int /\ Search!Least(s6.target, h) <= s6.target
        /\ (Search!Least(s6.target, h) = s6.target \/ Search!source \in s10')
    BY <2>2 DEF Search!Least, Search!Most, Search!Deploy
  <2>4. CASE s5.next > Search!Least(s6.target, h) \/ s5.stop
    <3>1. Search!NextSource(s5.next) /\ s5.next \in s5.next..(s1 + 1)
      BY <1>0, <2>1, <2>4
    <3>2. s5.next > s6.target \/ s5.stop \/ Search!source \in s10'
      BY <2>3, <2>4
    <3> QED
      BY <1>0, <2>2, <3>1, <3>2, NextReaches
  <2>5. CASE ~(s5.next > Search!Least(s6.target, h) \/ s5.stop)
    <3> DEFINE u == Search!Least(s6.target, h)  sp == SpanOf[Search!source]
    <3>1. sp \in Int /\ sp >= SearchSize.MIN_LOG_SPAN
      BY <2>2, SearchBounds DEF Search!source
    <3>2. s6' = [s6 EXCEPT !.stage = "logs", !.waits = 0, !.until = u, !.cursor = s5.next, !.span = sp]
          /\ UNCHANGED <<Search!chain, Search!page, s5>>
      BY <2>1, <2>5
    <3>3. s5.next \in s5.next..u /\ u \in Int /\ u <= s6.target
          /\ (u = s6.target \/ Search!source \in s10')
      BY <1>0, <2>3, <2>5
    <3> HIDE DEF u, sp
    <3>4. /\ s6'.stage = "logs" /\ s6'.until = u /\ s6'.cursor = s5.next /\ s6'.span = sp
          /\ s6'.src = s6.src /\ s6'.target = s6.target /\ DOMAIN s6' = DOMAIN s6
      BY <2>2, <3>2
    <3> QED
      BY <1>0, <2>2, <3>1, <3>2, <3>3, <3>4, WithinTurn
  <2> QED
    BY <2>4, <2>5
<1>8. CASE Search!LogsAnswered
  <2> DEFINE cands == s5.candidates \cup {r[2] : r \in Search!Logs(Search!source, s6.cursor, Search!end)}
             c == Search!end + 1
  <2>1. /\ s6.stage = "logs" /\ s6.src \in DOMAIN Sources /\ s6.target \in Search!Deploy..s1
        /\ s6.cursor \in s5.next..s6.until /\ s6.until \in Int /\ s6.until <= s6.target
        /\ s6.span \in Int /\ s6.span >= SearchSize.MIN_LOG_SPAN
        /\ SearchedBelow(s6.cursor, s5.candidates)
        /\ s6.until = s6.target \/ Search!source \in s10
        /\ Search!servesHistory(Search!source) /\ s10' = s10 /\ s5.running
        /\ \A i \in 1..(s6.src - 1) : ~Well(Sources[i])
        /\ DOMAIN s6 = {"stage", "src", "span", "until", "cursor", "target", "waits"}
        /\ DOMAIN s5 = {"next", "candidates", "summary", "running", "stop"}
    BY <1>8 DEF Search!LogsAnswered, Reached
  <2>2. Search!end \in Int /\ Search!end <= s6.until /\ Search!end >= s6.cursor
    BY <1>0, <2>1 DEF Search!end, Search!Least
  <2>3. Search!Continue(c, cands) /\ c \in Int /\ c > s6.cursor /\ c <= s6.until + 1
    BY <1>0, <1>8, <2>1, <2>2, SMTT(30) DEF Search!LogsAnswered
  <2>4. /\ s5.candidates \subseteq cands /\ cands \subseteq OnePerson
    BY <1>0 DEF Search!Logs, Reached
  <2>5. SearchedBelow(c, cands)
    <3> SUFFICES ASSUME NEW r \in s2, r[1] < c  PROVE r[2] \in cands
      BY DEF SearchedBelow
    <3>1. r[1] \in Int /\ r[1] >= Search!Deploy
      BY DEF Reached, Search!Deploy
    <3>2. CASE r[1] < s6.cursor
      BY <2>1, <3>2 DEF SearchedBelow
    <3>3. CASE r[1] >= s6.cursor
      <4>1. r[1] \in s6.cursor..Search!end
        BY <1>0, <2>1, <2>2, <3>1, <3>3
      <4>2. s3[Search!source] \in Int /\ s3[Search!source] <= Search!Deploy
        BY <2>1 DEF Search!servesHistory, Search!source, Search!SourceSet, Reached
      <4>3. r \in Search!Logs(Search!source, s6.cursor, Search!end)
        BY <3>1, <4>1, <4>2 DEF Search!Logs, Search!Deploy
      <4> QED
        BY <4>3
    <3> QED
      BY <1>0, <2>1, <3>1, <3>2, <3>3
  <2>6. c \in s5.next..(s1 + 1)
    BY <1>0, <2>1, <2>3 DEF Search!Deploy
  <2> HIDE DEF c, cands
  <2>7. CASE c > s6.until \/ s5.stop
    <3>1. Search!Turn(s6.src + 1, s6.target, c, cands)
      BY <2>3, <2>7 DEF Search!Continue
    <3>2. s6.src + 1 \in 1..(Len(Sources) + 1) /\ s6.src \in Nat
      BY <2>1, SearchBounds
    <3>3. s3' = s3 /\ s4' = s4
      BY <3>1 DEF Search!Turn, Search!Finish, Search!chain
    <3>4. c > s6.target \/ s5.stop \/ \A j \in 1..(s6.src + 1 - 1) : ~Well(Sources[j])'
      <4>1. CASE c > s6.target \/ s5.stop
        BY <4>1
      <4>2. CASE Search!source \in s10
        <5>1. ASSUME NEW j \in 1..(s6.src + 1 - 1), Well(Sources[j])'
              PROVE  Well(Sources[j]) /\ Sources[j] \notin s10
          BY <2>1, <3>3, <5>1 DEF Well, Search!servesHistory
        <5>2. ASSUME NEW j \in 1..(s6.src + 1 - 1), Well(Sources[j])  PROVE j = s6.src
          <6>1. s6.src \in Nat /\ j \in 1..s6.src
            BY <3>2
          <6>2. \A i \in 1..(s6.src - 1) : ~Well(Sources[i])
            BY <2>1
          <6> QED
            BY <5>2, <6>1, <6>2
        <5> QED
          BY <4>2, <5>1, <5>2 DEF Search!source
      <4> QED
        BY <2>1, <2>7, <4>1, <4>2
    <3> DEFINE i == s6.src + 1
               target == s6.target
    <3>5. /\ i \in 1..(Len(Sources) + 1) /\ Search!Turn(i, target, c, cands)
          /\ c > target \/ s5.stop \/ \A j \in 1..(i - 1) : ~Well(Sources[j])'
      BY <3>1, <3>2, <3>4
    <3>6. target \in Search!Deploy..s1 /\ s5.running
      BY <2>1
    <3> HIDE DEF i, target
    <3> QED
      BY <2>1, <2>4, <2>5, <2>6, <3>5, <3>6, TurnReaches
  <2>8. CASE ~(c > s6.until \/ s5.stop)
    <3>1. /\ s6' = [s6 EXCEPT !.cursor = c, !.waits = 0]
          /\ s5' = [s5 EXCEPT !.candidates = cands] /\ UNCHANGED <<Search!chain, Search!page>>
      BY <2>3, <2>8 DEF Search!Continue
    <3>2. /\ s6'.stage = "logs" /\ s6'.until = s6.until /\ s6'.cursor = c /\ s6'.span = s6.span
          /\ s6'.src = s6.src /\ s6'.target = s6.target /\ DOMAIN s6' = DOMAIN s6
      BY <2>1, <3>1
    <3>3. /\ s5'.next = s5.next /\ s5'.candidates = cands /\ s5'.summary = s5.summary
          /\ s5'.running = s5.running /\ s5'.stop = s5.stop /\ DOMAIN s5' = DOMAIN s5
      BY <2>1, <3>1
    <3>4. UNCHANGED <<s1, s2, s3, s4, s7>> /\ Search!source' = Search!source
      BY <3>1, <3>2 DEF Search!chain, Search!page, Search!source
    <3>5. \A i \in 1..(s6.src - 1) : ~Well(Sources[i])'
      BY <2>1, <3>4 DEF Well, Search!servesHistory
    <3>6. SearchedBelow(s6.cursor, s5.candidates)' /\ SearchedBelow(s5.next, s5.candidates)'
      BY <1>0, <2>4, <2>5, <3>2, <3>3, <3>4 DEF SearchedBelow
    <3>7. Search!servesHistory(Search!source)' /\ (s6'.until = s6'.target \/ Search!source' \in s10')
      BY <2>1, <3>2, <3>4 DEF Search!servesHistory
    <3>8. c \in s5.next..s6.until
      <4>1. c \in Int /\ s5.next \in Int /\ c >= s5.next /\ ~(c > s6.until) /\ s6.until \in Int
        BY <1>0, <2>1, <2>3, <2>6, <2>8
      <4> QED
        BY <4>1
    <3>9. /\ s7'.summary.searchedTo \in Nat /\ s7'.summary.searchedTo <= Search!Most(s5.next - 1, 0)'
          /\ s5'.summary.searchedTo \in Nat /\ s5'.summary.searchedTo <= Search!Most(s5.next - 1, 0)'
      BY <3>3, <3>4 DEF Reached
    <3> QED
      BY <2>1, <2>4, <3>2, <3>3, <3>4, <3>5, <3>6, <3>7, <3>8, <3>9 DEF Reached
  <2> QED
    BY <2>7, <2>8
<1>9. CASE Search!LogsRefused \/ Search!LogsFail
  <2>1. /\ s6.stage = "logs" /\ s6.cursor \in s5.next..s6.until /\ s6.until \in Int
        /\ s6.until <= s6.target /\ s6.target \in Search!Deploy..s1
        /\ s6.span \in Int /\ s6.span >= SearchSize.MIN_LOG_SPAN
        /\ SearchedBelow(s6.cursor, s5.candidates)
        /\ s6.until = s6.target \/ Search!source \in s10
        /\ Search!servesHistory(Search!source) /\ s10 \subseteq s10' /\ Search!Shrunk
        /\ DOMAIN s6 = {"stage", "src", "span", "until", "cursor", "target", "waits"}
    BY <1>9 DEF Search!LogsRefused, Search!LogsFail, Search!Failing, Reached
  <2>2. Search!end \in Int /\ Search!end - s6.cursor + 1 <= s6.span
    BY <1>0, <2>1 DEF Search!end, Search!Least
  <2>3. CASE s6.span <= SearchSize.MIN_LOG_SPAN \/ s5.stop
    <3>1. Search!NextSource(s6.cursor) /\ s6.cursor \in s5.next..(s1 + 1)
      BY <1>0, <2>1, <2>3 DEF Search!Shrunk, Search!Deploy
    <3>2. s5.stop \/ ~Well(Search!source) \/ Search!source \in s10'
      <4>1. CASE Search!LogsFail
        BY <4>1 DEF Search!LogsFail, Search!Failing
      <4>2. CASE Search!LogsRefused /\ ~s5.stop
        <5>1. s4 \in [Search!SourceSet -> Nat] /\ s6.src \in DOMAIN Sources
          BY <2>1 DEF Reached
        <5>2. s4[Search!source] \in Int
          BY <5>1 DEF Search!source, Search!SourceSet
        <5> QED
          BY <1>0, <2>1, <2>2, <2>3, <4>2, <5>2 DEF Search!LogsRefused, Well
      <4> QED
        BY <1>9, <4>1, <4>2
    <3> QED
      BY <2>1, <3>1, <3>2, NextReaches
  <2>4. CASE ~(s6.span <= SearchSize.MIN_LOG_SPAN \/ s5.stop)
    <3> DEFINE sp == Search!Most(SearchSize.MIN_LOG_SPAN, (Search!end - s6.cursor + 1) \div SearchSize.Shrink)
    <3>1. sp \in Int /\ sp >= SearchSize.MIN_LOG_SPAN
      <4>1. ASSUME NEW a \in Int, NEW k \in Nat \ {0, 1}  PROVE a \div k \in Int
        BY <4>1
      <4> DEFINE rest == (Search!end - s6.cursor + 1) \div SearchSize.Shrink
      <4>2. rest \in Int
        BY <1>0, <2>1, <2>2, <4>1, SearchFits
      <4> HIDE DEF rest
      <4>3. Search!Most(SearchSize.MIN_LOG_SPAN, rest) \in Int
            /\ Search!Most(SearchSize.MIN_LOG_SPAN, rest) >= SearchSize.MIN_LOG_SPAN
        BY <4>2, SearchFits DEF Search!Most
      <4> QED
        BY <4>3 DEF rest
    <3>2. s6' = [s6 EXCEPT !.waits = 0, !.span = sp] /\ UNCHANGED <<Search!chain, Search!page, s5>>
      BY <2>1, <2>4 DEF Search!Shrunk
    <3> HIDE DEF sp
    <3>3. /\ s6'.stage = "logs" /\ s6'.until = s6.until /\ s6'.cursor = s6.cursor /\ s6'.span = sp
          /\ s6'.src = s6.src /\ s6'.target = s6.target /\ DOMAIN s6' = DOMAIN s6
      BY <2>1, <3>2
    <3> QED
      BY <2>1, <3>1, <3>2, <3>3, WithinTurn
  <2> QED
    BY <2>3, <2>4
<1>10. CASE Search!Shows \/ Search!ShowFails
  <2>1. /\ s6' = Search!Idle /\ s5' = [s5 EXCEPT !.running = FALSE, !.stop = FALSE]
        /\ s7' = Search!Found(s5.summary) \/ s7' = Search!NotFound("error")
        /\ UNCHANGED <<s1, s2, s3, s4>>
    BY <1>10 DEF Search!Shows, Search!ShowFails, Search!Ended, Search!chain
  <2>2. /\ s6'.stage = "idle"
        /\ DOMAIN s6' = {"stage", "src", "span", "until", "cursor", "target", "waits"}
    BY <2>1 DEF Search!Idle
  <2>3. /\ s5'.next = s5.next /\ s5'.candidates = s5.candidates /\ s5'.summary = s5.summary
        /\ s5'.running = FALSE /\ s5'.stop = FALSE
        /\ DOMAIN s5' = {"next", "candidates", "summary", "running", "stop"}
    BY <2>1 DEF Reached
  <2>4. /\ s7'.kind \in {"found", "error"}
        /\ s7'.summary.searchedTo \in {s5.summary.searchedTo, 0}
    BY <2>1 DEF Search!Found, Search!NotFound, Search!NoSummary
  <2>5. 0 <= Search!Most(s5.next - 1, 0)
    BY <1>0 DEF Search!Most
  <2>6. SearchedBelow(s5.next, s5.candidates)'
    BY <1>0, <2>1, <2>3 DEF SearchedBelow
  <2>7. /\ s7'.summary.searchedTo \in Nat /\ s7'.summary.searchedTo <= Search!Most(s5.next - 1, 0)'
        /\ s5'.summary.searchedTo \in Nat /\ s5'.summary.searchedTo <= Search!Most(s5.next - 1, 0)'
    BY <2>3, <2>4, <2>5 DEF Reached
  <2> QED
    BY <1>0, <2>1, <2>2, <2>3, <2>4, <2>6, <2>7 DEF Reached
<1>11. CASE Search!Starts
  <2>1. /\ s6' = [Search!Idle EXCEPT !.stage = "target"] /\ ~s5.running
        /\ s5' = [s5 EXCEPT !.running = TRUE, !.stop = FALSE, !.next = IF @ = 0 THEN Search!Deploy ELSE @]
        /\ UNCHANGED <<s1, s2, s3, s4, s7>>
    BY <1>11 DEF Search!Starts, Search!chain, Search!page
  <2>2. /\ s6'.stage = "target"
        /\ DOMAIN s6' = {"stage", "src", "span", "until", "cursor", "target", "waits"}
    BY <2>1 DEF Search!Idle
  <2>3. /\ s5'.candidates = s5.candidates /\ s5'.summary = s5.summary
        /\ s5'.running = TRUE /\ s5'.stop = FALSE
        /\ DOMAIN s5' = {"next", "candidates", "summary", "running", "stop"}
    BY <2>1 DEF Reached
  <2>4. s5'.next = IF s5.next = 0 THEN Search!Deploy ELSE s5.next
    BY <2>1 DEF Reached
  <2>5. /\ s5'.next \in Search!Deploy..(s1 + 1)
        /\ Search!Most(s5.next - 1, 0)' = Search!Most(s5.next - 1, 0)
    BY <1>0, <2>4 DEF Search!Deploy, Search!Most
  <2>6. SearchedBelow(s5.next, s5.candidates)'
    BY <1>0, <2>1, <2>3, <2>4 DEF SearchedBelow, Reached, Search!Deploy
  <2>7. /\ s7'.summary.searchedTo \in Nat /\ s7'.summary.searchedTo <= Search!Most(s5.next - 1, 0)'
        /\ s5'.summary.searchedTo \in Nat /\ s5'.summary.searchedTo <= Search!Most(s5.next - 1, 0)'
    BY <2>1, <2>3, <2>5 DEF Reached
  <2> QED
    BY <1>0, <2>1, <2>2, <2>3, <2>5, <2>6, <2>7, SMTT(40) DEF Reached, Search!Deploy
<1>12. CASE Search!Stop
  <2>1. /\ s5.running /\ s6.stage # "show" /\ s5' = [s5 EXCEPT !.stop = TRUE]
        /\ UNCHANGED <<s1, s2, s3, s4, s7, s6, s10>>
    BY <1>12 DEF Search!Stop, Search!chain, Search!page
  <2>2. /\ s5'.next = s5.next /\ s5'.candidates = s5.candidates /\ s5'.summary = s5.summary
        /\ s5'.running = s5.running /\ s5'.stop = TRUE
        /\ DOMAIN s5' = {"next", "candidates", "summary", "running", "stop"}
    BY <2>1 DEF Reached
  <2> QED
    BY <2>1, <2>2 DEF Reached, SearchedBelow, Well, Search!servesHistory, Search!source, Search!Most
<1>13. CASE Search!Lookup \/ Search!rereadHeir \/ UNCHANGED Search!vars
  <2>1. UNCHANGED <<s1, s2, s3, s4, s5, s6, s7, s10>>
    BY <1>13 DEF Search!Lookup, Search!rereadHeir, Search!vars, Search!chain
  <2> QED
    BY <2>1 DEF Reached, SearchedBelow, Well, Search!servesHistory, Search!source, Search!Most
<1>14. CASE Search!OwnerShown \/ Search!FoundShown \/ Search!ReadFails
  <2>1. /\ UNCHANGED <<s1, s2, s3, s4, s5, s6, s10>>
        /\ s7' \in {s7, Search!Found(s5.summary), Search!NotFound("owner"), Search!NotFound("error")}
    BY <1>14 DEF Search!OwnerShown, Search!FoundShown, Search!ReadFails, Search!chain
  <2>2. /\ s7'.kind \in {"none", "owner", "found", "error"}
        /\ s7'.summary.searchedTo \in {s7.summary.searchedTo, s5.summary.searchedTo, 0}
    BY <2>1 DEF Search!Found, Search!NotFound, Search!NoSummary, Reached
  <2>3. 0 <= Search!Most(s5.next - 1, 0)
    BY <1>0 DEF Search!Most
  <2>4. s7'.summary.searchedTo \in Nat /\ s7'.summary.searchedTo <= Search!Most(s5.next - 1, 0)
    BY <2>2, <2>3, SMTT(30) DEF Reached
  <2> QED
    BY <2>1, <2>2, <2>4 DEF Reached, SearchedBelow, Well, Search!servesHistory, Search!source, Search!Most
<1>15. CASE Search!Block
  <2>1. /\ s1 < SearchSize.MaxBlock /\ s1' = s1 + 1
        /\ UNCHANGED <<s3, s4, s5, s6, s7, s10>>
    BY <1>15 DEF Search!Block, Search!page
  <2>2. PICK named \in SUBSET OnePerson : s2' = s2 \cup {<<s1 + 1, v>> : v \in named}
    BY <1>15 DEF Search!Block
  <2>3. s2 \subseteq (Search!Deploy..s1) \X OnePerson
    BY DEF Reached
  <2>4. \A r \in s2' : r \in s2 \/ (r[1] = s1 + 1 /\ r[2] \in OnePerson /\ r = <<s1 + 1, r[2]>>)
    BY <2>2
  <2>5. s2' \subseteq (Search!Deploy..(s1 + 1)) \X OnePerson
    <3> SUFFICES ASSUME NEW r \in s2'  PROVE r \in (Search!Deploy..(s1 + 1)) \X OnePerson
      OBVIOUS
    <3>1. CASE r \in s2
      <4>1. r \in (Search!Deploy..s1) \X OnePerson /\ Search!Deploy..s1 \subseteq Search!Deploy..(s1 + 1)
        BY <1>0, <2>3, <3>1 DEF Search!Deploy
      <4> QED
        BY <4>1
    <3>2. CASE r[1] = s1 + 1 /\ r[2] \in OnePerson /\ r = <<s1 + 1, r[2]>>
      <4>1. s1 + 1 \in Search!Deploy..(s1 + 1)
        BY <1>0 DEF Search!Deploy
      <4> QED
        BY <3>2, <4>1
    <3> QED
      BY <2>4, <3>1, <3>2
  <2>6. ASSUME NEW block \in Int, block <= s1 + 1, SearchedBelow(block, s5.candidates)
        PROVE  \A r \in s2' : r[1] < block => r[2] \in s5.candidates
    BY <1>0, <2>4, <2>6 DEF SearchedBelow
  <2>7. SearchedBelow(s5.next, s5.candidates)'
    BY <1>0, <2>1, <2>6 DEF SearchedBelow
  <2>8. s6.stage = "logs" => SearchedBelow(s6.cursor, s5.candidates)'
    <3> SUFFICES ASSUME s6.stage = "logs"  PROVE SearchedBelow(s6.cursor, s5.candidates)'
      OBVIOUS
    <3>1. /\ s6.cursor \in s5.next..s6.until /\ s6.until \in Int /\ s6.until <= s6.target
          /\ s6.target \in Search!Deploy..s1 /\ SearchedBelow(s6.cursor, s5.candidates)
      BY DEF Reached
    <3>2. s6.cursor \in Int /\ s6.cursor <= s1 + 1
      BY <1>0, <3>1 DEF Search!Deploy
    <3>3. \A r \in s2' : r[1] < s6.cursor => r[2] \in s5.candidates
      BY <2>6, <3>1, <3>2
    <3> QED
      BY <2>1, <3>3 DEF SearchedBelow
  <2>9. /\ Search!Deploy..s1 \subseteq Search!Deploy..s1'
        /\ s1' \in Search!Deploy..SearchSize.MaxBlock /\ s5.next \in 0..(s1' + 1)
    BY <1>0, <2>1, SearchBounds DEF Search!Deploy
  <2> QED
    BY <2>1, <2>5, <2>7, <2>8, <2>9 DEF Reached, Well, Search!servesHistory, Search!source, Search!Most
<1> QED
  BY <1>1, <1>2, <1>3, <1>4, <1>5, <1>6, <1>7, <1>8, <1>9, <1>10, <1>11, <1>12, <1>13, <1>14, <1>15
     DEF Search!Next, Search!Answer, Search!Failure

LEMMA SearchPromises ==
  ASSUME Reached
  PROVE  Search!SearchTypeOK /\ Search!NothingMissed /\ Search!OneSourceSuffices /\ Search!SummaryTrue
<1>1. /\ s1 \in Search!Deploy..SearchSize.MaxBlock /\ s2 \subseteq (Search!Deploy..s1) \X OnePerson
      /\ s5.next \in 0..(s1 + 1)
      /\ SearchSize.MaxBlock \in Nat
  BY SearchBounds DEF Reached
<1>2. /\ s1 \in Search!Blocks /\ s2 \subseteq Search!Blocks \X OnePerson
      /\ s5.next \in 0..(SearchSize.MaxBlock + 1)
  <2>1. Search!Deploy..s1 \subseteq Search!Blocks
    BY <1>1 DEF Search!Blocks, Search!Deploy
  <2> QED
    BY <1>1, <2>1 DEF Search!Blocks, Search!Deploy
<1>3. Search!SearchTypeOK
  BY <1>2 DEF Reached, Search!SearchTypeOK
<1>4. Search!NothingMissed
  BY DEF Reached, SearchedBelow, Search!NothingMissed
<1>5. Search!OneSourceSuffices
  <2> SUFFICES ASSUME s6.stage = "show", s6.target > 0, ~s5.summary.stopped, NEW s \in Search!SourceSet,
                      Search!servesHistory(s), s4[s] >= SearchSize.MIN_LOG_SPAN, s \notin s10
               PROVE  s5.summary.searchedTo >= s5.summary.target
    BY DEF Search!OneSourceSuffices
  <2>1. \/ s5.summary.searchedTo >= s5.summary.target
        \/ \A i \in DOMAIN Sources : ~Well(Sources[i])
    BY DEF Reached
  <2>2. PICK i \in DOMAIN Sources : s = Sources[i]
    BY DEF Search!SourceSet
  <2>3. Well(Sources[i])
    BY <2>2 DEF Well
  <2> QED
    BY <2>1, <2>3
<1>6. Search!SummaryTrue
  <2> SUFFICES ASSUME NEW r \in s2, r[1] <= s7.summary.searchedTo  PROVE r[2] \in s5.candidates
    BY DEF Search!SummaryTrue
  <2>1. r[1] \in Int /\ r[1] >= 1 /\ s7.summary.searchedTo \in Nat
        /\ s7.summary.searchedTo <= Search!Most(s5.next - 1, 0)
    BY <1>1 DEF Reached, Search!Deploy
  <2>2. r[1] < s5.next
    BY <1>1, <2>1 DEF Search!Most
  <2> QED
    BY <2>2 DEF Reached, SearchedBelow
<1> QED
  BY <1>3, <1>4, <1>5, <1>6

HIDE SearchFits

-----------------------------------------------------------------------------
(* The cards' texts and the reasons of refusals: the part "words".  s1 is   *)
(* the time, s2 the vault and s3 what is said of it.                        *)

LEMMA WordsFit == 3 \in Nat \ {0} /\ Words!SwitchAssumption
BY SiteAssumption DEF SiteAssumption

USE WordsFit DEF Words!SwitchAssumption

-----------------------------------------------------------------------------
(* The contract's reasons. *)

\* The first of the checks that fail is the reason.
LEMMA FirstIs ==
  ASSUME NEW checks, NEW m \in DOMAIN checks, DOMAIN checks \subseteq Int, checks[m][1],
         \A j \in DOMAIN checks : checks[j][1] => m <= j
  PROVE  Words!FirstOf(checks) = checks[m][2]
<1> DEFINE failing == {i \in DOMAIN checks : checks[i][1]}
<1>1. m \in failing /\ \A j \in failing : m <= j
  OBVIOUS
<1>2. \A i \in failing : (\A j \in failing : i <= j) => i = m
  BY <1>1
<1>3. (CHOOSE i \in failing : \A j \in failing : i <= j) = m
  BY <1>1, <1>2
<1>4. failing # {}
  BY <1>1
<1> QED
  BY <1>3, <1>4 DEF Words!FirstOf

LEMMA NoneFails ==
  ASSUME NEW checks, \A j \in DOMAIN checks : ~checks[j][1]
  PROVE  Words!FirstOf(checks) = "none"
BY DEF Words!FirstOf

\* As it is for as many checks as a call makes.
LEMMA FirstOfOne ==
  ASSUME NEW a \in BOOLEAN,
         NEW x
  PROVE  Words!FirstOf(<< <<a, x>> >>) =
            IF a THEN x ELSE "none"
<1> DEFINE c == << <<a, x>> >>
<1>1. /\ DOMAIN c = {1}
      /\ c[1][1] = a /\ c[1][2] = x
  OBVIOUS
<1> HIDE DEF c
<1>2. CASE a
  <2>1. 1 \in DOMAIN c /\ c[1][1] /\ \A j \in DOMAIN c : c[j][1] => 1 <= j
    BY <1>1, <1>2
  <2>2. Words!FirstOf(c) = c[1][2]
    BY <1>1, <2>1, FirstIs
  <2> QED
    BY <1>1, <1>2, <2>2 DEF c
<1>3. CASE ~a
  <2>1. Words!FirstOf(c) = "none"
    BY <1>1, <1>3, NoneFails
  <2> QED
    BY <1>3, <2>1 DEF c
<1> QED
  BY <1>2, <1>3

LEMMA FirstOfTwo ==
  ASSUME NEW a \in BOOLEAN, NEW b \in BOOLEAN,
         NEW x, NEW y
  PROVE  Words!FirstOf(<< <<a, x>>, <<b, y>> >>) =
            IF a THEN x ELSE IF b THEN y ELSE "none"
<1> DEFINE c == << <<a, x>>, <<b, y>> >>
<1>1. /\ DOMAIN c = {1, 2}
      /\ c[1][1] = a /\ c[1][2] = x
      /\ c[2][1] = b /\ c[2][2] = y
  OBVIOUS
<1> HIDE DEF c
<1>2. CASE a
  <2>1. 1 \in DOMAIN c /\ c[1][1] /\ \A j \in DOMAIN c : c[j][1] => 1 <= j
    BY <1>1, <1>2
  <2>2. Words!FirstOf(c) = c[1][2]
    BY <1>1, <2>1, FirstIs
  <2> QED
    BY <1>1, <1>2, <2>2 DEF c
<1>3. CASE ~a /\ b
  <2>1. 2 \in DOMAIN c /\ c[2][1] /\ \A j \in DOMAIN c : c[j][1] => 2 <= j
    BY <1>1, <1>3
  <2>2. Words!FirstOf(c) = c[2][2]
    BY <1>1, <2>1, FirstIs
  <2> QED
    BY <1>1, <1>3, <2>2 DEF c
<1>4. CASE ~a /\ ~b
  <2>1. Words!FirstOf(c) = "none"
    BY <1>1, <1>4, NoneFails
  <2> QED
    BY <1>4, <2>1 DEF c
<1> QED
  BY <1>2, <1>3, <1>4

LEMMA FirstOfFour ==
  ASSUME NEW a \in BOOLEAN, NEW b \in BOOLEAN, NEW d \in BOOLEAN, NEW e \in BOOLEAN,
         NEW x, NEW y, NEW z, NEW w
  PROVE  Words!FirstOf(<< <<a, x>>, <<b, y>>, <<d, z>>, <<e, w>> >>) =
            IF a THEN x ELSE IF b THEN y ELSE IF d THEN z ELSE IF e THEN w ELSE "none"
<1> DEFINE c == << <<a, x>>, <<b, y>>, <<d, z>>, <<e, w>> >>
<1>1. /\ DOMAIN c = {1, 2, 3, 4}
      /\ c[1][1] = a /\ c[1][2] = x
      /\ c[2][1] = b /\ c[2][2] = y
      /\ c[3][1] = d /\ c[3][2] = z
      /\ c[4][1] = e /\ c[4][2] = w
  OBVIOUS
<1> HIDE DEF c
<1>2. CASE a
  <2>1. 1 \in DOMAIN c /\ c[1][1] /\ \A j \in DOMAIN c : c[j][1] => 1 <= j
    BY <1>1, <1>2
  <2>2. Words!FirstOf(c) = c[1][2]
    BY <1>1, <2>1, FirstIs
  <2> QED
    BY <1>1, <1>2, <2>2 DEF c
<1>3. CASE ~a /\ b
  <2>1. 2 \in DOMAIN c /\ c[2][1] /\ \A j \in DOMAIN c : c[j][1] => 2 <= j
    BY <1>1, <1>3
  <2>2. Words!FirstOf(c) = c[2][2]
    BY <1>1, <2>1, FirstIs
  <2> QED
    BY <1>1, <1>3, <2>2 DEF c
<1>4. CASE ~a /\ ~b /\ d
  <2>1. 3 \in DOMAIN c /\ c[3][1] /\ \A j \in DOMAIN c : c[j][1] => 3 <= j
    BY <1>1, <1>4
  <2>2. Words!FirstOf(c) = c[3][2]
    BY <1>1, <2>1, FirstIs
  <2> QED
    BY <1>1, <1>4, <2>2 DEF c
<1>5. CASE ~a /\ ~b /\ ~d /\ e
  <2>1. 4 \in DOMAIN c /\ c[4][1] /\ \A j \in DOMAIN c : c[j][1] => 4 <= j
    BY <1>1, <1>5
  <2>2. Words!FirstOf(c) = c[4][2]
    BY <1>1, <2>1, FirstIs
  <2> QED
    BY <1>1, <1>5, <2>2 DEF c
<1>6. CASE ~a /\ ~b /\ ~d /\ ~e
  <2>1. Words!FirstOf(c) = "none"
    BY <1>1, <1>6, NoneFails
  <2> QED
    BY <1>6, <2>1 DEF c
<1> QED
  BY <1>2, <1>3, <1>4, <1>5, <1>6

\* What is known of a switch s at time t: while it is live, its terms are in
\* bounds, its deadline is within a period, and its horizon can be moved away
\* once it is claimed or lapsed.
Bounded(s, t) ==
    /\ s \in Words!Switches /\ t \in Nat /\ t <= 3
    /\ Words!IsLive(s) =>
          /\ s.period \in 1..2
          /\ s.deadline <= s.horizon /\ s.deadline <= t + s.period
          /\ s.horizon <= t + 3
          /\ s.horizon = t + 3 => s.phase = "active" /\ s.deadline > t

\* The reason of each call.
LEMMA ReasonIs ==
  ASSUME NEW s \in Words!Switches, NEW t \in Nat, NEW h \in Int
  PROVE  /\ Words!Refusal("checkIn", s, t, h) =
               IF s.phase = "claimed" /\ ~Words!AtHorizon(s, t) THEN "ClaimPendingUseAbort"
               ELSE IF ~Words!IsLive(s) THEN "VaultNotActive"
               ELSE IF Words!AtHorizon(s, t) THEN "HorizonReached"
               ELSE IF s.deadline >= s.horizon THEN "DeadlinePinnedAtHorizon" ELSE "none"
         /\ Words!Refusal("checkInMany", s, t, h) = Words!Skipped(s, t)
         /\ Words!Refusal("veto", s, t, h) =
               IF s.phase # "claimed" THEN "NoClaimPending"
               ELSE IF Words!AtHorizon(s, t) THEN "HorizonReached" ELSE "none"
         /\ Words!Refusal("extend", s, t, h) =
               IF ~Words!IsLive(s) THEN "VaultTerminal"
               ELSE IF h <= s.horizon THEN "HorizonNotExtended"
               ELSE IF h < t + s.period THEN "HorizonTooSoon"
               ELSE IF h > t + 3 THEN "HorizonTooFar" ELSE "none"
         /\ Words!Refusal("heir", s, t, h) =
               IF ~Words!IsLive(s) THEN "VaultTerminal"
               ELSE IF s.phase = "claimed" /\ Words!AtHorizon(s, t) THEN "HorizonReached" ELSE "none"
         /\ Words!Refusal("part", s, t, h) = IF ~Words!IsLive(s) THEN "VaultTerminal" ELSE "none"
         /\ Words!Refusal("everything", s, t, h) = IF ~Words!IsLive(s) THEN "VaultTerminal" ELSE "none"
         /\ Words!Refusal("topUp", s, t, h) = IF s.phase # "active" THEN "VaultNotActive" ELSE "none"
         /\ Words!Refusal("claim", s, t, h) =
               IF s.phase # "active" THEN "VaultNotActive"
               ELSE IF ~Words!IsExpired(s, t) THEN "NotYetExpired" ELSE "none"
         /\ Words!Refusal("cancel", s, t, h) = IF s.phase # "claimed" THEN "NoClaimPending" ELSE "none"
         /\ Words!Refusal("finalize", s, t, h) =
               IF s.phase # "claimed" THEN "NoClaimPending"
               ELSE IF t < Words!FinalizableAt(s) THEN "ChallengeWindowOpen" ELSE "none"
<1>1. Words!Refusal("checkIn", s, t, h) =
        IF s.phase = "claimed" /\ ~Words!AtHorizon(s, t) THEN "ClaimPendingUseAbort"
        ELSE IF ~Words!IsLive(s) THEN "VaultNotActive"
        ELSE IF Words!AtHorizon(s, t) THEN "HorizonReached"
        ELSE IF s.deadline >= s.horizon THEN "DeadlinePinnedAtHorizon"
        ELSE "none"
  <2> DEFINE a == s.phase = "claimed" /\ ~Words!AtHorizon(s, t)
             b == ~Words!IsLive(s)
             d == Words!AtHorizon(s, t)
             e == s.deadline >= s.horizon
  <2>1. Words!Refusal("checkIn", s, t, h) =
            Words!FirstOf(<< <<a, "ClaimPendingUseAbort">>, <<b, "VaultNotActive">>,
                             <<d, "HorizonReached">>, <<e, "DeadlinePinnedAtHorizon">> >>)
    BY DEF Words!Refusal, Words!Terminal, Words!AtItsHorizon
  <2>2. a \in BOOLEAN /\ b \in BOOLEAN /\ d \in BOOLEAN /\ e \in BOOLEAN
    BY DEF Words!IsLive, Words!AtHorizon, Words!IsExpired
  <2> HIDE DEF a, b, d, e
  <2>3. Words!FirstOf(<< <<a, "ClaimPendingUseAbort">>, <<b, "VaultNotActive">>,
                         <<d, "HorizonReached">>, <<e, "DeadlinePinnedAtHorizon">> >>) =
          IF a THEN "ClaimPendingUseAbort"
          ELSE IF b THEN "VaultNotActive"
          ELSE IF d THEN "HorizonReached"
          ELSE IF e THEN "DeadlinePinnedAtHorizon"
          ELSE "none"
    BY <2>2, FirstOfFour
  <2> QED
    BY <2>1, <2>3 DEF a, b, d, e
<1>2. Words!Refusal("veto", s, t, h) =
        IF s.phase # "claimed" THEN "NoClaimPending"
        ELSE IF Words!AtHorizon(s, t) THEN "HorizonReached"
        ELSE "none"
  <2> DEFINE a == s.phase # "claimed"  b == Words!AtHorizon(s, t)
  <2>1. Words!Refusal("veto", s, t, h) =
            Words!FirstOf(<< <<a, "NoClaimPending">>, <<b, "HorizonReached">> >>)
    BY DEF Words!Refusal, Words!Terminal, Words!AtItsHorizon
  <2>2. a \in BOOLEAN /\ b \in BOOLEAN
    BY DEF Words!IsLive, Words!AtHorizon, Words!IsExpired
  <2> HIDE DEF a, b
  <2>3. Words!FirstOf(<< <<a, "NoClaimPending">>, <<b, "HorizonReached">> >>) =
          IF a THEN "NoClaimPending" ELSE IF b THEN "HorizonReached" ELSE "none"
    BY <2>2, FirstOfTwo
  <2> QED
    BY <2>1, <2>3 DEF a, b
<1>3. Words!Refusal("extend", s, t, h) =
        IF ~Words!IsLive(s) THEN "VaultTerminal"
        ELSE IF h <= s.horizon THEN "HorizonNotExtended"
        ELSE IF h < t + s.period THEN "HorizonTooSoon"
        ELSE IF h > t + 3 THEN "HorizonTooFar"
        ELSE "none"
  <2> DEFINE a == ~Words!IsLive(s)  b == h <= s.horizon  d == h < t + s.period  e == h > t + 3
  <2>1. Words!Refusal("extend", s, t, h) =
            Words!FirstOf(<< <<a, "VaultTerminal">>, <<b, "HorizonNotExtended">>,
                             <<d, "HorizonTooSoon">>, <<e, "HorizonTooFar">> >>)
    BY DEF Words!Refusal, Words!Terminal, Words!AtItsHorizon
  <2>2. a \in BOOLEAN /\ b \in BOOLEAN /\ d \in BOOLEAN /\ e \in BOOLEAN
    BY DEF Words!IsLive, Words!AtHorizon, Words!IsExpired
  <2> HIDE DEF a, b, d, e
  <2>3. Words!FirstOf(<< <<a, "VaultTerminal">>, <<b, "HorizonNotExtended">>,
                         <<d, "HorizonTooSoon">>, <<e, "HorizonTooFar">> >>) =
          IF a THEN "VaultTerminal"
          ELSE IF b THEN "HorizonNotExtended"
          ELSE IF d THEN "HorizonTooSoon"
          ELSE IF e THEN "HorizonTooFar"
          ELSE "none"
    BY <2>2, FirstOfFour
  <2> QED
    BY <2>1, <2>3 DEF a, b, d, e
<1>4. Words!Refusal("heir", s, t, h) =
        IF ~Words!IsLive(s) THEN "VaultTerminal"
        ELSE IF s.phase = "claimed" /\ Words!AtHorizon(s, t) THEN "HorizonReached"
        ELSE "none"
  <2> DEFINE a == ~Words!IsLive(s)  b == s.phase = "claimed" /\ Words!AtHorizon(s, t)
  <2>1. Words!Refusal("heir", s, t, h) =
            Words!FirstOf(<< <<a, "VaultTerminal">>, <<b, "HorizonReached">> >>)
    BY DEF Words!Refusal, Words!Terminal, Words!AtItsHorizon
  <2>2. a \in BOOLEAN /\ b \in BOOLEAN
    BY DEF Words!IsLive, Words!AtHorizon, Words!IsExpired
  <2> HIDE DEF a, b
  <2>3. Words!FirstOf(<< <<a, "VaultTerminal">>, <<b, "HorizonReached">> >>) =
          IF a THEN "VaultTerminal" ELSE IF b THEN "HorizonReached" ELSE "none"
    BY <2>2, FirstOfTwo
  <2> QED
    BY <2>1, <2>3 DEF a, b
<1>5. Words!Refusal("part", s, t, h) =
        IF ~Words!IsLive(s) THEN "VaultTerminal" ELSE "none"
  <2> DEFINE a == ~Words!IsLive(s)
  <2>1. Words!Refusal("part", s, t, h) = Words!FirstOf(<< <<a, "VaultTerminal">> >>)
    BY DEF Words!Refusal, Words!Terminal, Words!AtItsHorizon
  <2>2. a \in BOOLEAN
    BY DEF Words!IsLive, Words!AtHorizon, Words!IsExpired
  <2> HIDE DEF a
  <2>3. Words!FirstOf(<< <<a, "VaultTerminal">> >>) =
          IF a THEN "VaultTerminal" ELSE "none"
    BY <2>2, FirstOfOne
  <2> QED
    BY <2>1, <2>3 DEF a
<1>6. Words!Refusal("everything", s, t, h) =
        IF ~Words!IsLive(s) THEN "VaultTerminal" ELSE "none"
  <2> DEFINE a == ~Words!IsLive(s)
  <2>1. Words!Refusal("everything", s, t, h) = Words!FirstOf(<< <<a, "VaultTerminal">> >>)
    BY DEF Words!Refusal, Words!Terminal, Words!AtItsHorizon
  <2>2. a \in BOOLEAN
    BY DEF Words!IsLive, Words!AtHorizon, Words!IsExpired
  <2> HIDE DEF a
  <2>3. Words!FirstOf(<< <<a, "VaultTerminal">> >>) =
          IF a THEN "VaultTerminal" ELSE "none"
    BY <2>2, FirstOfOne
  <2> QED
    BY <2>1, <2>3 DEF a
<1>7. Words!Refusal("topUp", s, t, h) =
        IF s.phase # "active" THEN "VaultNotActive" ELSE "none"
  <2> DEFINE a == s.phase # "active"
  <2>1. Words!Refusal("topUp", s, t, h) = Words!FirstOf(<< <<a, "VaultNotActive">> >>)
    BY DEF Words!Refusal, Words!Terminal, Words!AtItsHorizon
  <2>2. a \in BOOLEAN
    BY DEF Words!IsLive, Words!AtHorizon, Words!IsExpired
  <2> HIDE DEF a
  <2>3. Words!FirstOf(<< <<a, "VaultNotActive">> >>) =
          IF a THEN "VaultNotActive" ELSE "none"
    BY <2>2, FirstOfOne
  <2> QED
    BY <2>1, <2>3 DEF a
<1>8. Words!Refusal("claim", s, t, h) =
        IF s.phase # "active" THEN "VaultNotActive"
        ELSE IF ~Words!IsExpired(s, t) THEN "NotYetExpired"
        ELSE "none"
  <2> DEFINE a == s.phase # "active"  b == ~Words!IsExpired(s, t)
  <2>1. Words!Refusal("claim", s, t, h) =
            Words!FirstOf(<< <<a, "VaultNotActive">>, <<b, "NotYetExpired">> >>)
    BY DEF Words!Refusal, Words!Terminal, Words!AtItsHorizon
  <2>2. a \in BOOLEAN /\ b \in BOOLEAN
    BY DEF Words!IsLive, Words!AtHorizon, Words!IsExpired
  <2> HIDE DEF a, b
  <2>3. Words!FirstOf(<< <<a, "VaultNotActive">>, <<b, "NotYetExpired">> >>) =
          IF a THEN "VaultNotActive" ELSE IF b THEN "NotYetExpired" ELSE "none"
    BY <2>2, FirstOfTwo
  <2> QED
    BY <2>1, <2>3 DEF a, b
<1>9. Words!Refusal("cancel", s, t, h) =
        IF s.phase # "claimed" THEN "NoClaimPending" ELSE "none"
  <2> DEFINE a == s.phase # "claimed"
  <2>1. Words!Refusal("cancel", s, t, h) = Words!FirstOf(<< <<a, "NoClaimPending">> >>)
    BY DEF Words!Refusal, Words!Terminal, Words!AtItsHorizon
  <2>2. a \in BOOLEAN
    BY DEF Words!IsLive, Words!AtHorizon, Words!IsExpired
  <2> HIDE DEF a
  <2>3. Words!FirstOf(<< <<a, "NoClaimPending">> >>) =
          IF a THEN "NoClaimPending" ELSE "none"
    BY <2>2, FirstOfOne
  <2> QED
    BY <2>1, <2>3 DEF a
<1>10. Words!Refusal("finalize", s, t, h) =
        IF s.phase # "claimed" THEN "NoClaimPending"
        ELSE IF t < Words!FinalizableAt(s) THEN "ChallengeWindowOpen"
        ELSE "none"
  <2> DEFINE a == s.phase # "claimed"  b == t < Words!FinalizableAt(s)
  <2>1. Words!Refusal("finalize", s, t, h) =
            Words!FirstOf(<< <<a, "NoClaimPending">>, <<b, "ChallengeWindowOpen">> >>)
    BY DEF Words!Refusal, Words!Terminal, Words!AtItsHorizon
  <2>2. a \in BOOLEAN /\ b \in BOOLEAN
    BY DEF Words!IsLive, Words!AtHorizon, Words!IsExpired
  <2> HIDE DEF a, b
  <2>3. Words!FirstOf(<< <<a, "NoClaimPending">>, <<b, "ChallengeWindowOpen">> >>) =
          IF a THEN "NoClaimPending" ELSE IF b THEN "ChallengeWindowOpen" ELSE "none"
    BY <2>2, FirstOfTwo
  <2> QED
    BY <2>1, <2>3 DEF a, b
<1>20. Words!Refusal("checkInMany", s, t, h) = Words!Skipped(s, t)
  BY DEF Words!Refusal
<1> QED
  BY <1>1, <1>2, <1>3, <1>4, <1>5, <1>6, <1>7, <1>8, <1>9, <1>10, <1>20

\* The checks of a call refuse what the rules of the switch refuse.
LEMMA RefusesWhatIsRefused ==
  ASSUME NEW s \in Words!Switches, NEW t \in Nat, NEW h \in Int, NEW call \in Words!Calls,
         call # "extend", s.phase # "none"
  PROVE  Words!Refusal(call, s, t, h) = "none" <=> Words!Accepts(call, s, t)
<1>1. /\ s.deadline \in Nat /\ s.horizon \in Nat /\ s.claimedAt \in Nat /\ s.window \in Nat
      /\ s.period \in Nat
      /\ s.phase \in {"active", "claimed", "settled", "closed"}
  BY DEF Words!Switches
<1>2. CASE call = "checkIn"
  BY <1>1, <1>2, ReasonIs DEF Words!Accepts, Words!CanShowLife, Words!IsLive
<1>3. CASE call = "checkInMany"
  <2>1. Words!Restarted(s, t).deadline \in Int
    BY <1>1 DEF Words!Restarted, Words!Sooner, Words!Switches
  <2> QED
    BY <1>1, <1>3, <2>1, ReasonIs DEF Words!Accepts, Words!Skipped, Words!CanShowLife, Words!AtHorizon
<1>4. CASE call = "veto"
  BY <1>1, <1>4, ReasonIs DEF Words!Accepts, Words!CanVeto
<1>6. CASE call = "heir"
  BY <1>1, <1>6, ReasonIs DEF Words!Accepts, Words!CanAct
<1>7. CASE call = "part"
  BY <1>1, <1>7, ReasonIs DEF Words!Accepts, Words!IsLive
<1>8. CASE call = "topUp"
  BY <1>1, <1>8, ReasonIs DEF Words!Accepts
<1>10. CASE call = "everything"
  BY <1>1, <1>10, ReasonIs DEF Words!Accepts, Words!IsLive
<1>11. CASE call = "cancel"
  BY <1>1, <1>11, ReasonIs DEF Words!Accepts
<1>9. CASE call = "claim"
  BY <1>1, <1>9, ReasonIs DEF Words!Accepts, Words!CanClaim
<1>5. CASE call = "finalize"
  BY <1>1, <1>5, ReasonIs DEF Words!Accepts, Words!CanSettle, Words!FinalizableAt
<1> QED
  BY <1>2, <1>3, <1>4, <1>5, <1>6, <1>7, <1>8, <1>9, <1>10, <1>11 DEF Words!Calls

-----------------------------------------------------------------------------
(* The switch. *)

\* An extension is possible once a vault is claimed or its deadline is held by
\* the horizon.
LEMMA CanStillBeExtended ==
  ASSUME NEW s, NEW t, Bounded(s, t), Words!IsLive(s), t >= 1,
         s.phase = "claimed" \/ Words!AtHorizon(s, t) \/ s.deadline >= s.horizon
  PROVE  Words!Accepts("extend", s, t)
<1>1. /\ s.deadline \in Nat /\ s.horizon \in Nat /\ s.period \in Nat /\ t \in Nat /\ t <= 3
      /\ s.period <= 2
  BY DEF Bounded, Words!Switches
<1>2. s.horizon < t + 3
  BY <1>1 DEF Bounded, Words!AtHorizon
<1> DEFINE h == t + 3
<1>3. h \in Words!Horizons /\ h > s.horizon /\ h >= t + s.period /\ h <= t + 3
  BY <1>1, <1>2 DEF Words!Horizons
<1> HIDE DEF h
<1>4. Words!CanExtend(s, t, h)
  BY <1>3 DEF Words!CanExtend
<1> QED
  BY <1>3, <1>4 DEF Words!Accepts

\* An act of the owner moves the horizon only so far.
LEMMA HorizonInReach ==
  ASSUME Words!SwitchSound, Words!OwnerActs
  PROVE  s2'.horizon = s2.horizon \/ s2'.horizon <= s1 + 3
<1>1. s1 \in Nat /\ s2 \in Words!Switches
  BY DEF Words!SwitchSound, Words!ClockTypeOK
<1>2. ASSUME NEW s \in Words!Switches, Words!Becoming(Words!Acted(s, s1)), s.horizon = s2.horizon
      PROVE  s2'.horizon = s2.horizon
  BY <1>1, <1>2, Words!ActedIs DEF Words!Becoming
<1>3. CASE Words!Extend
  <2>1. PICK horizon \in Words!Horizons : /\ Words!CanExtend(s2, s1, horizon)
                                          /\ Words!Becoming(Words!Acted([s2 EXCEPT !.horizon = horizon], s1))
    BY <1>3 DEF Words!Extend
  <2> DEFINE s == [s2 EXCEPT !.horizon = horizon]
  <2>2. s \in Words!Switches /\ s.horizon = horizon /\ horizon <= s1 + 3
    BY <1>1, <2>1 DEF Words!Switches, Words!Horizons, Words!CanExtend
  <2>3. Words!Becoming(Words!Acted(s, s1))
    BY <2>1
  <2> HIDE DEF s
  <2> QED
    BY <1>1, <2>2, <2>3, Words!ActedIs DEF Words!Becoming
<1>4. CASE Words!ShowLife
  BY <1>1, <1>4 DEF Words!ShowLife, Words!Becoming, Words!Restarted, Words!Switches
<1>5. CASE Words!WithdrawPart
  <2>1. CASE Words!AtHorizon(s2, s1)
    BY <1>1, <1>5, <2>1 DEF Words!WithdrawPart, Words!PartWithdrawn, Words!Becoming, Words!Restarted,
       Words!Switches
  <2> QED
    BY <1>1, <1>2, <1>5, <2>1 DEF Words!WithdrawPart, Words!PartWithdrawn
<1>6. CASE Words!Rearm \/ Words!Veto
  BY <1>1, <1>2, <1>6 DEF Words!Rearm, Words!Veto
<1>7. CASE Words!ChangeHeir
  <2>1. PICK heir \in OnePerson : Words!Becoming(Words!Acted([s2 EXCEPT !.heir = heir], s1))
    BY <1>7 DEF Words!ChangeHeir
  <2>2. [s2 EXCEPT !.heir = heir] \in Words!Switches /\ [s2 EXCEPT !.heir = heir].horizon = s2.horizon
    BY <1>1 DEF Words!Switches
  <2> QED
    BY <1>2, <2>1, <2>2
<1>8. CASE Words!ChangePeriod
  <2>1. PICK period \in Words!Periods : Words!Becoming(Words!Acted([s2 EXCEPT !.period = period], s1))
    BY <1>8 DEF Words!ChangePeriod
  <2>2. /\ [s2 EXCEPT !.period = period] \in Words!Switches
        /\ [s2 EXCEPT !.period = period].horizon = s2.horizon
    BY <1>1 DEF Words!Switches, Words!Periods
  <2> QED
    BY <1>2, <2>1, <2>2
<1>9. CASE Words!Close
  <2>1. Words!Acted(s2, s1) \in Words!Switches /\ Words!Acted(s2, s1).horizon = s2.horizon
    BY <1>1, Words!ActedIs
  <2>2. s2' = [Words!Acted(s2, s1) EXCEPT !.phase = "closed"]
    BY <1>9 DEF Words!Close, Words!Becoming
  <2> QED
    BY <2>1, <2>2 DEF Words!Switches
<1> QED
  BY <1>3, <1>4, <1>5, <1>6, <1>7, <1>8, <1>9 DEF Words!OwnerActs

\* The bounds are kept.
LEMMA BoundedStep ==
  ASSUME Words!SwitchSound, Bounded(s2, s1), Words!SwitchNext
  PROVE  /\ Bounded(s2', s1')
         /\ s2.phase # "none" => s2'.phase # "none" /\ s2'.window = s2.window
<1>1. /\ s1 \in Nat /\ s1 >= 1 /\ s1 <= 3 /\ s2 \in Words!Switches /\ s2.horizon \in Nat
      /\ s2.deadline \in Nat /\ s2.period \in Nat
  BY DEF Words!SwitchSound, Words!ClockTypeOK, Words!Switches
<1>2. CASE Words!Arm
  <2>1. PICK heir \in OnePerson, period \in Words!Periods, window \in Words!Windows, horizon \in Words!Horizons :
          /\ horizon >= s1 + period /\ horizon <= s1 + 3
          /\ s2' = Words!ArmedAs(heir, period, window, horizon, s1) /\ s1' = s1
    BY <1>2 DEF Words!Arm, Words!Becoming, Words!ArmedAs
  <2> DEFINE s == Words!ArmedAs(heir, period, window, horizon, s1)
  <2>2. /\ s \in Words!Switches /\ s.phase = "active" /\ s.period = period /\ s.horizon = horizon
        /\ s.deadline = Words!Sooner(s1 + period, horizon)
    BY <1>1, Words!ArmedIs
  <2>3. period \in Int /\ period >= 1 /\ period <= 2 /\ horizon \in Int
    BY DEF Words!Periods, Words!Horizons
  <2> HIDE DEF s
  <2>4. s2' = s /\ s1' = s1 /\ s2.phase = "none"
    BY <1>2, <2>1 DEF s, Words!Arm
  <2> QED
    BY <1>1, <2>1, <2>2, <2>3, <2>4 DEF Bounded, Words!Sooner
<1>3. CASE Words!LaterStep
  <2>1. /\ s1' \in Nat /\ s1' >= s1 /\ s2' \in Words!Switches
        /\ s2'.window = s2.window /\ s2'.horizon >= s2.horizon
        /\ s2'.period = s2.period \/ s2'.period \in Words!Periods
        /\ Words!IsLive(s2') =>
               /\ Words!IsLive(s2)
               /\ \/ /\ s2'.deadline = s2.deadline /\ s2'.period = s2.period
                     /\ s2'.horizon = s2.horizon
                  \/ s2'.deadline = Words!Sooner(s1 + s2'.period, s2'.horizon)
    BY <1>3, Words!SwitchStepLeaves
  <2>2. /\ s1' <= 3 /\ s2'.horizon \in Nat /\ s2'.deadline \in Nat /\ s2'.period \in Nat
        /\ s2'.phase \in {"none", "active", "claimed", "settled", "closed"}
        /\ s2'.phase = "none" => s2.phase = "none"
    <3>1. s1' <= 3
      <4>1. CASE Words!OwnerActs
        BY <1>1, <4>1, Words!OwnerLeaves
      <4>2. CASE Words!HeirActs \/ Words!Settle
        BY <1>1, <4>2 DEF Words!HeirActs, Words!Claim, Words!CancelClaim, Words!Settle, Words!Becoming
      <4>3. CASE Words!Tick
        BY <1>1, <4>3 DEF Words!Tick
      <4> QED
        BY <1>3, <4>1, <4>2, <4>3 DEF Words!LaterStep
    <3>2. s2'.phase = "none" => s2.phase = "none"
      <4>1. CASE Words!OwnerActs
        BY <1>1, <4>1, Words!OwnerLeaves
      <4>2. CASE Words!HeirActs \/ Words!Settle \/ (Words!Tick /\ UNCHANGED s2)
        BY <1>1, <4>2, Words!UnclaimedTyped DEF Words!HeirActs, Words!Claim, Words!CancelClaim,
           Words!Settle, Words!Becoming, Words!ClaimedBy, Words!Switches, Words!Tick
      <4> QED
        BY <1>3, <4>1, <4>2 DEF Words!LaterStep
    <3> QED
      BY <2>1, <3>1, <3>2 DEF Words!Switches
  <2>3. ASSUME Words!IsLive(s2')
        PROVE  /\ s2'.period \in 1..2
               /\ s2'.deadline <= s2'.horizon /\ s2'.deadline <= s1' + s2'.period
               /\ s2'.horizon <= s1' + 3
               /\ s2'.horizon = s1' + 3 => s2'.phase = "active" /\ s2'.deadline > s1'
    <3>1. /\ Words!IsLive(s2) /\ s2.period \in 1..2 /\ s2.deadline <= s2.horizon
          /\ s2.deadline <= s1 + s2.period /\ s2.horizon <= s1 + 3
          /\ s2.horizon = s1 + 3 => s2.phase = "active" /\ s2.deadline > s1
      BY <2>1, <2>3 DEF Bounded
    <3>2. s2'.period \in 1..2
      BY <2>1, <3>1 DEF Words!Periods
    <3>3. CASE Words!OwnerActs
      <4>1. /\ s1' = s1 /\ s2'.deadline = Words!Sooner(s1 + s2'.period, s2'.horizon)
            /\ s2'.phase = "claimed" => s2'.horizon = s2.horizon /\ Words!AtHorizon(s2, s1)
        BY <1>1, <3>3, Words!OwnerLeaves
      <4>2. s2'.horizon <= s1 + 3
        BY <1>1, <3>1, <3>3, HorizonInReach
      <4> QED
        BY <1>1, <2>2, <2>3, <3>2, <4>1, <4>2 DEF Words!Sooner, Words!IsLive, Words!AtHorizon
    <3>4. CASE Words!Claim
      <4>1. PICK payee \in OnePerson : s2' = Words!ClaimedBy(s2, s1, payee) /\ s1' = s1
        BY <3>4 DEF Words!Claim, Words!Becoming
      <4>2. /\ s2'.period = s2.period /\ s2'.horizon = s2.horizon
            /\ s2'.deadline = s2.deadline /\ s1 >= s2.deadline
        BY <1>1, <3>4, <4>1 DEF Words!ClaimedBy, Words!Switches, Words!Claim, Words!CanClaim,
           Words!IsExpired
      <4> QED
        BY <1>1, <3>1, <4>1, <4>2
    <3>5. CASE Words!CancelClaim
      <4>1. /\ s2'.period = s2.period /\ s2'.horizon = s2.horizon
            /\ s2'.deadline = s2.deadline /\ s1' = s1 /\ s2.phase = "claimed"
        BY <1>1, <3>5, Words!UnclaimedTyped DEF Words!CancelClaim, Words!Becoming
      <4> QED
        BY <1>1, <3>1, <4>1
    <3>6. CASE Words!Settle
      BY <1>1, <2>3, <3>6 DEF Words!Settle, Words!Becoming, Words!IsLive, Words!Switches
    <3>7. CASE Words!Tick /\ UNCHANGED s2
      BY <1>1, <3>1, <3>7 DEF Words!Tick
    <3> QED
      BY <1>3, <3>3, <3>4, <3>5, <3>6, <3>7 DEF Words!LaterStep, Words!HeirActs
  <2> QED
    BY <2>1, <2>2, <2>3 DEF Bounded
<1> QED
  BY <1>2, <1>3 DEF Words!SwitchNext, Words!LaterStep

-----------------------------------------------------------------------------
(* What is said. *)

\* What is said is true of the vault it was said of; and that vault is the
\* present one at an earlier time.
SaidIsTrue ==
    /\ Words!AdviceWorks /\ Words!DatesAreFirst /\ Words!RefusedForCause /\ Words!CauseIsNamed

SaidOf ==
    /\ s3.of \in Words!Switches /\ s3.at \in Nat /\ s3.at <= s1
    /\ s3.on \in {"nothing", "card", "text"}
    /\ s3.works \subseteq Words!Calls /\ s3.fails \subseteq Words!Calls
    /\ s3.names \in Words!Causes \cup {"none"}
    /\ s3.on = "card" =>
          /\ s2.phase # "none" /\ s2.window = s3.of.window
          /\ s3.from \in {0, s3.of.horizon + s3.of.window}

TellInv == Words!SwitchSound /\ Bounded(s2, s1) /\ SaidOf /\ SaidIsTrue

\* A text for a call that was refused, or that failed for another reason.
LEMMA TextsAreTrue ==
  ASSUME NEW s, NEW t, Bounded(s, t), t >= 1, s.phase # "none", NEW h \in Int, NEW call \in Words!Calls,
         NEW cause \in Words!Causes, NEW place,
         cause = "vault" <=> Words!Refusal(call, s, t, h) # "none",
         cause \in {"vault", "otherContract"} => place \in Words!Places,
         s3' = Words!TextFor(call, Words!Refusal(call, s, t, h), s, t, cause, place)
  PROVE  /\ SaidIsTrue'
         /\ s3'.on = "text" /\ s3'.of = s /\ s3'.at = t
         /\ s3'.works \subseteq Words!Calls /\ s3'.fails \subseteq Words!Calls
         /\ s3'.names \in Words!Causes
<1> DEFINE reason == Words!Refusal(call, s, t, h)
<1>1. s \in Words!Switches /\ t \in Nat
  BY DEF Bounded
<1>2. /\ s.deadline \in Nat /\ s.horizon \in Nat /\ s.claimedAt \in Nat /\ s.window \in Nat
      /\ s.period \in Nat
      /\ s.phase \in {"active", "claimed", "settled", "closed"}
  BY <1>1 DEF Words!Switches
<1>3. /\ s3'.of = s /\ s3'.at = t /\ s3'.on = "text" /\ s3'.call = call
      /\ s3'.cause = cause /\ s3'.names = Words!errorText(cause, place)
      /\ cause = "vault" => /\ s3'.works = Words!REVERT_HELP(reason, s).works
                            /\ s3'.fails = Words!REVERT_HELP(reason, s).fails
                            /\ s3'.later = Words!Dated(reason, s)[1]
                            /\ s3'.from = Words!Dated(reason, s)[2]
      /\ cause # "vault" => s3'.works = {} /\ s3'.fails = {} /\ s3'.later = "none"
  BY DEF Words!TextFor, Words!revertOf
<1>4. s3'.names = cause
  BY <1>3 DEF Words!errorText, Words!revertOf
<1>5. Words!CauseIsNamed'
  BY <1>3, <1>4 DEF Words!CauseIsNamed
<1>6. Words!RefusedForCause'
  <2>1. call # "extend" => (reason = "none" <=> Words!Accepts(call, s, t))
    BY <1>1, RefusesWhatIsRefused
  <2> HIDE DEF reason
  <2>2. (cause = "vault") <=> reason # "none"
    BY DEF reason
  <2> QED
    BY <1>3, <2>1, <2>2 DEF Words!RefusedForCause
<1> HIDE DEF reason
<1>7. /\ Words!AdviceWorks' /\ Words!DatesAreFirst' /\ s3'.works \subseteq Words!Calls
      /\ s3'.fails \subseteq Words!Calls
  <2>1. CASE cause # "vault"
    BY <1>3, <2>1 DEF Words!AdviceWorks, Words!DatesAreFirst
  <2>2. CASE cause = "vault"
    <3> DEFINE Told ==
          /\ reason \in {"ClaimPendingUseAbort", "3"} => Words!CanVeto(s, t)
          /\ reason \in {"DeadlinePinnedAtHorizon", "4", "5"} =>
                Words!IsLive(s) /\ (Words!AtHorizon(s, t) \/ s.deadline >= s.horizon)
          /\ reason = "7" => Words!IsLive(s) /\ Words!AtHorizon(s, t)
          /\ reason = "HorizonReached" => Words!IsLive(s) /\ Words!AtHorizon(s, t)
          /\ reason = "VaultTerminal" => ~Words!IsLive(s)
          /\ reason = "NoClaimPending" => s.phase # "claimed"
          /\ reason = "NotYetExpired" => s.phase = "active"
          /\ reason = "ChallengeWindowOpen" => s.phase = "claimed"
    <3>1. Told
      <4>1. CASE call = "checkInMany"
        <5>1. reason = Words!Skipped(s, t)
          BY <1>1, <4>1, ReasonIs DEF reason
        <5> QED
          BY <1>2, <5>1 DEF Words!Skipped, Words!CanVeto, Words!IsLive
      <4>2. CASE call = "checkIn"
        BY <1>1, <1>2, <4>2, ReasonIs DEF reason, Words!CanVeto, Words!IsLive
      <4>3. CASE call = "veto"
        BY <1>1, <1>2, <4>3, ReasonIs DEF reason, Words!IsLive
      <4>4. CASE call = "extend"
        BY <1>1, <1>2, <4>4, ReasonIs DEF reason
      <4>5. CASE call = "heir"
        BY <1>1, <1>2, <4>5, ReasonIs DEF reason, Words!IsLive
      <4>6. CASE call \in {"part", "everything", "topUp"}
        BY <1>1, <1>2, <4>6, ReasonIs DEF reason
      <4>7. CASE call \in {"claim", "cancel"}
        BY <1>1, <1>2, <4>7, ReasonIs DEF reason
      <4>8. CASE call = "finalize"
        BY <1>1, <1>2, <4>8, ReasonIs DEF reason
      <4> QED
        BY <4>1, <4>2, <4>3, <4>4, <4>5, <4>6, <4>7, <4>8 DEF Words!Calls
    <3>2. Words!IsLive(s) /\ (Words!AtHorizon(s, t) \/ s.deadline >= s.horizon) => Words!Accepts("extend", s, t)
      BY CanStillBeExtended
    <3>3. \A c \in s3'.works : c \in Words!Calls /\ Words!Accepts(c, s, t)
      <4>1. ASSUME NEW c \in s3'.works
            PROVE  \/ c = "veto" /\ reason \in {"ClaimPendingUseAbort", "3"}
                   \/ c = "extend" /\ reason \in {"DeadlinePinnedAtHorizon", "4", "5", "7", "HorizonReached"}
                   \/ c = "everything" /\ reason \in {"7", "HorizonReached"}
        BY <1>3, <2>2, <4>1 DEF Words!REVERT_HELP, Words!Remedies
      <4>2. ASSUME NEW c \in s3'.works
            PROVE  c \in Words!Calls /\ Words!Accepts(c, s, t)
        <5>1. CASE c = "veto" /\ reason \in {"ClaimPendingUseAbort", "3"}
          BY <3>1, <5>1 DEF Words!Accepts, Words!Calls
        <5>2. CASE c = "extend" /\ reason \in {"DeadlinePinnedAtHorizon", "4", "5", "7", "HorizonReached"}
          BY <3>1, <3>2, <5>2 DEF Words!Calls
        <5>3. CASE c = "everything" /\ reason \in {"7", "HorizonReached"}
          BY <3>1, <5>3 DEF Words!Accepts, Words!Calls, Words!IsLive
        <5> QED
          BY <4>1, <4>2, <5>1, <5>2, <5>3
      <4> QED
        BY <4>2
    <3>4. \A c \in s3'.fails : c \in Words!Calls /\ (c # "claim" => ~Words!Accepts(c, s, t)) /\ (c = "claim" => ~Words!CanClaim(s, t))
      <4>1. CASE reason = "HorizonReached"
        <5>1. s3'.fails = IF s.phase = "claimed" THEN {"veto", "checkIn", "heir"} ELSE {"checkIn"}
          BY <1>3, <2>2, <4>1 DEF Words!REVERT_HELP
        <5> QED
          BY <3>1, <4>1, <5>1
             DEF Words!Accepts, Words!Calls, Words!CanShowLife, Words!CanVeto, Words!CanAct
      <4>2. CASE reason = "VaultTerminal"
        <5>1. s3'.fails = Words!Calls /\ ~Words!IsLive(s)
          BY <1>3, <2>2, <3>1, <4>2 DEF Words!REVERT_HELP
        <5>2. ASSUME NEW c \in Words!Calls, c # "claim" PROVE ~Words!Accepts(c, s, t)
          BY <5>1, <5>2 DEF Words!Accepts, Words!Calls, Words!IsLive, Words!CanShowLife, Words!CanVeto,
             Words!CanAct, Words!CanExtend, Words!CanSettle
        <5>3. ~Words!CanClaim(s, t)
          BY <5>1 DEF Words!CanClaim, Words!IsLive
        <5> QED
          BY <5>1, <5>2, <5>3
      <4>3. CASE reason = "NoClaimPending"
        <5>1. s3'.fails = {"veto", "cancel", "finalize"} /\ s.phase # "claimed"
          BY <1>3, <2>2, <3>1, <4>3 DEF Words!REVERT_HELP
        <5> QED
          BY <5>1 DEF Words!Accepts, Words!Calls, Words!CanVeto, Words!CanSettle
      <4>4. CASE reason \notin {"HorizonReached", "VaultTerminal", "NoClaimPending"}
        BY <1>3, <2>2, <4>4 DEF Words!REVERT_HELP
      <4> QED
        BY <4>1, <4>2, <4>3, <4>4
    <3>5. Words!DatesAreFirst'
      <4>1. CASE reason = "NotYetExpired"
        <5>1. s3'.later = "claim" /\ s3'.from = s.deadline /\ s.phase = "active"
          BY <1>3, <2>2, <3>1, <4>1 DEF Words!Dated
        <5> QED
          BY <1>2, <1>3, <5>1 DEF Words!DatesAreFirst, Words!Accepts, Words!CanClaim, Words!IsExpired
      <4>2. CASE reason = "ChallengeWindowOpen"
        <5>1. s3'.later = "finalize" /\ s3'.from = Words!FinalizableAt(s) /\ s.phase = "claimed"
          BY <1>3, <2>2, <3>1, <4>2 DEF Words!Dated
        <5> QED
          BY <1>2, <1>3, <5>1 DEF Words!DatesAreFirst, Words!Accepts, Words!CanSettle, Words!FinalizableAt
      <4>3. CASE reason \notin {"NotYetExpired", "ChallengeWindowOpen"}
        BY <1>3, <2>2, <4>3 DEF Words!Dated, Words!DatesAreFirst
      <4> QED
        BY <4>1, <4>2, <4>3
    <3> QED
      BY <1>3, <3>3, <3>4, <3>5 DEF Words!AdviceWorks
  <2> QED
    BY <2>1, <2>2
<1> QED
  BY <1>3, <1>4, <1>5, <1>6, <1>7 DEF SaidIsTrue

\* The card of the owner and that of the heir, as they are drawn.
LEMMA CardsAreTrue ==
  ASSUME NEW s, NEW t, Bounded(s, t), t >= 1, Words!IsLive(s),
         NEW words \in {Words!OwnersCard(s, t), Words!HeirsCard(s, t)}
  PROVE  /\ \A c \in words.works : c \in Words!Calls /\ Words!Accepts(c, s, t)
         /\ \A c \in words.fails :
               c \in Words!Calls /\ (c # "claim" => ~Words!Accepts(c, s, t)) /\ (c = "claim" => ~Words!CanClaim(s, t))
<1>1. /\ s.deadline \in Nat /\ s.horizon \in Nat /\ s.claimedAt \in Nat /\ s.window \in Nat /\ t \in Nat
      /\ s.phase \in {"active", "claimed"} /\ s.deadline <= s.horizon
  BY DEF Bounded, Words!Switches, Words!IsLive
<1>2. s.phase = "claimed" \/ Words!AtHorizon(s, t) \/ s.deadline >= s.horizon => Words!Accepts("extend", s, t)
  BY CanStillBeExtended
<1>3. CASE words = Words!HeirsCard(s, t)
  BY <1>1, <1>3 DEF Words!HeirsCard, Words!Accepts, Words!Calls, Words!CanSettle, Words!CanClaim,
     Words!IsExpired
<1>4. CASE words = Words!OwnersCard(s, t)
  <2>1. CASE s.phase = "claimed"
    <3>1. words = Words!claimBlock(s, t)
      BY <1>4, <2>1 DEF Words!OwnersCard, Words!vaultCard
    <3>2. CASE Words!AtHorizon(s, t)
      <4>1. words.works = {"extend", "everything"} /\ words.fails = {"veto", "checkIn", "heir"}
        BY <3>1, <3>2 DEF Words!claimBlock
      <4> QED
        BY <1>2, <2>1, <3>2, <4>1 DEF Words!Accepts, Words!Calls, Words!IsLive, Words!CanVeto,
           Words!CanShowLife, Words!CanAct
    <3>3. CASE ~Words!AtHorizon(s, t)
      <4>1. words.works = {"veto", "heir", "extend", "part", "everything"} /\ words.fails = {"checkIn"}
        BY <3>1, <3>3 DEF Words!claimBlock
      <4> QED
        BY <1>2, <2>1, <3>3, <4>1 DEF Words!Accepts, Words!Calls, Words!IsLive, Words!CanVeto,
           Words!CanShowLife, Words!CanAct
    <3> QED
      BY <3>2, <3>3
  <2>2. CASE s.phase = "active" /\ Words!AtHorizon(s, t)
    <3>1. words.works = {"extend", "claim"} /\ words.fails = {"checkIn"}
      BY <1>4, <2>2 DEF Words!OwnersCard, Words!vaultCard, Words!horizonBlock
    <3>2. Words!CanClaim(s, t)
      BY <1>1, <2>2 DEF Words!CanClaim, Words!AtHorizon, Words!IsExpired
    <3> QED
      BY <1>2, <2>2, <3>1, <3>2 DEF Words!Accepts, Words!Calls, Words!CanShowLife
  <2>3. CASE s.phase = "active" /\ ~Words!AtHorizon(s, t) /\ s.deadline >= s.horizon
    <3>1. words.works = {"extend"} /\ words.fails = {"checkIn"}
      BY <1>4, <2>3 DEF Words!OwnersCard, Words!vaultCard, Words!pinnedBlock
    <3> QED
      BY <1>1, <1>2, <2>3, <3>1 DEF Words!Accepts, Words!Calls, Words!CanShowLife
  <2>4. CASE s.phase = "active" /\ ~Words!AtHorizon(s, t) /\ ~(s.deadline >= s.horizon)
    <3>1. words = Words!warningLines(Words!IsExpired(s, t))
      BY <1>4, <2>4 DEF Words!OwnersCard, Words!vaultCard, Words!warningLines
    <3>2. Words!CanShowLife(s, t)
      BY <1>1, <2>4 DEF Words!CanShowLife
    <3> QED
      BY <2>4, <3>1, <3>2 DEF Words!warningLines, Words!Accepts, Words!Calls, Words!CanClaim
  <2> QED
    BY <1>1, <2>1, <2>2, <2>3, <2>4
<1> QED
  BY <1>3, <1>4

LEMMA TellStarts == Words!WordsInit => TellInv
<1> SUFFICES ASSUME Words!WordsInit PROVE TellInv
  OBVIOUS
<1>1. Words!SwitchSound
  BY Words!SwitchStarts DEF Words!WordsInit
<1>2. s2 = Words!Unarmed /\ s1 = 1 /\ s3 = Words!Silence
  BY DEF Words!WordsInit, Words!SwitchInit, Words!ClockInit
<1>3. Words!Unarmed \in Words!Switches
  BY DEF Words!Unarmed, Words!Switches
<1>4. Bounded(s2, s1)
  BY <1>2, <1>3 DEF Bounded, Words!IsLive, Words!Unarmed
<1>5. SaidOf
  BY <1>2, <1>3 DEF SaidOf, Words!Silence
<1>6. SaidIsTrue
  BY <1>2 DEF SaidIsTrue, Words!AdviceWorks, Words!DatesAreFirst, Words!RefusedForCause,
     Words!CauseIsNamed, Words!Silence
<1> QED
  BY <1>1, <1>4, <1>5, <1>6 DEF TellInv

LEMMA TellGoesOn ==
  ASSUME TellInv, [Words!WordsNext]_(Words!wordVars)
  PROVE  TellInv'
<1>1. /\ Words!SwitchSound /\ Bounded(s2, s1) /\ SaidOf /\ SaidIsTrue
      /\ s1 \in Nat /\ s1 >= 1 /\ s2 \in Words!Switches
  BY DEF TellInv, Words!SwitchSound, Words!ClockTypeOK
<1>2. CASE Words!SwitchNext /\ UNCHANGED s3
  <2>1. Words!SwitchSound'
    BY <1>1, <1>2, Words!SwitchGoesOn
  <2>2. Bounded(s2', s1') /\ (s2.phase # "none" => s2'.phase # "none" /\ s2'.window = s2.window)
    BY <1>1, <1>2, BoundedStep
  <2>3. s1' \in Nat /\ s1' >= s1
    <3>1. CASE Words!Arm
      BY <1>1, <3>1 DEF Words!Arm, Words!Becoming
    <3>2. CASE Words!LaterStep
      BY <1>1, <3>2, Words!SwitchStepLeaves
    <3> QED
      BY <1>2, <3>1, <3>2 DEF Words!SwitchNext, Words!LaterStep
  <2>4. SaidOf'
    BY <1>1, <1>2, <2>2, <2>3 DEF SaidOf
  <2>5. SaidIsTrue'
    BY <1>1, <1>2 DEF SaidIsTrue, Words!AdviceWorks, Words!DatesAreFirst, Words!RefusedForCause,
       Words!CauseIsNamed
  <2> QED
    BY <2>1, <2>2, <2>4, <2>5 DEF TellInv
<1>3. ASSUME UNCHANGED Words!switchVars, SaidOf', SaidIsTrue'
      PROVE  TellInv'
  BY <1>1, <1>3 DEF TellInv, Words!switchVars, Words!SwitchSound, Words!ClockTypeOK
<1>4. ASSUME NEW call \in Words!Calls, NEW h \in Int, NEW cause \in Words!Causes, NEW place, s2.phase # "none",
             cause = "vault" <=> Words!Refusal(call, s2, s1, h) # "none",
             cause \in {"vault", "otherContract"} => place \in Words!Places,
             s3' = Words!TextFor(call, Words!Refusal(call, s2, s1, h), s2, s1, cause, place),
             UNCHANGED Words!switchVars
      PROVE  TellInv'
  <2>1. /\ SaidIsTrue' /\ s3'.on = "text" /\ s3'.of = s2 /\ s3'.at = s1
        /\ s3'.works \subseteq Words!Calls /\ s3'.fails \subseteq Words!Calls
        /\ s3'.names \in Words!Causes
    BY <1>1, <1>4, TextsAreTrue
  <2>2. SaidOf'
    BY <1>1, <1>4, <2>1 DEF SaidOf, Words!switchVars
  <2> QED
    BY <1>3, <1>4, <2>1, <2>2
<1>5. CASE Words!CallRefused
  <2>0. PICK call \in Words!Calls : \E h \in Words!HorizonsAsked(call) :
          LET reason == Words!Refusal(call, s2, s1, h)
          IN  \E cause \in (IF reason = "none" THEN Words!Causes \ {"vault"} ELSE {"vault"}) :
                 \E place \in (IF cause \in {"vault", "otherContract"} THEN Words!Places ELSE {"none"}) :
                    s3' = Words!TextFor(call, reason, s2, s1, cause, place)
    BY <1>5 DEF Words!CallRefused
  <2>1. PICK h \in Words!HorizonsAsked(call) :
          LET reason == Words!Refusal(call, s2, s1, h)
          IN  \E cause \in (IF reason = "none" THEN Words!Causes \ {"vault"} ELSE {"vault"}) :
                 \E place \in (IF cause \in {"vault", "otherContract"} THEN Words!Places ELSE {"none"}) :
                    s3' = Words!TextFor(call, reason, s2, s1, cause, place)
    BY <2>0
  <2> DEFINE reason == Words!Refusal(call, s2, s1, h)
  <2>6. PICK cause \in (IF reason = "none" THEN Words!Causes \ {"vault"} ELSE {"vault"}) :
          \E place \in (IF cause \in {"vault", "otherContract"} THEN Words!Places ELSE {"none"}) :
             s3' = Words!TextFor(call, reason, s2, s1, cause, place)
    BY <2>1
  <2>2. PICK place \in (IF cause \in {"vault", "otherContract"} THEN Words!Places ELSE {"none"}) :
          s3' = Words!TextFor(call, reason, s2, s1, cause, place)
    BY <2>6
  <2>3. h \in Int
    BY <1>1 DEF Words!HorizonsAsked, Words!Switches
  <2>4. cause \in Words!Causes /\ (cause = "vault" <=> reason # "none")
        /\ (cause \in {"vault", "otherContract"} => place \in Words!Places)
    BY <2>2 DEF Words!Causes
  <2>5. s2.phase # "none" /\ UNCHANGED Words!switchVars
    BY <1>5 DEF Words!CallRefused
  <2> QED
    BY <1>4, <2>2, <2>3, <2>4, <2>5
<1>6. CASE Words!MinedReverted
  <2>1. PICK call \in Words!Calls \ {"extend"} :
          LET reason == Words!likelyRevert(call)
          IN  /\ Words!Refusal(call, s2, s1, s2.horizon) # "none"
              /\ s3' = IF reason = "none" THEN Words!Silence
                       ELSE Words!TextFor(call, reason, s2, s1, "vault", "data")
    BY <1>6 DEF Words!MinedReverted
  <2> DEFINE reason == Words!Refusal(call, s2, s1, s2.horizon)
  <2>2. reason # "none" /\ s3' = Words!TextFor(call, reason, s2, s1, "vault", "data")
    BY <2>1 DEF Words!likelyRevert
  <2>3. /\ s2.phase # "none" /\ UNCHANGED Words!switchVars /\ s2.horizon \in Int
        /\ "vault" \in Words!Causes /\ "data" \in Words!Places
    BY <1>1, <1>6 DEF Words!MinedReverted, SaidOf, Words!Switches, Words!Causes, Words!Places
  <2> QED
    BY <1>4, <2>2, <2>3
<1>7. CASE Words!DrawCard
  <2>1. PICK words \in {Words!OwnersCard(s2, s1), Words!HeirsCard(s2, s1)} :
          s3' = [Words!Silence EXCEPT
                    !.on = "card", !.of = s2, !.at = s1, !.works = words.works, !.fails = words.fails,
                    !.from = IF s2.phase = "claimed" THEN Words!NotClaimed ELSE Words!horizonText(s2)]
    BY <1>7 DEF Words!DrawCard
  <2>2. /\ s3'.on = "card" /\ s3'.of = s2 /\ s3'.at = s1
        /\ s3'.works = words.works /\ s3'.fails = words.fails
        /\ s3'.from = IF s2.phase = "claimed" THEN Words!NotClaimed ELSE Words!horizonText(s2)
        /\ s3'.later = "none" /\ s3'.call = "none" /\ s3'.cause = "none" /\ s3'.names = "none"
    BY <2>1 DEF Words!Silence
  <2>3. Words!IsLive(s2) /\ UNCHANGED Words!switchVars
    BY <1>7 DEF Words!DrawCard
  <2>4. /\ \A c \in words.works : c \in Words!Calls /\ Words!Accepts(c, s2, s1)
        /\ \A c \in words.fails :
               c \in Words!Calls /\ (c # "claim" => ~Words!Accepts(c, s2, s1)) /\ (c = "claim" => ~Words!CanClaim(s2, s1))
    BY <1>1, <2>3, CardsAreTrue
  <2>5. SaidIsTrue'
    BY <2>2, <2>4 DEF SaidIsTrue, Words!AdviceWorks, Words!DatesAreFirst, Words!RefusedForCause,
       Words!CauseIsNamed
  <2>6. SaidOf'
    BY <1>1, <2>2, <2>3, <2>4 DEF SaidOf, Words!switchVars, Words!IsLive, Words!NotClaimed,
       Words!horizonText
  <2> QED
    BY <1>3, <2>3, <2>5, <2>6
<1>8. CASE UNCHANGED Words!wordVars
  <2>1. SaidOf' /\ SaidIsTrue'
    BY <1>1, <1>8 DEF Words!wordVars, Words!switchVars, SaidOf, SaidIsTrue, Words!AdviceWorks,
       Words!DatesAreFirst, Words!RefusedForCause, Words!CauseIsNamed
  <2> QED
    BY <1>3, <1>8, <2>1 DEF Words!wordVars
<1> QED
  BY <1>2, <1>5, <1>6, <1>7, <1>8 DEF Words!WordsNext

LEMMA TellPromises ==
  ASSUME TellInv
  PROVE  /\ Words!WordsTypeOK /\ Words!AdviceWorks /\ Words!DatesAreFirst /\ Words!RefusedForCause
         /\ Words!CauseIsNamed
         /\ Words!HorizonDateHolds
<1>1. Words!SwitchSound /\ SaidOf /\ SaidIsTrue
  BY DEF TellInv
<1>2. Words!SwitchTypeOK
  BY <1>1 DEF Words!SwitchSound, Words!SwitchTypeOK, Words!ClaimFieldsFit
<1>3. Words!WordsTypeOK
  BY <1>1, <1>2 DEF Words!WordsTypeOK, SaidOf
<1>4. Words!HorizonDateHolds
  <2>1. /\ s2.claimedAt \in Nat /\ s2.window \in Nat /\ s2.horizon \in Nat /\ s1 \in Nat
        /\ s2.phase = "settled" => s1 >= s2.claimedAt + s2.window
    BY <1>1 DEF Words!SwitchSound, Words!ClockTypeOK, Words!Switches, Words!WaitedFor, Words!FinalizableAt
  <2> QED
    BY <1>1, <2>1 DEF SaidOf, Words!HorizonDateHolds
<1> QED
  BY <1>1, <1>3, <1>4 DEF SaidIsTrue

HIDE WordsFit DEF Words!SwitchAssumption

-----------------------------------------------------------------------------
(* What is typed: the part "entry".  s1 is the time, s2 how far the clock   *)
(* is off, s3 the chain time read, s4 and s5 what of other vaults was, s6   *)
(* the plan, s7 its outcome, s8 the day advised and s9 a change of horizon. *)

LEMMA EntryFits == Entry!EntryAssumption
BY SiteAssumption DEF SiteAssumption

USE EntryFits DEF Entry!EntryAssumption

-----------------------------------------------------------------------------
(* The calendar. *)

DateOf == [y : Nat, m : 1..2, d : 1..2]

\* The date of an instant is a real one, on the instant's day.
LEMMA UtcDayIs ==
  ASSUME NEW t \in Nat
  PROVE  /\ Entry!utcDay(t) \in DateOf /\ Entry!Real(Entry!utcDay(t))
         /\ Entry!DayOf(Entry!utcDay(t)) = t \div 4
<1> DEFINE n == t \div 4  day == n % 7  c == t \div 28
<1>1. n \in Nat /\ c \in Nat /\ day \in 0..6 /\ n = 7 * c + day
  OBVIOUS
<1>2. Entry!utcDay(t) = [y |-> 2 * c + (IF day >= 3 THEN 1 ELSE 0),
                         m |-> 1 + ((IF day >= 3 THEN day - 3 ELSE day) \div 2),
                         d |-> 1 + ((IF day >= 3 THEN day - 3 ELSE day) % 2)]
  BY DEF Entry!utcDay
<1> HIDE DEF n, day, c
<1>3. DOMAIN Entry!utcDay(t) = {"y", "m", "d"}
  BY <1>2
<1>4. /\ Entry!utcDay(t).y = 2 * c + (IF day >= 3 THEN 1 ELSE 0)
      /\ Entry!utcDay(t).m = 1 + ((IF day >= 3 THEN day - 3 ELSE day) \div 2)
      /\ Entry!utcDay(t).d = 1 + ((IF day >= 3 THEN day - 3 ELSE day) % 2)
  BY <1>2
<1>5. Entry!utcDay(t) \in DateOf
  BY <1>1, <1>2 DEF DateOf
<1>6. Entry!Real(Entry!utcDay(t)) /\ Entry!DayOf(Entry!utcDay(t)) = n
  BY <1>1, <1>4 DEF Entry!Real, Entry!DaysIn, Entry!DayOf
<1> QED
  BY <1>5, <1>6 DEF n

LEMMA DaysAreNumbers ==
  ASSUME NEW date \in DateOf
  PROVE  Entry!DayOf(date) \in Nat
BY DEF DateOf, Entry!DayOf

\* A typed date that stands for an instant.
LEMMA ParsedIs ==
  ASSUME NEW date, date = Absent \/ date \in DateOf, Entry!parseUtcDate(date) >= 0
  PROVE  /\ date \in DateOf /\ Entry!Real(date) /\ Entry!parseUtcDate(date) = Entry!DayOf(date) * 4
         /\ Entry!utcDay(Entry!parseUtcDate(date)) = date /\ Entry!parseUtcDate(date) \in Nat
<1>1. date # Absent /\ date \in DateOf
  BY DEF Entry!parseUtcDate
<1>2. Entry!DayOf(date) * 4 \in Nat
  BY <1>1, DaysAreNumbers
<1>3. Entry!utcDay(Entry!DayOf(date) * 4) = date /\ Entry!parseUtcDate(date) = Entry!DayOf(date) * 4
  BY <1>1, <1>2 DEF Entry!parseUtcDate
<1> QED
  BY <1>1, <1>2, <1>3, UtcDayIs

\* An instant no sooner, by whole days.
LEMMA CeilIs ==
  ASSUME NEW t \in Nat
  PROVE  /\ Entry!utcDayCeil(t) \in DateOf /\ Entry!Real(Entry!utcDayCeil(t))
         /\ Entry!DayOf(Entry!utcDayCeil(t)) * 4 >= t /\ (Entry!DayOf(Entry!utcDayCeil(t)) - 1) * 4 < t
<1> DEFINE k == ((t + 4 - 1) \div 4) * 4
<1>1. k \in Nat /\ k >= t /\ k < t + 4 /\ (k \div 4) * 4 = k
  OBVIOUS
<1> HIDE DEF k
<1>2. Entry!utcDayCeil(t) = Entry!utcDay(k)
  BY DEF Entry!utcDayCeil, k
<1>3. Entry!utcDay(k) \in DateOf /\ Entry!Real(Entry!utcDay(k)) /\ Entry!DayOf(Entry!utcDay(k)) = k \div 4
  BY <1>1, UtcDayIs
<1> QED
  BY <1>1, <1>2, <1>3

\* The same day of another year, and how it lies to a date of that year.
Later(date, years) == [date EXCEPT !.y = @ + years]

LEMMA YearsApart ==
  ASSUME NEW a \in DateOf, NEW b \in DateOf, Entry!Real(b), NEW k \in Int, a.y + k = b.y
  PROVE  /\ Entry!DayOf(Later(a, k + 1)) > Entry!DayOf(b)
         /\ Entry!DayOf(Later(a, k - 1)) <= Entry!DayOf(b)
         /\ Entry!DayOf(Later(a, k)) \in Int /\ Entry!DayOf(Later(a, k - 1)) \in Int
<1> DEFINE z == a.y + k
<1>1. /\ a.y \in Nat /\ a.m \in 1..2 /\ a.d \in 1..2 /\ b.y \in Nat /\ b.m \in 1..2 /\ b.d \in 1..2
      /\ z \in Nat /\ b.y = z
  BY DEF DateOf
<1>2. /\ Entry!DayOf(Later(a, k)) = 3 * z + (z \div 2) + 2 * (a.m - 1) + (a.d - 1)
      /\ Entry!DayOf(Later(a, k + 1)) = 3 * (z + 1) + ((z + 1) \div 2) + 2 * (a.m - 1) + (a.d - 1)
      /\ Entry!DayOf(Later(a, k - 1)) = 3 * (z - 1) + ((z - 1) \div 2) + 2 * (a.m - 1) + (a.d - 1)
  BY <1>1 DEF Entry!DayOf, Later, DateOf
<1>3. Entry!DayOf(b) = 3 * z + (z \div 2) + 2 * (b.m - 1) + (b.d - 1)
  BY <1>1 DEF Entry!DayOf
<1>4. b.m = 2 /\ b.d = 2 => z % 2 = 1
  BY <1>1 DEF Entry!Real, Entry!DaysIn
<1> HIDE DEF z
<1> QED
  BY <1>1, <1>2, <1>3, <1>4

\* A later day is in no earlier year.
LEMMA LaterYear ==
  ASSUME NEW a \in DateOf, NEW b \in DateOf, Entry!DayOf(b) > Entry!DayOf(a)
  PROVE  b.y >= a.y
<1>1. /\ a.y \in Nat /\ a.m \in 1..2 /\ a.d \in 1..2 /\ b.y \in Nat /\ b.m \in 1..2 /\ b.d \in 1..2
  BY DEF DateOf
<1> DEFINE p == a.y \div 2  q == b.y \div 2
<1>2. p \in Int /\ q \in Int /\ (b.y < a.y => q <= p)
  BY <1>1
<1>3. /\ Entry!DayOf(a) = 3 * a.y + p + 2 * (a.m - 1) + (a.d - 1)
      /\ Entry!DayOf(b) = 3 * b.y + q + 2 * (b.m - 1) + (b.d - 1)
  BY DEF Entry!DayOf
<1> HIDE DEF p, q
<1> QED
  BY <1>1, <1>2, <1>3

-----------------------------------------------------------------------------
(* The form. *)

\* What is known of a reviewed plan.
PlanFits ==
    /\ s6.at \in Nat /\ s6.at <= s1
    /\ s6.date \in DateOf /\ Entry!Real(s6.date) /\ s6.horizon \in Nat
    /\ s6.horizon = Entry!DayOf(s6.date) * 4 /\ Entry!utcDay(s6.horizon) = s6.date
    /\ s6.clock => /\ s6.horizon >= s6.at + 5 + 2
                   /\ s6.horizon <= s6.at + 24 - 2
                   /\ ~s6.warned => s6.horizon >= s6.at + 2 * 5 + 2
                   /\ s1 <= s6.at + 2 => s7 \in {"none", "accepted"}
    /\ s6.one.who \in Entry!Addresses /\ s6.one.who = s6.two.who
    /\ s6.one.who \notin s4 \cup Special
    /\ s6.units > 0
    /\ s6.units * Entry!TenTo(s6.amount.places) = s6.amount.value * Entry!TenTo(Entry!Real_Decimals(s6.asset))

EntryInv ==
    /\ s1 \in Nat /\ s1 <= 4 /\ s2 \in Int /\ s3 \in BOOLEAN
    /\ s7 \in {"none", "accepted", "tooSoon", "tooFar"}
    /\ s7 # "none" => s6 # Entry!NoPlan
    /\ s6 # Entry!NoPlan => PlanFits
    /\ Entry!EarliestDayPasses
    /\ s9 # Entry!NoChange => s6 # Entry!NoPlan
    /\ Entry!SpanIsExact

USE DEF EntryInv

LEMMA EntryStarts == Entry!EntryInit => EntryInv
BY DEF Entry!EntryInit, Entry!EarliestDayPasses, Entry!SpanIsExact

LEMMA FloorIs ==
  ASSUME EntryInv
  PROVE  /\ Entry!Floor \in Nat /\ Entry!Ceiling \in Int
         /\ Entry!Floor = LET clock == IF s2 > 0 \/ ~s3 THEN s1 + s2 ELSE s1
                          IN  (IF clock < 0 THEN 0 ELSE clock) + 5 + 2
         /\ s3 => Entry!Floor >= s1 + 5 + 2 /\ Entry!Ceiling = s1 + 24 - 2
BY DEF Entry!Floor, Entry!Ceiling, Entry!floorNow, Entry!chainNow, Entry!deviceNow

\* A power of ten is as many zeros.
LEMMA Zeros ==
  ASSUME NEW v \in 1..2, NEW p \in 0..2, NEW q \in 1..2, p <= q
  PROVE  /\ v * Entry!TenTo(q - p) > 0
         /\ (v * Entry!TenTo(q - p)) * Entry!TenTo(p) = v * Entry!TenTo(q)
<1>1. Entry!TenTo(0) = 1 /\ Entry!TenTo(1) = 10 /\ Entry!TenTo(2) = 100
  BY DEF Entry!TenTo
<1>2. CASE p = 0 /\ q = 1
  BY <1>1, <1>2
<1>3. CASE p = 1 /\ q = 1
  BY <1>1, <1>3
<1>4. CASE p = 0 /\ q = 2
  BY <1>1, <1>4
<1>5. CASE p = 1 /\ q = 2
  BY <1>1, <1>5
<1>6. CASE p = 2 /\ q = 2
  BY <1>1, <1>6
<1> QED
  BY <1>2, <1>3, <1>4, <1>5, <1>6

\* An entry, and what it means that it passes.
LEMMA EntryIs ==
  ASSUME EntryInv, NEW e \in Entry!Entries(Entry!GoodEntry)
  PROVE  /\ e.date = Absent \/ e.date \in DateOf
         /\ e.amount.value \in 1..2 /\ e.amount.places \in 0..2
         /\ e.one.who \in Entry!Addresses
<1>1. (CHOOSE w \in OnePerson : TRUE) \in OnePerson
  OBVIOUS
<1>2. Entry!GoodText.who \in Entry!Addresses
  BY <1>1 DEF Entry!GoodText, Entry!Addresses
<1>3. Entry!utcDayCeil(Entry!Floor) \in DateOf
  BY FloorIs, CeilIs
<1>4. Entry!Dates \subseteq DateOf
  BY DEF Entry!Dates, DateOf
<1>5. /\ Entry!GoodEntry.date = Entry!utcDayCeil(Entry!Floor)
      /\ Entry!GoodEntry.amount = Entry!GoodAmount
      /\ Entry!GoodEntry.one = Entry!GoodText
      /\ DOMAIN Entry!GoodEntry = {"date", "asset", "amount", "one", "two"}
  BY DEF Entry!GoodEntry
<1>6. /\ Entry!GoodAmount.value \in 1..2 /\ Entry!GoodAmount.places \in 0..2
      /\ \A m \in Entry!Amounts : m.value \in 1..2 /\ m.places \in 0..2
      /\ \A x \in Entry!Typed : x.who \in Entry!Addresses
  BY DEF Entry!GoodAmount, Entry!Amounts, Entry!Typed
<1> HIDE DEF EntryInv
<1>7. ASSUME NEW d \in Entry!Dates \cup {Absent}, e = [Entry!GoodEntry EXCEPT !.date = d]
      PROVE  e.date = d /\ e.amount = Entry!GoodAmount /\ e.one = Entry!GoodText
  BY <1>5, <1>7
<1>8. ASSUME NEW p \in (Tokens \cup {"coin"}) \X Entry!Amounts, e = [Entry!GoodEntry EXCEPT !.asset = p[1], !.amount = p[2]]
      PROVE  /\ e.date = Entry!utcDayCeil(Entry!Floor) /\ e.amount \in Entry!Amounts
             /\ e.one = Entry!GoodText
  BY <1>5, <1>8
<1> DEFINE bare == [Entry!GoodText EXCEPT !.capitals = "none"]
           TwoTexts == (Entry!Typed \X {Entry!GoodText, bare}) \cup {<<x, x>> : x \in Entry!Typed}
<1>9. ASSUME NEW p \in TwoTexts, e = [Entry!GoodEntry EXCEPT !.one = p[1], !.two = p[2]]
      PROVE  /\ e.date = Entry!utcDayCeil(Entry!Floor) /\ e.amount = Entry!GoodAmount
             /\ e.one \in Entry!Typed
  <2>1. p[1] \in Entry!Typed
    OBVIOUS
  <2> QED
    BY <1>5, <1>9, <2>1
<1>10. \/ \E d \in Entry!Dates \cup {Absent} : e = [Entry!GoodEntry EXCEPT !.date = d]
       \/ \E p \in (Tokens \cup {"coin"}) \X Entry!Amounts : e = [Entry!GoodEntry EXCEPT !.asset = p[1], !.amount = p[2]]
       \/ \E p \in TwoTexts : e = [Entry!GoodEntry EXCEPT !.one = p[1], !.two = p[2]]
  BY DEF Entry!Entries
<1> HIDE DEF bare, TwoTexts
<1> QED
  BY <1>2, <1>3, <1>4, <1>6, <1>7, <1>8, <1>9, <1>10

LEMMA ReviewFits ==
  ASSUME EntryInv, Entry!Review
  PROVE  s6' # Entry!NoPlan /\ PlanFits'
<1>1. PICK e \in Entry!Entries(Entry!GoodEntry) :
          /\ Entry!Passes(e)
          /\ s6' = [at |-> s1, date |-> e.date, horizon |-> Entry!parseUtcDate(e.date), asset |-> e.asset,
                    units |-> Entry!parseAmount(e.amount, Entry!DecimalsOf(e.asset)), amount |-> e.amount,
                    one |-> e.one, two |-> e.two,
                    warned |-> Entry!parseUtcDate(e.date) < Entry!Floor + 5,
                    unchecked |-> Entry!Unchecked(e.one, e.two), clock |-> s3]
  BY DEF Entry!Review
<1>2. /\ s6'.at = s1 /\ s6'.date = e.date /\ s6'.horizon = Entry!parseUtcDate(e.date)
      /\ s6'.asset = e.asset /\ s6'.units = Entry!parseAmount(e.amount, Entry!DecimalsOf(e.asset))
      /\ s6'.amount = e.amount /\ s6'.one = e.one /\ s6'.two = e.two
      /\ s6'.warned = (Entry!parseUtcDate(e.date) < Entry!Floor + 5) /\ s6'.clock = s3
  BY <1>1
<1>3. UNCHANGED <<s1, Entry!settings, s7, s8, s9>> /\ s7 = "none"
  BY DEF Entry!Review
<1>4. /\ e.date = Absent \/ e.date \in DateOf
      /\ e.amount.value \in 1..2 /\ e.amount.places \in 0..2 /\ e.one.who \in Entry!Addresses
  BY EntryIs
<1>5. /\ e.asset \in Entry!fillAssetOptions
      /\ Entry!parseAmount(e.amount, Entry!DecimalsOf(e.asset)) > 0
      /\ e.one.who = e.two.who /\ ~Entry!refusedPayee(e.one.who)
      /\ Entry!parseUtcDate(e.date) >= Entry!Floor /\ Entry!parseUtcDate(e.date) <= Entry!Ceiling
  BY <1>1 DEF Entry!Passes, Entry!readAddressPair
<1>6. /\ Entry!Floor \in Nat /\ Entry!Ceiling \in Int
      /\ s3 => Entry!Floor >= s1 + 5 + 2 /\ Entry!Ceiling = s1 + 24 - 2
  BY FloorIs
<1>7. /\ e.date \in DateOf /\ Entry!Real(e.date) /\ Entry!parseUtcDate(e.date) = Entry!DayOf(e.date) * 4
      /\ Entry!utcDay(Entry!parseUtcDate(e.date)) = e.date /\ Entry!parseUtcDate(e.date) \in Nat
  <2>1. Entry!parseUtcDate(e.date) >= 0
    <3>1. Entry!parseUtcDate(e.date) \in Int
      <4>1. CASE e.date = Absent \/ Entry!utcDay(Entry!DayOf(e.date) * 4) # e.date
        BY <4>1 DEF Entry!parseUtcDate
      <4>2. CASE ~(e.date = Absent \/ Entry!utcDay(Entry!DayOf(e.date) * 4) # e.date)
        BY <1>4, <4>2, DaysAreNumbers DEF Entry!parseUtcDate
      <4> QED
        BY <4>1, <4>2
    <3> QED
      BY <1>5, <1>6, <3>1
  <2> QED
    BY <1>4, <2>1, ParsedIs
<1>8. Entry!DecimalsOf(e.asset) \in 1..2 /\ Entry!DecimalsOf(e.asset) = Entry!Real_Decimals(e.asset)
  <2>1. CASE e.asset = "coin"
    BY <2>1 DEF Entry!DecimalsOf, Entry!Real_Decimals
  <2>2. CASE e.asset # "coin"
    <3>1. Entry!checkToken(e.asset).verified
      BY <1>5, <2>2 DEF Entry!fillAssetOptions
    <3>2. e.asset \in Tabled /\ s5[e.asset] = 1
      BY <3>1 DEF Entry!checkToken, Entry!TableDecimals
    <3>3. Entry!checkToken(e.asset).decimals = 1
      BY <3>2 DEF Entry!checkToken, Entry!TableDecimals
    <3> QED
      BY <2>2, <3>2, <3>3 DEF Entry!DecimalsOf, Entry!Real_Decimals
  <2> QED
    BY <2>1, <2>2
<1>9. /\ s6'.units > 0
      /\ s6'.units * Entry!TenTo(s6'.amount.places) = s6'.amount.value * Entry!TenTo(Entry!Real_Decimals(s6'.asset))
  <2> DEFINE v == e.amount.value  p == e.amount.places  q == Entry!DecimalsOf(e.asset)
  <2>1. v \in 1..2 /\ p \in 0..2 /\ q \in 1..2
    BY <1>4, <1>8
  <2>2. Entry!parseAmount(e.amount, q) = IF p > q THEN 0 ELSE v * Entry!TenTo(q - p)
    BY DEF Entry!parseAmount
  <2>3. p <= q
    BY <1>5, <2>1, <2>2
  <2>4. v * Entry!TenTo(q - p) > 0 /\ (v * Entry!TenTo(q - p)) * Entry!TenTo(p) = v * Entry!TenTo(q)
    BY <2>1, <2>3, Zeros
  <2>5. Entry!parseAmount(e.amount, q) = v * Entry!TenTo(q - p)
    BY <2>1, <2>2, <2>3
  <2>6. s6'.units = v * Entry!TenTo(q - p) /\ s6'.amount.places = p /\ s6'.amount.value = v
        /\ Entry!Real_Decimals(s6'.asset) = q
    BY <1>2, <1>8, <2>5
  <2> HIDE DEF v, p, q
  <2> QED
    BY <2>4, <2>6
<1>10. e.one.who \notin s4 \cup Special
  BY <1>5 DEF Entry!refusedPayee
<1>12. s6' # Entry!NoPlan
  BY <1>2 DEF Entry!NoPlan
<1>13. PlanFits'
  BY <1>2, <1>3, <1>4, <1>5, <1>6, <1>7, <1>9, <1>10 DEF PlanFits, Entry!settings, Entry!Real_Decimals
<1> QED
  BY <1>12, <1>13

LEMMA ExtensionExact ==
  ASSUME EntryInv, Entry!ReviewExtension
  PROVE  Entry!SpanIsExact' /\ s6 # Entry!NoPlan
<1>1. PICK date \in Entry!Dates :
          /\ Entry!parseUtcDate(date) > s6.horizon
          /\ s9' = [to |-> Entry!parseUtcDate(date), span |-> Entry!fmtSpan(s6.horizon, Entry!parseUtcDate(date))]
  BY DEF Entry!ReviewExtension
<1>2. s6 # Entry!NoPlan /\ PlanFits /\ s6' = s6
  BY DEF Entry!ReviewExtension
<1> DEFINE from == s6.horizon  to == Entry!parseUtcDate(date)  a == s6.date  b == Entry!utcDay(to)
           k == b.y - a.y
<1>3. date \in DateOf /\ to \in Int
  <2>1. date \in DateOf
    BY DEF Entry!Dates, DateOf
  <2> QED
    BY <2>1, DaysAreNumbers DEF Entry!parseUtcDate
<1>4. from \in Nat /\ to > from /\ to >= 0
  BY <1>1, <1>2, <1>3 DEF PlanFits
<1>5. b = date /\ b \in DateOf /\ Entry!Real(b) /\ to = Entry!DayOf(b) * 4 /\ to \in Nat
  BY <1>3, <1>4, ParsedIs
<1>6. /\ a \in DateOf /\ Entry!Real(a) /\ from = Entry!DayOf(a) * 4 /\ Entry!utcDay(from) = a
      /\ Entry!DayOf(a) \in Nat
  BY <1>2, DaysAreNumbers DEF PlanFits
<1>7. Entry!DayOf(b) \in Nat /\ Entry!DayOf(b) > Entry!DayOf(a)
  BY <1>4, <1>5, <1>6, DaysAreNumbers
<1>8. k \in Int /\ a.y + k = b.y
  BY <1>5, <1>6 DEF DateOf
<1>9. /\ Entry!DayOf(Later(a, k + 1)) > Entry!DayOf(b) /\ Entry!DayOf(Later(a, k - 1)) <= Entry!DayOf(b)
      /\ Entry!DayOf(Later(a, k)) \in Int /\ Entry!DayOf(Later(a, k - 1)) \in Int
  BY <1>5, <1>6, <1>8, YearsApart
<1>10. k >= 0 /\ (k = 0 => Entry!DayOf(Later(a, k)) = Entry!DayOf(a))
  <2>1. a.y \in Nat /\ a.m \in 1..2 /\ a.d \in 1..2 /\ b.y \in Nat
    BY <1>5, <1>6 DEF DateOf
  <2>3. b.y >= a.y
    BY <1>5, <1>6, <1>7, LaterYear
  <2>4. k = 0 => Entry!DayOf(Later(a, k)) = Entry!DayOf(a)
    BY <2>1 DEF Later, Entry!DayOf, DateOf
  <2> QED
    BY <2>1, <2>3, <2>4
<1> DEFINE years == IF Entry!DayOf(Later(a, k)) * 4 > to THEN k - 1 ELSE k
           days == (to - Entry!DayOf(Later(a, years)) * 4) \div 4
<1> HIDE DEF k
<1>11. /\ s9'.to = to /\ s9'.span.years = years /\ s9'.span.days = days
  <2>1. from % 4 = 0
    BY <1>6
  <2>2. Entry!fmtSpan(from, to) = [years |-> years, days |-> days]
    BY <1>6, <1>9, <2>1 DEF Entry!fmtSpan, Later, k
  <2> QED
    BY <1>1, <2>2
<1>12. /\ years \in Int /\ years >= 0 /\ Entry!DayOf(Later(a, years)) \in Int
       /\ Entry!DayOf(Later(a, years)) <= Entry!DayOf(b)
       /\ Entry!DayOf(Later(a, years + 1)) > Entry!DayOf(b)
  <2>1. CASE Entry!DayOf(Later(a, k)) * 4 > to
    <3>1. years = k - 1 /\ years + 1 = k
      BY <1>8, <2>1 DEF k
    <3>2. k # 0
      BY <1>5, <1>6, <1>7, <1>10, <2>1
    <3> QED
      BY <1>5, <1>7, <1>8, <1>9, <1>10, <2>1, <3>1, <3>2 DEF k
  <2>2. CASE ~(Entry!DayOf(Later(a, k)) * 4 > to)
    BY <1>5, <1>7, <1>8, <1>9, <1>10, <2>2 DEF k
  <2> QED
    BY <2>1, <2>2
<1> HIDE DEF years
<1>13. days \in Int /\ days >= 0 /\ to = Entry!DayOf(Later(a, years)) * 4 + days * 4
  BY <1>5, <1>7, <1>12
<1> HIDE DEF days
<1>14. Entry!DayOf(Later(a, years + 1)) * 4 > to
  <2>1. Entry!DayOf(Later(a, years + 1)) \in Int
    <3>1. a.y \in Int /\ a.m \in Int /\ a.d \in Int
      BY <1>6 DEF DateOf
    <3> QED
      BY <1>6, <1>12, <3>1 DEF Later, Entry!DayOf, DateOf
  <2> QED
    BY <1>5, <1>7, <1>12, <2>1
<1>15. Entry!SpanIsExact'
  BY <1>2, <1>11, <1>12, <1>13, <1>14 DEF Entry!SpanIsExact, Later
<1> QED
  BY <1>2, <1>15

LEMMA EntryGoesOn ==
  ASSUME EntryInv, [Entry!EntryNext]_(Entry!entryVars)
  PROVE  EntryInv'
<1>1. CASE Entry!Review
  <2>1. s6' # Entry!NoPlan /\ PlanFits'
    BY <1>1, ReviewFits
  <2>2. UNCHANGED <<s1, Entry!settings, s7, s8, s9>> /\ s6 = Entry!NoPlan
    BY <1>1 DEF Entry!Review
  <2>3. Entry!EarliestDayPasses'
    BY <2>2 DEF Entry!EarliestDayPasses, Entry!settings
  <2>4. Entry!SpanIsExact'
    BY <2>2 DEF Entry!SpanIsExact
  <2> QED
    BY <2>1, <2>2, <2>3, <2>4 DEF Entry!settings
<1>2. CASE Entry!ReviewRefused
  <2>1. s8' = Entry!utcDayCeil(Entry!Floor) /\ UNCHANGED <<s1, Entry!settings, s6, s7, s9>>
    BY <1>2 DEF Entry!ReviewRefused
  <2>2. /\ Entry!Real(s8') /\ Entry!DayOf(s8') * 4 >= Entry!Floor
        /\ (Entry!DayOf(s8') - 1) * 4 < Entry!Floor
    BY <2>1, FloorIs, CeilIs
  <2>3. Entry!EarliestDayPasses'
    BY <2>1, <2>2, FloorIs DEF Entry!EarliestDayPasses, Entry!settings
  <2>4. (s6 # Entry!NoPlan => PlanFits)' /\ Entry!SpanIsExact'
    BY <2>1 DEF PlanFits, Entry!SpanIsExact, Entry!settings, Entry!Real_Decimals
  <2> QED
    BY <2>1, <2>3, <2>4 DEF Entry!settings
<1>3. CASE Entry!Mined
  <2>1. /\ s7' = IF s6.horizon < s1 + 5 THEN "tooSoon"
                 ELSE IF s6.horizon > s1 + 24 THEN "tooFar" ELSE "accepted"
        /\ UNCHANGED <<s1, Entry!settings, s6, s8, s9>> /\ s6 # Entry!NoPlan /\ PlanFits
    BY <1>3 DEF Entry!Mined
  <2>2. PlanFits'
    BY <2>1 DEF PlanFits, Entry!settings, Entry!Real_Decimals
  <2>3. Entry!EarliestDayPasses' /\ Entry!SpanIsExact'
    BY <2>1 DEF Entry!EarliestDayPasses, Entry!SpanIsExact, Entry!settings
  <2> QED
    BY <2>1, <2>2, <2>3 DEF Entry!settings
<1>4. CASE Entry!ReviewExtension
  <2>1. UNCHANGED <<s1, Entry!settings, s6, s7, s8>>
    BY <1>4 DEF Entry!ReviewExtension
  <2>2. Entry!SpanIsExact' /\ s6 # Entry!NoPlan
    BY <1>4, ExtensionExact
  <2>3. Entry!EarliestDayPasses' /\ PlanFits'
    BY <2>1, <2>2 DEF Entry!EarliestDayPasses, PlanFits, Entry!settings, Entry!Real_Decimals
  <2> QED
    BY <2>1, <2>2, <2>3 DEF Entry!settings
<1>5. CASE Entry!Tick
  <2>1. s1' = s1 + 1 /\ s1 < 4 /\ s8' = Absent /\ UNCHANGED <<Entry!settings, s6, s7, s9>>
    BY <1>5 DEF Entry!Tick
  <2>2. Entry!EarliestDayPasses' /\ Entry!SpanIsExact'
    BY <2>1 DEF Entry!EarliestDayPasses, Entry!SpanIsExact
  <2>3. s6 # Entry!NoPlan => PlanFits'
    BY <2>1 DEF PlanFits, Entry!settings, Entry!Real_Decimals
  <2> QED
    BY <2>1, <2>2, <2>3 DEF Entry!settings
<1>6. CASE UNCHANGED Entry!entryVars
  <2>1. Entry!EarliestDayPasses' /\ Entry!SpanIsExact' /\ (s6 # Entry!NoPlan => PlanFits)'
    BY <1>6 DEF Entry!entryVars, Entry!EarliestDayPasses, Entry!SpanIsExact, PlanFits, Entry!Real_Decimals
  <2> QED
    BY <1>6, <2>1 DEF Entry!entryVars
<1> QED
  BY <1>1, <1>2, <1>3, <1>4, <1>5, <1>6 DEF Entry!EntryNext

LEMMA EntryPromises ==
  ASSUME EntryInv
  PROVE  /\ Entry!EntryTypeOK /\ Entry!ReviewedHorizonWorks /\ Entry!EarliestDayPasses
         /\ Entry!TypedIsSigned
         /\ Entry!HeirCanBePaid /\ Entry!SpanIsExact
BY DEF Entry!EntryTypeOK, Entry!ReviewedHorizonWorks, Entry!TypedIsSigned, Entry!HeirCanBePaid, PlanFits,
   Entry!CheckPayeeRefuses

HIDE EntryFits DEF Entry!EntryAssumption

-----------------------------------------------------------------------------
(* What the page shows is so: what is left of each part, then all of them.  *)

\* A create form's plan is one of the run's.
FormBound == formGeneration <= MaxPlans /\ (formSigns # {} => formGeneration >= 1)

LEMMA FormBoundStep ==
  ASSUME FormInv, FormBound, [Form!Next]_Form!formVars
  PROVE  FormBound'
<1> USE DEF FormBound, formGeneration, formReviews, formSigns
<1>0. MaxPlans \in Nat /\ s1 \in Nat /\ \A r \in s2 : r \in 1..s1
  BY SiteAssumption DEF SiteAssumption, Form!FormAssumption, FormInv, FormTypes
<1>1. CASE Form!Edit \/ Form!ClickReview
  BY <1>0, <1>1 DEF Form!Edit, Form!ClickReview, Form!Cleared
<1>2. ASSUME NEW r \in s2, Form!ReviewShown(r) \/ Form!ReviewStops(r)
      PROVE  FormBound'
  BY <1>0, <1>2 DEF Form!ReviewShown, Form!ReviewStops, Form!current
<1>3. CASE Form!Mined \/ Form!ReceiptRead
  BY <1>0, <1>3 DEF Form!Mined, Form!ReceiptRead
<1>4. ASSUME NEW plan \in Form!Plans, Form!Sign(plan)
      PROVE  FormBound'
  BY <1>0, <1>4 DEF Form!Sign, Form!Disabled
<1>5. CASE Form!AllowanceFails \/ Form!RefusedToSend \/ Form!NothingHappened
  BY <1>0, <1>5
     DEF Form!AllowanceFails, Form!RefusedToSend, Form!NothingHappened, Form!HandlerEnds, Form!Enabled
<1>6. CASE \/ Form!AllowanceEnough \/ Form!ApprovalLost \/ Form!Send \/ Form!ResultUnknown
           \/ Form!ElsewhereLost \/ Form!Reconnect \/ UNCHANGED Form!formVars
  BY <1>0, <1>6
     DEF Form!AllowanceEnough, Form!ApprovalLost, Form!Send, Form!ResultUnknown, Form!HandlerEnds,
     Form!ElsewhereLost, Form!Reconnect, Form!formVars
<1> QED
  BY <1>1, <1>2, <1>3, <1>4, <1>5, <1>6 DEF Form!Next

LEMMA FormTyped ==
  ASSUME FormInv, FormBound
  PROVE  Form!FormTypeOK
<1>1. MaxPlans \in Nat /\ s1 \in Nat /\ s1 <= MaxPlans
  BY SiteAssumption
     DEF SiteAssumption, Form!FormAssumption, FormInv, FormTypes, FormBound, formGeneration
<1>2. \A s \in s3 : s.plan = s1 /\ s1 >= 1
  BY DEF FormInv, NewestShown, FormBound, formGeneration, formSigns
<1>3. \A s \in s3 : s.plan \in Form!Plans
  BY <1>1, <1>2 DEF Form!Plans
<1>4. \A p \in Form!Plans : s9[p] \in 0..MaxPlans
  BY <1>1 DEF FormInv, FormTypes, Form!Plans, fates
<1> QED
  BY <1>1, <1>3, <1>4 DEF Form!FormTypeOK, FormInv, FormTypes, creating, sending

\* The credit is one of the run's, and a button that is shown is of the open panel.
PayBound ==
    /\ s1 \in 0..MaxCredit
    /\ \A s \in paySigns : Payout!Shown(s) => s.kind = payPanel

LEMMA PayBoundStep ==
  ASSUME PayInv, PayCovers, PayBound, [Payout!Next]_(Payout!vars)
  PROVE  PayBound'
<1> USE DEF PayBound, PayTyped, PaySigns, payPanel, payGeneration, payReviews, paySigns,
            Payout!Shown, Payout!Handlers, Payout!money
<1>0. /\ MaxCredit \in Nat /\ s1 \in 0..MaxCredit /\ s5 \in Nat /\ s7 \subseteq PaySigns
      /\ \A s \in s7 : s.generation <= s5
  BY SiteAssumption DEF SiteAssumption, Payout!PayoutAssumption, PayInv
<1>1. ASSUME NEW kind \in {"all", "part"},
             Payout!Click(kind) \/ Payout!Opened(kind) \/ Payout!NotOpened(kind)
      PROVE  PayBound'
  BY <1>0, <1>1 DEF Payout!Click, Payout!Opened, Payout!NotOpened, Payout!NextGeneration
<1>2. CASE Payout!ClosePanel \/ Payout!Edit \/ Payout!StartReview
  BY <1>0, <1>2 DEF Payout!ClosePanel, Payout!Edit, Payout!StartReview, Payout!NextGeneration
<1>3. ASSUME NEW r \in s6, Payout!ReviewShown(r) \/ Payout!ReviewDropped(r)
      PROVE  PayBound'
  BY <1>0, <1>3 DEF Payout!ReviewShown, Payout!ReviewDropped, Payout!Current
<1>4. ASSUME NEW s \in s7, Payout!Sign(s) \/ Payout!Decline(s)
      PROVE  PayBound'
  BY <1>0, <1>4 DEF Payout!Sign, Payout!Decline
<1>5. ASSUME NEW s \in s7, Payout!Mined(s)
      PROVE  PayBound'
  <2>1. s.units > 0 /\ s.units \in Int
    BY <1>0 DEF PayCovers
  <2>2. s1' \in 0..MaxCredit
    BY <1>0, <1>5, <2>1 DEF Payout!Mined, Payout!Pays
  <2> QED
    BY <1>5, <2>2 DEF Payout!Mined
<1>6. CASE Payout!Credited
  BY <1>0, <1>6 DEF Payout!Credited
<1>7. CASE Payout!PaidElsewhere
  BY <1>0, <1>7 DEF Payout!PaidElsewhere
<1>8. CASE UNCHANGED Payout!vars
  BY <1>8 DEF Payout!vars
<1> QED
  BY <1>1, <1>2, <1>3, <1>4, <1>5, <1>6, <1>7, <1>8 DEF Payout!Next

LEMMA PayoutTyped ==
  ASSUME PayInv, PayBound
  PROVE  Payout!PayoutTypeOK
<1>1. \A s \in s7 \ Payout!Handlers : Payout!Shown(s)
  BY DEF PayInv, PayTyped, PaySigns, Payout!Handlers, paySigns
<1> QED
  BY <1>1
     DEF Payout!PayoutTypeOK, PayInv, PayTyped, PayBound, payPanel, payGeneration, payReviews, paySigns

LEMMA KnownHeirsTyped ==
  ASSUME HeirsInv
  PROVE  Heirs!HeirsTypeOK
<1>1. Heirs!Existing \subseteq Heirs!Ids
  BY HeirsFit DEF HeirsInv, HeirsTyped, Heirs!Ids, Heirs!HeirsAssumption
<1> QED
  BY <1>1 DEF HeirsInv, HeirsTyped, KeptIsTrue, Heirs!HeirsTypeOK

SiteParts ==
    {"pageTx", "txLine", "desk", "longDesk", "heirDesk", "checkIns", "heirs", "form", "connection",
     "search", "payout", "words", "promise", "entry"}

\* The inductive invariant of what the page shows, part by part.
ShownInv ==
    /\ part \in SiteParts
    /\ WordsInv /\ ButtonsInv /\ SwitchInv
    /\ part = "desk" => Desk!CardInv
    /\ part = "longDesk" => LongDesk!CardInv
    /\ part = "form" => FormBound
    /\ part = "payout" => PayBound
    /\ part = "txLine" => LinesPlaced
    /\ part = "checkIns" => BatchTold
    /\ part = "connection" => ConnInv
    /\ part = "search" => Reached
    /\ part = "words" => TellInv
    /\ part = "entry" => EntryInv

LEMMA StepOfTheShown ==
  ASSUME [SiteNext]_siteVars
  PROVE  /\ part = "connection" => [Conn!Next]_(Conn!connVars)
         /\ part = "words" => [Words!WordsNext]_(Words!wordVars)
         /\ part = "entry" => [Entry!EntryNext]_(Entry!entryVars)
         /\ part = "promise" => [Promise!SwitchNext]_(Promise!switchVars)
<1>1. CASE SiteNext
  BY <1>1 DEF SiteNext
<1>2. CASE UNCHANGED siteVars
  BY <1>2
     DEF siteVars, Conn!connVars, Words!wordVars, Words!switchVars, Entry!entryVars, Promise!switchVars
<1> QED
  BY <1>1, <1>2

LEMMA ShownStart ==
  ASSUME SiteInit
  PROVE  ShownInv
<1>1. part \in SiteParts /\ WordsInv /\ ButtonsInv
  BY WordsStart, ButtonsStart DEF SiteInit, SiteParts
<1>2. SwitchInv
  BY PromiseFits, Promise!SwitchStarts DEF SiteInit, SwitchInv
<1>3. (part = "desk" => Desk!CardInv) /\ (part = "longDesk" => LongDesk!CardInv)
  BY DesksFit, Desk!CardStarts, LongDesk!CardStarts DEF SiteInit
<1>4. part = "form" => FormBound
  BY SiteAssumption
     DEF SiteAssumption, Form!FormAssumption, SiteInit, Form!Init, FormBound, formGeneration, formSigns
<1>5. part = "payout" => PayBound
  BY DEF SiteInit, Payout!Init, PayBound, paySigns
<1>6. (part = "txLine" => LinesPlaced) /\ (part = "checkIns" => BatchTold)
  BY PlacedStart, ToldStarts DEF SiteInit
<1>7. (part = "connection" => ConnInv) /\ (part = "search" => Reached)
  BY ConnStarts, SearchReaches DEF SiteInit
<1>8. (part = "words" => TellInv) /\ (part = "entry" => EntryInv)
  BY TellStarts, EntryStarts DEF SiteInit
<1> QED
  BY <1>1, <1>2, <1>3, <1>4, <1>5, <1>6, <1>7, <1>8 DEF ShownInv

LEMMA ShownStep ==
  ASSUME ShownInv, [SiteNext]_siteVars
  PROVE  ShownInv'
<1>0. part' = part /\ part \in SiteParts /\ WordsInv /\ ButtonsInv /\ SwitchInv
  BY StepOfItsPart DEF ShownInv
<1>1. WordsInv' /\ ButtonsInv'
  BY <1>0, WordsStep, ButtonsStep
<1>2. SwitchInv'
  BY <1>0, StepOfTheShown, PromiseFits, Promise!SwitchGoesOn DEF SwitchInv
<1>3. part = "desk" => Desk!CardInv'
  BY StepOfItsPart, DesksFit, Desk!CardGoesOn DEF ShownInv
<1>4. part = "longDesk" => LongDesk!CardInv'
  BY StepOfItsPart, DesksFit, LongDesk!CardGoesOn DEF ShownInv
<1>5. part = "form" => FormBound'
  BY StepOfItsPart, FormBoundStep DEF ShownInv, ButtonsInv
<1>6. part = "payout" => PayBound'
  BY StepOfItsPart, PayBoundStep DEF ShownInv, WordsInv
<1>7. part = "txLine" => LinesPlaced'
  BY StepOfTheTold, PlacedGoesOn DEF ShownInv, WordsInv
<1>8. part = "checkIns" => BatchTold'
  BY StepOfTheTold, ToldGoesOn DEF ShownInv, WordsInv
<1>9. part = "connection" => ConnInv'
  <2>1. CASE UNCHANGED Conn!connVars
    BY <2>1, ConnStays DEF ShownInv
  <2>2. CASE part = "connection" /\ Conn!Next
    BY <2>2, ConnGoesOn DEF ShownInv
  <2> QED
    BY <2>1, <2>2, StepOfTheShown
<1>10. part = "search" => Reached'
  BY StepOfTheTold, SearchGoesOn DEF ShownInv
<1>11. part = "words" => TellInv'
  BY StepOfTheShown, TellGoesOn DEF ShownInv
<1>12. part = "entry" => EntryInv'
  BY StepOfTheShown, EntryGoesOn DEF ShownInv
<1> QED
  BY <1>0, <1>1, <1>2, <1>3, <1>4, <1>5, <1>6, <1>7, <1>8, <1>9, <1>10, <1>11, <1>12 DEF ShownInv

LEMMA ShownPromises ==
  ASSUME ShownInv
  PROVE  PageKeepsItsWord
<1>1. part = "desk" => Desk!DeskTypeOK /\ Desk!OffersWhatWorks /\ Desk!StoppersAsTold
  BY DesksFit, Desk!CardPromises DEF ShownInv
<1>2. part = "longDesk" => LongDesk!DeskTypeOK /\ LongDesk!OffersWhatWorks /\ LongDesk!StoppersAsTold
  BY DesksFit, LongDesk!CardPromises DEF ShownInv
<1>3. part = "txLine" => TxLog!LineTypeOK /\ TxLog!HomeIsForTheGone
  BY LinePromises DEF ShownInv, WordsInv
<1>4. part = "checkIns" => CheckIns!CheckInTypeOK /\ CheckIns!ReportIsTheReceipt
  BY BatchPromises DEF ShownInv, WordsInv
<1>5. part = "connection" => Conn!ConnectionTypeOK /\ Conn!ReadyMeansVerified
  BY ConnPromises DEF ShownInv
<1>6. part = "search" => /\ Search!SearchTypeOK /\ Search!NothingMissed /\ Search!OneSourceSuffices
                         /\ Search!SummaryTrue
  BY SearchPromises DEF ShownInv
<1>7. part = "words" => /\ Words!WordsTypeOK /\ Words!AdviceWorks /\ Words!DatesAreFirst
                        /\ Words!RefusedForCause /\ Words!CauseIsNamed /\ Words!HorizonDateHolds
  BY TellPromises DEF ShownInv
<1>8. part = "entry" => /\ Entry!EntryTypeOK /\ Entry!ReviewedHorizonWorks /\ Entry!EarliestDayPasses
                        /\ Entry!TypedIsSigned /\ Entry!HeirCanBePaid /\ Entry!SpanIsExact
  BY EntryPromises DEF ShownInv
<1>9. /\ part = "form" => Form!FormTypeOK
      /\ part = "payout" => Payout!PayoutTypeOK
  BY FormTyped, PayoutTyped DEF ShownInv, ButtonsInv, WordsInv
<1>10. /\ part = "heirs" => Heirs!HeirsTypeOK
       /\ part = "heirDesk" => Heir!HeirTypeOK
       /\ part = "pageTx" => Tx!PageTypeOK
  BY KnownHeirsTyped DEF ShownInv, WordsInv, ButtonsInv, HeirInv, TxInv
<1>11. part = "promise" => Promise!SwitchTypeOK
  BY DEF ShownInv, SwitchInv, Promise!SwitchSound, Promise!SwitchTypeOK, Promise!ClaimFieldsFit
<1>12. part \in SiteParts
  BY DEF ShownInv
<1>13. SiteTypeOK
  <2>1. CASE part = "desk"
    BY <1>1, <2>1 DEF SiteTypeOK
  <2>2. CASE part = "longDesk"
    BY <1>2, <2>2 DEF SiteTypeOK
  <2>3. CASE part = "txLine"
    BY <1>3, <2>3 DEF SiteTypeOK
  <2>4. CASE part = "checkIns"
    BY <1>4, <2>4 DEF SiteTypeOK
  <2>5. CASE part = "connection"
    BY <1>5, <2>5 DEF SiteTypeOK
  <2>6. CASE part = "search"
    BY <1>6, <2>6 DEF SiteTypeOK
  <2>7. CASE part = "words"
    BY <1>7, <2>7 DEF SiteTypeOK
  <2>8. CASE part = "entry"
    BY <1>8, <2>8 DEF SiteTypeOK
  <2>9. CASE part \in {"form", "payout"}
    BY <1>9, <2>9 DEF SiteTypeOK
  <2>10. CASE part \in {"heirs", "heirDesk", "pageTx"}
    BY <1>10, <2>10 DEF SiteTypeOK
  <2>11. CASE part = "promise"
    BY <1>11, <2>11 DEF SiteTypeOK
  <2> QED
    BY <1>12, <2>1, <2>2, <2>3, <2>4, <2>5, <2>6, <2>7, <2>8, <2>9, <2>10, <2>11 DEF SiteParts
<1>14. OffersWhatWorks /\ StoppersAsTold /\ HomeIsForTheGone /\ ReportIsTheReceipt /\ ReadyMeansVerified
  BY <1>1, <1>2, <1>3, <1>4, <1>5
     DEF OffersWhatWorks, StoppersAsTold, HomeIsForTheGone, ReportIsTheReceipt, ReadyMeansVerified
<1>15. NothingMissed /\ OneSourceSuffices /\ SummaryTrue
  BY <1>6 DEF NothingMissed, OneSourceSuffices, SummaryTrue
<1>16. AdviceWorks /\ DatesAreFirst /\ RefusedForCause /\ CauseIsNamed /\ HorizonDateHolds
  BY <1>7 DEF AdviceWorks, DatesAreFirst, RefusedForCause, CauseIsNamed, HorizonDateHolds
<1>17. ReviewedHorizonWorks /\ EarliestDayPasses /\ TypedIsSigned /\ HeirCanBePaid /\ SpanIsExact
  BY <1>8 DEF ReviewedHorizonWorks, EarliestDayPasses, TypedIsSigned, HeirCanBePaid, SpanIsExact
<1> QED
  BY <1>13, <1>14, <1>15, <1>16, <1>17 DEF PageKeepsItsWord

\* What the page shows and offers is so, at every moment and in every part: cards,
\* dates, reasons and remedies are the contract's, reports are the receipts, searches
\* leave nothing out, and what was typed is what is sent (ownerActions, likelyRevert,
\* revertOf, reportCheckIn, searchHeir, connect, parseUtcDate).
THEOREM PageIsTrue == SiteSpec => []PageKeepsItsWord
<1>1. SiteInit => ShownInv
  BY ShownStart
<1>2. ShownInv /\ [SiteNext]_siteVars => ShownInv'
  BY ShownStep
<1>3. ShownInv => PageKeepsItsWord
  BY ShownPromises
<1> QED
  BY <1>1, <1>2, <1>3, PTL DEF SiteSpec
===============================================================================
