---------------------------- MODULE ReminderRules ----------------------------
(***************************************************************************)
(* notify/watcher.js: which mails a watched vault calls for.  A vault is   *)
(* the switch s as it was read at time t, by a run whose chain head was    *)
(* read first, at time head.  A mail is known by its dedupe key, which     *)
(* holds the value it is about.  One time unit stands for a day.           *)
(***************************************************************************)
EXTENDS DeadMansSwitch

CONSTANTS
    ReminderTiers, VetoTiers,   \* days before the deadline, and before the end of a claim's window
    HorizonWarn, RepeatBucket,  \* HORIZON_WARN_DAYS, REPEAT_BUCKET
    HeirOnFile                  \* the address of the heir whose mail address is configured

RemindersAssumption ==
    /\ ReminderTiers \subseteq Nat \ {0} /\ VetoTiers \subseteq Nat \ {0}
    /\ HorizonWarn \in Nat /\ RepeatBucket \in Nat \ {0} /\ HeirOnFile \in Persons

-----------------------------------------------------------------------------
(* Dedupe keys. *)

claimKey(stamp) == <<"claim", stamp>>
unseenKey(stamp) == <<"settled-unseen", stamp>>
terminalKey == <<"terminal">>
heirTerminalKey == <<"heir-terminal">>

\* The most urgent of the tiers, if there is one.
MostUrgent(tiers) == {t \in tiers : \A u \in tiers : t <= u}

\* A claim is announced once, and then as its window runs out.
ClaimAlerts(s, head, sent) ==
    IF claimKey(s.claimedAt) \notin sent
    THEN {claimKey(s.claimedAt)}
    ELSE {<<"claim-tier", s.claimedAt, t>> :
            t \in MostUrgent({u \in VetoTiers : u < s.window /\ FinalizableAt(s) - head <= u})}

HorizonAlerts(s, head) ==
    IF s.horizon - head <= HorizonWarn THEN {<<"horizon", s.horizon>>} ELSE {}

\* Variation: each run sends the next tier that was not sent yet.
Reminders_NextUnsent(s, head, sent) ==
    {<<"reminder", s.deadline, t>> :
        t \in MostUrgent({u \in ReminderTiers : /\ u < s.period /\ s.deadline - head <= u
                                               /\ <<"reminder", s.deadline, u>> \notin sent})}

Reminders(s, head, sent) ==
    {<<"reminder", s.deadline, t>> :
        t \in MostUrgent({u \in ReminderTiers : u < s.period /\ s.deadline - head <= u})}

\* Advance reminders are what a subscription pays for, and nothing else is.
ownerAlerts(s, t, head, funded, sent) ==
    IF s.phase = "claimed"
    THEN ClaimAlerts(s, head, sent)
    ELSE HorizonAlerts(s, head) \cup
         IF IsExpired(s, t) THEN {<<"expired", s.deadline, head \div RepeatBucket>>}
         ELSE IF funded THEN Reminders(s, head, sent) ELSE {}

heirAlerts(s, t, head) ==
    IF s.heir # HeirOnFile
    THEN {<<"heir-mismatch", s.heir>>}
    ELSE (IF CanClaim(s, t) THEN {<<"heir-claimable", s.deadline, head \div RepeatBucket>>} ELSE {})
         \cup (IF CanSettle(s, t) THEN {<<"heir-finalizable", s.claimedAt>>} ELSE {})

\* The keys whose mail goes to the heir's address.
IsHeirs(key) == key[1] \in {"heir-claimable", "heir-finalizable", "heir-terminal"}

-----------------------------------------------------------------------------
(* What the mails tell the owner to do. *)

ownerRemedy(s, passed) ==
    IF passed THEN {"extend", "everything"}
    ELSE IF s.phase = "claimed" THEN {"veto", "heir", "period", "chain", "extend", "part", "everything"}
    ELSE {"checkIn"}

\* What each of them makes of s at time t, when the contract accepts it.
RemedyOf(action, s, t) ==
    CASE action = "veto" /\ CanVeto(s, t) -> {Acted(s, t)}
      [] action = "heir" /\ CanAct(s, t) -> {Acted([s EXCEPT !.heir = p], t) : p \in Persons}
      [] action = "period" /\ CanAct(s, t) -> {Acted([s EXCEPT !.period = p], t) : p \in Periods}
      [] action = "chain" /\ IsLive(s) /\ ~AtHorizon(s, t) -> {Acted(s, t)}
      [] action = "extend" -> {Acted([s EXCEPT !.horizon = h], t) : h \in {h \in Horizons : CanExtend(s, t, h)}}
      [] action = "part" /\ IsLive(s) -> {PartWithdrawn(s, t)}
      [] action = "everything" /\ IsLive(s) -> {[Acted(s, t) EXCEPT !.phase = "closed"]}
      [] action = "checkIn" /\ CanShowLife(s, t) -> {Restarted(s, t)}
      [] OTHER -> {}
=============================================================================
