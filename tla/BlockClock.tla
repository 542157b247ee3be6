----------------------------- MODULE BlockClock -----------------------------
(***************************************************************************)
(* block.timestamp, as every contract of the repository reads it.  A block *)
(* holds many transactions, so any number of actions may happen at one     *)
(* reading of the clock; Tick is the next block.  Timestamps are never     *)
(* zero: the contracts use a zero timestamp to mean "not set".             *)
(***************************************************************************)
EXTENDS Integers

CONSTANT MaxTime   \* bound: the last timestamp a behaviour reaches

ASSUME MaxTimeAssumption == MaxTime \in Nat \ {0}

VARIABLE now

ClockTypeOK == now \in 1..MaxTime

ClockInit == now = 1

Tick ==
    /\ now < MaxTime
    /\ now' = now + 1

Times == 0..MaxTime
=============================================================================
